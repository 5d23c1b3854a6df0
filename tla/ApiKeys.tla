------------------------------ MODULE ApiKeys -------------------------------
(***************************************************************************)
(* The API key of one account: issuing and rotating, revoking, the role    *)
(* changes that bear on it (routers/v1/admin/users.py) and the test        *)
(* current_user puts a key to (services/api_keys.py).                      *)
(*                                                                         *)
(* A key is named by the clock reading of its issue, and the prefix and    *)
(* the hash kept of it are one column.  A reading is exact to the          *)
(* microsecond: no two are equal here, so a stamp that is assigned is      *)
(* always a change and always written.                                     *)
(***************************************************************************)
EXTENDS Integers

CONSTANTS
  Workers,   \* requests the service handles at once
  TTL,       \* lifetime of a key
  Null, Unset,
  MaxTime    \* bound: time at which the clock stops, and keys are issued no more

VARIABLES
  row,       \* the account's row
  now,       \* now_ist()
  req,       \* what each worker is doing
  ended      \* history: keys that were replaced or revoked

vars == <<row, now, req, ended>>

UOW == INSTANCE UnitOfWork

ASSUME ApiKeysAssumption ==
  /\ TTL \in Nat \ {0}
  /\ MaxTime \in Nat
  /\ Null \notin Nat
  /\ Unset \notin Nat \cup {Null, "user", "editor", "admin"}

Roles       == {"user", "editor", "admin"}
STAFF_ROLES == {"editor", "admin"}

Row == [role : Roles, api_key_hash : Nat \cup {Null},
        api_key_created_at : Nat \cup {Null}, api_key_revoked_at : Nat \cup {Null}]

Data == [role : Roles \cup {Unset}, api_key_hash : Nat \cup {Null, Unset},
         api_key_created_at : Nat \cup {Null, Unset},
         api_key_revoked_at : Nat \cup {Null, Unset}]

NoData == [role |-> Unset, api_key_hash |-> Unset,
           api_key_created_at |-> Unset, api_key_revoked_at |-> Unset]

Request == [pc : {"idle", "issue", "revoke", "commit"}, loaded : Data, data : Data]

Answered == [pc |-> "idle", loaded |-> NoData, data |-> NoData]

-----------------------------------------------------------------------------
\* is_expired, of a row that has a date
is_expired(user) ==
  user.api_key_created_at = Null \/ now >= user.api_key_created_at + TTL

is_active(user) ==
  /\ user.api_key_hash # Null
  /\ user.api_key_revoked_at = Null
  /\ user.role \in STAFF_ROLES
  /\ ~ is_expired(user)

\* resolve_api_key: does this key authenticate its owner?
Resolves(key) == row.api_key_hash = key /\ is_active(row)

Init ==
  /\ row \in [role : Roles, api_key_hash : {Null}, api_key_created_at : {Null},
              api_key_revoked_at : {Null}]
  /\ now = 1
  /\ req = [w \in Workers |-> Answered]
  /\ ended = {}

Ready(w) == req[w].pc = "idle"

Load(w, pc, data) ==
  /\ req' = [req EXCEPT ![w] = [pc |-> pc, loaded |-> row, data |-> data]]
  /\ UNCHANGED <<row, now, ended>>

\* POST /admin/users/{id}/api-key, to the look at the role of the row loaded
\* (a plain user is answered 403)
IssueApiKey(w) ==
  /\ Ready(w)
  /\ now < MaxTime   \* bound
  /\ row.role \in STAFF_ROLES
  /\ Load(w, "issue", NoData)

\* DELETE /admin/users/{id}/api-key: 404 without a key
RevokeApiKey(w) ==
  /\ Ready(w)
  /\ now < MaxTime   \* bound
  /\ row.api_key_hash # Null
  /\ Load(w, "revoke", NoData)

\* PATCH /admin/users/{id}/role, by an admin other than the owner
UpdateRole(w) ==
  \E role \in Roles : Ready(w) /\ Load(w, "commit", [NoData EXCEPT !.role = role])

\* Mutants of Issued: the date is not renewed, or a revocation is not lifted.
IssuedUndated(loaded) ==
  [NoData EXCEPT !.api_key_hash = now, !.api_key_revoked_at = Null]
IssuedKeepsRevocation(loaded) ==
  [NoData EXCEPT !.api_key_hash = now, !.api_key_created_at = now]

\* What issue assigns to the row it was given
Issued(loaded) ==
  [NoData EXCEPT !.api_key_hash = now, !.api_key_created_at = now,
                 !.api_key_revoked_at = Null]

\* What revoke assigns
Revoked == [NoData EXCEPT !.api_key_revoked_at = now]

\* A clock reading is taken, and the next will be another.
Assign(w, pc, data) ==
  /\ req[w].pc = pc
  /\ now' = now + 1
  /\ req' = [req EXCEPT ![w].pc = "commit", ![w].data = data]
  /\ UNCHANGED <<row, ended>>

\* api_keys.issue, to its commit: the secret, its hash and the date
AssignKey(w) == Assign(w, "issue", Issued(req[w].loaded))

\* api_keys.revoke, to its commit
AssignRevocation(w) == Assign(w, "revoke", Revoked)

\* UPDATE and COMMIT, and the answer
Commit(w) ==
  LET new == UOW!Flush(row, req[w].loaded, req[w].data)
  IN  /\ req[w].pc = "commit"
      /\ row' = new
      /\ req' = [req EXCEPT ![w] = Answered]
      /\ ended' = IF row.api_key_hash # Null
                       /\ (new.api_key_hash # row.api_key_hash
                             \/ new.api_key_revoked_at # Null)
                    THEN ended \cup {row.api_key_hash}
                    ELSE ended
      /\ UNCHANGED now

Tick ==
  /\ now < MaxTime   \* bound
  /\ now' = now + 1
  /\ UNCHANGED <<row, req, ended>>

Step(w) ==
  \/ IssueApiKey(w)
  \/ RevokeApiKey(w)
  \/ UpdateRole(w)
  \/ AssignKey(w)
  \/ AssignRevocation(w)
  \/ Commit(w)

Next == (\E w \in Workers : Step(w)) \/ Tick

Spec == Init /\ [][Next]_vars

-----------------------------------------------------------------------------
(* Properties *)

\* The keys that were issued are in the past, and a key has its date.
TypeOK ==
  /\ row \in Row
  /\ now \in Nat \ {0}
  /\ req \in [Workers -> Request]
  /\ ended \subseteq 1 .. now - 1
  /\ row.api_key_hash # Null => /\ row.api_key_hash \in 1 .. now - 1
                                /\ row.api_key_created_at # Null

\* A key that was replaced or revoked never authenticates anyone again, however
\* rotations, revocations and role changes overlap ("the previous key stops
\* working immediately", api_keys.issue; revoke).
EndedKeyStaysDead == \A key \in ended : ~ Resolves(key)

\* The date stored is that of the key stored, whatever was issued or rotated at
\* once: a key works for TTL from its own issue, no less and no more ("younger
\* than API_KEY_TTL_DAYS", api_keys.py).
KeyHasItsDate == row.api_key_hash # Null => row.api_key_created_at = row.api_key_hash

\* The request that commits a new key in this step
IssuedBy(w) ==
  /\ req[w].pc = "commit" /\ row'.api_key_hash # row.api_key_hash
  /\ req[w].data.api_key_hash = row'.api_key_hash

\* An issue lifts a revocation: the new key is dead on arrival only if the old
\* one was revoked after the issue had loaded the row (api_keys.issue).
BornRevokedByOverlap ==
  [][\A w \in Workers : IssuedBy(w) /\ row'.api_key_revoked_at # Null =>
       req[w].loaded.api_key_revoked_at = Null]_vars
=============================================================================
