------------------------------ MODULE Accounts ------------------------------
(***************************************************************************)
(* Accounts and roles: signing in with Google (services/users.py) and the  *)
(* admins' role changes (routers/v1/admin/users.py), as run by several     *)
(* requests at once.  Steps are statements, as in Articles: the Python     *)
(* between two statements belongs to the step before it, and a flush with  *)
(* its COMMIT is one step.                                                 *)
(*                                                                         *)
(* Profile columns that never decide anything (name, picture_url,          *)
(* auth_provider, last_login_at) are left out.  No route deletes a user.   *)
(***************************************************************************)
EXTENDS Integers, FiniteSets

CONSTANTS
  Workers,      \* requests the service handles at once
  Emails,
  Subjects,     \* what Google calls a person: the sub of a credential
  Credentials,  \* the verified profiles oauth.verify_credential can return
  InitialUsers, \* the table the service is deployed on
  FirstId,      \* the id its sequence gives out next
  Null, Unset,
  MaxId         \* bound: ids handed out

VARIABLES
  users,        \* the "User" table: a row for each id in use
  nextId,       \* its id sequence
  req           \* what each worker is doing

vars == <<users, nextId, req>>

UOW == INSTANCE UnitOfWork

Roles == {"user", "editor", "admin"}

Row == [email : Emails, google_id : Subjects \cup {Null}, role : Roles]

Data == [email : Emails \cup {Unset}, google_id : Subjects \cup {Null, Unset},
         role : Roles \cup {Unset}]

NoData == [email |-> Unset, google_id |-> Unset, role |-> Unset]

ASSUME AccountsAssumption ==
  /\ MaxId \in Nat
  /\ Credentials \subseteq [sub : Subjects, email : Emails]
  /\ FirstId \in Nat \ {0}
  /\ DOMAIN InitialUsers \subseteq 1 .. FirstId - 1
  /\ InitialUsers \in [DOMAIN InitialUsers -> Row]
  /\ \A i, j \in DOMAIN InitialUsers :
       i # j => /\ InitialUsers[i].email # InitialUsers[j].email
                /\ InitialUsers[i].google_id = Null
                     \/ InitialUsers[i].google_id # InitialUsers[j].google_id
  /\ \E i \in DOMAIN InitialUsers : InitialUsers[i].role = "admin"
  /\ Unset \notin Emails \cup Subjects \cup Roles \cup {Null}
  /\ Null \notin Emails \cup Subjects \cup Roles

Codes == {200, 403, 404, 409, 500}
Idle  == "idle"
PCs   == {Idle, "insert", "load_target", "update", "refresh"}

\* actor: the admin a role change was authorised for; the rest as in Articles.
Request == [pc : PCs, code : Codes, id : Nat, actor : Nat, loaded : Data, data : Data]

Answered(code) == [pc |-> Idle, code |-> code, id |-> 0, actor |-> 0,
                   loaded |-> NoData, data |-> NoData]

Known == DOMAIN users

\* Mutant of IndexRefuses
NoIndex(row, id) == FALSE

\* The unique indexes on email and google_id, met by the row with this id
IndexRefuses(row, id) ==
  \E i \in Known \ {id} : \/ users[i].email = row.email
                          \/ row.google_id # Null /\ users[i].google_id = row.google_id

-----------------------------------------------------------------------------
Init ==
  /\ users = InitialUsers
  /\ nextId = FirstId
  /\ req = [w \in Workers |-> Answered(200)]

Ready(w) == req[w].pc = Idle

Answer(w, code) == req' = [req EXCEPT ![w] = Answered(code)]

IdsLeft == nextId + Cardinality({v \in Workers : req[v].pc = "insert"}) <= MaxId

\* get_by_email
ByEmail(cred) == {i \in Known : users[i].email = cred.email}

NewUser(cred) == [email |-> cred.email, google_id |-> cred.sub, role |-> "user"]

\* POST /auth/google, up to the flush: the account is looked up by the verified
\* email and linked, or a new one is made, at role user.
SignIn(w) ==
  /\ Ready(w)
  /\ \E cred \in Credentials :
       \/ /\ ByEmail(cred) = {}
          /\ IdsLeft   \* bound
          /\ req' = [req EXCEPT ![w] = [Answered(200) EXCEPT !.pc = "insert",
                                                            !.data = NewUser(cred)]]
       \/ \E i \in ByEmail(cred) :
            req' = [req EXCEPT ![w] =
              [Answered(200) EXCEPT
                 !.pc = "update", !.id = i, !.loaded = users[i],
                 !.data = [NoData EXCEPT !.google_id = cred.sub]]]
  /\ UNCHANGED <<users, nextId>>

\* INSERT and COMMIT of a new account; a refused one uses up an id as well.
Insert(w) ==
  /\ req[w].pc = "insert"
  /\ nextId' = nextId + 1
  /\ IF IndexRefuses(req[w].data, nextId)
       THEN Answer(w, 500) /\ UNCHANGED users
       ELSE /\ users' = [i \in Known \cup {nextId} |->
                           IF i = nextId THEN req[w].data ELSE users[i]]
            /\ req' = [req EXCEPT ![w] = [Answered(200) EXCEPT !.pc = "refresh",
                                                              !.id = nextId]]

\* require_role(ADMIN), on the caller's row as authentication read it
IsAdmin(id) == users[id].role = "admin"

\* Mutant of MayChange: an admin's own role is not excepted.
AnyTarget(actor, target) == TRUE

\* update_role: not your own
MayChange(actor, target) == actor # target

\* PATCH /admin/users/{id}/role, up to the look at the target: the caller's row
\* is read to authenticate, and its role there decides.
UpdateRole(w) ==
  /\ Ready(w)
  /\ \E actor \in Known, target \in 1 .. MaxId, role \in Roles :
       IF ~ IsAdmin(actor) THEN Answer(w, 403)
       ELSE IF ~ MayChange(actor, target) THEN Answer(w, 409)
       ELSE req' = [req EXCEPT ![w] =
                      [Answered(200) EXCEPT !.pc = "load_target",
                                            !.actor = actor, !.id = target,
                                            !.data = [NoData EXCEPT !.role = role]]]
  /\ UNCHANGED <<users, nextId>>

LoadTarget(w) ==
  /\ req[w].pc = "load_target"
  /\ IF req[w].id \in Known
       THEN req' = [req EXCEPT ![w] = [@ EXCEPT !.pc = "update",
                                                !.loaded = users[req[w].id]]]
       ELSE Answer(w, 404)
  /\ UNCHANGED <<users, nextId>>

\* UPDATE and COMMIT of a sign-in or a role change
CommitUpdate(w) ==
  LET r   == req[w]
      row == UOW!Flush(users[r.id], r.loaded, r.data)
  IN  /\ r.pc = "update"
      /\ IF "google_id" \in UOW!Dirty(r.loaded, r.data) /\ IndexRefuses(row, r.id)
           THEN Answer(w, 500) /\ UNCHANGED users
           ELSE /\ users' = [users EXCEPT ![r.id] = row]
                /\ req' = [req EXCEPT ![w].pc = "refresh"]
      /\ UNCHANGED nextId

\* session.refresh: users are never deleted, so the row is there.
Refresh(w) ==
  /\ req[w].pc = "refresh"
  /\ Answer(w, req[w].code)
  /\ UNCHANGED <<users, nextId>>

Step(w) ==
  \/ SignIn(w)
  \/ Insert(w)
  \/ UpdateRole(w)
  \/ LoadTarget(w)
  \/ CommitUpdate(w)
  \/ Refresh(w)

Next == \E w \in Workers : Step(w)

Spec == Init /\ [][Next]_vars

-----------------------------------------------------------------------------
(* Properties *)

TypeOK ==
  /\ nextId \in Nat \ {0}
  /\ Known \subseteq 1 .. nextId - 1
  /\ users \in [Known -> Row]
  /\ req \in [Workers -> Request]
  /\ \A w \in Workers : /\ req[w].pc = "insert" => req[w].data \in Row
                        /\ req[w].pc = "update" => req[w].id \in Known

\* One account per email and per Google identity, whichever sign-ins race to
\* make it (users.upsert_oauth_user looks before it inserts).
IdentityUnique ==
  \A i, j \in Known : i # j =>
    /\ users[i].email # users[j].email
    /\ users[i].google_id = Null \/ users[i].google_id # users[j].google_id

\* A role is written by no one but an admin's request about someone else: a
\* sign-in that loaded the row before a promotion does not undo it, and a new
\* account is a plain user ("never touch role here").
RoleOnlyByAdmin ==
  [][\A i \in Known' :
       IF i \in Known
         THEN users'[i].role # users[i].role =>
                \E w \in Workers :
                  /\ req[w].pc = "update" /\ req[w].id = i
                  /\ req[w].actor \in Known \ {i}
                  /\ users'[i].role = req[w].data.role
         ELSE users'[i].role = "user"]_vars

\* The console is never left without an administrator: self-changes are
\* refused, "so the last admin cannot lock themselves out" (update_role).
AdminExists == \E i \in Known : users[i].role = "admin"

\* What refusing self-changes does ensure, however requests overlap: the last
\* administrator goes only by the hand of someone who was an admin when the
\* request was authorised and has been demoted since.
LastAdminByOverlap ==
  [][AdminExists /\ ~ AdminExists' =>
       \E w \in Workers :
         /\ req[w].pc = "update" /\ req[w].data.role # Unset
         /\ req[w].actor \in Known /\ ~ IsAdmin(req[w].actor)]_vars
=============================================================================
