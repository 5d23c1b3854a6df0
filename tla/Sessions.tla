------------------------------ MODULE Sessions ------------------------------
(***************************************************************************)
(* The session tokens of one account: minting (services/tokens.py, the     *)
(* sign-in route), resolving (dependencies.current_user) and signing out   *)
(* everywhere (services/users.invalidate_sessions).  Accounts share no     *)
(* state here, so one is enough.                                           *)
(*                                                                         *)
(* A token is its claims: nothing about it is stored.  The clock counts    *)
(* ticks of a fraction of a second, for the claims are whole seconds and   *)
(* the revocation stamp is not.                                            *)
(***************************************************************************)
EXTENDS Integers, FiniteSets

CONSTANTS
  Workers,          \* requests the service handles at once
  TicksPerSecond,
  USER_SESSION_TTL_SECONDS,
  STAFF_SESSION_TTL_SECONDS,
  Null,
  MaxTokens,        \* bound: tokens minted
  MaxTime           \* bound: last clock reading, by which every token expires

VARIABLES
  role,                    \* of the account's row
  session_invalidated_at,  \* of the account's row
  tokens,                  \* every token minted
  now,                     \* the clock, in ticks
  req,                     \* what each worker is doing
  signOut                  \* history: latest start and end of an answered sign-out

vars == <<role, session_invalidated_at, tokens, now, req, signOut>>

ASSUME SessionsAssumption ==
  /\ TicksPerSecond \in Nat \ {0}
  /\ USER_SESSION_TTL_SECONDS \in Nat \ {0}
  /\ STAFF_SESSION_TTL_SECONDS \in Nat \ {0}
  /\ MaxTokens \in Nat
  /\ MaxTime \in Nat
  /\ Null \notin Nat

Roles       == {"user", "editor", "admin"}
STAFF_ROLES == {"editor", "admin"}
Times       == Nat \ {0}   \* 0 is before the service was started

\* iat and exp in seconds, minted in ticks: the moment, which no claim keeps
Token == [iat : Nat, exp : Nat, minted : Times]

\* role: as the sign-in read it.  began, stamp: of a sign-out.
Request == [pc : {"idle", "mint", "stamp", "commit"}, role : Roles,
            began : Nat, stamp : Nat]

Answered == [pc |-> "idle", role |-> "user", began |-> 0, stamp |-> 0]

-----------------------------------------------------------------------------
(* services/tokens.py *)

ttl_for_role(r) ==
  IF r \in STAFF_ROLES THEN STAFF_SESSION_TTL_SECONDS ELSE USER_SESSION_TTL_SECONDS

\* The claims hold whole seconds, rounded down.
Claims(r) ==
  LET iat == now \div TicksPerSecond
  IN  [iat |-> iat, exp |-> iat + ttl_for_role(r), minted |-> now]

\* Mutant of Unexpired: the signature is verified and exp is not.
NoExpiry(token) == TRUE

\* What jwt.decode requires of exp
Unexpired(token) == token.exp * TicksPerSecond > now

\* Mutant of is_revoked: a token of the very instant of the sign-out passes.
is_revoked_strict(token) ==
  session_invalidated_at # Null /\ token.iat * TicksPerSecond < session_invalidated_at

is_revoked(token) ==
  session_invalidated_at # Null /\ token.iat * TicksPerSecond <= session_invalidated_at

\* current_user, given one of the account's tokens
Accepted(token) == Unexpired(token) /\ ~ is_revoked(token)

\* Mutant of utc_now: the other clock of utils/dates.py, hours ahead of UTC
now_ist == now + 2 * TicksPerSecond

utc_now == now

-----------------------------------------------------------------------------
Init ==
  /\ role \in Roles
  /\ session_invalidated_at = Null
  /\ tokens = {}
  /\ now = 1
  /\ req = [w \in Workers |-> Answered]
  /\ signOut = [began |-> 0, done |-> 0]

\* POST /auth/google, to the session.refresh of upsert_oauth_user, which reads
\* the role.  What it wrote before that is in Accounts.
SignIn(w) ==
  /\ req[w].pc = "idle"
  /\ req' = [req EXCEPT ![w] = [Answered EXCEPT !.pc = "mint", !.role = role]]
  /\ UNCHANGED <<role, session_invalidated_at, tokens, now, signOut>>

\* Mutant of Mint: signing in lifts the sign-out.
MintAndLift(w) ==
  /\ req[w].pc = "mint"
  /\ tokens' = tokens \cup {Claims(req[w].role)}
  /\ session_invalidated_at' = Null
  /\ req' = [req EXCEPT ![w] = Answered]
  /\ UNCHANGED <<role, now, signOut>>

\* mint_session_token, and the answer
Mint(w) ==
  /\ req[w].pc = "mint"
  /\ Cardinality(tokens) < MaxTokens                             \* bound
  /\ Claims(req[w].role).exp * TicksPerSecond <= MaxTime         \* bound
  /\ tokens' = tokens \cup {Claims(req[w].role)}
  /\ req' = [req EXCEPT ![w] = Answered]
  /\ UNCHANGED <<role, session_invalidated_at, now, signOut>>

\* POST /auth/logout: authentication reads the row and takes the token, or an
\* API key of the account.  Any other caller is answered 401.
Logout(w) ==
  /\ req[w].pc = "idle"
  /\ (\E token \in tokens : Accepted(token)) \/ role \in STAFF_ROLES
  /\ req' = [req EXCEPT ![w] = [Answered EXCEPT !.pc = "stamp", !.began = now]]
  /\ UNCHANGED <<role, session_invalidated_at, tokens, now, signOut>>

\* invalidate_sessions, to its commit
Stamp(w) ==
  /\ req[w].pc = "stamp"
  /\ req' = [req EXCEPT ![w].pc = "commit", ![w].stamp = utc_now]
  /\ UNCHANGED <<role, session_invalidated_at, tokens, now, signOut>>

Later(a, b) == IF a < b THEN b ELSE a

\* UPDATE and COMMIT of the sign-out, and the answer: the stamp is written
\* whatever the row holds by then.
CommitLogout(w) ==
  /\ req[w].pc = "commit"
  /\ session_invalidated_at' = req[w].stamp
  /\ signOut' = [began |-> Later(signOut.began, req[w].began), done |-> now]
  /\ req' = [req EXCEPT ![w] = Answered]
  /\ UNCHANGED <<role, tokens, now>>

\* An admin's role change commits (Accounts).
ChangeRole ==
  /\ role' \in Roles
  /\ UNCHANGED <<session_invalidated_at, tokens, now, req, signOut>>

Tick ==
  /\ now < MaxTime   \* bound
  /\ now' = now + 1
  /\ UNCHANGED <<role, session_invalidated_at, tokens, req, signOut>>

Step(w) ==
  \/ SignIn(w)
  \/ Mint(w)
  \/ Logout(w)
  \/ Stamp(w)
  \/ CommitLogout(w)

Next == (\E w \in Workers : Step(w)) \/ ChangeRole \/ Tick

\* Time passes.  No request is assumed to make progress.
Spec == Init /\ [][Next]_vars /\ WF_vars(Tick)

-----------------------------------------------------------------------------
(* Properties *)

\* Nothing is stamped, minted or recorded ahead of the clock.
TypeOK ==
  /\ now \in Times
  /\ role \in Roles
  /\ session_invalidated_at \in 0 .. now \cup {Null}
  /\ tokens \subseteq Token
  /\ \A t \in tokens : /\ t.minted <= now
                       /\ t.iat * TicksPerSecond <= t.minted
                       /\ t.minted < (t.iat + 1) * TicksPerSecond
  /\ req \in [Workers -> Request]
  /\ \A w \in Workers : req[w].began <= now /\ req[w].stamp <= now
  /\ signOut \in [began : 0 .. now, done : 0 .. now]

\* A sign-out that was answered ends every session there was when it began, for
\* good: "which signs the user out of every device at once" (tokens.py).
SignedOutEverywhere ==
  \A t \in tokens : t.minted <= signOut.began => ~ Accepted(t)

\* When a sign-out is answered, no session there was when it began is accepted,
\* whatever other sign-outs are under way: the whole seconds of the claims are
\* rounded the right way, and the comparison takes in the boundary (is_revoked).
SignOutWorks ==
  [][\A w \in Workers :
       req[w].pc = "commit" /\ req'[w].pc = "idle" =>
         \A t \in tokens : t.minted <= req[w].began => ~ Accepted(t)']_vars

\* A session that was signed out comes back only through a sign-out that was
\* already under way when the session was opened (users.invalidate_sessions).
RevivedOnlyByOverlap ==
  [][\A t \in tokens :
       is_revoked(t) /\ ~ is_revoked(t)' =>
         \E w \in Workers : req[w].pc = "commit" /\ req[w].began < t.minted]_vars

\* A session opened a full second after the last sign-out works until it
\* expires: sign-outs never reach into the future.
NewSessionWorks ==
  \A t \in tokens :
    Unexpired(t) /\ t.minted >= signOut.done + TicksPerSecond => Accepted(t)

\* Every session ends, signed out or not, and stays ended.
SessionsEnd == <>[](\A t \in tokens : ~ Accepted(t))
=============================================================================
