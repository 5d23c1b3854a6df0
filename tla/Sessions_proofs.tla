--------------------------- MODULE Sessions_proofs ---------------------------
(***************************************************************************)
(* Theorems about Sessions, for any number of requests and tokens, any     *)
(* lifetimes and any resolution of the clock.                              *)
(***************************************************************************)
EXTENDS Sessions, TLAPS

-----------------------------------------------------------------------------
(* Types and the order of the clock readings *)

\* Whole seconds, rounded down
LEMMA Rounding ==
  ASSUME NEW n \in Nat, NEW s \in Nat \ {0}
  PROVE  /\ n \div s \in Nat
         /\ (n \div s) * s <= n
         /\ n < (n \div s + 1) * s
  OBVIOUS

LEMMA ClaimsType ==
  ASSUME NEW r \in Roles, now \in Times
  PROVE  /\ Claims(r) \in Token
         /\ Claims(r).minted = now
         /\ Claims(r).iat * TicksPerSecond <= now
         /\ now < (Claims(r).iat + 1) * TicksPerSecond
<1> DEFINE iat == now \div TicksPerSecond
<1>1. /\ iat \in Nat
      /\ iat * TicksPerSecond <= now
      /\ now < (iat + 1) * TicksPerSecond
  BY SessionsAssumption, Rounding DEF SessionsAssumption, Times
<1>2. ttl_for_role(r) \in Nat
  BY SessionsAssumption DEF SessionsAssumption, ttl_for_role
<1>3. Claims(r) = [iat |-> iat, exp |-> iat + ttl_for_role(r), minted |-> now]
  BY DEF Claims
<1> HIDE DEF iat
<1> QED
  BY <1>1, <1>2, <1>3 DEF Token

LEMMA TypeInit == Init => TypeOK
  BY DEF Init, TypeOK, Times, Answered, Request, Roles

\* What the steps of a request need of TypeOK, without the products in it
LEMMA RequestFacts ==
  ASSUME TypeOK
  PROVE  /\ now \in Nat \ {0} /\ role \in Roles
         /\ req \in [Workers -> Request]
         /\ \A w \in Workers : req[w].began <= now /\ req[w].stamp <= now
  BY DEF TypeOK, Times

\* A step of one request that mints nothing and writes nothing
LEMMA TypeByRequest ==
  ASSUME TypeOK, NEW w \in Workers, NEW r \in Request, r.began <= now, r.stamp <= now,
         req' = [req EXCEPT ![w] = r],
         UNCHANGED <<role, session_invalidated_at, tokens, now, signOut>>
  PROVE  TypeOK'
  BY DEF TypeOK

LEMMA AnsweredType == Answered \in Request /\ Answered.began = 0 /\ Answered.stamp = 0
  BY DEF Answered, Request, Roles

LEMMA TypeStep ==
  ASSUME TypeOK, [Next]_vars
  PROVE  TypeOK'
<1> USE DEF Times
<1>1. ASSUME NEW w \in Workers, SignIn(w)
      PROVE  TypeOK'
  <2> DEFINE r == [Answered EXCEPT !.pc = "mint", !.role = role]
  <2>1. r \in Request
    BY RequestFacts DEF Answered, Request
  <2>2. r.began <= now /\ r.stamp <= now
    BY RequestFacts DEF Answered, Request
  <2> QED
    BY <1>1, <2>1, <2>2, TypeByRequest DEF SignIn
<1>2. ASSUME NEW w \in Workers, Mint(w)
      PROVE  TypeOK'
  <2>1. req[w].role \in Roles
    BY DEF TypeOK, Request
  <2> DEFINE t == Claims(req[w].role)
  <2>2. /\ t \in Token /\ t.minted <= now
        /\ t.iat * TicksPerSecond <= t.minted
        /\ t.minted < (t.iat + 1) * TicksPerSecond
    BY <2>1, ClaimsType DEF TypeOK
  <2>3. tokens' = tokens \cup {t} /\ req' = [req EXCEPT ![w] = Answered]
        /\ UNCHANGED <<role, session_invalidated_at, now, signOut>>
    BY <1>2 DEF Mint
  <2> HIDE DEF t
  <2>4. req' \in [Workers -> Request]
        /\ \A v \in Workers : req'[v].began <= now /\ req'[v].stamp <= now
    BY <2>3, AnsweredType DEF TypeOK
  <2> QED
    BY <2>2, <2>3, <2>4 DEF TypeOK
<1>3. ASSUME NEW w \in Workers, Logout(w)
      PROVE  TypeOK'
  <2> DEFINE r == [Answered EXCEPT !.pc = "stamp", !.began = now]
  <2>1. r \in Request
    BY RequestFacts DEF Answered, Request, Roles
  <2>2. r.began <= now /\ r.stamp <= now
    BY RequestFacts DEF Answered, Request, Roles
  <2> QED
    BY <1>3, <2>1, <2>2, TypeByRequest DEF Logout
<1>4. ASSUME NEW w \in Workers, Stamp(w)
      PROVE  TypeOK'
  <2> DEFINE r == [req[w] EXCEPT !.pc = "commit", !.stamp = utc_now]
  <2>1. r \in Request
    BY RequestFacts DEF Request, utc_now
  <2>2. r.began <= now /\ r.stamp <= now
    BY RequestFacts DEF Request, utc_now
  <2>3. req' = [req EXCEPT ![w] = r]
    BY <1>4 DEF Stamp, TypeOK
  <2> HIDE DEF r
  <2> QED
    BY <1>4, <2>1, <2>2, <2>3, TypeByRequest DEF Stamp
<1>5. ASSUME NEW w \in Workers, CommitLogout(w)
      PROVE  TypeOK'
  <2>1. req[w].stamp \in 0 .. now /\ req[w].began \in 0 .. now
    BY DEF TypeOK, Request
  <2>2. Later(signOut.began, req[w].began) \in 0 .. now
    BY <2>1 DEF TypeOK, Later
  <2>3. req' \in [Workers -> Request]
        /\ \A v \in Workers : req'[v].began <= now /\ req'[v].stamp <= now
    BY <1>5, AnsweredType DEF CommitLogout, TypeOK
  <2> QED
    BY <1>5, <2>1, <2>2, <2>3 DEF CommitLogout, TypeOK
<1>6. CASE ChangeRole
  BY <1>6 DEF ChangeRole, TypeOK
<1>7. CASE Tick
  <2>1. now' = now + 1 /\ UNCHANGED <<role, session_invalidated_at, tokens, req, signOut>>
    BY <1>7 DEF Tick
  <2>2. \A n \in 0 .. now : n \in 0 .. now'
    BY <2>1 DEF TypeOK
  <2>3. \A v \in Workers : req'[v].began <= now' /\ req'[v].stamp <= now'
    BY <2>1 DEF TypeOK, Request
  <2>4. \A t \in tokens : t.minted <= now'
    BY <2>1 DEF TypeOK, Token
  <2> QED
    BY <2>1, <2>2, <2>3, <2>4 DEF TypeOK
<1>8. CASE UNCHANGED vars
  BY <1>8 DEF vars, TypeOK
<1> QED
  BY <1>1, <1>2, <1>3, <1>4, <1>5, <1>6, <1>7, <1>8 DEF Next, Step

\* Claims are whole seconds at or before the moment of minting, and no stamp is
\* ahead of the clock (services/tokens.py:44-51, services/users.py:69).
THEOREM TypeCorrect == Spec => []TypeOK
  BY TypeInit, TypeStep, PTL DEF Spec

-----------------------------------------------------------------------------
(* What a sign-out revokes *)

\* A stamp is taken after its sign-out began, and is not later than the last
\* sign-out to be answered.
StampsInOrder ==
  /\ \A w \in Workers : req[w].pc = "commit" => req[w].began <= req[w].stamp
  /\ session_invalidated_at = Null \/ session_invalidated_at <= signOut.done

LEMMA StampsInOrderStep ==
  ASSUME TypeOK, StampsInOrder, [Next]_vars
  PROVE  StampsInOrder'
<1> USE RequestFacts
<1>1. ASSUME NEW w \in Workers, SignIn(w) \/ Mint(w) \/ Logout(w)
      PROVE  StampsInOrder'
  <2> DEFINE signingIn == [Answered EXCEPT !.pc = "mint", !.role = role]
             leaving == [Answered EXCEPT !.pc = "stamp", !.began = now]
  <2>0. signingIn.pc = "mint" /\ leaving.pc = "stamp" /\ Answered.pc = "idle"
    BY DEF Answered
  <2>1. PICK r \in {signingIn, leaving, Answered} : req' = [req EXCEPT ![w] = r]
    BY <1>1 DEF SignIn, Mint, Logout
  <2> HIDE DEF signingIn, leaving
  <2>2. UNCHANGED <<session_invalidated_at, signOut>>
    BY <1>1 DEF SignIn, Mint, Logout
  <2> QED
    BY <2>0, <2>1, <2>2 DEF StampsInOrder
<1>2. ASSUME NEW w \in Workers, Stamp(w)
      PROVE  StampsInOrder'
  <2> DEFINE r == [req[w] EXCEPT !.pc = "commit", !.stamp = now]
  <2>1. req' = [req EXCEPT ![w] = r] /\ UNCHANGED <<session_invalidated_at, signOut>>
    BY <1>2 DEF Stamp, utc_now
  <2>2. r.began <= r.stamp
    BY DEF Request
  <2> HIDE DEF r
  <2> QED
    BY <2>1, <2>2 DEF StampsInOrder
<1>3. ASSUME NEW w \in Workers, CommitLogout(w)
      PROVE  StampsInOrder'
  <2>1. /\ session_invalidated_at' = req[w].stamp /\ signOut'.done = now
        /\ req' = [req EXCEPT ![w] = Answered]
    BY <1>3 DEF CommitLogout
  <2>2. Answered.pc # "commit"
    BY DEF Answered
  <2> QED
    BY <2>1, <2>2 DEF StampsInOrder
<1>4. CASE ChangeRole \/ Tick \/ UNCHANGED vars
  BY <1>4 DEF ChangeRole, Tick, vars, StampsInOrder
<1> QED
  BY <1>1, <1>2, <1>3, <1>4 DEF Next, Step

LEMMA StampsInOrderInit == Init => StampsInOrder
  BY DEF Init, StampsInOrder, Answered

\* A session opened a second after the last sign-out works until it expires,
\* however many sign-outs overlap (is_revoked and its rounding of iat).
THEOREM NewSessionsWork == Spec => []NewSessionWorks
<1>1. TypeOK /\ StampsInOrder => NewSessionWorks
  <2> SUFFICES ASSUME TypeOK, StampsInOrder, NEW t \in tokens, Unexpired(t),
                      t.minted >= signOut.done + TicksPerSecond
               PROVE  Accepted(t)
    BY DEF NewSessionWorks
  <2> DEFINE start == t.iat * TicksPerSecond
  <2>1. SUFFICES ASSUME session_invalidated_at # Null, start <= session_invalidated_at
                 PROVE  FALSE
    BY DEF Accepted, is_revoked
  <2>2. t.iat \in Nat /\ t.minted \in Nat /\ TicksPerSecond \in Nat
    BY SessionsAssumption DEF SessionsAssumption, TypeOK, Token, Times
  <2>3. start \in Nat /\ t.minted < start + TicksPerSecond
    <3>1. t.minted < (t.iat + 1) * TicksPerSecond
      BY DEF TypeOK
    <3> QED
      BY <2>2, <3>1
  <2>4. /\ session_invalidated_at \in Nat /\ signOut.done \in Nat
        /\ session_invalidated_at <= signOut.done
    BY <2>1 DEF StampsInOrder, TypeOK
  <2> HIDE DEF start
  <2> QED
    BY <2>1, <2>2, <2>3, <2>4
<1> QED
  BY <1>1, StampsInOrderInit, StampsInOrderStep, TypeCorrect, PTL DEF Spec

LEMMA RevivalNeedsOverlap ==
  ASSUME TypeOK, StampsInOrder, [Next]_vars, NEW t \in tokens,
         is_revoked(t), ~ is_revoked(t)'
  PROVE  \E w \in Workers : req[w].pc = "commit" /\ req[w].began < t.minted
<1>1. session_invalidated_at' # session_invalidated_at
  BY DEF is_revoked
<1>2. PICK w \in Workers : CommitLogout(w)
  BY <1>1 DEF Next, Step, SignIn, Mint, Logout, Stamp, ChangeRole, Tick, vars
<1> DEFINE start == t.iat * TicksPerSecond
<1>3. start \in Nat /\ t.minted \in Nat /\ start <= t.minted
  BY SessionsAssumption DEF SessionsAssumption, TypeOK, Token, Times
<1>4. /\ req[w].pc = "commit" /\ session_invalidated_at' = req[w].stamp
      /\ req[w].stamp \in Nat /\ req[w].began \in Nat /\ req[w].began <= req[w].stamp
  BY <1>2, RequestFacts DEF CommitLogout, StampsInOrder, Request
<1>5. start > req[w].stamp
  BY <1>3, <1>4, SessionsAssumption DEF is_revoked, SessionsAssumption
<1> HIDE DEF start
<1> QED
  BY <1>3, <1>4, <1>5

\* A signed-out session is revived by nothing but a sign-out that was under way
\* when the session was opened and committed its older stamp last
\* (users.invalidate_sessions).
THEOREM RevivalIsAnOverlap == Spec => RevivedOnlyByOverlap
<1>1. TypeOK /\ StampsInOrder /\ [Next]_vars =>
        [\A t \in tokens :
           is_revoked(t) /\ ~ is_revoked(t)' =>
             \E w \in Workers : req[w].pc = "commit" /\ req[w].began < t.minted]_vars
  BY RevivalNeedsOverlap
<1> QED
  BY <1>1, StampsInOrderInit, StampsInOrderStep, TypeCorrect, PTL
     DEF Spec, RevivedOnlyByOverlap

LEMMA AnsweredRevokes ==
  ASSUME TypeOK, StampsInOrder, [Next]_vars, NEW w \in Workers,
         req[w].pc = "commit", req'[w].pc = "idle",
         NEW t \in tokens, t.minted <= req[w].began
  PROVE  is_revoked(t)'
<1>1. CommitLogout(w)
  <2>1. req' # req
    OBVIOUS
  <2>2. PICK v \in Workers : Step(v)
    BY <2>1 DEF Next, ChangeRole, Tick, vars
  <2>3. \A u \in Workers : u # v => req'[u] = req[u]
    BY <2>2 DEF Step, SignIn, Mint, Logout, Stamp, CommitLogout, TypeOK
  <2>4. v = w
    BY <2>3
  <2> QED
    BY <2>2, <2>4 DEF Step, SignIn, Mint, Logout, Stamp
<1> DEFINE start == t.iat * TicksPerSecond
<1>2. start \in Nat /\ t.minted \in Nat /\ start <= t.minted
  BY SessionsAssumption DEF SessionsAssumption, TypeOK, Token, Times
<1>3. /\ session_invalidated_at' = req[w].stamp
      /\ req[w].stamp \in Nat /\ req[w].began \in Nat /\ req[w].began <= req[w].stamp
  BY <1>1, RequestFacts DEF CommitLogout, StampsInOrder, Request
<1>4. session_invalidated_at' # Null
  BY <1>3, SessionsAssumption DEF SessionsAssumption
<1>5. start <= session_invalidated_at'
  <2> HIDE DEF start
  <2> QED
    BY <1>2, <1>3
<1> QED
  BY <1>4, <1>5 DEF is_revoked

\* An answered sign-out has ended every session there was when it began, however
\* many others are under way (users.invalidate_sessions, tokens.is_revoked).
THEOREM SignOutsWork == Spec => SignOutWorks
<1>1. TypeOK /\ StampsInOrder /\ [Next]_vars =>
        [\A w \in Workers :
           req[w].pc = "commit" /\ req'[w].pc = "idle" =>
             \A t \in tokens : t.minted <= req[w].began => ~ Accepted(t)']_vars
  BY AnsweredRevokes DEF Accepted
<1> QED
  BY <1>1, StampsInOrderInit, StampsInOrderStep, TypeCorrect, PTL
     DEF Spec, SignOutWorks

-----------------------------------------------------------------------------
(* One request at a time *)

\* The stamp stored covers every answered sign-out, and so will the next one.
StampCovers ==
  /\ signOut.began > 0 =>
       session_invalidated_at # Null /\ signOut.began <= session_invalidated_at
  /\ \A w \in Workers : req[w].pc \in {"stamp", "commit"} => signOut.began <= req[w].began

LEMMA StampCoversStep ==
  ASSUME TypeOK, StampsInOrder, StampCovers, [Next]_vars, NEW w0, Workers = {w0}
  PROVE  StampCovers'
<1> USE RequestFacts
<1>0. signOut.began \in Nat /\ signOut.began <= now
  BY DEF TypeOK
<1>1. ASSUME NEW w \in Workers, SignIn(w) \/ Mint(w)
      PROVE  StampCovers'
  <2>1. PICK r : req' = [req EXCEPT ![w] = r] /\ r.pc \in {"idle", "mint"}
    BY <1>1 DEF SignIn, Mint, Answered
  <2>2. UNCHANGED <<session_invalidated_at, signOut>>
    BY <1>1 DEF SignIn, Mint
  <2> QED
    BY <2>1, <2>2 DEF StampCovers
<1>2. ASSUME NEW w \in Workers, Logout(w)
      PROVE  StampCovers'
  <2> DEFINE r == [Answered EXCEPT !.pc = "stamp", !.began = now]
  <2>1. req' = [req EXCEPT ![w] = r] /\ UNCHANGED <<session_invalidated_at, signOut>>
    BY <1>2 DEF Logout
  <2>2. r.began = now
    BY DEF Answered
  <2> HIDE DEF r
  <2> QED
    BY <1>0, <2>1, <2>2 DEF StampCovers
<1>3. ASSUME NEW w \in Workers, Stamp(w)
      PROVE  StampCovers'
  <2> DEFINE r == [req[w] EXCEPT !.pc = "commit", !.stamp = now]
  <2>1. /\ req' = [req EXCEPT ![w] = r] /\ UNCHANGED <<session_invalidated_at, signOut>>
        /\ req[w].pc = "stamp"
    BY <1>3 DEF Stamp, utc_now
  <2>2. r.began = req[w].began
    BY DEF Request
  <2> HIDE DEF r
  <2> QED
    BY <2>1, <2>2 DEF StampCovers
<1>4. ASSUME NEW w \in Workers, CommitLogout(w)
      PROVE  StampCovers'
  <2>1. /\ session_invalidated_at' = req[w].stamp
        /\ signOut'.began = Later(signOut.began, req[w].began)
        /\ req' = [req EXCEPT ![w] = Answered] /\ req[w].pc = "commit"
    BY <1>4 DEF CommitLogout
  <2>2. /\ req[w].began \in Nat /\ req[w].stamp \in Nat
        /\ signOut.began <= req[w].began /\ req[w].began <= req[w].stamp
    BY <2>1 DEF StampCovers, StampsInOrder, Request
  <2>3. signOut'.began <= req[w].stamp /\ req[w].stamp # Null
    BY <1>0, <2>1, <2>2, SessionsAssumption DEF Later, SessionsAssumption
  <2>4. \A v \in Workers : req'[v].pc = "idle"
    BY <2>1 DEF Answered
  <2> QED
    BY <2>1, <2>3, <2>4 DEF StampCovers
<1>5. CASE ChangeRole \/ Tick \/ UNCHANGED vars
  BY <1>5 DEF ChangeRole, Tick, vars, StampCovers
<1> QED
  BY <1>1, <1>2, <1>3, <1>4, <1>5 DEF Next, Step

\* As long as the service handles one request at a time, an answered sign-out
\* ends every session there was when it began.  The run sessions_revived shows
\* that the assumption is needed.
THEOREM SerialSignOutHolds ==
  ASSUME NEW w0, Workers = {w0}
  PROVE  Spec => []SignedOutEverywhere
<1>1. Init => StampCovers
  BY DEF Init, StampCovers, Answered
<1>2. TypeOK /\ StampsInOrder /\ StampCovers /\ [Next]_vars => StampCovers'
  BY StampCoversStep
<1>3. TypeOK /\ StampCovers => SignedOutEverywhere
  <2> SUFFICES ASSUME TypeOK, StampCovers, NEW t \in tokens, t.minted <= signOut.began
               PROVE  is_revoked(t)
    BY DEF SignedOutEverywhere, Accepted
  <2> DEFINE start == t.iat * TicksPerSecond
  <2>1. start \in Nat /\ t.minted \in Nat \ {0} /\ start <= t.minted /\ signOut.began \in Nat
    BY SessionsAssumption DEF SessionsAssumption, TypeOK, Token, Times
  <2>2. /\ session_invalidated_at # Null /\ signOut.began <= session_invalidated_at
        /\ session_invalidated_at \in Nat
    BY <2>1 DEF StampCovers, TypeOK
  <2> HIDE DEF start
  <2>3. start <= session_invalidated_at
    BY <2>1, <2>2
  <2> QED
    BY <2>2, <2>3 DEF is_revoked, start
<1> QED
  BY <1>1, <1>2, <1>3, StampsInOrderInit, StampsInOrderStep, TypeCorrect, PTL DEF Spec
=============================================================================
