--------------------------- MODULE Accounts_proofs ---------------------------
(***************************************************************************)
(* Theorems about Accounts, for every set of requests, credentials and     *)
(* initial users that meets AccountsAssumption.                            *)
(***************************************************************************)
EXTENDS Accounts, TLAPS

-----------------------------------------------------------------------------
(* Types *)

LEMMA NoDataType == NoData \in Data
  BY DEF NoData, Data

LEMMA RowIsData == Row \subseteq Data
  BY DEF Row, Data

LEMMA FlushType ==
  ASSUME NEW row \in Row, NEW loaded \in Data, NEW data \in Data
  PROVE  UOW!Flush(row, loaded, data) \in Row
  BY AccountsAssumption DEF AccountsAssumption, Row, Data, UOW!Flush, UOW!Dirty, Roles

LEMMA AnsweredType ==
  ASSUME NEW code \in Codes
  PROVE  Answered(code) \in Request /\ Answered(code).pc = "idle"
  BY NoDataType DEF Answered, Request, PCs, Idle

\* What a request in a given state is known to hold
Typed(r) == /\ r \in Request
            /\ r.pc = "insert" => r.data \in Row
            /\ r.pc = "update" => r.id \in Known

LEMMA TypeByRequest ==
  ASSUME TypeOK, NEW w \in Workers, NEW r, Typed(r),
         req' = [req EXCEPT ![w] = r], UNCHANGED <<users, nextId>>
  PROVE  TypeOK'
<1>1. Known' = Known
  BY DEF Known
<1>2. req' \in [Workers -> Request]
  BY DEF TypeOK, Typed
<1>3. \A v \in Workers : req'[v] = IF v = w THEN r ELSE req[v]
  BY DEF TypeOK
<1> QED
  BY <1>1, <1>2, <1>3 DEF TypeOK, Typed

LEMMA AnsweredTyped ==
  ASSUME NEW code \in Codes
  PROVE  Typed(Answered(code))
  BY AnsweredType DEF Typed

LEMMA TypeStep ==
  ASSUME TypeOK, [Next]_vars
  PROVE  TypeOK'
<1>1. ASSUME NEW w \in Workers, SignIn(w)
      PROVE  TypeOK'
  <2>1. PICK cred \in Credentials :
          \/ req' = [req EXCEPT ![w] = [Answered(200) EXCEPT !.pc = "insert",
                                                            !.data = NewUser(cred)]]
          \/ \E i \in ByEmail(cred) :
               req' = [req EXCEPT ![w] =
                 [Answered(200) EXCEPT
                    !.pc = "update", !.id = i, !.loaded = users[i],
                    !.data = [NoData EXCEPT !.google_id = cred.sub]]]
    BY ZenonT(60), <1>1 DEF SignIn
  <2>2. cred.sub \in Subjects /\ cred.email \in Emails
    BY AccountsAssumption DEF AccountsAssumption
  <2>3. CASE req' = [req EXCEPT ![w] = [Answered(200) EXCEPT !.pc = "insert",
                                                            !.data = NewUser(cred)]]
    <3> DEFINE r == [Answered(200) EXCEPT !.pc = "insert", !.data = NewUser(cred)]
    <3>1. NewUser(cred) \in Row
      BY <2>2 DEF NewUser, Row, Roles
    <3>2. Typed(r)
      BY ZenonT(60), <3>1, NoDataType, RowIsData DEF Typed, Answered, Request, Codes, PCs
    <3> QED
      BY ZenonT(60), <1>1, <2>3, <3>2, TypeByRequest DEF SignIn
  <2>4. ASSUME NEW i \in ByEmail(cred),
               req' = [req EXCEPT ![w] =
                 [Answered(200) EXCEPT
                    !.pc = "update", !.id = i, !.loaded = users[i],
                    !.data = [NoData EXCEPT !.google_id = cred.sub]]]
        PROVE  TypeOK'
    <3> DEFINE r == [Answered(200) EXCEPT
                       !.pc = "update", !.id = i, !.loaded = users[i],
                       !.data = [NoData EXCEPT !.google_id = cred.sub]]
    <3>1. i \in Known /\ i \in Nat /\ users[i] \in Data
      <4>1. i \in Known
        BY DEF ByEmail
      <4>2. i \in Nat
        BY <4>1 DEF TypeOK
      <4>3. users[i] \in Row
        BY <4>1 DEF TypeOK
      <4> QED
        BY <4>1, <4>2, <4>3, RowIsData
    <3>2. [NoData EXCEPT !.google_id = cred.sub] \in Data
      BY <2>2, NoDataType DEF Data
    <3>3. Typed(r)
      BY ZenonT(60), <3>1, <3>2, NoDataType DEF Typed, Answered, Request, Codes, PCs
    <3> QED
      BY ZenonT(60), <1>1, <2>4, <3>3, TypeByRequest DEF SignIn
  <2> QED
    BY <2>1, <2>3, <2>4
<1>2. ASSUME NEW w \in Workers, Insert(w)
      PROVE  TypeOK'
  <2>1. req[w].data \in Row /\ nextId \in Nat /\ nextId' = nextId + 1
    BY <1>2 DEF Insert, TypeOK
  <2> DEFINE done == [Answered(200) EXCEPT !.pc = "refresh", !.id = nextId]
  <2>2. /\ done \in Request /\ done.pc = "refresh"
        /\ Answered(500) \in Request /\ Answered(500).pc = "idle"
    <3>1. done \in Request /\ done.pc = "refresh"
      BY ZenonT(60), <2>1, NoDataType DEF Answered, Request, Codes, PCs
    <3> QED
      BY <3>1, AnsweredType DEF Codes
  <2>3. PICK r \in {done, Answered(500)} : req' = [req EXCEPT ![w] = r]
    BY <1>2 DEF Insert, Answer
  <2>4. Known \subseteq Known' /\ Known' \subseteq Known \cup {nextId}
        /\ users' \in [Known' -> Row]
    BY <1>2, <2>1 DEF Insert, TypeOK, Known
  <2>5. \A v \in Workers : req'[v] = IF v = w THEN r ELSE req[v]
    BY <2>3 DEF TypeOK
  <2> HIDE DEF done
  <2>6. req' \in [Workers -> Request]
    BY <2>2, <2>3 DEF TypeOK
  <2>7. nextId' \in Nat \ {0} /\ Known' \subseteq 1 .. nextId' - 1
    BY <2>1, <2>4 DEF TypeOK
  <2>8. \A v \in Workers : req'[v].pc \in {"insert", "update"} => req'[v] = req[v]
    BY <2>2, <2>5
  <2> QED
    BY <2>4, <2>6, <2>7, <2>8 DEF TypeOK
<1>3. ASSUME NEW w \in Workers, UpdateRole(w)
      PROVE  TypeOK'
  <2>1. PICK actor \in Known, target \in 1 .. MaxId, role \in Roles :
          IF ~ IsAdmin(actor) THEN Answer(w, 403)
          ELSE IF ~ MayChange(actor, target) THEN Answer(w, 409)
          ELSE req' = [req EXCEPT ![w] =
                         [Answered(200) EXCEPT !.pc = "load_target",
                                               !.actor = actor, !.id = target,
                                               !.data = [NoData EXCEPT !.role = role]]]
    BY <1>3 DEF UpdateRole
  <2> DEFINE r == [Answered(200) EXCEPT !.pc = "load_target",
                                        !.actor = actor, !.id = target,
                                        !.data = [NoData EXCEPT !.role = role]]
  <2>2. actor \in Nat /\ target \in Nat
    BY AccountsAssumption DEF TypeOK, AccountsAssumption
  <2>3. [NoData EXCEPT !.role = role] \in Data
    BY NoDataType DEF Data
  <2>4. Typed(r)
    BY ZenonT(60), <2>2, <2>3, NoDataType DEF Typed, Answered, Request, Codes, PCs
  <2>5. Typed(Answered(403)) /\ Typed(Answered(409))
    BY AnsweredTyped DEF Codes
  <2> QED
    BY <1>3, <2>1, <2>4, <2>5, TypeByRequest DEF UpdateRole, Answer
<1>4. ASSUME NEW w \in Workers, LoadTarget(w)
      PROVE  TypeOK'
  <2> DEFINE r == [req[w] EXCEPT !.pc = "update", !.loaded = users[req[w].id]]
  <2>1. Typed(Answered(404))
    BY AnsweredTyped DEF Codes
  <2>2. req[w].id \in Known => Typed(r)
    BY RowIsData DEF Typed, TypeOK, Request, PCs
  <2>3. \/ req' = [req EXCEPT ![w] = Answered(404)]
        \/ req[w].id \in Known /\ req' = [req EXCEPT ![w] = r]
    BY <1>4 DEF LoadTarget, Answer, TypeOK
  <2> QED
    BY <1>4, <2>1, <2>2, <2>3, TypeByRequest DEF LoadTarget
<1>5. ASSUME NEW w \in Workers, CommitUpdate(w)
      PROVE  TypeOK'
  <2> DEFINE after == [req[w] EXCEPT !.pc = "refresh"]
             row == UOW!Flush(users[req[w].id], req[w].loaded, req[w].data)
  <2>1. req[w] \in Request /\ req[w].id \in Known
    BY <1>5 DEF TypeOK, CommitUpdate
  <2>2. row \in Row
    BY <2>1, FlushType DEF TypeOK, Request
  <2>3. \/ users' = users /\ req' = [req EXCEPT ![w] = Answered(500)]
        \/ users' = [users EXCEPT ![req[w].id] = row] /\ req' = [req EXCEPT ![w] = after]
    BY <1>5 DEF CommitUpdate, Answer, TypeOK
  <2> HIDE DEF row
  <2>4. Known' = Known /\ users' \in [Known -> Row] /\ nextId' = nextId
    BY <1>5, <2>2, <2>3 DEF TypeOK, Known, CommitUpdate
  <2>5. Typed(after) /\ Typed(Answered(500)) /\ after.pc = "refresh"
    BY <2>1, AnsweredTyped DEF Typed, Request, PCs, Codes
  <2>6. PICK r \in {after, Answered(500)} : req' = [req EXCEPT ![w] = r]
    BY <2>3
  <2> HIDE DEF after
  <2>7. \A v \in Workers : req'[v] = IF v = w THEN r ELSE req[v]
    BY <2>6 DEF TypeOK
  <2> QED
    BY <2>4, <2>5, <2>6, <2>7 DEF TypeOK, Typed
<1>6. ASSUME NEW w \in Workers, Refresh(w)
      PROVE  TypeOK'
  BY <1>6, AnsweredTyped, TypeByRequest DEF Refresh, Answer, TypeOK, Request
<1>7. CASE UNCHANGED vars
  BY <1>7 DEF vars, TypeOK, Known
<1> QED
  BY <1>1, <1>2, <1>3, <1>4, <1>5, <1>6, <1>7 DEF Next, Step

LEMMA TypeInit == Init => TypeOK
  BY AccountsAssumption, AnsweredType
     DEF Init, TypeOK, Known, AccountsAssumption, Codes

\* The user table and the requests are well typed, and a request about to
\* write to an account found it there (services/users.py, admin/users.py).
THEOREM TypeCorrect == Spec => []TypeOK
  BY TypeInit, TypeStep, PTL DEF Spec

-----------------------------------------------------------------------------
(* One account per identity *)

\* The table is written by two statements only.
LEMMA OnlyCommitsWrite ==
  ASSUME [Next]_vars
  PROVE  UNCHANGED users \/ \E w \in Workers : Insert(w) \/ CommitUpdate(w)
<1>1. \A w \in Workers : SignIn(w) \/ UpdateRole(w) => UNCHANGED users
  BY DEF SignIn, UpdateRole
<1>2. \A w \in Workers : LoadTarget(w) \/ Refresh(w) => UNCHANGED users
  BY DEF LoadTarget, Refresh
<1> QED
  BY <1>1, <1>2 DEF Next, Step, vars

\* What a commit does to the table, if it does anything
LEMMA InsertWrites ==
  ASSUME TypeOK, NEW w \in Workers, Insert(w), users' # users
  PROVE  /\ ~ IndexRefuses(req[w].data, nextId)
         /\ nextId \notin Known /\ req[w].data \in Row /\ req[w].pc = "insert"
         /\ Known' = Known \cup {nextId}
         /\ \A i \in Known' : users'[i] = IF i = nextId THEN req[w].data ELSE users[i]
<1>1. /\ ~ IndexRefuses(req[w].data, nextId)
      /\ users' = [i \in Known \cup {nextId} |->
                     IF i = nextId THEN req[w].data ELSE users[i]]
  BY DEF Insert
<1>2. nextId \notin Known /\ req[w].data \in Row /\ req[w].pc = "insert"
  BY DEF TypeOK, Insert
<1> QED
  BY <1>1, <1>2 DEF Known

LEMMA UpdateWrites ==
  ASSUME TypeOK, NEW w \in Workers, CommitUpdate(w), users' # users
  PROVE  LET r == req[w]
             row == UOW!Flush(users[r.id], r.loaded, r.data)
         IN  /\ r \in Request /\ r.pc = "update" /\ r.id \in Known
             /\ users[r.id] \in Row /\ row \in Row
             /\ "google_id" \in UOW!Dirty(r.loaded, r.data) => ~ IndexRefuses(row, r.id)
             /\ Known' = Known
             /\ \A i \in Known : users'[i] = IF i = r.id THEN row ELSE users[i]
<1> DEFINE r == req[w]
           row == UOW!Flush(users[r.id], r.loaded, r.data)
<1>1. r \in Request /\ r.pc = "update" /\ r.id \in Known /\ users[r.id] \in Row
  BY DEF TypeOK, CommitUpdate
<1>2. row \in Row
  BY <1>1, FlushType DEF Request
<1>3. /\ "google_id" \in UOW!Dirty(r.loaded, r.data) => ~ IndexRefuses(row, r.id)
      /\ users' = [users EXCEPT ![r.id] = row]
  BY DEF CommitUpdate
<1> QED
  BY <1>1, <1>2, <1>3 DEF Known, TypeOK

LEMMA FlushColumns ==
  ASSUME NEW row \in Row, NEW loaded, NEW data
  PROVE  LET new == UOW!Flush(row, loaded, data)
         IN  /\ "google_id" \notin UOW!Dirty(loaded, data) =>
                  new.google_id = row.google_id
             /\ data.email = Unset => new.email = row.email
             /\ data.role = Unset => new.role = row.role
             /\ new.role # row.role => new.role = data.role
  BY DEF Row, UOW!Flush, UOW!Dirty

\* What a request can become in one step
Ended(r) == r.pc \in {"idle", "refresh"}

Creating(r) == r.pc = "insert" /\ r.data.role = "user"

SigningIn(r) == r.pc = "update" /\ r.data.email = Unset /\ r.data.role = Unset

Authorised(r) ==
  /\ r.pc = "load_target" /\ r.data.email = Unset
  /\ r.actor \in Known /\ IsAdmin(r.actor) /\ r.actor # r.id

TargetLoaded(r, old) ==
  /\ old.pc = "load_target" /\ r.pc = "update"
  /\ r.data = old.data /\ r.actor = old.actor /\ r.id = old.id

LEMMA RequestStep ==
  ASSUME TypeOK, [Next]_vars, req' # req
  PROVE  \E w \in Workers : \E r :
           /\ req' = [req EXCEPT ![w] = r]
           /\ \/ Ended(r)
              \/ /\ UNCHANGED users
                 /\ Creating(r) \/ SigningIn(r) \/ Authorised(r) \/ TargetLoaded(r, req[w])
<1> DEFINE Goal(w) == \E r :
             /\ req' = [req EXCEPT ![w] = r]
             /\ \/ Ended(r)
                \/ /\ UNCHANGED users
                   /\ \/ Creating(r) \/ SigningIn(r)
                      \/ Authorised(r) \/ TargetLoaded(r, req[w])
<1>1. ASSUME NEW w \in Workers, NEW code, Answer(w, code)
      PROVE  Goal(w)
  <2>1. Ended(Answered(code))
    BY DEF Ended, Answered, Idle
  <2> QED
    BY <1>1, <2>1 DEF Answer
<1>2. ASSUME NEW w \in Workers, SignIn(w)
      PROVE  Goal(w)
  <2>1. PICK cred \in Credentials :
          \/ req' = [req EXCEPT ![w] = [Answered(200) EXCEPT !.pc = "insert",
                                                            !.data = NewUser(cred)]]
          \/ \E i \in ByEmail(cred) :
               req' = [req EXCEPT ![w] =
                 [Answered(200) EXCEPT
                    !.pc = "update", !.id = i, !.loaded = users[i],
                    !.data = [NoData EXCEPT !.google_id = cred.sub]]]
    BY ZenonT(60), <1>2 DEF SignIn
  <2>2. Creating([Answered(200) EXCEPT !.pc = "insert", !.data = NewUser(cred)])
    BY DEF Creating, Answered, NewUser
  <2>3. \A i : SigningIn([Answered(200) EXCEPT
                            !.pc = "update", !.id = i, !.loaded = users[i],
                            !.data = [NoData EXCEPT !.google_id = cred.sub]])
    BY DEF SigningIn, Answered, NoData
  <2>4. UNCHANGED users
    BY <1>2 DEF SignIn
  <2> QED
    BY ZenonT(60), <2>1, <2>2, <2>3, <2>4
<1>3. ASSUME NEW w \in Workers, UpdateRole(w)
      PROVE  Goal(w)
  <2>1. PICK actor \in Known, target \in 1 .. MaxId, role \in Roles :
          IF ~ IsAdmin(actor) THEN Answer(w, 403)
          ELSE IF ~ MayChange(actor, target) THEN Answer(w, 409)
          ELSE req' = [req EXCEPT ![w] =
                         [Answered(200) EXCEPT !.pc = "load_target",
                                               !.actor = actor, !.id = target,
                                               !.data = [NoData EXCEPT !.role = role]]]
    BY <1>3 DEF UpdateRole
  <2> DEFINE r == [Answered(200) EXCEPT !.pc = "load_target",
                                        !.actor = actor, !.id = target,
                                        !.data = [NoData EXCEPT !.role = role]]
  <2>2. /\ r.pc = "load_target" /\ r.actor = actor /\ r.id = target
        /\ r.data.email = Unset
    BY DEF Answered, NoData
  <2>3. UNCHANGED users
    BY <1>3 DEF UpdateRole
  <2>4. CASE ~ IsAdmin(actor) \/ ~ MayChange(actor, target)
    BY <1>1, <2>1, <2>4
  <2>5. CASE IsAdmin(actor) /\ MayChange(actor, target)
    <3>1. req' = [req EXCEPT ![w] = r]
      BY <2>1, <2>5
    <3> HIDE DEF r
    <3>2. Authorised(r)
      BY <2>2, <2>5 DEF Authorised, MayChange
    <3> QED
      BY <2>3, <3>1, <3>2
  <2> QED
    BY <2>4, <2>5
<1>4. ASSUME NEW w \in Workers, LoadTarget(w)
      PROVE  Goal(w)
  <2> DEFINE r == [req[w] EXCEPT !.pc = "update", !.loaded = users[req[w].id]]
  <2>1. TargetLoaded(r, req[w])
    BY <1>4 DEF TypeOK, Request, LoadTarget, TargetLoaded
  <2>2. Answer(w, 404) \/ req' = [req EXCEPT ![w] = r]
    BY <1>4 DEF LoadTarget, TypeOK
  <2>3. UNCHANGED users
    BY <1>4 DEF LoadTarget
  <2> HIDE DEF r
  <2>4. CASE Answer(w, 404)
    BY <1>1, <2>4
  <2> QED
    BY <2>1, <2>2, <2>3, <2>4
<1>5. ASSUME NEW w \in Workers, CommitUpdate(w) \/ Insert(w)
      PROVE  Goal(w)
  <2> DEFINE updated == [req[w] EXCEPT !.pc = "refresh"]
             created == [Answered(200) EXCEPT !.pc = "refresh", !.id = nextId]
  <2>1. Ended(updated) /\ Ended(created)
    BY DEF TypeOK, Request, Ended, Answered
  <2>2. \/ Answer(w, 500)
        \/ req' = [req EXCEPT ![w] = updated]
        \/ req' = [req EXCEPT ![w] = created]
    BY <1>5 DEF CommitUpdate, Insert, TypeOK
  <2> HIDE DEF updated, created
  <2>3. CASE Answer(w, 500)
    BY <1>1, <2>3
  <2> QED
    BY <2>1, <2>2, <2>3
<1>6. ASSUME NEW w \in Workers, Refresh(w)
      PROVE  Goal(w)
  BY <1>1, <1>6 DEF Refresh
<1> HIDE DEF Goal
<1>7. \E w \in Workers : Goal(w)
  BY <1>2, <1>3, <1>4, <1>5, <1>6 DEF Next, Step, vars
<1> QED
  BY <1>7 DEF Goal

LEMMA KnownGrows ==
  ASSUME TypeOK, [Next]_vars
  PROVE  Known \subseteq Known'
<1>1. CASE UNCHANGED users
  BY <1>1 DEF Known
<1> QED
  BY <1>1, OnlyCommitsWrite, InsertWrites, UpdateWrites

\* Nothing assigns the email of an account that exists.
EmailKept == \A w \in Workers : req[w].pc \in {"load_target", "update"} =>
                                  req[w].data.email = Unset

LEMMA EmailKeptStep ==
  ASSUME TypeOK, EmailKept, [Next]_vars
  PROVE  EmailKept'
<1>1. CASE req' = req
  BY <1>1 DEF EmailKept
<1>2. CASE req' # req
  <2>0. PICK w \in Workers : \E r :
          /\ req' = [req EXCEPT ![w] = r]
          /\ \/ Ended(r) \/ Creating(r) \/ SigningIn(r)
             \/ Authorised(r) \/ TargetLoaded(r, req[w])
    BY <1>2, RequestStep
  <2>1. PICK r :
          /\ req' = [req EXCEPT ![w] = r]
          /\ \/ Ended(r) \/ Creating(r) \/ SigningIn(r)
             \/ Authorised(r) \/ TargetLoaded(r, req[w])
    BY <2>0
  <2>2. r.pc \in {"load_target", "update"} => r.data.email = Unset
    BY <2>1 DEF EmailKept, Ended, Creating, SigningIn, Authorised, TargetLoaded
  <2> QED
    BY <2>1, <2>2 DEF EmailKept, TypeOK
<1> QED
  BY <1>1, <1>2

LEMMA IdentityStep ==
  ASSUME TypeOK, EmailKept, IdentityUnique, [Next]_vars
  PROVE  IdentityUnique'
<1>1. CASE UNCHANGED users
  BY <1>1 DEF IdentityUnique, Known
<1>2. ASSUME NEW w \in Workers, Insert(w), users' # users
      PROVE  IdentityUnique'
  BY <1>2, InsertWrites DEF IdentityUnique, IndexRefuses, Row
<1>3. ASSUME NEW w \in Workers, CommitUpdate(w), users' # users
      PROVE  IdentityUnique'
  <2> DEFINE r == req[w]
             row == UOW!Flush(users[r.id], r.loaded, r.data)
             dirty == UOW!Dirty(r.loaded, r.data)
  <2>1. /\ r.pc = "update" /\ r.id \in Known /\ users[r.id] \in Row
        /\ "google_id" \in dirty => ~ IndexRefuses(row, r.id)
        /\ Known' = Known
        /\ \A i \in Known : users'[i] = IF i = r.id THEN row ELSE users[i]
    BY <1>3, UpdateWrites
  <2>2. r.data.email = Unset
    BY <2>1 DEF EmailKept
  <2>3. /\ row.email = users[r.id].email
        /\ "google_id" \notin dirty => row.google_id = users[r.id].google_id
    BY <2>1, <2>2, FlushColumns
  <2> HIDE DEF row, dirty
  <2>4. \A i \in Known \ {r.id} :
          /\ users[i].email # row.email
          /\ row.google_id = Null \/ users[i].google_id # row.google_id
    BY <2>1, <2>3 DEF IdentityUnique, IndexRefuses
  <2> QED
    BY <2>1, <2>4 DEF IdentityUnique
<1> QED
  BY <1>1, <1>2, <1>3, OnlyCommitsWrite

\* No two accounts share an email or a Google identity, whichever sign-ins look
\* for the account before either has made it (models/user.py:18 and 39).
THEOREM OneAccountPerIdentity == Spec => []IdentityUnique
<1>1. Init => EmailKept /\ IdentityUnique
  BY AccountsAssumption
     DEF Init, EmailKept, IdentityUnique, Known, AccountsAssumption, Answered, Idle
<1>2. TypeOK /\ EmailKept /\ IdentityUnique /\ [Next]_vars => (EmailKept /\ IdentityUnique)'
  BY EmailKeptStep, IdentityStep
<1> QED
  BY <1>1, <1>2, TypeCorrect, PTL DEF Spec

-----------------------------------------------------------------------------
(* Roles *)

\* A request that assigns a role to an account has an actor other than it, and
\* a new account is given the role user.
Granted(r) ==
  /\ r.pc = "insert" => r.data.role = "user"
  /\ r.pc \in {"load_target", "update"} /\ r.data.role # Unset => r.actor \in Known \ {r.id}

RolesGranted == \A w \in Workers : Granted(req[w])

LEMMA RolesGrantedStep ==
  ASSUME TypeOK, RolesGranted, [Next]_vars
  PROVE  RolesGranted'
<1>1. \A r : Granted(r) => Granted(r)'
  BY KnownGrows DEF Granted
<1>2. CASE req' = req
  BY <1>1, <1>2 DEF RolesGranted, Granted
<1>3. CASE req' # req
  <2>0. PICK w \in Workers : \E r :
          /\ req' = [req EXCEPT ![w] = r]
          /\ \/ Ended(r) \/ Creating(r) \/ SigningIn(r)
             \/ Authorised(r) \/ TargetLoaded(r, req[w])
    BY <1>3, RequestStep
  <2>1. PICK r :
          /\ req' = [req EXCEPT ![w] = r]
          /\ \/ Ended(r) \/ Creating(r) \/ SigningIn(r)
             \/ Authorised(r) \/ TargetLoaded(r, req[w])
    BY <2>0
  <2>2. Granted(r)
    BY <2>1 DEF RolesGranted, Granted, Ended, Creating, SigningIn, Authorised, TargetLoaded
  <2>3. \A v \in Workers : req'[v] = IF v = w THEN r ELSE req[v]
    BY <2>1 DEF TypeOK
  <2> QED
    BY <1>1, <2>2, <2>3 DEF RolesGranted, Granted
<1> QED
  BY <1>2, <1>3

LEMMA RoleWrites ==
  ASSUME TypeOK, RolesGranted, [Next]_vars
  PROVE  \A i \in Known' :
           IF i \in Known
             THEN users'[i].role # users[i].role =>
                    \E w \in Workers :
                      /\ req[w].pc = "update" /\ req[w].id = i
                      /\ req[w].actor \in Known \ {i}
                      /\ users'[i].role = req[w].data.role
             ELSE users'[i].role = "user"
<1>1. CASE UNCHANGED users
  BY <1>1 DEF Known
<1>2. ASSUME NEW w \in Workers, Insert(w), users' # users
      PROVE  \A i \in Known' : IF i \in Known THEN users'[i].role = users[i].role
                                             ELSE users'[i].role = "user"
  BY <1>2, InsertWrites DEF RolesGranted, Granted
<1>3. ASSUME NEW w \in Workers, CommitUpdate(w), users' # users
      PROVE  /\ Known' = Known
             /\ \A i \in Known : users'[i].role # users[i].role =>
                  /\ req[w].pc = "update" /\ req[w].id = i
                  /\ req[w].actor \in Known \ {i}
                  /\ users'[i].role = req[w].data.role
  <2> DEFINE r == req[w]
             row == UOW!Flush(users[r.id], r.loaded, r.data)
  <2>1. /\ r.pc = "update" /\ users[r.id] \in Row /\ Known' = Known
        /\ \A i \in Known : users'[i] = IF i = r.id THEN row ELSE users[i]
    BY <1>3, UpdateWrites
  <2>2. /\ r.data.role = Unset => row.role = users[r.id].role
        /\ row.role # users[r.id].role => row.role = r.data.role
    BY <2>1, FlushColumns
  <2>3. r.data.role # Unset => r.actor \in Known \ {r.id}
    BY <2>1 DEF RolesGranted, Granted
  <2> HIDE DEF row
  <2> QED
    BY <2>1, <2>2, <2>3
<1> QED
  BY <1>1, <1>2, <1>3, OnlyCommitsWrite

\* No sign-in grants, changes or undoes a role, however it overlaps with the
\* role changes of the admins (services/users.py:52, admin/users.py:76).
THEOREM RolesComeFromAdmins == Spec => RoleOnlyByAdmin
<1>1. Init => RolesGranted
  BY DEF Init, RolesGranted, Granted, Answered, Idle
<1>2. TypeOK /\ RolesGranted /\ [Next]_vars => RolesGranted'
  BY RolesGrantedStep
<1>3. TypeOK /\ RolesGranted /\ [Next]_vars =>
        [\A i \in Known' :
           IF i \in Known
             THEN users'[i].role # users[i].role =>
                    \E w \in Workers :
                      /\ req[w].pc = "update" /\ req[w].id = i
                      /\ req[w].actor \in Known \ {i}
                      /\ users'[i].role = req[w].data.role
             ELSE users'[i].role = "user"]_vars
  BY RoleWrites
<1> QED
  BY <1>1, <1>2, <1>3, TypeCorrect, PTL DEF Spec, RoleOnlyByAdmin

-----------------------------------------------------------------------------
(* The last administrator *)

LEMMA LastAdminStep ==
  ASSUME TypeOK, RolesGranted, [Next]_vars, AdminExists, ~ AdminExists'
  PROVE  \E w \in Workers :
           /\ req[w].pc = "update" /\ req[w].data.role # Unset
           /\ req[w].actor \in Known /\ ~ IsAdmin(req[w].actor)
<1>1. users' # users
  BY DEF AdminExists, Known
<1>2. \A w \in Workers : ~ Insert(w)
  BY <1>1, InsertWrites DEF AdminExists
<1>3. PICK w \in Workers : CommitUpdate(w)
  BY <1>1, <1>2, OnlyCommitsWrite
<1> DEFINE r == req[w]
           row == UOW!Flush(users[r.id], r.loaded, r.data)
<1>4. /\ r.pc = "update" /\ users[r.id] \in Row /\ Known' = Known
      /\ \A i \in Known : users'[i] = IF i = r.id THEN row ELSE users[i]
  BY <1>1, <1>3, UpdateWrites
<1>5. r.data.role = Unset => row.role = users[r.id].role
  BY <1>4, FlushColumns
<1> HIDE DEF row
<1>6. r.data.role # Unset
  BY <1>4, <1>5 DEF AdminExists
<1>7. r.actor \in Known \ {r.id}
  BY <1>4, <1>6 DEF RolesGranted, Granted
<1>8. ~ IsAdmin(r.actor)
  BY <1>4, <1>7 DEF AdminExists, IsAdmin
<1> QED
  BY <1>4, <1>6, <1>7, <1>8

\* The last admin is demoted by nobody who is an admin at that moment
\* (update_role refuses self-changes).
THEOREM LastAdminGoesByOverlap == Spec => LastAdminByOverlap
<1>1. Init => RolesGranted
  BY DEF Init, RolesGranted, Granted, Answered, Idle
<1>2. TypeOK /\ RolesGranted /\ [Next]_vars => RolesGranted'
  BY RolesGrantedStep
<1>3. TypeOK /\ RolesGranted /\ [Next]_vars =>
        [AdminExists /\ ~ AdminExists' =>
           \E w \in Workers :
             /\ req[w].pc = "update" /\ req[w].data.role # Unset
             /\ req[w].actor \in Known /\ ~ IsAdmin(req[w].actor)]_vars
  BY LastAdminStep
<1> QED
  BY <1>1, <1>2, <1>3, TypeCorrect, PTL DEF Spec, LastAdminByOverlap

\* Whoever is about to change a role is an admin other than the target.
Backed(r) ==
  r.pc \in {"load_target", "update"} /\ r.data.role # Unset =>
    r.actor \in Known \ {r.id} /\ IsAdmin(r.actor)

AdminBacked == \A w \in Workers : Backed(req[w])

LEMMA AdminBackedStep ==
  ASSUME TypeOK, AdminBacked, [Next]_vars, NEW w0, Workers = {w0}
  PROVE  AdminBacked'
<1>1. CASE req' = req
  <2>1. UNCHANGED users
    <3>1. ASSUME NEW w \in Workers, Insert(w)
          PROVE  FALSE
      <4> DEFINE created == [Answered(200) EXCEPT !.pc = "refresh", !.id = nextId]
      <4>1. Answered(500).pc = "idle" /\ created.pc = "refresh"
        BY DEF Answered, Idle
      <4>2. req' = [req EXCEPT ![w] = Answered(500)] \/ req' = [req EXCEPT ![w] = created]
        BY <3>1 DEF Insert, Answer
      <4> HIDE DEF created
      <4>3. req'[w] \in {Answered(500), created}
        BY <4>2 DEF TypeOK
      <4> QED
        BY <1>1, <3>1, <4>1, <4>3 DEF Insert
    <3>2. ASSUME NEW w \in Workers, CommitUpdate(w)
          PROVE  FALSE
      <4>1. req'[w].pc \in {"idle", "refresh"}
        BY <3>2 DEF CommitUpdate, Answer, Answered, Idle, TypeOK, Request
      <4> QED
        BY <1>1, <3>2, <4>1 DEF CommitUpdate
    <3> QED
      BY <3>1, <3>2, OnlyCommitsWrite
  <2> QED
    BY <1>1, <2>1 DEF AdminBacked, Backed, Known, IsAdmin
<1>2. CASE req' # req
  <2>0. PICK w \in Workers : \E r :
          /\ req' = [req EXCEPT ![w] = r]
          /\ \/ Ended(r)
             \/ /\ UNCHANGED users
                /\ Creating(r) \/ SigningIn(r) \/ Authorised(r) \/ TargetLoaded(r, req[w])
    BY <1>2, RequestStep
  <2>1. PICK r :
          /\ req' = [req EXCEPT ![w] = r]
          /\ \/ Ended(r)
             \/ /\ UNCHANGED users
                /\ Creating(r) \/ SigningIn(r) \/ Authorised(r) \/ TargetLoaded(r, req[w])
    BY <2>0
  <2>2. Ended(r) \/ (Backed(r) /\ UNCHANGED users)
    BY <2>1 DEF AdminBacked, Backed, Creating, SigningIn, Authorised, TargetLoaded
  <2>3. \A v \in Workers : req'[v] = r
    BY <2>1 DEF TypeOK
  <2> QED
    BY <2>2, <2>3 DEF AdminBacked, Backed, Ended, Known, IsAdmin
<1> QED
  BY <1>1, <1>2

LEMMA AdminExistsStep ==
  ASSUME TypeOK, AdminBacked, AdminExists, [Next]_vars
  PROVE  AdminExists'
<1>1. CASE UNCHANGED users
  BY <1>1 DEF AdminExists, Known
<1>2. ASSUME NEW w \in Workers, Insert(w), users' # users
      PROVE  AdminExists'
  BY <1>2, InsertWrites DEF AdminExists
<1>3. ASSUME NEW w \in Workers, CommitUpdate(w), users' # users
      PROVE  AdminExists'
  <2> DEFINE r == req[w]
             row == UOW!Flush(users[r.id], r.loaded, r.data)
  <2>1. /\ r.pc = "update" /\ users[r.id] \in Row /\ Known' = Known
        /\ \A i \in Known : users'[i] = IF i = r.id THEN row ELSE users[i]
    BY <1>3, UpdateWrites
  <2>2. r.data.role = Unset => row.role = users[r.id].role
    BY <2>1, FlushColumns
  <2> HIDE DEF row
  <2>3. CASE r.data.role = Unset
    BY <2>1, <2>2, <2>3 DEF AdminExists
  <2>4. CASE r.data.role # Unset
    <3>1. r.actor \in Known \ {r.id} /\ users[r.actor].role = "admin"
      BY <2>1, <2>4 DEF AdminBacked, Backed, IsAdmin
    <3> QED
      BY <2>1, <3>1 DEF AdminExists
  <2> QED
    BY <2>3, <2>4
<1> QED
  BY <1>1, <1>2, <1>3, OnlyCommitsWrite

\* As long as the service handles one request at a time, refusing self-changes
\* is enough to keep an administrator (update_role).  The run accounts_no_admin
\* shows that the assumption is needed.
THEOREM SerialKeepsAnAdmin ==
  ASSUME NEW w0, Workers = {w0}
  PROVE  Spec => []AdminExists
<1>1. Init => AdminBacked /\ AdminExists
  BY AccountsAssumption
     DEF Init, AdminBacked, Backed, AdminExists, Known, AccountsAssumption, Answered, Idle
<1>2. TypeOK /\ AdminBacked /\ AdminExists /\ [Next]_vars => (AdminBacked /\ AdminExists)'
  BY AdminBackedStep, AdminExistsStep
<1> QED
  BY <1>1, <1>2, TypeCorrect, PTL DEF Spec
=============================================================================
