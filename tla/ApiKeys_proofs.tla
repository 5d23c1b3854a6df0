--------------------------- MODULE ApiKeys_proofs ----------------------------
(***************************************************************************)
(* Theorems about ApiKeys, for any number of requests and any lifetime.    *)
(***************************************************************************)
EXTENDS ApiKeys, TLAPS

-----------------------------------------------------------------------------
(* The inductive invariant *)

Past(reading) == reading = Null \/ reading \in 1 .. now - 1

\* The request is about to commit a key.
Issuing(r) == r.pc = "commit" /\ r.data.api_key_hash # Unset

\* What a request loaded and assigned.  A key about to be committed is one that
\* nobody has seen: not the one stored, nor the one loaded, nor an ended one.
InOrder(r) ==
  /\ r.pc # "idle" => Past(r.loaded.api_key_hash) /\ Past(r.loaded.api_key_created_at)
  /\ Issuing(r) =>
       /\ r.data.api_key_hash \in 1 .. now - 1
       /\ r.data.api_key_created_at = r.data.api_key_hash
       /\ r.data.api_key_hash \notin ended \cup {row.api_key_hash}
       /\ r.data.api_key_hash # r.loaded.api_key_hash
       /\ r.data.api_key_hash # r.loaded.api_key_created_at
  /\ r.pc = "commit" /\ ~ Issuing(r) =>
       r.data.api_key_created_at = Unset /\ r.data.api_key_revoked_at # Null

RequestsInOrder ==
  /\ \A w \in Workers : InOrder(req[w])
  /\ \A v, w \in Workers : v # w /\ Issuing(req[v]) /\ Issuing(req[w]) =>
       req[v].data.api_key_hash # req[w].data.api_key_hash

EndedIsRevoked == row.api_key_hash \in ended => row.api_key_revoked_at # Null

DateIsPast == Past(row.api_key_created_at)

Inv == TypeOK /\ RequestsInOrder /\ EndedIsRevoked /\ KeyHasItsDate /\ DateIsPast

LEMMA NoDataType == NoData \in Data
  BY DEF NoData, Data

LEMMA RowIsData == Row \subseteq Data
  BY DEF Row, Data

LEMMA AnsweredType == Answered \in Request /\ Answered.pc = "idle"
  BY NoDataType DEF Answered, Request

LEMMA FlushType ==
  ASSUME NEW old \in Row, NEW loaded \in Data, NEW data \in Data
  PROVE  UOW!Flush(old, loaded, data) \in Row
  BY ApiKeysAssumption DEF ApiKeysAssumption, Row, Data, Roles, UOW!Flush, UOW!Dirty

\* What a commit leaves in the columns of the key
LEMMA CommitWrites ==
  ASSUME TypeOK, NEW w \in Workers, InOrder(req[w]), req[w].pc = "commit"
  PROVE  LET r   == req[w]
             new == UOW!Flush(row, r.loaded, r.data)
         IN  /\ new \in Row
             /\ Issuing(r) => /\ new.api_key_hash = r.data.api_key_hash
                              /\ new.api_key_created_at = r.data.api_key_hash
             /\ ~ Issuing(r) => /\ new.api_key_hash = row.api_key_hash
                                /\ new.api_key_created_at = row.api_key_created_at
                                /\ row.api_key_revoked_at # Null =>
                                     new.api_key_revoked_at # Null
<1> DEFINE r == req[w]
           new == UOW!Flush(row, r.loaded, r.data)
<1>1. row \in Row /\ r.loaded \in Data /\ r.data \in Data
  BY DEF TypeOK, Request
<1>2. new \in Row
  BY <1>1, FlushType
<1>3. \A c \in DOMAIN row :
        new[c] = IF c \in DOMAIN r.loaded /\ r.data[c] # Unset /\ r.data[c] # r.loaded[c]
                   THEN r.data[c] ELSE row[c]
  BY DEF UOW!Flush, UOW!Dirty
<1>4. /\ DOMAIN row = {"role", "api_key_hash", "api_key_created_at", "api_key_revoked_at"}
      /\ DOMAIN r.loaded = DOMAIN row
  BY <1>1 DEF Row, Data
<1> HIDE DEF new
<1>5. ASSUME Issuing(r)
      PROVE  /\ new.api_key_hash = r.data.api_key_hash
             /\ new.api_key_created_at = r.data.api_key_hash
  BY <1>3, <1>4, <1>5 DEF InOrder, Issuing
<1>6. ASSUME ~ Issuing(r)
      PROVE  /\ new.api_key_hash = row.api_key_hash
             /\ new.api_key_created_at = row.api_key_created_at
             /\ row.api_key_revoked_at # Null => new.api_key_revoked_at # Null
  BY <1>3, <1>4, <1>6 DEF InOrder, Issuing
<1> QED
  BY <1>2, <1>5, <1>6 DEF new

-----------------------------------------------------------------------------
(* The steps *)

LEMMA InvInit == Init => Inv
  BY AnsweredType, ApiKeysAssumption
     DEF Init, Inv, TypeOK, Row, RequestsInOrder, InOrder, Issuing, EndedIsRevoked,
         KeyHasItsDate, DateIsPast, Past, ApiKeysAssumption

\* A request that has loaded the row
LEMMA LoadStep ==
  ASSUME Inv, NEW w \in Workers, NEW pc \in {"issue", "revoke", "commit"},
         NEW data \in Data, data.api_key_hash = Unset, data.api_key_created_at = Unset,
         data.api_key_revoked_at = Unset, Load(w, pc, data)
  PROVE  Inv'
<1> DEFINE r == [pc |-> pc, loaded |-> row, data |-> data]
<1>1. req' = [req EXCEPT ![w] = r] /\ UNCHANGED <<row, now, ended>>
  BY DEF Load
<1>2. r \in Request
  BY RowIsData DEF Inv, TypeOK, Request
<1>3. Past(row.api_key_hash) /\ Past(row.api_key_created_at)
  BY DEF Inv, TypeOK, DateIsPast, Past, Row
<1>4. r.pc # "idle" /\ r.loaded = row /\ ~ Issuing(r) /\ InOrder(r)
  BY <1>3, ApiKeysAssumption DEF InOrder, Issuing, ApiKeysAssumption
<1> HIDE DEF r
<1>5. \A v \in Workers : req'[v] = IF v = w THEN r ELSE req[v]
  BY <1>1 DEF Inv, TypeOK
<1>6. RequestsInOrder'
  BY <1>1, <1>4, <1>5 DEF Inv, RequestsInOrder, InOrder, Issuing, Past
<1>7. TypeOK'
  BY <1>1, <1>2 DEF Inv, TypeOK
<1> QED
  BY <1>1, <1>6, <1>7 DEF Inv, EndedIsRevoked, KeyHasItsDate, DateIsPast, Past

\* Time moves on for the requests that stay as they are.
LEMMA PastGrows ==
  ASSUME now \in Nat \ {0}, now' = now + 1
  PROVE  /\ \A x : Past(x) => Past(x)'
         /\ \A x \in 1 .. now - 1 : x \in 1 .. now' - 1
         /\ now \in 1 .. now' - 1
  BY DEF Past

LEMMA TickKeeps ==
  ASSUME Inv, now' = now + 1, UNCHANGED <<row, ended>>
  PROVE  /\ \A r : InOrder(r) => InOrder(r)'
         /\ EndedIsRevoked' /\ KeyHasItsDate' /\ DateIsPast'
         /\ row' \in Row /\ now' \in Nat \ {0}
         /\ ended' \subseteq 1 .. now' - 1
         /\ row'.api_key_hash # Null => /\ row'.api_key_hash \in 1 .. now' - 1
                                        /\ row'.api_key_created_at # Null
<1>1. now \in Nat \ {0}
  BY DEF Inv, TypeOK
<1>2. \A r : InOrder(r) => InOrder(r)'
  BY <1>1, PastGrows DEF InOrder, Issuing
<1>3. EndedIsRevoked' /\ KeyHasItsDate'
  BY DEF Inv, EndedIsRevoked, KeyHasItsDate
<1>4. DateIsPast'
  BY <1>1 DEF Inv, DateIsPast, Past
<1> QED
  BY <1>1, <1>2, <1>3, <1>4, PastGrows DEF Inv, TypeOK

LEMMA AssignStep ==
  ASSUME Inv, NEW w \in Workers, AssignKey(w) \/ AssignRevocation(w)
  PROVE  Inv'
<1>0. PICK data \in {Issued(req[w].loaded), Revoked} :
        /\ req' = [req EXCEPT ![w].pc = "commit", ![w].data = data]
        /\ now' = now + 1 /\ req[w].pc # "idle"
        /\ UNCHANGED <<row, ended>>
  BY DEF AssignKey, AssignRevocation, Assign
<1>1. PICK r : /\ r = [req[w] EXCEPT !.pc = "commit", !.data = data]
               /\ req' = [req EXCEPT ![w] = r]
               /\ now' = now + 1 /\ req[w].pc # "idle"
               /\ UNCHANGED <<row, ended>>
  BY <1>0 DEF Inv, TypeOK
<1>2. now \in Nat \ {0} /\ req[w] \in Request /\ InOrder(req[w])
  BY DEF Inv, TypeOK, RequestsInOrder
<1>3. /\ data \in Data
      /\ \/ /\ data.api_key_hash = now /\ data.api_key_created_at = now
         \/ /\ data.api_key_hash = Unset /\ data.api_key_created_at = Unset
            /\ data.api_key_revoked_at = now
  BY <1>2, NoDataType DEF Issued, Revoked, NoData, Data
<1>4. r \in Request /\ r.pc = "commit" /\ r.data = data /\ r.loaded = req[w].loaded
  BY <1>1, <1>2, <1>3 DEF Request
<1>5. \A v \in Workers : req'[v] = IF v = w THEN r ELSE req[v]
  BY <1>1 DEF Inv, TypeOK
<1>6. Past(r.loaded.api_key_hash) /\ Past(r.loaded.api_key_created_at)
  BY <1>1, <1>2, <1>4 DEF InOrder
<1>7. InOrder(r)'
  <2>1. now \notin ended \cup {row.api_key_hash}
    BY <1>2, ApiKeysAssumption DEF Inv, TypeOK, ApiKeysAssumption
  <2>2. now # r.loaded.api_key_hash /\ now # r.loaded.api_key_created_at /\ now # Null
    BY <1>2, <1>6, ApiKeysAssumption DEF Past, ApiKeysAssumption
  <2>3. Past(r.loaded.api_key_hash)' /\ Past(r.loaded.api_key_created_at)'
    BY <1>1, <1>2, <1>6 DEF Past
  <2>4. now \in 1 .. now' - 1 /\ now # Unset
    BY <1>1, <1>2, ApiKeysAssumption DEF ApiKeysAssumption
  <2> QED
    BY <1>1, <1>3, <1>4, <2>1, <2>2, <2>3, <2>4 DEF InOrder, Issuing
<1>8. Issuing(r) => r.data.api_key_hash = now
  BY <1>3, <1>4 DEF Issuing
<1>9. \A v \in Workers : Issuing(req[v]) => req[v].data.api_key_hash # now
  BY <1>2 DEF Inv, RequestsInOrder, InOrder
<1>10. RequestsInOrder'
  <2>1. ASSUME NEW v \in Workers
        PROVE  InOrder(req[v])'
    <3>1. CASE v = w
      BY <1>5, <1>7, <3>1 DEF InOrder, Issuing, Past
    <3>2. CASE v # w
      <4>1. PICK old : old = req[v]
        OBVIOUS
      <4>2. InOrder(old)'
        BY <1>1, <4>1, TickKeeps DEF Inv, RequestsInOrder
      <4> QED
        BY <1>5, <3>2, <4>1, <4>2 DEF InOrder, Issuing, Past
    <3> QED
      BY <3>1, <3>2
  <2>2. \A u, v \in Workers : u # v /\ Issuing(req'[u]) /\ Issuing(req'[v]) =>
          req'[u].data.api_key_hash # req'[v].data.api_key_hash
    BY <1>5, <1>8, <1>9 DEF Inv, RequestsInOrder
  <2> QED
    BY <2>1, <2>2 DEF RequestsInOrder, Issuing
<1>11. TypeOK'
  BY <1>1, <1>4, TickKeeps DEF Inv, TypeOK
<1> QED
  BY <1>1, <1>10, <1>11, TickKeeps DEF Inv

LEMMA TickStep ==
  ASSUME Inv, Tick
  PROVE  Inv'
<1>1. now' = now + 1 /\ UNCHANGED <<row, req, ended>>
  BY DEF Tick
<1>2. RequestsInOrder'
  <2>1. ASSUME NEW v \in Workers
        PROVE  InOrder(req[v])'
    <3>1. PICK old : old = req[v]
      OBVIOUS
    <3>2. InOrder(old)'
      BY <1>1, <3>1, TickKeeps DEF Inv, RequestsInOrder
    <3> QED
      BY <1>1, <3>1, <3>2 DEF InOrder, Issuing, Past
  <2> QED
    BY <1>1, <2>1 DEF Inv, RequestsInOrder, Issuing
<1>3. TypeOK'
  BY <1>1, TickKeeps DEF Inv, TypeOK
<1> QED
  BY <1>1, <1>2, <1>3, TickKeeps DEF Inv

LEMMA CommitStep ==
  ASSUME Inv, NEW w \in Workers, Commit(w)
  PROVE  Inv'
<1> DEFINE r   == req[w]
           new == UOW!Flush(row, r.loaded, r.data)
<1>1. /\ r.pc = "commit" /\ row' = new /\ now' = now
      /\ req' = [req EXCEPT ![w] = Answered]
      /\ ended \subseteq ended' /\ ended' \subseteq ended \cup ({row.api_key_hash} \ {Null})
      /\ row.api_key_hash \in ended' \ ended =>
           new.api_key_hash # row.api_key_hash \/ new.api_key_revoked_at # Null
  BY DEF Commit
<1>2. InOrder(r)
  BY DEF Inv, RequestsInOrder
<1>3. /\ new \in Row
      /\ Issuing(r) => /\ new.api_key_hash = r.data.api_key_hash
                       /\ new.api_key_created_at = r.data.api_key_hash
      /\ ~ Issuing(r) => /\ new.api_key_hash = row.api_key_hash
                         /\ new.api_key_created_at = row.api_key_created_at
                         /\ row.api_key_revoked_at # Null => new.api_key_revoked_at # Null
  BY <1>1, <1>2, CommitWrites DEF Inv
<1> HIDE DEF new
<1>4. \A v \in Workers : req'[v] = IF v = w THEN Answered ELSE req[v]
  BY <1>1 DEF Inv, TypeOK
<1>5. now \in Nat \ {0}
  BY DEF Inv, TypeOK
<1>6. Issuing(r) => /\ r.data.api_key_hash \in 1 .. now - 1
                    /\ r.data.api_key_hash \notin ended \cup {row.api_key_hash}
  BY <1>2 DEF InOrder
<1>7. TypeOK'
  <2>1. new.api_key_hash # Null => /\ new.api_key_hash \in 1 .. now - 1
                                   /\ new.api_key_created_at # Null
    BY <1>3, <1>6, ApiKeysAssumption DEF Inv, TypeOK, ApiKeysAssumption
  <2>2. req' \in [Workers -> Request]
    BY <1>1, AnsweredType DEF Inv, TypeOK
  <2>3. ended' \subseteq 1 .. now - 1
    BY <1>1 DEF Inv, TypeOK
  <2> QED
    BY <1>1, <1>3, <1>5, <2>1, <2>2, <2>3 DEF TypeOK
<1>8. EndedIsRevoked'
  <2>1. CASE Issuing(r)
    BY <1>1, <1>3, <1>6, <2>1 DEF EndedIsRevoked
  <2>2. CASE ~ Issuing(r)
    BY <1>1, <1>3, <2>2 DEF Inv, EndedIsRevoked
  <2> QED
    BY <2>1, <2>2
<1>9. KeyHasItsDate'
  BY <1>1, <1>3 DEF Inv, KeyHasItsDate
<1>10. RequestsInOrder'
  <2>1. ASSUME NEW v \in Workers, v # w
        PROVE  InOrder(req[v])'
    <3>1. InOrder(req[v]) /\ req'[v] = req[v]
      BY <1>4, <2>1 DEF Inv, RequestsInOrder
    <3>2. Issuing(req[v]) => req[v].data.api_key_hash \notin ended' \cup {row'.api_key_hash}
      <4>1. SUFFICES ASSUME Issuing(req[v])
                     PROVE  /\ req[v].data.api_key_hash \notin ended \cup {row.api_key_hash}
                            /\ req[v].data.api_key_hash # new.api_key_hash
        <5>1. ended' \cup {row'.api_key_hash}
                \subseteq ended \cup {row.api_key_hash, new.api_key_hash}
          BY <1>1
        <5> QED
          BY <5>1
      <4>2. req[v].data.api_key_hash \notin ended \cup {row.api_key_hash}
        BY <3>1, <4>1 DEF InOrder
      <4>3. CASE Issuing(r)
        <5>1. req[v].data.api_key_hash # req[w].data.api_key_hash
          BY <2>1, <4>1, <4>3 DEF Inv, RequestsInOrder
        <5> QED
          BY <1>3, <4>2, <4>3, <5>1
      <4>4. CASE ~ Issuing(r)
        BY <1>3, <4>2, <4>4
      <4> QED
        BY <4>2, <4>3, <4>4
    <3> QED
      BY <1>1, <3>1, <3>2 DEF InOrder, Issuing, Past
  <2>2. InOrder(Answered)' /\ ~ Issuing(Answered)
    BY AnsweredType DEF InOrder, Issuing
  <2>3. \A v \in Workers : InOrder(req[v])'
    BY <1>4, <2>1, <2>2 DEF InOrder, Issuing, Past
  <2>4. \A u, v \in Workers : u # v /\ Issuing(req'[u]) /\ Issuing(req'[v]) =>
          req'[u].data.api_key_hash # req'[v].data.api_key_hash
    BY <1>4, <2>2 DEF Inv, RequestsInOrder
  <2> QED
    BY <2>3, <2>4 DEF RequestsInOrder, Issuing
<1>11. DateIsPast'
  BY <1>1, <1>3, <1>6 DEF Inv, DateIsPast, Past
<1> QED
  BY <1>7, <1>8, <1>9, <1>10, <1>11 DEF Inv

LEMMA InvStep ==
  ASSUME Inv, [Next]_vars
  PROVE  Inv'
<1>1. ASSUME NEW w \in Workers, IssueApiKey(w) \/ RevokeApiKey(w)
      PROVE  Inv'
  <2>1. PICK pc \in {"issue", "revoke"} : Load(w, pc, NoData)
    BY <1>1 DEF IssueApiKey, RevokeApiKey
  <2> QED
    BY <2>1, NoDataType, LoadStep DEF NoData
<1>2. ASSUME NEW w \in Workers, UpdateRole(w)
      PROVE  Inv'
  <2>1. PICK role \in Roles : Load(w, "commit", [NoData EXCEPT !.role = role])
    BY <1>2 DEF UpdateRole
  <2> DEFINE data == [NoData EXCEPT !.role = role]
  <2>2. data \in Data
    BY NoDataType DEF Data
  <2>3. /\ data.api_key_hash = Unset /\ data.api_key_created_at = Unset
        /\ data.api_key_revoked_at = Unset
    BY DEF NoData
  <2> HIDE DEF data
  <2>4. Load(w, "commit", data)
    BY <2>1 DEF data
  <2> QED
    BY <2>2, <2>3, <2>4, LoadStep
<1>3. CASE UNCHANGED vars
  BY <1>3 DEF vars, Inv, TypeOK, RequestsInOrder, InOrder, Issuing, Past,
              EndedIsRevoked, KeyHasItsDate, DateIsPast
<1> QED
  BY <1>1, <1>2, <1>3, AssignStep, CommitStep, TickStep DEF Next, Step

LEMMA InvHolds == Spec => []Inv
  BY InvInit, InvStep, PTL DEF Spec

-----------------------------------------------------------------------------
(* Theorems *)

\* Rows and requests are well typed, and every key there ever was is in the
\* past (services/api_keys.py).
THEOREM TypeCorrect == Spec => []TypeOK
  BY InvHolds, PTL DEF Inv

\* A key that was rotated out or revoked never authenticates again, although a
\* later issue lifts the revocation: it replaces the key in the same flush
\* (api_keys.issue, revoke).
THEOREM EndedKeysStayDead == Spec => []EndedKeyStaysDead
<1>1. Inv => EndedKeyStaysDead
  BY DEF Inv, EndedIsRevoked, EndedKeyStaysDead, Resolves, is_active
<1> QED
  BY <1>1, InvHolds, PTL

\* The date that decides expiry is that of the key stored (api_keys.is_expired).
THEOREM KeysHaveTheirDate == Spec => []KeyHasItsDate
  BY InvHolds, PTL DEF Inv

-----------------------------------------------------------------------------
(* What an issue did see *)

\* An issue is about to clear the revocation.
Lifts(r) == Issuing(r) => r.data.api_key_revoked_at = Null

IssuesLift == \A w \in Workers : Lifts(req[w])

LEMMA LiftStep ==
  ASSUME TypeOK, IssuesLift, [Next]_vars
  PROVE  IssuesLift'
<1>1. ASSUME NEW w \in Workers, NEW r, Lifts(r), req' = [req EXCEPT ![w] = r]
      PROVE  IssuesLift'
  <2>1. \A v \in Workers : req'[v] = IF v = w THEN r ELSE req[v]
    BY <1>1 DEF TypeOK
  <2> QED
    BY <1>1, <2>1 DEF IssuesLift, Lifts, Issuing
<1>2. ASSUME NEW w \in Workers, NEW pc \in {"revoke", "commit"}, NEW data,
             data.api_key_hash = Unset, Load(w, pc, data)
      PROVE  IssuesLift'
  <2>1. PICK r : r = [pc |-> pc, loaded |-> row, data |-> data]
    OBVIOUS
  <2>2. Lifts(r)
    BY <1>2, <2>1 DEF Lifts, Issuing
  <2> QED
    BY <1>1, <1>2, <2>1, <2>2 DEF Load
<1>3. ASSUME NEW w \in Workers, IssueApiKey(w)
      PROVE  IssuesLift'
  <2>1. PICK r : r = [pc |-> "issue", loaded |-> row, data |-> NoData]
    OBVIOUS
  <2>2. Lifts(r)
    BY <1>3, <2>1 DEF IssueApiKey, Lifts, Issuing
  <2> QED
    BY <1>1, <1>3, <2>1, <2>2 DEF IssueApiKey, Load
<1>4. ASSUME NEW w \in Workers, AssignKey(w)
      PROVE  IssuesLift'
  <2>1. PICK r : r = [req[w] EXCEPT !.pc = "commit", !.data = Issued(req[w].loaded)]
    OBVIOUS
  <2>2. r.data.api_key_revoked_at = Null
    <3>1. req[w] \in Request
      BY DEF TypeOK
    <3>2. Issued(req[w].loaded).api_key_revoked_at = Null
      BY DEF Issued, NoData
    <3> QED
      BY <2>1, <3>1, <3>2 DEF Request
  <2>3. Lifts(r)
    BY <2>2 DEF Lifts
  <2>4. req' = [req EXCEPT ![w] = r]
    BY <1>4, <2>1 DEF AssignKey, Assign, TypeOK
  <2> QED
    BY <1>1, <2>3, <2>4
<1>5. ASSUME NEW w \in Workers, AssignRevocation(w)
      PROVE  IssuesLift'
  <2>1. PICK r : r = [req[w] EXCEPT !.pc = "commit", !.data = Revoked]
    OBVIOUS
  <2>2. r.pc = "commit" /\ r.data.api_key_hash = Unset
    <3>1. req[w] \in Request
      BY DEF TypeOK
    <3>2. Revoked.api_key_hash = Unset
      BY DEF Revoked, NoData
    <3> QED
      BY <2>1, <3>1, <3>2 DEF Request
  <2>3. req' = [req EXCEPT ![w] = r]
    BY <1>5, <2>1 DEF AssignRevocation, Assign, TypeOK
  <2> QED
    BY <1>1, <2>2, <2>3 DEF Lifts, Issuing
<1>6. ASSUME NEW w \in Workers, Commit(w)
      PROVE  IssuesLift'
  BY <1>1, <1>6, AnsweredType DEF Commit, Lifts, Issuing
<1>7. ASSUME NEW w \in Workers, RevokeApiKey(w) \/ UpdateRole(w)
      PROVE  IssuesLift'
  <2>1. CASE RevokeApiKey(w)
    BY <1>2, <2>1 DEF RevokeApiKey, NoData
  <2>2. CASE UpdateRole(w)
    <3>1. PICK role \in Roles : Load(w, "commit", [NoData EXCEPT !.role = role])
      BY <2>2 DEF UpdateRole
    <3>2. [NoData EXCEPT !.role = role].api_key_hash = Unset
      BY DEF NoData
    <3> QED
      BY <1>2, <3>1, <3>2
  <2> QED
    BY <1>7, <2>1, <2>2
<1>8. CASE UNCHANGED req
  BY <1>8 DEF IssuesLift, Lifts, Issuing
<1> QED
  BY <1>3, <1>4, <1>5, <1>6, <1>7, <1>8 DEF Next, Step, Tick, vars

LEMMA IssuesLiftHolds == Spec => []IssuesLift
<1>1. Init => IssuesLift
  BY AnsweredType DEF Init, IssuesLift, Lifts, Issuing
<1>2. TypeOK /\ IssuesLift /\ [Next]_vars => IssuesLift'
  BY LiftStep
<1> QED
  BY <1>1, <1>2, TypeCorrect, PTL DEF Spec

\* The key is written by a commit, and by one that issues.
LEMMA IssuedCommits ==
  ASSUME Inv, [Next]_vars, NEW w \in Workers, IssuedBy(w)
  PROVE  /\ Issuing(req[w]) /\ Commit(w)
         /\ row' = UOW!Flush(row, req[w].loaded, req[w].data)
<1>1. PICK v \in Workers : Commit(v)
  <2>1. row' # row
    BY DEF IssuedBy
  <2> QED
    BY <2>1 DEF Next, Step, vars, IssueApiKey, RevokeApiKey, UpdateRole, Load,
                AssignKey, AssignRevocation, Assign, Tick
<1>2. /\ row' = UOW!Flush(row, req[v].loaded, req[v].data)
      /\ req[v].pc = "commit"
  BY <1>1 DEF Commit
<1>3. InOrder(req[v])
  BY DEF Inv, RequestsInOrder
<1>4. Issuing(req[v]) /\ row'.api_key_hash = req[v].data.api_key_hash
  BY <1>2, <1>3, CommitWrites DEF IssuedBy, Inv
<1>5. Issuing(req[w])
  BY <1>4 DEF IssuedBy, Issuing
<1>6. v = w
  BY <1>4, <1>5 DEF Inv, RequestsInOrder, IssuedBy
<1> QED
  BY <1>1, <1>2, <1>5, <1>6

\* A new key is dead on arrival only over a revocation that the issue had not
\* seen: is_modified compares with what was loaded (api_keys.issue).
THEOREM RevocationsAreLifted == Spec => BornRevokedByOverlap
<1>1. Inv /\ IssuesLift /\ [Next]_vars =>
        [\A w \in Workers : IssuedBy(w) /\ row'.api_key_revoked_at # Null =>
           req[w].loaded.api_key_revoked_at = Null]_vars
  <2> SUFFICES ASSUME Inv, IssuesLift, [Next]_vars, NEW w \in Workers, IssuedBy(w),
                      req[w].loaded.api_key_revoked_at # Null
               PROVE  row'.api_key_revoked_at = Null
    OBVIOUS
  <2>1. /\ Issuing(req[w]) /\ row' = UOW!Flush(row, req[w].loaded, req[w].data)
        /\ row \in Row /\ req[w].loaded \in Data
    BY IssuedCommits DEF Inv, TypeOK, Request
  <2>2. req[w].data.api_key_revoked_at = Null
    BY <2>1 DEF IssuesLift, Lifts
  <2> QED
    BY <2>1, <2>2, ApiKeysAssumption DEF ApiKeysAssumption, UOW!Flush, UOW!Dirty, Row, Data
<1> QED
  BY <1>1, InvHolds, IssuesLiftHolds, PTL DEF Spec, BornRevokedByOverlap
=============================================================================
