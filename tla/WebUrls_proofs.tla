--------------------------- MODULE WebUrls_proofs ---------------------------
(***************************************************************************)
(* Theorems about WebUrls, for any editors, inputs and requests at once.   *)
(* They do without Fairness.                                               *)
(***************************************************************************)
EXTENDS WebUrls, TLAPS

-----------------------------------------------------------------------------
(* Types *)

\* What parse_http_url lets through is in the form that is stored.
LEMMA ParsedType ==
  ASSUME NEW typed \in Inputs, parse_http_url(typed) # Null
  PROVE  parse_http_url(typed) \in Url
<1>1. typed \in Typed
  BY WebUrlsAssumption
<1>2. Scheme(typed) # "other" /\ typed.host # Null
  BY DEF parse_http_url
<1>3. Scheme(typed) \in {"http", "https"}
  BY <1>1, <1>2 DEF Scheme, Typed
<1>4. typed.host \in Hosts /\ typed.capital \in BOOLEAN /\ typed.port \in BOOLEAN
  BY <1>1, <1>2 DEF Typed
<1> QED
  BY <1>2, <1>3, <1>4 DEF parse_http_url, Url

\* What TypeOK says of one request
RequestOK(r) ==
  /\ r \in Request
  /\ r.began <= now
  /\ r.pc = "insert" => r.url # Null
  /\ r.before \subseteq 1 .. nextId - 1

LEMMA Facts ==
  ASSUME TypeOK
  PROVE  /\ nextId \in Nat \ {0} /\ now \in Nat
         /\ Listed \subseteq 1 .. nextId - 1 /\ Listed \subseteq Nat
         /\ web_urls \in [Listed -> Row]
         /\ \A w \in Workers : RequestOK(req[w])
BY DEF TypeOK, RequestOK

LEMMA AnsweredOK ==
  ASSUME TypeOK, NEW code \in {200, 201, 204, 404, 409, 422, 500}
  PROVE  RequestOK(Answered(code)) /\ Answered(code).pc = "idle"
<1>1. Answered(code) \in Request
  BY DEF Answered, Request
<1>2. /\ Answered(code).pc = "idle" /\ Answered(code).began = 0
      /\ Answered(code).before = {}
  BY DEF Answered
<1>3. 0 <= now
  BY Facts
<1> QED
  BY <1>1, <1>2, <1>3 DEF RequestOK

\* A request whose row is to be refreshed
Committed(id, code) == [Answered(code) EXCEPT !.pc = "refresh", !.id = id]

LEMMA CommittedType ==
  ASSUME NEW code \in {200, 201}, NEW id \in Nat, NEW r,
         r = [pc |-> "refresh", code |-> code, url |-> Null, id |-> id, loaded |-> Null,
              began |-> 0, ids |-> {}, before |-> {}]
  PROVE  r \in Request /\ r.pc = "refresh" /\ r.began = 0 /\ r.before = {}
BY DEF Request

LEMMA CommittedOK ==
  ASSUME TypeOK, NEW code \in {200, 201}, NEW id \in Nat
  PROVE  RequestOK(Committed(id, code)) /\ Committed(id, code).pc = "refresh"
<1>1. PICK r : r = Committed(id, code)
  OBVIOUS
<1>2. r = [pc |-> "refresh", code |-> code, url |-> Null, id |-> id, loaded |-> Null,
           began |-> 0, ids |-> {}, before |-> {}]
  BY <1>1 DEF Committed, Answered
<1>3. r \in Request /\ r.pc = "refresh" /\ r.began = 0 /\ r.before = {}
  BY <1>2, CommittedType
<1>4. 0 <= now
  BY Facts
<1>5. RequestOK(r)
  BY <1>3, <1>4 DEF RequestOK
<1> QED
  BY <1>1, <1>3, <1>5

\* The request a step leaves behind, which has written nothing itself
Began(r) ==
  /\ RequestOK(r)
  /\ r.pc = "commit all" => r.before \cap Listed \subseteq r.ids

\* Every request: what "view all" is about to write takes in what was listed when
\* it came and still is.
AllFound == \A w \in Workers : Began(req[w])

\* The URL table is in order, and its date marks are in the past.
TableOK ==
  /\ nextId \in Nat \ {0} /\ now \in Nat
  /\ Listed \subseteq 1 .. nextId - 1
  /\ web_urls \in [Listed -> Row]
  /\ \A i \in Listed : /\ web_urls[i].created_at <= now
                       /\ web_urls[i].last_viewed_at # Null =>
                            web_urls[i].last_viewed_at <= now

Inv == TypeOK /\ AllFound /\ UrlUnique

\* A step that leaves one request as r, and a table that has no old id anew
LEMMA RequestStep ==
  ASSUME Inv, NEW w \in Workers, NEW r, req' = [req EXCEPT ![w] = r], Began(r)',
         TableOK', UrlUnique', now' = now, nextId <= nextId',
         \A i \in Listed' \ Listed : i >= nextId
  PROVE  Inv'
<1>1. \A v \in Workers : req'[v] = IF v = w THEN r ELSE req[v]
  BY DEF Inv, TypeOK
<1>2. nextId \in Nat /\ nextId' \in Nat /\ Listed' \subseteq Nat
  BY DEF Inv, TypeOK, TableOK
<1>3. ASSUME NEW v \in Workers, v # w
      PROVE  Began(req[v])'
  <2>1. PICK old : old = req[v]
    OBVIOUS
  <2>2. Began(old) /\ req'[v] = old
    BY <1>1, <1>3, <2>1 DEF Inv, AllFound
  <2>3. old.before \subseteq 1 .. nextId - 1
    BY <2>2 DEF Began, RequestOK
  <2>4. old.before \subseteq 1 .. nextId' - 1
    BY <1>2, <2>3
  <2>5. RequestOK(old)'
    BY <2>2, <2>4 DEF Began, RequestOK
  <2>6. old.before \cap Listed' \subseteq Listed
    BY <1>2, <2>3
  <2>7. Began(old)'
    BY <2>2, <2>5, <2>6 DEF Began
  <2> QED
    BY <2>2, <2>7 DEF Began, RequestOK
<1>4. Began(req[w])'
  BY <1>1 DEF Began, RequestOK
<1>5. AllFound'
  BY <1>3, <1>4 DEF AllFound
<1>6. req' \in [Workers -> Request]
  <2>1. r \in Request
    BY DEF Began, RequestOK
  <2> QED
    BY <2>1 DEF Inv, TypeOK
<1>7. TypeOK'
  BY <1>5, <1>6 DEF TypeOK, TableOK, AllFound, Began, RequestOK
<1> QED
  BY <1>5, <1>7 DEF Inv

\* The same for a step that writes nothing
LEMMA ReadStep ==
  ASSUME Inv, NEW w \in Workers, NEW r, req' = [req EXCEPT ![w] = r], Began(r),
         UNCHANGED <<web_urls, nextId, now>>
  PROVE  Inv'
<1>1. Listed' = Listed
  BY DEF Listed
<1>2. Began(r)'
  BY <1>1 DEF Began, RequestOK
<1>3. TableOK' /\ UrlUnique' /\ nextId <= nextId'
  BY <1>1 DEF Inv, TypeOK, TableOK, UrlUnique
<1>4. \A i \in Listed' \ Listed : i >= nextId
  BY <1>1
<1>5. now' = now
  OBVIOUS
<1> QED
  BY <1>2, <1>3, <1>4, <1>5, RequestStep

\* What a request holds
LEMMA Fields ==
  ASSUME NEW r \in Request
  PROVE  /\ r.code \in {200, 201, 204, 404, 409, 422, 500} /\ r.id \in Nat /\ r.began \in Nat
         /\ r.url \in Url \cup {Null} /\ r.loaded \in Nat \cup {Null}
         /\ r.ids \subseteq Nat /\ r.before \subseteq Nat
<1>1. r.code \in {200, 201, 204, 404, 409, 422, 500} /\ r.id \in Nat
  BY ZenonT(60) DEF Request
<1>2. r.url \in Url \cup {Null} /\ r.loaded \in Nat \cup {Null}
  BY ZenonT(60) DEF Request
<1>3. r.began \in Nat /\ r.ids \in SUBSET Nat /\ r.before \in SUBSET Nat
  BY ZenonT(60) DEF Request
<1> QED
  BY <1>1, <1>2, <1>3

LEMMA BeganNat ==
  ASSUME TypeOK, NEW w \in Workers
  PROVE  req[w] \in Request /\ req[w].began \in Nat
<1>1. req[w] \in Request
  BY DEF TypeOK
<1> QED
  BY <1>1, Fields

\* "View all" once its UPDATE has found rows
FoundBy(old, ids) == [old EXCEPT !.pc = "commit all", !.ids = ids]

LEMMA FoundByOK ==
  ASSUME NEW old \in Request, NEW ids \in SUBSET Nat
  PROVE  LET r == FoundBy(old, ids)
         IN  /\ r \in Request /\ r.began = old.began /\ r.pc = "commit all"
             /\ r.before = old.before /\ r.ids = ids
<1>1. PICK r : r = FoundBy(old, ids)
  OBVIOUS
<1>2. r = [pc |-> "commit all", code |-> old.code, url |-> old.url, id |-> old.id,
           loaded |-> old.loaded, began |-> old.began, ids |-> ids,
           before |-> old.before]
  BY <1>1, ZenonT(60) DEF FoundBy, Request
<1>3. r \in Request
  <2>1. /\ old.code \in {200, 201, 204, 404, 409, 422, 500} /\ old.url \in Url \cup {Null}
        /\ old.id \in Nat /\ old.loaded \in Nat \cup {Null} /\ old.began \in Nat
        /\ old.before \in SUBSET Nat
    BY Fields
  <2>2. [pc |-> "commit all", code |-> old.code, url |-> old.url, id |-> old.id,
         loaded |-> old.loaded, began |-> old.began, ids |-> ids,
         before |-> old.before] \in Request
    BY <2>1, ZenonT(60) DEF Request
  <2> QED
    BY <1>2, <2>2
<1>4. /\ r.began = old.began /\ r.pc = "commit all" /\ r.before = old.before /\ r.ids = ids
  BY <1>2
<1> QED
  BY <1>1, <1>3, <1>4

LEMMA BeginsNow ==
  ASSUME now \in Nat, NEW r, r.began = now
  PROVE  r.began <= now
OBVIOUS

LEMMA Longer ==
  ASSUME NEW a \in Nat, NEW b \in Nat, a <= b
  PROVE  1 .. a - 1 \subseteq 1 .. b - 1
OBVIOUS

LEMMA InitInv == Init => Inv
<1> SUFFICES ASSUME Init PROVE Inv
  OBVIOUS
<1>1. Listed = {} /\ nextId = 1 /\ now = 1
  BY DEF Init, Listed
<1>2. Answered(200) \in Request /\ Answered(200).pc = "idle" /\ Answered(200).began = 0
      /\ Answered(200).before = {}
  BY DEF Answered, Request
<1>3. req \in [Workers -> Request] /\ \A w \in Workers : req[w] = Answered(200)
  BY <1>2 DEF Init
<1>4. TypeOK
  BY <1>1, <1>2, <1>3 DEF Init, Listed, TypeOK
<1>5. AllFound
  BY <1>1, <1>2, <1>3, <1>4, Facts DEF AllFound, Began
<1> QED
  BY <1>1, <1>4, <1>5 DEF Inv, UrlUnique

-----------------------------------------------------------------------------
(* Steps *)

LEMMA Answers ==
  ASSUME Inv, NEW w \in Workers, NEW code \in {200, 201, 204, 404, 409, 422, 500},
         Answer(w, code), UNCHANGED <<web_urls, nextId, now>>
  PROVE  Inv'
<1>1. PICK r : r = Answered(code)
  OBVIOUS
<1>2. TypeOK
  BY DEF Inv
<1>3. RequestOK(r) /\ r.pc = "idle"
  BY <1>1, <1>2, AnsweredOK
<1>4. Began(r)
  BY <1>3 DEF Began
<1>5. req' = [req EXCEPT ![w] = r]
  BY <1>1 DEF Answer
<1> QED
  BY <1>4, <1>5, ReadStep

\* A request that has begun
LEMMA Begins ==
  ASSUME Inv, NEW w \in Workers, NEW r \in Request, req' = [req EXCEPT ![w] = r],
         r.began = now, r.pc # "commit all", r.pc = "insert" => r.url # Null,
         r.before \subseteq Listed, UNCHANGED <<web_urls, nextId, now>>
  PROVE  Inv'
<1>1. now \in Nat /\ Listed \subseteq 1 .. nextId - 1
  BY Facts DEF Inv
<1>2. r.began <= now
  BY <1>1, BeginsNow
<1>3. r.before \subseteq 1 .. nextId - 1
  BY <1>1
<1>4. RequestOK(r)
  BY <1>2, <1>3 DEF RequestOK
<1>5. Began(r)
  BY <1>4 DEF Began
<1> QED
  BY <1>5, ReadStep

LEMMA StartStep ==
  ASSUME Inv, NEW w \in Workers, Start(w)
  PROVE  Inv'
<1>0. now \in Nat /\ nextId \in Nat /\ Listed \subseteq Nat
  BY Facts DEF Inv
<1>1. ASSUME NEW typed \in Inputs, CreateWebUrl(w, typed)
      PROVE  Inv'
  <2>1. PICK url : url = parse_http_url(typed)
    OBVIOUS
  <2>2. UNCHANGED <<web_urls, nextId, now>>
    BY <1>1 DEF CreateWebUrl
  <2>3. CASE Answer(w, 422)
    BY <2>2, <2>3, Answers
  <2>4. CASE Answer(w, 409)
    BY <2>2, <2>4, Answers
  <2>5. CASE /\ url # Null
             /\ req' = [req EXCEPT ![w] = [Begun EXCEPT !.pc = "insert", !.url = url]]
    <3>1. PICK r : r = [Begun EXCEPT !.pc = "insert", !.url = url]
      OBVIOUS
    <3>2. url \in Url
      BY <2>1, <2>5, ParsedType
    <3>3. r = [pc |-> "insert", code |-> 200, url |-> url, id |-> 0,
               loaded |-> Null, began |-> now, ids |-> {}, before |-> {}]
      BY <3>1 DEF Begun, Answered
    <3>4. r \in Request /\ r.began = now /\ r.pc = "insert" /\ r.before = {} /\ r.url = url
      BY <1>0, <3>2, <3>3 DEF Request
    <3>5. req' = [req EXCEPT ![w] = r]
      BY <2>5, <3>1
    <3> QED
      BY <2>2, <2>5, <3>4, <3>5, Begins
  <2> QED
    BY <1>1, <2>1, <2>3, <2>4, <2>5 DEF CreateWebUrl
<1>2. ASSUME NEW id \in 1 .. nextId, MarkViewed(w, id)
      PROVE  Inv'
  <2>1. UNCHANGED <<web_urls, nextId, now>>
    BY <1>2 DEF MarkViewed
  <2>2. CASE Answer(w, 404)
    BY <2>1, <2>2, Answers
  <2>3. CASE /\ id \in Listed
             /\ req' = [req EXCEPT ![w] = [Begun EXCEPT !.pc = "view", !.id = id,
                                             !.loaded = web_urls[id].last_viewed_at]]
    <3>1. PICK r : r = [Begun EXCEPT !.pc = "view", !.id = id,
                                     !.loaded = web_urls[id].last_viewed_at]
      OBVIOUS
    <3>2. id \in Nat /\ web_urls[id].last_viewed_at \in Nat \cup {Null}
      BY <2>3, Facts DEF Inv, Row
    <3>3. r = [pc |-> "view", code |-> 200, url |-> Null, id |-> id,
               loaded |-> web_urls[id].last_viewed_at, began |-> now, ids |-> {}, before |-> {}]
      BY <3>1 DEF Begun, Answered
    <3>4. r \in Request /\ r.began = now /\ r.pc = "view" /\ r.before = {}
      BY <1>0, <3>2, <3>3 DEF Request
    <3> QED
      BY <2>1, <2>3, <3>1, <3>4, Begins
  <2> QED
    BY <1>2, <2>2, <2>3 DEF MarkViewed
<1>3. ASSUME NEW id \in 1 .. nextId, DeleteWebUrl(w, id)
      PROVE  Inv'
  <2>1. UNCHANGED <<web_urls, nextId, now>>
    BY <1>3 DEF DeleteWebUrl
  <2>2. CASE Answer(w, 404)
    BY <2>1, <2>2, Answers
  <2>3. CASE req' = [req EXCEPT ![w] = [Begun EXCEPT !.pc = "delete", !.id = id]]
    <3>1. PICK r : r = [Begun EXCEPT !.pc = "delete", !.id = id]
      OBVIOUS
    <3>2. id \in Nat
      BY <1>0
    <3>3. r = [pc |-> "delete", code |-> 200, url |-> Null, id |-> id,
               loaded |-> Null, began |-> now, ids |-> {}, before |-> {}]
      BY <3>1 DEF Begun, Answered
    <3>4. r \in Request /\ r.began = now /\ r.pc = "delete" /\ r.before = {}
      BY <1>0, <3>2, <3>3 DEF Request
    <3> QED
      BY <2>1, <2>3, <3>1, <3>4, Begins
  <2> QED
    BY <1>3, <2>2, <2>3 DEF DeleteWebUrl
<1>4. CASE MarkAllViewed(w)
  <2>1. PICK r : r = [Begun EXCEPT !.pc = "update all", !.before = Listed]
    OBVIOUS
  <2>2. req' = [req EXCEPT ![w] = r] /\ UNCHANGED <<web_urls, nextId, now>>
    BY <1>4, <2>1 DEF MarkAllViewed
  <2>3. r = [pc |-> "update all", code |-> 200, url |-> Null, id |-> 0,
             loaded |-> Null, began |-> now, ids |-> {}, before |-> Listed]
    BY <2>1 DEF Begun, Answered
  <2>4. r \in Request /\ r.began = now /\ r.pc = "update all" /\ r.before = Listed
    BY <1>0, <2>2, <2>3 DEF Request
  <2> QED
    BY <2>2, <2>4, Begins
<1> QED
  BY <1>1, <1>2, <1>3, <1>4 DEF Start

\* A commit leaves the table in order.
LEMMA TableStep ==
  ASSUME Inv, NEW w \in Workers,
         Insert(w) \/ CommitView(w) \/ CommitAll(w) \/ CommitDelete(w)
  PROVE  /\ TableOK' /\ UrlUnique' /\ nextId <= nextId' /\ now' = now
         /\ \A i \in Listed' \ Listed : i >= nextId
<1>1. /\ nextId \in Nat \ {0} /\ now \in Nat /\ Listed \subseteq 1 .. nextId - 1
      /\ web_urls \in [Listed -> Row] /\ RequestOK(req[w]) /\ TableOK
  BY Facts DEF Inv, TypeOK, TableOK
<1>2. req[w].began \in Nat /\ req[w].began <= now
  BY <1>1, BeganNat DEF RequestOK, Inv
<1>3. now' = now
  BY DEF Insert, CommitView, CommitAll, CommitDelete
<1>4. CASE UNCHANGED web_urls /\ (nextId' = nextId \/ nextId' = nextId + 1)
  <2>1. Listed' = Listed /\ nextId' \in Nat \ {0} /\ nextId <= nextId'
    BY <1>1, <1>4 DEF Listed
  <2>2. Listed' \subseteq 1 .. nextId' - 1
    <3>1. 1 .. nextId - 1 \subseteq 1 .. nextId' - 1
      BY <1>1, <2>1, Longer
    <3> QED
      BY <1>1, <2>1, <3>1
  <2>3. TableOK'
    BY <1>1, <1>3, <1>4, <2>1, <2>2 DEF TableOK
  <2>4. UrlUnique'
    BY <1>4, <2>1 DEF Inv, UrlUnique
  <2> QED
    BY <1>3, <2>1, <2>3, <2>4
<1>5. CASE Insert(w) /\ ~ UniqueRefuses(req[w].url)
  <2> DEFINE row == [url |-> req[w].url, last_viewed_at |-> Null, created_at |-> req[w].began]
  <2>1. /\ nextId' = nextId + 1
        /\ web_urls' = [i \in Listed \cup {nextId} |->
                          IF i = nextId THEN row ELSE web_urls[i]]
    BY <1>5 DEF Insert
  <2>2. row \in Row
    <3>1. req[w].url \in Url \cup {Null} /\ req[w].url # Null
      BY <1>1, <1>5, Fields DEF Insert, RequestOK
    <3> QED
      BY <1>2, <3>1 DEF Row
  <2>3. row.last_viewed_at = Null /\ row.created_at = req[w].began /\ row.url = req[w].url
    OBVIOUS
  <2> HIDE DEF row
  <2>4. Listed' = Listed \cup {nextId} /\ web_urls' \in [Listed' -> Row]
    BY <1>1, <2>1, <2>2 DEF Listed
  <2>5. \A i \in Listed' : web_urls'[i] = IF i = nextId THEN row ELSE web_urls[i]
    BY <2>1, <2>4
  <2>6. nextId \notin Listed
    BY <1>1
  <2>7. TableOK'
    <3>1. Listed' \subseteq 1 .. nextId' - 1
      BY <1>1, <2>1, <2>4
    <3>2. \A i \in Listed' : /\ web_urls'[i].created_at <= now
                             /\ web_urls'[i].last_viewed_at # Null =>
                                  web_urls'[i].last_viewed_at <= now
      BY <1>1, <1>2, <2>3, <2>4, <2>5 DEF TableOK
    <3> QED
      BY <1>1, <1>3, <2>1, <2>4, <3>1, <3>2 DEF TableOK
  <2>8. UrlUnique'
    <3>1. \A i \in Listed : web_urls[i].url # req[w].url
      BY <1>5 DEF UniqueRefuses, ByUrl
    <3> QED
      BY <2>3, <2>4, <2>5, <2>6, <3>1 DEF Inv, UrlUnique
  <2> QED
    BY <1>1, <1>3, <2>1, <2>4, <2>7, <2>8
<1>6. CASE CommitView(w) \/ CommitAll(w)
  <2>1. /\ nextId' = nextId /\ Listed' = Listed /\ web_urls' \in [Listed -> Row]
        /\ \A i \in Listed :
             \/ web_urls'[i] = web_urls[i]
             \/ web_urls'[i] = [web_urls[i] EXCEPT !.last_viewed_at = req[w].began]
    <3>1. CASE CommitView(w)
      BY <1>1, <1>2, <3>1 DEF CommitView, Listed, Row
    <3>2. CASE CommitAll(w)
      BY <1>1, <1>2, <3>2 DEF CommitAll, Listed, Row
    <3> QED
      BY <1>6, <3>1, <3>2
  <2>2. \A i \in Listed :
          /\ web_urls'[i].url = web_urls[i].url
          /\ web_urls'[i].created_at = web_urls[i].created_at
          /\ \/ web_urls'[i].last_viewed_at = web_urls[i].last_viewed_at
             \/ web_urls'[i].last_viewed_at = req[w].began
    BY <1>1, <2>1 DEF Row
  <2>3. TableOK'
    BY <1>1, <1>2, <1>3, <2>1, <2>2 DEF TableOK
  <2>4. UrlUnique'
    BY <2>1, <2>2 DEF Inv, UrlUnique
  <2> QED
    BY <1>1, <1>3, <2>1, <2>3, <2>4
<1>7. CASE CommitDelete(w)
  <2>1. /\ nextId' = nextId /\ Listed' = Listed \ {req[w].id}
        /\ \A i \in Listed' : web_urls'[i] = web_urls[i]
        /\ web_urls' \in [Listed' -> Row]
    BY <1>1, <1>7 DEF CommitDelete, Listed
  <2>2. TableOK'
    BY <1>1, <1>3, <2>1 DEF TableOK
  <2>3. UrlUnique'
    BY <2>1 DEF Inv, UrlUnique
  <2> QED
    BY <1>1, <1>3, <2>1, <2>2, <2>3
<1>8. CASE Insert(w) /\ UniqueRefuses(req[w].url)
  BY <1>4, <1>8 DEF Insert
<1> QED
  BY <1>5, <1>6, <1>7, <1>8

\* The step of a request that wrote: it has no UPDATE to come.
Left(w) == \E r : req' = [req EXCEPT ![w] = r] /\ RequestOK(r) /\ r.pc # "commit all"

LEMMA ContinueStep ==
  ASSUME Inv, NEW w \in Workers, Continue(w)
  PROVE  Inv'
<1>1. RequestOK(req[w]) /\ req \in [Workers -> Request] /\ req[w].id \in Nat
  <2>1. RequestOK(req[w]) /\ req \in [Workers -> Request]
    BY Facts DEF Inv, TypeOK
  <2> QED
    BY <2>1, Fields DEF RequestOK
<1>2. CASE Refresh(w)
  <2>1. req[w].code \in {200, 201, 204, 404, 409, 422, 500}
    BY <1>1, Fields DEF RequestOK
  <2>2. CASE req[w].id \in Listed
    <3>1. PICK code : code = req[w].code
      OBVIOUS
    <3> QED
      BY <1>2, <2>1, <2>2, <3>1, Answers DEF Refresh
  <2>3. CASE req[w].id \notin Listed
    BY <1>2, <2>3, Answers DEF Refresh
  <2> QED
    BY <2>2, <2>3
<1>3. CASE UpdateAll(w)
  <2>1. PICK r : r = [req[w] EXCEPT !.pc = "commit all", !.ids = Found]
    OBVIOUS
  <2>2. req' = [req EXCEPT ![w] = r] /\ UNCHANGED <<web_urls, nextId, now>>
    BY <1>1, <1>3, <2>1 DEF UpdateAll
  <2>3. Found = Listed /\ Listed \subseteq Nat
    BY Facts DEF Inv, Found
  <2>4. /\ r \in Request /\ r.began = req[w].began /\ r.pc = "commit all"
        /\ r.before = req[w].before /\ r.ids = Listed
    <3>1. PICK old, ids : old = req[w] /\ ids = Listed
      OBVIOUS
    <3>2. old \in Request /\ ids \in SUBSET Nat
      BY <1>1, <2>3, <3>1 DEF RequestOK
    <3>3. r = FoundBy(old, ids)
      BY <2>1, <2>3, <3>1 DEF FoundBy
    <3>4. /\ r \in Request /\ r.began = old.began /\ r.pc = "commit all"
          /\ r.before = old.before /\ r.ids = ids
      BY <3>2, <3>3, FoundByOK
    <3> QED
      BY <3>1, <3>4
  <2>5. RequestOK(r)
    BY <1>1, <2>4 DEF RequestOK
  <2>6. Began(r)
    BY <2>4, <2>5 DEF Began
  <2> QED
    BY <2>2, <2>6, ReadStep
<1>4. CASE Insert(w) \/ CommitView(w) \/ CommitAll(w) \/ CommitDelete(w)
  <2>1. /\ TableOK' /\ UrlUnique' /\ nextId <= nextId' /\ now' = now
        /\ \A i \in Listed' \ Listed : i >= nextId
    BY <1>4, TableStep
  <2>2. TypeOK
    BY DEF Inv
  <2>3. nextId \in Nat /\ nextId' \in Nat
    BY <2>2, <2>1, Facts DEF TableOK
  <2>4. Left(w)
    <3>1. ASSUME NEW code \in {200, 204, 500}, Answer(w, code)
          PROVE  Left(w)
      <4>1. RequestOK(Answered(code)) /\ Answered(code).pc = "idle"
        BY <2>2, AnsweredOK
      <4>2. Answered(code).pc # "commit all"
        BY <4>1
      <4>3. req' = [req EXCEPT ![w] = Answered(code)]
        BY <3>1 DEF Answer
      <4> QED
        BY <4>1, <4>2, <4>3 DEF Left
    <3>2. ASSUME NEW code \in {200, 201}, NEW id \in Nat, AfterCommit(w, id, code)
          PROVE  Left(w)
      <4>1. RequestOK(Committed(id, code)) /\ Committed(id, code).pc = "refresh"
        BY <2>2, CommittedOK
      <4>2. Committed(id, code).pc # "commit all"
        BY <4>1
      <4>3. req' = [req EXCEPT ![w] = Committed(id, code)]
        BY <3>2 DEF AfterCommit, Committed
      <4> QED
        BY <4>1, <4>2, <4>3 DEF Left
    <3>3. CASE Insert(w)
      <4>1. Answer(w, 500) \/ AfterCommit(w, nextId, 201)
        BY <3>3 DEF Insert
      <4>2. CASE Answer(w, 500)
        BY <3>1, <4>2
      <4>3. CASE AfterCommit(w, nextId, 201)
        <5>1. PICK id \in Nat : id = nextId
          BY <2>3
        <5>2. PICK code \in {200, 201} : code = 201
          OBVIOUS
        <5>3. AfterCommit(w, id, code)
          BY <4>3, <5>1, <5>2 DEF AfterCommit
        <5> QED
          BY <3>2, <5>3
      <4> QED
        BY <4>1, <4>2, <4>3
    <3>4. CASE CommitView(w)
      <4>1. Answer(w, 500) \/ AfterCommit(w, req[w].id, 200)
        BY <3>4 DEF CommitView
      <4>2. CASE Answer(w, 500)
        BY <3>1, <4>2
      <4>3. CASE AfterCommit(w, req[w].id, 200)
        <5>1. PICK id \in Nat : id = req[w].id
          BY <1>1
        <5>2. PICK code \in {200, 201} : code = 200
          OBVIOUS
        <5>3. AfterCommit(w, id, code)
          BY <4>3, <5>1, <5>2 DEF AfterCommit
        <5> QED
          BY <3>2, <5>3
      <4> QED
        BY <4>1, <4>2, <4>3
    <3>5. CASE CommitAll(w) \/ CommitDelete(w)
      <4>1. Answer(w, 200) \/ Answer(w, 204)
        BY <3>5 DEF CommitAll, CommitDelete
      <4> QED
        BY <3>1, <4>1
    <3> QED
      BY <1>4, <3>3, <3>4, <3>5
  <2>5. PICK r : req' = [req EXCEPT ![w] = r] /\ RequestOK(r) /\ r.pc # "commit all"
    BY <2>4 DEF Left
  <2>6. r.before \subseteq 1 .. nextId - 1
    BY <2>5 DEF RequestOK
  <2>7. r.before \subseteq 1 .. nextId' - 1
    <3>1. 1 .. nextId - 1 \subseteq 1 .. nextId' - 1
      BY <2>1, <2>3, Longer
    <3> QED
      BY <2>6, <3>1
  <2>8. Began(r)'
    BY <2>1, <2>5, <2>7 DEF Began, RequestOK
  <2> QED
    BY <2>1, <2>5, <2>8, RequestStep
<1> QED
  BY <1>2, <1>3, <1>4 DEF Continue

LEMMA InvStep == Inv /\ [Next]_vars => Inv'
<1> SUFFICES ASSUME Inv, [Next]_vars PROVE Inv'
  OBVIOUS
<1>1. CASE Tick
  <2>1. now \in Nat /\ now' = now + 1 /\ UNCHANGED <<web_urls, nextId, req>> /\ Listed' = Listed
    BY <1>1, Facts DEF Inv, Tick, Listed
  <2>2. \A w \in Workers : RequestOK(req[w]) /\ req[w].began \in Nat
    BY Facts, Fields DEF Inv, RequestOK
  <2>3. \A i \in Listed : /\ web_urls[i].created_at \in Nat
                          /\ web_urls[i].last_viewed_at \in Nat \cup {Null}
    BY Facts DEF Inv, Row
  <2>4. TypeOK'
    BY <2>1, <2>2, <2>3 DEF Inv, TypeOK
  <2>5. ASSUME NEW w \in Workers
        PROVE  Began(req[w])'
    <3>1. req'[w] = req[w] /\ RequestOK(req[w]) /\ Began(req[w])
      BY <2>1, <2>2 DEF Inv, AllFound
    <3>2. req[w].began <= now'
      BY <2>1, <2>2, <3>1 DEF RequestOK
    <3>3. RequestOK(req[w])'
      BY <2>1, <3>1, <3>2 DEF RequestOK
    <3> QED
      BY <2>1, <3>1, <3>3 DEF Began
  <2> QED
    BY <2>1, <2>4, <2>5 DEF Inv, UrlUnique, AllFound
<1>2. CASE UNCHANGED vars
  BY <1>2 DEF vars, Inv, TypeOK, AllFound, Began, RequestOK, UrlUnique, Listed
<1> QED
  BY <1>1, <1>2, StartStep, ContinueStep DEF Next

\* A request moves no other.
LEMMA OwnStep ==
  ASSUME req \in [Workers -> Request], NEW v \in Workers, Start(v) \/ Continue(v),
         NEW w \in Workers, req'[w].pc # req[w].pc
  PROVE  v = w
<1> SUFFICES ASSUME v # w PROVE req'[w] = req[w]
  OBVIOUS
<1>1. ASSUME NEW typed \in Inputs, CreateWebUrl(v, typed)
      PROVE  req'[w] = req[w]
  BY <1>1 DEF CreateWebUrl, Answer
<1>2. ASSUME NEW id \in 1 .. nextId, MarkViewed(v, id) \/ DeleteWebUrl(v, id)
      PROVE  req'[w] = req[w]
  BY <1>2 DEF MarkViewed, DeleteWebUrl, Answer
<1>3. CASE MarkAllViewed(v) \/ UpdateAll(v) \/ CommitAll(v) \/ CommitDelete(v) \/ Refresh(v)
  BY <1>3 DEF MarkAllViewed, UpdateAll, CommitAll, CommitDelete, Refresh, Answer
<1>4. CASE Insert(v)
  BY <1>4 DEF Insert, Answer, AfterCommit
<1>5. CASE CommitView(v)
  BY <1>5 DEF CommitView, Answer, AfterCommit
<1> QED
  BY <1>1, <1>2, <1>3, <1>4, <1>5 DEF Start, Continue

LEMMA InvHolds == Spec => []Inv
BY InitInv, InvStep, PTL DEF Spec

-----------------------------------------------------------------------------
(* Theorems *)

\* What is stored was parsed, ids come from the sequence, no date is ahead of the
\* clock (services/web_urls.py).
THEOREM TypeCorrect == Spec => []TypeOK
<1>1. Inv => TypeOK
  BY DEF Inv
<1> QED
  BY <1>1, InvHolds, PTL

\* No URL is listed twice, however many editors add it at once (WebUrl.url).
THEOREM UrlsStayUnique == Spec => []UrlUnique
<1>1. Inv => UrlUnique
  BY DEF Inv
<1> QED
  BY <1>1, InvHolds, PTL

\* An answered "view all" leaves nothing unviewed that was listed when it came and
\* still is (web_urls.mark_all_viewed): its UPDATE finds all of that.
THEOREM AllAreViewed == Spec => AllViewed
<1>1. Inv /\ [Next]_vars =>
        [\A w \in Workers :
           req[w].pc = "commit all" /\ req'[w].pc = "idle" =>
             \A i \in req[w].before \cap Listed' : web_urls'[i].last_viewed_at # Null]_vars
  <2> SUFFICES ASSUME Inv, Next, NEW w \in Workers,
                      req[w].pc = "commit all", req'[w].pc = "idle",
                      NEW i \in req[w].before \cap Listed'
               PROVE  web_urls'[i].last_viewed_at # Null
    BY DEF vars
  <2>1. req \in [Workers -> Request]
    BY DEF Inv, TypeOK
  <2>2. ~ Tick
    BY DEF Tick
  <2>3. PICK v \in Workers : Start(v) \/ Continue(v)
    BY <2>2 DEF Next
  <2>4. v = w
    BY <2>1, <2>3, OwnStep
  <2>5. CommitAll(w)
    BY <2>3, <2>4
       DEF Start, CreateWebUrl, MarkViewed, DeleteWebUrl, MarkAllViewed, Ready, Continue,
           Insert, CommitView, Refresh, UpdateAll, CommitDelete
  <2>6. Listed' = Listed /\ web_urls \in [Listed -> Row]
    BY <2>5, Facts DEF CommitAll, Listed, Inv
  <2>7. i \in req[w].ids
    BY <2>6 DEF Inv, AllFound, Began
  <2>8. web_urls'[i] = [web_urls[i] EXCEPT !.last_viewed_at = req[w].began]
    BY <2>5, <2>6, <2>7 DEF CommitAll
  <2>9. web_urls'[i].last_viewed_at = req[w].began
    BY <2>6, <2>8 DEF Row
  <2>10. req[w].began \in Nat
    <3>1. TypeOK
      BY DEF Inv
    <3> QED
      BY <3>1, BeganNat
  <2> QED
    BY <2>9, <2>10, WebUrlsAssumption
<1> QED
  BY <1>1, InvHolds, PTL DEF Spec, AllViewed

\* Nothing that was viewed is unviewed again, and no deleted URL comes back with
\* a view that was under way (web_urls.mark_viewed).
THEOREM NothingComesBack == Spec => NothingReturns
<1>1. Inv /\ [Next]_vars =>
        [/\ \A i \in Listed \cap Listed' :
              web_urls[i].last_viewed_at # Null => web_urls'[i].last_viewed_at # Null
         /\ \A i \in Listed' \ Listed : i >= nextId]_vars
  <2> SUFFICES ASSUME Inv, Next
               PROVE  /\ \A i \in Listed \cap Listed' :
                           web_urls[i].last_viewed_at # Null =>
                             web_urls'[i].last_viewed_at # Null
                      /\ \A i \in Listed' \ Listed : i >= nextId
    OBVIOUS
  <2>1. CASE UNCHANGED web_urls
    BY <2>1 DEF Listed
  <2>2. ASSUME NEW w \in Workers,
               Insert(w) \/ CommitView(w) \/ CommitAll(w) \/ CommitDelete(w)
        PROVE  /\ \A i \in Listed \cap Listed' :
                    \/ web_urls'[i].last_viewed_at = web_urls[i].last_viewed_at
                    \/ web_urls'[i].last_viewed_at # Null
               /\ \A i \in Listed' \ Listed : i >= nextId
    <3>1. \A i \in Listed' \ Listed : i >= nextId
      BY <2>2, TableStep
    <3>2. /\ web_urls \in [Listed -> Row] /\ nextId \notin Listed
          /\ req[w].began \in Nat /\ req[w].began # Null
      <4>1. req[w].began \in Nat
        BY BeganNat DEF Inv
      <4>2. nextId \notin Listed /\ web_urls \in [Listed -> Row]
        BY Facts DEF Inv
      <4> QED
        BY <4>1, <4>2, WebUrlsAssumption
    <3>3. CASE Insert(w)
      BY <3>2, <3>3, <3>1 DEF Insert, Listed
    <3>4. CASE CommitView(w)
      BY <3>1, <3>2, <3>4 DEF CommitView, Listed, Row
    <3>5. CASE CommitAll(w)
      BY <3>1, <3>2, <3>5 DEF CommitAll, Listed, Row
    <3>6. CASE CommitDelete(w)
      BY <3>1, <3>2, <3>6 DEF CommitDelete, Listed
    <3> QED
      BY <2>2, <3>3, <3>4, <3>5, <3>6
  <2>3. ASSUME NEW w \in Workers, Start(w) \/ Refresh(w) \/ UpdateAll(w)
        PROVE  UNCHANGED web_urls
    BY <2>3 DEF Start, CreateWebUrl, MarkViewed, DeleteWebUrl, MarkAllViewed, Refresh, UpdateAll
  <2> QED
    BY <2>1, <2>2, <2>3 DEF Next, Tick, Continue
<1> QED
  BY <1>1, InvHolds, PTL DEF Spec, NothingReturns

-----------------------------------------------------------------------------
(* One request at a time *)

\* A viewed URL is never dated back.
ViewsGoForward ==
  [][\A i \in Listed \cap Listed' :
       web_urls[i].last_viewed_at # Null =>
         web_urls'[i].last_viewed_at >= web_urls[i].last_viewed_at]_vars

Viewing(r) == r.pc \in {"view", "update all", "commit all"}

\* A request that is about to date rows took its stamp after every date there is.
Latest ==
  \A w \in Workers : Viewing(req[w]) =>
    \A i \in Listed : web_urls[i].last_viewed_at # Null =>
                         web_urls[i].last_viewed_at <= req[w].began

LEMMA LatestStep ==
  ASSUME TypeOK, Latest, NEW w, Workers = {w}, [Next]_vars
  PROVE  Latest'
<1>0. w \in Workers /\ req \in [Workers -> Request] /\ now \in Nat
  BY DEF TypeOK
<1>1. ASSUME UNCHANGED web_urls, req'[w] = req[w] \/ ~ Viewing(req'[w]) \/ req'[w].began = now
             \/ (Viewing(req[w]) /\ req'[w].began = req[w].began)
      PROVE  Latest'
  BY <1>0, <1>1 DEF Latest, Listed, TypeOK
<1>2. ASSUME ~ Viewing(req'[w])
      PROVE  Latest'
  BY <1>2 DEF Latest
<1>3. ASSUME NEW code, Answer(w, code)
      PROVE  ~ Viewing(req'[w])
  BY <1>0, <1>3 DEF Answer, Answered, Viewing
<1>4. ASSUME NEW id, NEW code, AfterCommit(w, id, code)
      PROVE  ~ Viewing(req'[w])
  BY <1>0, <1>4 DEF AfterCommit, Answered, Viewing
<1>5. ASSUME NEW typed, CreateWebUrl(w, typed)
      PROVE  Latest'
  <2>1. CASE req' = [req EXCEPT ![w] = [Begun EXCEPT !.pc = "insert", !.url = parse_http_url(typed)]]
    BY <1>0, <1>2, <2>1 DEF Begun, Answered, Viewing
  <2> QED
    BY <1>2, <1>3, <1>5, <2>1 DEF CreateWebUrl
<1>6. ASSUME NEW id, MarkViewed(w, id) \/ DeleteWebUrl(w, id)
      PROVE  Latest'
  <2>1. UNCHANGED web_urls
    BY <1>6 DEF MarkViewed, DeleteWebUrl
  <2>2. CASE req' = [req EXCEPT ![w] = [Begun EXCEPT !.pc = "delete", !.id = id]]
    BY <1>0, <1>2, <2>2 DEF Begun, Answered, Viewing
  <2>3. CASE req' = [req EXCEPT ![w] = [Begun EXCEPT !.pc = "view", !.id = id,
                                                     !.loaded = web_urls[id].last_viewed_at]]
    <3>1. req'[w].began = now
      BY <1>0, <2>3 DEF Begun, Answered
    <3> QED
      BY <1>1, <2>1, <3>1
  <2> QED
    BY <1>2, <1>3, <1>6, <2>2, <2>3 DEF MarkViewed, DeleteWebUrl
<1>7. CASE MarkAllViewed(w)
  <2>1. UNCHANGED web_urls /\ req'[w].began = now
    BY <1>0, <1>7 DEF MarkAllViewed, Begun, Answered
  <2> QED
    BY <1>1, <2>1
<1>8. CASE UpdateAll(w)
  <2>1. UNCHANGED web_urls /\ Viewing(req[w])
    BY <1>8 DEF UpdateAll, Viewing
  <2>2. req' = [req EXCEPT ![w].pc = "commit all", ![w].ids = Found]
    BY <1>8 DEF UpdateAll
  <2>3. req'[w].began = req[w].began
    <3>1. req[w] \in Request
      BY <1>0
    <3>2. req'[w] = [req[w] EXCEPT !.pc = "commit all", !.ids = Found]
      BY <1>0, <2>2
    <3> QED
      BY <3>1, <3>2, ZenonT(60) DEF Request
  <2> QED
    BY <1>1, <2>1, <2>3
<1>9. CASE Insert(w) \/ CommitView(w) \/ CommitAll(w) \/ CommitDelete(w) \/ Refresh(w)
  <2> SUFFICES ~ Viewing(req'[w])
    BY <1>2
  <2>1. CASE Insert(w)
    BY <1>3, <1>4, <2>1 DEF Insert
  <2>2. CASE CommitView(w)
    BY <1>3, <1>4, <2>2 DEF CommitView
  <2>3. CASE CommitAll(w) \/ CommitDelete(w) \/ Refresh(w)
    BY <1>3, <2>3 DEF CommitAll, CommitDelete, Refresh
  <2> QED
    BY <1>9, <2>1, <2>2, <2>3
<1>10. CASE Tick \/ UNCHANGED vars
  <2>1. UNCHANGED web_urls /\ req' = req
    BY <1>10 DEF Tick, vars
  <2> QED
    BY <1>1, <2>1
<1> QED
  BY <1>5, <1>6, <1>7, <1>8, <1>9, <1>10 DEF Next, Start, Continue

\* If no two requests overlap, the date of a viewed URL only moves forward: that
\* it can go back otherwise is all there is to the stamp that is taken before the
\* commit (web_urls.py:101 and 109).
THEOREM AloneViewsGoForward ==
  ASSUME NEW w, Workers = {w}
  PROVE  Spec => ViewsGoForward
<1> DEFINE Forward ==
      \A i \in Listed \cap Listed' :
        web_urls[i].last_viewed_at # Null =>
          web_urls'[i].last_viewed_at >= web_urls[i].last_viewed_at
<1>1. Init => Latest
  BY DEF Init, Latest, Listed
<1>2. TypeOK /\ Latest /\ [Next]_vars => Latest'
  BY LatestStep
<1>3. TypeOK /\ Latest /\ [Next]_vars => [Forward]_vars
  <2> SUFFICES ASSUME TypeOK, Latest, Next, NEW i \in Listed \cap Listed',
                      web_urls[i].last_viewed_at # Null
               PROVE  web_urls'[i].last_viewed_at >= web_urls[i].last_viewed_at
    OBVIOUS
  <2> DEFINE d == web_urls[i].last_viewed_at
             r == req[w]
  <2>1. /\ web_urls[i] \in Row /\ d \in Nat /\ web_urls \in [Listed -> Row]
        /\ nextId \notin Listed /\ r.began \in Nat
    BY BeganNat DEF TypeOK, Row
  <2>2. Viewing(r) => d <= r.began
    BY DEF Latest
  <2>3. CASE web_urls'[i] = web_urls[i]
    BY <2>1, <2>3
  <2>4. CASE Insert(w)
    BY <2>1, <2>3, <2>4 DEF Insert
  <2>5. CASE CommitView(w)
    <3>1. Viewing(r)
      BY <2>5 DEF CommitView, Viewing
    <3>2. web_urls'[i] = web_urls[i] \/ web_urls'[i].last_viewed_at = r.began
      BY <2>1, <2>5 DEF CommitView, Row
    <3> QED
      BY <2>1, <2>2, <2>3, <3>1, <3>2
  <2>6. CASE CommitAll(w)
    <3>1. Viewing(r)
      BY <2>6 DEF CommitAll, Viewing
    <3>2. web_urls'[i] = web_urls[i] \/ web_urls'[i].last_viewed_at = r.began
      BY <2>1, <2>6 DEF CommitAll, Row
    <3> QED
      BY <2>1, <2>2, <2>3, <3>1, <3>2
  <2>7. CASE CommitDelete(w)
    BY <2>3, <2>7 DEF CommitDelete, Listed
  <2>8. CASE Tick \/ Start(w) \/ Refresh(w) \/ UpdateAll(w)
    BY <2>3, <2>8 DEF Tick, Start, CreateWebUrl, MarkViewed, DeleteWebUrl, MarkAllViewed,
       Refresh, UpdateAll
  <2> QED
    BY <2>4, <2>5, <2>6, <2>7, <2>8 DEF Next, Continue
<1>4. Spec => []TypeOK
  BY TypeCorrect
<1> QED
  BY <1>1, <1>2, <1>3, <1>4, PTL DEF Spec, ViewsGoForward
=============================================================================
