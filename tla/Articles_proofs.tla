--------------------------- MODULE Articles_proofs ---------------------------
(***************************************************************************)
(* Theorems about Articles, for every set of requests, slugs, contents and *)
(* bodies that meets ConstantsAssumption, and about the Payload that such  *)
(* a request writes, for all limits and inputs that meet                   *)
(* PayloadAssumption; with no bound on what has happened before.           *)
(***************************************************************************)
EXTENDS Articles, Payload, WellFoundedInduction, SequenceTheorems,
        FiniteSetTheorems, TLAPS

-----------------------------------------------------------------------------
(* The types of what the handlers compute *)

\* An UPDATE of the changed columns leaves a row.
LEMMA FlushType ==
  ASSUME NEW row \in Row, NEW loaded \in Data, NEW data \in Data
  PROVE  UOW!Flush(row, loaded, data) \in Row
  BY DEF Row, Data, UOW!Flush, UOW!Dirty, Statuses, Times

\* build_article_data returns arguments of a service, never a null slug or
\* status.
LEMMA BuildType ==
  ASSUME ConstantsAssumption, NEW body \in Body, NEW author \in Authors
  PROVE  BuildArticleData(body, author) \in Data
  BY ZenonT(60) DEF ConstantsAssumption, Data, Body, BuildArticleData, NoData

LEMMA NoDataType == NoData \in Data
  BY DEF NoData, Data

LEMMA RowIsData == Row \subseteq Data
  BY DEF Row, Data

LEMMA StampType ==
  ASSUME now \in Nat, NEW data \in Data, NEW current, NEW loaded
  PROVE  /\ WithPublishStamp(data, current) \in Data
         /\ WithUpdateStamp(loaded, data) \in Data
  BY DEF Data, WithPublishStamp, WithUpdateStamp, Times

\* The arguments of an INSERT, defaults included, are a whole row.
LEMMA InsertType ==
  ASSUME ConstantsAssumption, now \in Nat, NEW data \in Data,
         data.slug \in Slugs, data.content \in Contents, data.author \in Authors
  PROVE  WithDefaults(data) \in Row
  BY DEF ConstantsAssumption, Data, Row, WithDefaults, Times, Statuses

LEMMA AnsweredType ==
  ASSUME NEW code \in Codes
  PROVE  Answered(code) \in Request /\ Answered(code).pc = "idle"
  BY NoDataType DEF Answered, Request, PCs, Idle

-----------------------------------------------------------------------------
(* Type correctness *)

ReqOK == /\ req \in [Workers -> Request]
         /\ \A w \in Workers : req[w].pc = "insert" => req[w].data \in Row

\* A request that goes on to a well-typed state leaves the others as they are.
LEMMA RequestStep ==
  ASSUME ReqOK, NEW w \in Workers, NEW r \in Request,
         r.pc = "insert" => r.data \in Row,
         req' = [req EXCEPT ![w] = r]
  PROVE  ReqOK'
  BY DEF ReqOK

LEMMA NotFoundStep ==
  ASSUME TypeOK, NEW w \in Workers, NEW slug, NotFound(w, slug)
  PROVE  TypeOK'
<1>1. Answered(404) \in Request /\ Answered(404).pc # "insert"
  BY AnsweredType DEF Codes
<1>2. ReqOK'
  BY <1>1, RequestStep DEF NotFound, Answer, TypeOK, ReqOK
<1> QED
  BY <1>2 DEF NotFound, TypeOK, ReqOK, Live

LEMMA FoundStep ==
  ASSUME TypeOK, NEW w \in Workers, NEW slug, NEW i \in BySlug(slug),
         NEW r \in Request, r.pc # "insert", Found(w, i, r)
  PROVE  TypeOK'
<1> DEFINE s == [r EXCEPT !.id = i, !.loaded = articles[i]]
<1>1. i \in Nat /\ articles[i] \in Row
  BY DEF TypeOK, BySlug
<1>2. s \in Request /\ s.pc # "insert"
  BY <1>1, RowIsData DEF Request
<1>3. ReqOK'
  BY <1>2, RequestStep DEF Found, TypeOK, ReqOK
<1> QED
  BY <1>3 DEF Found, TypeOK, ReqOK, Live

\* What update_post has ready to flush
LEMMA UpdateType ==
  ASSUME TypeOK, NEW loaded \in Data, NEW data \in Data
  PROVE  Update(loaded, data) \in Request /\ Update(loaded, data).pc = "update"
<1>1. WithUpdateStamp(loaded, WithPublishStamp(data, loaded.published_at)) \in Data
  BY StampType DEF TypeOK
<1> QED
  BY ZenonT(60), <1>1, NoDataType DEF Update, Answered, Request, Codes, PCs, Idle

LEMMA StartInsertStep ==
  ASSUME TypeOK, ConstantsAssumption, NEW w \in Workers, NEW slug, NEW data \in Data,
         data.slug \in Slugs, data.content \in Contents, data.author \in Authors,
         StartInsert(w, slug, data)
  PROVE  TypeOK'
<1>1. CASE SlugExists(slug, 0)
  <2>1. Answered(409) \in Request /\ Answered(409).pc # "insert"
    BY AnsweredType DEF Codes
  <2> QED
    BY <1>1, <2>1, RequestStep DEF StartInsert, Answer, TypeOK, ReqOK, Live
<1>2. CASE ~ SlugExists(slug, 0)
  <2> DEFINE r == [req[w] EXCEPT !.pc = "insert", !.data = WithDefaults(data)]
  <2>1. WithDefaults(data) \in Row
    BY InsertType DEF TypeOK
  <2>2. r \in Request /\ r.data \in Row
    BY <2>1, RowIsData DEF TypeOK, Request, PCs
  <2>3. req' = [req EXCEPT ![w] = r]
    BY <1>2 DEF StartInsert
  <2>4. ReqOK'
    BY <2>2, <2>3, RequestStep DEF TypeOK, ReqOK
  <2> QED
    BY <2>4 DEF StartInsert, TypeOK, ReqOK, Live
<1> QED
  BY <1>1, <1>2

\* The row that create_post and publish_article are about to insert
LEMMA NewRowType ==
  ASSUME ConstantsAssumption, now \in Nat, NEW author \in Authors,
         NEW body \in CreateBodies \cup PublishBodies, NEW current
  PROVE  LET built == BuildArticleData(body, author)
         IN  \A data \in {WithPublishStamp(built, current),
                          [built EXCEPT !.article_status = "draft"]} :
               /\ data \in Data /\ data.slug \in Slugs
               /\ data.content \in Contents /\ data.author \in Authors
<1> DEFINE built == BuildArticleData(body, author)
<1>1. body \in Body /\ body.slug \in Slugs /\ body.content \in DOMAIN Clean
  BY DEF ConstantsAssumption
<1>2. built \in Data
  BY <1>1, BuildType
<1>3. built.slug \in Slugs /\ built.content \in Contents /\ built.author \in Authors
  BY <1>1 DEF ConstantsAssumption, BuildArticleData, NoData
<1>4. /\ [built EXCEPT !.article_status = "draft"] \in Data
      /\ [built EXCEPT !.article_status = "draft"].slug = built.slug
      /\ [built EXCEPT !.article_status = "draft"].content = built.content
      /\ [built EXCEPT !.article_status = "draft"].author = built.author
  BY <1>2 DEF Data, Statuses
<1>5. /\ WithPublishStamp(built, current) \in Data
      /\ WithPublishStamp(built, current).slug = built.slug
      /\ WithPublishStamp(built, current).content = built.content
      /\ WithPublishStamp(built, current).author = built.author
  BY <1>2 DEF Data, Times, WithPublishStamp
<1> QED
  BY <1>3, <1>4, <1>5

LEMMA InsertStep ==
  ASSUME TypeOK, NEW w \in Workers, Insert(w)
  PROVE  TypeOK'
<1>1. req[w].data \in Row
  BY DEF TypeOK, Insert
<1>2. ReqOK
  BY DEF TypeOK, ReqOK
<1>3. CASE IndexRefuses(req[w].data.slug, nextId)
  <2>1. Answered(500) \in Request /\ Answered(500).pc # "insert"
    BY AnsweredType DEF Codes
  <2>2. ReqOK'
    BY <1>2, <1>3, <2>1, RequestStep DEF Insert, Answer
  <2> QED
    BY <1>3, <2>2 DEF Insert, TypeOK, ReqOK, Live
<1>4. CASE ~ IndexRefuses(req[w].data.slug, nextId)
  <2> DEFINE r == [Answered(201) EXCEPT !.pc = "refresh", !.id = nextId]
  <2>1. r \in Request /\ r.pc # "insert"
    <3>1. nextId \in Nat
      BY DEF TypeOK
    <3> QED
      BY ZenonT(60), <3>1, NoDataType DEF Answered, Request, Codes, PCs
  <2>2. ReqOK'
    BY <1>2, <1>4, <2>1, RequestStep DEF Insert
  <2>3. articles' = [i \in Live \cup {nextId} |->
                       IF i = nextId THEN req[w].data ELSE articles[i]]
    BY <1>4 DEF Insert
  <2>4. Live' = Live \cup {nextId} /\ articles' \in [Live' -> Row]
    BY <1>1, <2>3 DEF TypeOK, Live
  <2> QED
    BY <2>2, <2>4 DEF Insert, TypeOK, ReqOK
<1> QED
  BY <1>3, <1>4

LEMMA CheckSlugStep ==
  ASSUME TypeOK, NEW w \in Workers, CheckSlug(w)
  PROVE  TypeOK'
<1> DEFINE r == [Update(req[w].loaded, req[w].data) EXCEPT
                   !.id = req[w].id, !.loaded = req[w].loaded]
<1>1. ReqOK /\ req[w] \in Request
  BY DEF TypeOK, ReqOK
<1>2. Update(req[w].loaded, req[w].data) \in Request
      /\ Update(req[w].loaded, req[w].data).pc = "update"
  BY <1>1, UpdateType DEF Request
<1>3. r \in Request /\ r.pc # "insert"
  BY <1>1, <1>2 DEF Request
<1>4. Answered(409) \in Request /\ Answered(409).pc # "insert"
  BY AnsweredType DEF Codes
<1>5. req' = [req EXCEPT ![w] = Answered(409)] \/ req' = [req EXCEPT ![w] = r]
  BY DEF CheckSlug, Answer
<1>6. ReqOK'
  BY ZenonT(60), <1>1, <1>3, <1>4, <1>5, RequestStep
<1> QED
  BY <1>6 DEF CheckSlug, TypeOK, ReqOK, Live

LEMMA CommitUpdateStep ==
  ASSUME TypeOK, NEW w \in Workers, CommitUpdate(w)
  PROVE  TypeOK'
<1> DEFINE r == [req[w] EXCEPT !.pc = "refresh"]
<1>1. ReqOK /\ req[w] \in Request
  BY DEF TypeOK, ReqOK
<1>2. r \in Request /\ r.pc # "insert"
  BY <1>1 DEF Request, PCs
<1>3. Answered(500) \in Request /\ Answered(500).pc # "insert"
  BY AnsweredType DEF Codes
<1>4. req' = [req EXCEPT ![w] = Answered(500)] \/ req' = [req EXCEPT ![w] = r]
  BY <1>1 DEF CommitUpdate, Answer, ReqOK
<1>5. ReqOK'
  BY ZenonT(60), <1>1, <1>2, <1>3, <1>4, RequestStep
<1>6. Live' = Live /\ articles' \in [Live -> Row]
  <2>1. CASE articles' = articles
    BY <2>1 DEF TypeOK, Live
  <2>2. CASE /\ req[w].id \in Live
             /\ articles' = [articles EXCEPT ![req[w].id] =
                               UOW!Flush(@, req[w].loaded, req[w].data)]
    <3>1. UOW!Flush(articles[req[w].id], req[w].loaded, req[w].data) \in Row
      BY <1>1, <2>2, FlushType DEF TypeOK, Request
    <3> QED
      BY <2>2, <3>1 DEF TypeOK, Live
  <2> QED
    BY <2>1, <2>2 DEF CommitUpdate
<1> QED
  BY <1>5, <1>6 DEF CommitUpdate, TypeOK, ReqOK

\* Deletion leaves a table of rows.
LEMMA CommitDeleteStep ==
  ASSUME TypeOK, NEW w \in Workers, CommitDelete(w)
  PROVE  TypeOK'
<1>1. Answered(204) \in Request /\ Answered(204).pc # "insert"
  BY AnsweredType DEF Codes
<1>2. ReqOK'
  BY <1>1, RequestStep DEF TypeOK, ReqOK, CommitDelete, Answer
<1>3. Live' = Live \ {req[w].id} /\ articles' \in [Live' -> Row]
  BY DEF TypeOK, CommitDelete, Live
<1> QED
  BY <1>2, <1>3 DEF CommitDelete, TypeOK, ReqOK

LEMMA TypeStep ==
  ASSUME TypeOK, ConstantsAssumption, [Next]_vars
  PROVE  TypeOK'
<1>1. ASSUME NEW w \in Workers, CreatePost(w)
      PROVE  TypeOK'
  BY <1>1, NewRowType, StartInsertStep DEF CreatePost, TypeOK
<1>2. ASSUME NEW w \in Workers, PublishArticle(w)
      PROVE  TypeOK'
  BY <1>2, NewRowType, StartInsertStep DEF PublishArticle, TypeOK
<1>3. ASSUME NEW w \in Workers, UpdatePost(w)
      PROVE  TypeOK'
  <2>1. ASSUME NEW slug \in Slugs, NEW i \in BySlug(slug),
               NEW body \in UpdateBodies, NEW author \in Authors,
               NEW data, data = BuildArticleData(body, author),
               Found(w, i, IF data.slug = Unset
                             THEN Update(articles[i], data)
                             ELSE [Answered(200) EXCEPT !.pc = "check_slug",
                                                        !.data = data])
        PROVE  TypeOK'
    <3>1. data \in Data
      BY <2>1, BuildType DEF ConstantsAssumption
    <3>2. articles[i] \in Data
      BY RowIsData DEF TypeOK, BySlug
    <3>3. Update(articles[i], data) \in Request /\ Update(articles[i], data).pc # "insert"
      BY <3>1, <3>2, UpdateType
    <3>4. /\ [Answered(200) EXCEPT !.pc = "check_slug", !.data = data] \in Request
          /\ [Answered(200) EXCEPT !.pc = "check_slug", !.data = data].pc # "insert"
      BY ZenonT(60), <3>1, NoDataType DEF Answered, Request, Codes, PCs
    <3> QED
      BY <2>1, <3>3, <3>4, FoundStep
  <2> QED
    BY ZenonT(60), <1>3, <2>1, NotFoundStep DEF UpdatePost
<1>4. ASSUME NEW w \in Workers, SetStatus(w)
      PROVE  TypeOK'
  <2>1. ASSUME NEW slug \in Slugs, NEW i \in BySlug(slug), NEW status \in Statuses,
               Found(w, i, [Answered(200) EXCEPT
                              !.pc = "update", !.data = StatusData(articles[i], status)])
        PROVE  TypeOK'
    <3>1. [NoData EXCEPT !.article_status = status] \in Data
      BY NoDataType DEF Data
    <3>2. StatusData(articles[i], status) \in Data
      BY <3>1, StampType DEF StatusData, TypeOK
    <3> DEFINE r == [Answered(200) EXCEPT !.pc = "update",
                                          !.data = StatusData(articles[i], status)]
    <3>3. r \in Request /\ r.pc # "insert"
      BY ZenonT(60), <3>2, NoDataType DEF Answered, Request, Codes, PCs
    <3> QED
      BY <2>1, <3>3, FoundStep
  <2> QED
    BY <1>4, <2>1, NotFoundStep DEF SetStatus
<1>5. ASSUME NEW w \in Workers, DeletePost(w)
      PROVE  TypeOK'
  <2>1. /\ [Answered(204) EXCEPT !.pc = "delete"] \in Request
        /\ [Answered(204) EXCEPT !.pc = "delete"].pc # "insert"
    BY NoDataType DEF Answered, Request, Codes, PCs
  <2> QED
    BY <1>5, <2>1, NotFoundStep, FoundStep DEF DeletePost
<1>6. ASSUME NEW w \in Workers, Refresh(w)
      PROVE  TypeOK'
  <2>1. PICK code \in Codes : Answer(w, code)
    BY <1>6 DEF Refresh, TypeOK, Request, Codes
  <2>2. Answered(code) \in Request /\ Answered(code).pc # "insert"
    BY AnsweredType
  <2> QED
    BY <1>6, <2>1, <2>2, RequestStep DEF Refresh, Answer, TypeOK, ReqOK, Live
<1>7. CASE Tick
  BY <1>7 DEF Tick, TypeOK, Live
<1>8. CASE UNCHANGED vars
  BY <1>8 DEF vars, TypeOK, Live
<1> QED
  BY <1>1, <1>2, <1>3, <1>4, <1>5, <1>6, <1>7, <1>8, InsertStep, CheckSlugStep,
     CommitUpdateStep, CommitDeleteStep DEF Next, Step

LEMMA TypeInit == Init => TypeOK
  BY AnsweredType DEF Init, TypeOK, Live, Codes

\* The table and the requests are well typed in every reachable state, whatever
\* the bodies of the requests (services/articles.py, routers/v1/admin/posts.py).
THEOREM TypeCorrect == Spec => []TypeOK
  BY ConstantsAssumption, TypeInit, TypeStep, PTL DEF Spec

-----------------------------------------------------------------------------
(* Slugs, and the catalogue *)

\* The slug of a row after an UPDATE: the assigned one if it is a net change
LEMMA FlushSlug ==
  ASSUME NEW row \in Row, NEW loaded \in Data, NEW data \in Data
  PROVE  UOW!Flush(row, loaded, data).slug =
           IF "slug" \in UOW!Dirty(loaded, data) THEN data.slug ELSE row.slug
  BY DEF Row, UOW!Flush

\* The table and its id sequence are written by three statements only.
LEMMA OnlyCommitsWrite ==
  ASSUME [Next]_vars
  PROVE  \/ UNCHANGED <<articles, nextId>>
         \/ \E w \in Workers : Insert(w) \/ CommitUpdate(w) \/ CommitDelete(w)
<1>1. ASSUME NEW w \in Workers, CreatePost(w) \/ PublishArticle(w)
      PROVE  UNCHANGED <<articles, nextId>>
  BY <1>1 DEF CreatePost, PublishArticle, StartInsert
<1>2. ASSUME NEW w \in Workers, UpdatePost(w) \/ SetStatus(w) \/ DeletePost(w)
      PROVE  UNCHANGED <<articles, nextId>>
  <2>1. ASSUME NEW slug, NotFound(w, slug)
        PROVE  UNCHANGED <<articles, nextId>>
    BY <2>1 DEF NotFound
  <2>2. ASSUME NEW i, NEW r, Found(w, i, r)
        PROVE  UNCHANGED <<articles, nextId>>
    BY <2>2 DEF Found
  <2> QED
    BY <1>2, <2>1, <2>2 DEF UpdatePost, SetStatus, DeletePost
<1>3. ASSUME NEW w \in Workers, CheckSlug(w) \/ Refresh(w)
      PROVE  UNCHANGED <<articles, nextId>>
  BY <1>3 DEF CheckSlug, Refresh
<1>4. Tick \/ UNCHANGED vars => UNCHANGED <<articles, nextId>>
  BY DEF Tick, vars
<1> QED
  BY <1>1, <1>2, <1>3, <1>4 DEF Next, Step

\* Every statement that writes is a step of the catalogue and keeps slugs
\* apart: the index, not the lookup before it, is what the argument rests on.
LEMMA CatalogueStep ==
  ASSUME TypeOK, SlugUnique, [Next]_vars
  PROVE  SlugUnique' /\ [Catalogue!CatalogueNext]_<<[i \in Live |-> articles[i].slug], nextId>>
<1> DEFINE entries == [i \in Live |-> articles[i].slug]
<1>1. CASE UNCHANGED <<articles, nextId>>
  BY <1>1 DEF SlugUnique, Live
<1>2. ASSUME NEW w \in Workers, Insert(w)
      PROVE  SlugUnique' /\ [Catalogue!CatalogueNext]_<<entries, nextId>>
  <2> DEFINE data == req[w].data
  <2>1. CASE IndexRefuses(data.slug, nextId)
    <3>1. UNCHANGED articles /\ nextId' = nextId + 1
      BY <1>2, <2>1 DEF Insert
    <3>2. Catalogue!Refuse
      BY <3>1 DEF Catalogue!Refuse, Live
    <3> QED
      BY <3>1, <3>2 DEF SlugUnique, Live, Catalogue!CatalogueNext
  <2>2. CASE ~ IndexRefuses(data.slug, nextId)
    <3>1. /\ nextId' = nextId + 1
          /\ articles' = [i \in Live \cup {nextId} |->
                            IF i = nextId THEN data ELSE articles[i]]
      BY <1>2, <2>2 DEF Insert
    <3>2. nextId \notin Live /\ data \in Row
      BY <1>2 DEF TypeOK, Insert
    <3>3. \A i \in Live : articles[i].slug # data.slug
      BY <2>2, <3>2 DEF IndexRefuses
    <3>4. Live' = Live \cup {nextId}
      BY <3>1 DEF Live
    <3>5. SlugUnique'
      BY <3>1, <3>2, <3>3, <3>4 DEF SlugUnique
    <3>6. entries' = [i \in Live \cup {nextId} |->
                        IF i = nextId THEN data.slug ELSE entries[i]]
      BY <3>1, <3>4
    <3>7. data.slug \in Slugs
      BY <3>2 DEF Row
    <3>8. Catalogue!Free(data.slug)
      BY <3>3 DEF Catalogue!Free
    <3>9. Catalogue!Add
      BY <3>1, <3>6, <3>7, <3>8 DEF Catalogue!Add
    <3> QED
      BY <3>5, <3>9 DEF Catalogue!CatalogueNext
  <2> QED
    BY <2>1, <2>2
<1>3. ASSUME NEW w \in Workers, CommitUpdate(w)
      PROVE  SlugUnique' /\ [Catalogue!CatalogueNext]_<<entries, nextId>>
  <2> DEFINE r == req[w]
             dirty == UOW!Dirty(r.loaded, r.data)
  <2>1. CASE UNCHANGED articles
    BY <1>3, <2>1 DEF CommitUpdate, SlugUnique, Live
  <2>2. CASE articles' # articles
    <3>1. /\ r.id \in Live
          /\ "slug" \in dirty => ~ IndexRefuses(r.data.slug, r.id)
          /\ articles' = [articles EXCEPT ![r.id] = UOW!Flush(@, r.loaded, r.data)]
          /\ nextId' = nextId
      BY <1>3, <2>2 DEF CommitUpdate
    <3> DEFINE row == UOW!Flush(articles[r.id], r.loaded, r.data)
    <3>2. /\ articles \in [Live -> Row] /\ articles[r.id] \in Row
          /\ r.loaded \in Data /\ r.data \in Data
      BY <3>1 DEF TypeOK, Request
    <3>3. row \in Row /\ row.slug = IF "slug" \in dirty THEN r.data.slug
                                                        ELSE articles[r.id].slug
      BY <3>2, FlushType, FlushSlug
    <3>4. \A i \in Live \ {r.id} : articles[i].slug # row.slug
      BY <3>1, <3>3 DEF IndexRefuses, SlugUnique
    <3>5. Live' = Live /\ \A i \in Live : articles'[i] = IF i = r.id THEN row
                                                                     ELSE articles[i]
      BY <3>1, <3>2 DEF Live
    <3>6. SlugUnique'
      BY <3>4, <3>5 DEF SlugUnique
    <3> HIDE DEF row
    <3>7. entries' = [entries EXCEPT ![r.id] = row.slug]
      <4>1. \A i \in Live : articles'[i].slug = IF i = r.id THEN row.slug
                                                           ELSE articles[i].slug
        BY <3>5
      <4>2. entries' = [i \in Live |-> articles'[i].slug]
        BY <3>5
      <4> QED
        BY <4>1, <4>2
    <3>8. CASE row.slug = articles[r.id].slug
      <4>1. entries' = entries
        BY <3>1, <3>7, <3>8
      <4> QED
        BY <3>1, <3>6, <4>1
    <3>9. CASE row.slug # articles[r.id].slug
      <4>1. Catalogue!Free(row.slug)
        BY <3>4, <3>9 DEF Catalogue!Free
      <4>2. row.slug \in Slugs /\ r.id \in DOMAIN entries
        BY <3>1, <3>3 DEF Row
      <4>3. Catalogue!Rename
        BY <3>1, <3>7, <4>1, <4>2 DEF Catalogue!Rename
      <4> QED
        BY <3>6, <4>3 DEF Catalogue!CatalogueNext
    <3> QED
      BY <3>8, <3>9
  <2> QED
    BY <2>1, <2>2
<1>4. ASSUME NEW w \in Workers, CommitDelete(w)
      PROVE  SlugUnique' /\ [Catalogue!CatalogueNext]_<<entries, nextId>>
  <2> DEFINE id == req[w].id
  <2>1. articles' = [i \in Live \ {id} |-> articles[i]] /\ nextId' = nextId
    BY <1>4 DEF CommitDelete
  <2>2. Live' = Live \ {id}
    BY <2>1 DEF Live
  <2>3. SlugUnique'
    BY <2>1, <2>2 DEF SlugUnique
  <2>4. entries' = [i \in DOMAIN entries \ {id} |-> entries[i]]
    BY <2>1, <2>2
  <2>5. CASE id \in Live
    <3>1. Catalogue!Remove
      BY <2>1, <2>4, <2>5 DEF Catalogue!Remove
    <3> QED
      BY <2>3, <3>1 DEF Catalogue!CatalogueNext
  <2>6. CASE id \notin Live
    <3>1. entries' = entries
      BY <2>4, <2>6
    <3> QED
      BY <2>1, <2>3, <3>1
  <2> QED
    BY <2>5, <2>6
<1> QED
  BY <1>1, <1>2, <1>3, <1>4, OnlyCommitsWrite

\* No two articles ever share a slug, however the lookups and writes of the
\* requests interleave (models/article.py:21).
THEOREM SlugsStayUnique == Spec => []SlugUnique
<1>1. Init => SlugUnique
  BY DEF Init, SlugUnique, Live
<1>2. TypeOK /\ SlugUnique /\ [Next]_vars => SlugUnique'
  BY CatalogueStep
<1> QED
  BY <1>1, <1>2, TypeCorrect, PTL DEF Spec

\* The admin write path implements the catalogue: one entry per write, unique
\* slugs, no id given out twice and no deleted article back.
THEOREM CatalogueImplemented == Spec => ImplementsCatalogue
<1>1. Init => Catalogue!CatalogueInit
  BY DEF Init, Catalogue!CatalogueInit, Live
<1>2. TypeOK /\ SlugUnique /\ [Next]_vars =>
        [Catalogue!CatalogueNext]_<<[i \in Live |-> articles[i].slug], nextId>>
  BY CatalogueStep
<1> QED
  BY <1>1, <1>2, TypeCorrect, SlugsStayUnique, PTL
     DEF Spec, ImplementsCatalogue, Catalogue!CatalogueSpec

-----------------------------------------------------------------------------
(* Publication dates *)

\* A request that is about to publish an article carries a date, or saw one on
\* the row it loaded.
Sound(r) ==
  /\ r.pc = "insert" /\ r.data.article_status = "published" =>
       r.data.published_at # Null
  /\ r.pc \in {"check_slug", "update"} => r.loaded \in Row
  /\ r.pc = "update" /\ r.data.article_status = "published" =>
       r.data.published_at \notin {Null, Unset} \/ r.loaded.published_at # Null

DatedInv == \A w \in Workers : Sound(req[w])

\* Only the request that moved is in question.
LEMMA DatedByRequest ==
  ASSUME DatedInv, TypeOK, NEW w \in Workers, NEW r, Sound(r),
         req' = [req EXCEPT ![w] = r]
  PROVE  DatedInv'
<1>1. \A v \in Workers : req'[v] = IF v = w THEN r ELSE req[v]
  BY DEF TypeOK
<1> QED
  BY <1>1 DEF DatedInv, Sound

LEMMA AnsweredSound ==
  ASSUME NEW code
  PROVE  Sound(Answered(code))
  BY DEF Sound, Answered, Idle

\* The request that found article i may go on to write what it loaded.
LEMMA FoundDated ==
  ASSUME DatedInv, TypeOK, NEW w \in Workers, NEW slug, NEW i \in BySlug(slug),
         NEW r \in Request, Found(w, i, r), r.pc # "insert",
         r.pc = "update" /\ r.data.article_status = "published" =>
           r.data.published_at \notin {Null, Unset} \/ articles[i].published_at # Null
  PROVE  DatedInv'
<1> DEFINE s == [r EXCEPT !.id = i, !.loaded = articles[i]]
<1>1. s.pc = r.pc /\ s.data = r.data /\ s.loaded = articles[i]
  BY DEF Request
<1>2. articles[i] \in Row
  BY DEF TypeOK, BySlug
<1> HIDE DEF s
<1>3. Sound(s)
  BY <1>1, <1>2 DEF Sound
<1>4. req' = [req EXCEPT ![w] = s]
  BY DEF Found, s
<1> QED
  BY <1>3, <1>4, DatedByRequest

\* The stamp: arguments that publish carry a date, or the row has one.
LEMMA StampDated ==
  ASSUME ConstantsAssumption, TypeOK, NEW data \in Data, NEW loaded \in Row
  PROVE  LET stamped == WithUpdateStamp(loaded, WithPublishStamp(data, loaded.published_at))
         IN  stamped.article_status = "published" =>
               stamped.published_at \notin {Null, Unset} \/ loaded.published_at # Null
  BY DEF ConstantsAssumption, TypeOK, Data, WithPublishStamp, WithUpdateStamp, Times

LEMMA DatedUpdate ==
  ASSUME DatedInv, TypeOK, NEW w \in Workers, CommitUpdate(w)
  PROVE  DatedInv'
<1> DEFINE after == [req[w] EXCEPT !.pc = "refresh"]
<1>1. req' = [req EXCEPT ![w] = Answered(500)] \/ req' = [req EXCEPT ![w] = after]
  BY DEF CommitUpdate, Answer, TypeOK
<1>2. after.pc = "refresh"
  BY DEF TypeOK, Request
<1> HIDE DEF after
<1>3. Sound(after) /\ Sound(Answered(500))
  BY <1>2, AnsweredSound DEF Sound
<1> QED
  BY <1>1, <1>3, DatedByRequest

LEMMA DatedInsert ==
  ASSUME DatedInv, TypeOK, NEW w \in Workers, Insert(w)
  PROVE  DatedInv'
<1> DEFINE after == [Answered(201) EXCEPT !.pc = "refresh", !.id = nextId]
<1>1. req' = [req EXCEPT ![w] = Answered(500)] \/ req' = [req EXCEPT ![w] = after]
  BY DEF Insert, Answer
<1>2. after.pc = "refresh"
  BY DEF Answered
<1> HIDE DEF after
<1>3. Sound(after) /\ Sound(Answered(500))
  BY <1>2, AnsweredSound DEF Sound
<1> QED
  BY <1>1, <1>3, DatedByRequest

LEMMA DatedAnswer ==
  ASSUME DatedInv, TypeOK, NEW w \in Workers, NEW code, Answer(w, code)
  PROVE  DatedInv'
  BY AnsweredSound, DatedByRequest DEF Answer

LEMMA DatedNotFound ==
  ASSUME DatedInv, TypeOK, NEW w \in Workers, NEW slug, NotFound(w, slug)
  PROVE  DatedInv'
  BY DatedAnswer DEF NotFound

LEMMA DatedStep ==
  ASSUME ConstantsAssumption, TypeOK, DatedInv, [Next]_vars
  PROVE  DatedInv'
<1>1. ASSUME NEW w \in Workers, NEW slug, NEW data \in Data, StartInsert(w, slug, data),
             data.article_status = "published" => data.published_at \notin {Null, Unset}
      PROVE  DatedInv'
  <2> DEFINE r == [req[w] EXCEPT !.pc = "insert", !.data = WithDefaults(data)]
  <2>1. req' = [req EXCEPT ![w] = Answered(409)] \/ req' = [req EXCEPT ![w] = r]
    BY <1>1 DEF StartInsert, Answer, TypeOK
  <2>2. WithDefaults(data).article_status = "published" =>
          WithDefaults(data).published_at # Null
    BY <1>1 DEF WithDefaults, Data, Statuses
  <2>3. r.pc = "insert" /\ r.data = WithDefaults(data)
    BY DEF TypeOK, Request
  <2> HIDE DEF r
  <2>4. Sound(r)
    BY <2>2, <2>3 DEF Sound
  <2> QED
    BY <2>1, <2>4, AnsweredSound, DatedByRequest
<1>2. ASSUME NEW w \in Workers, CreatePost(w)
      PROVE  DatedInv'
  <2>1. PICK body \in CreateBodies, author \in Authors :
          StartInsert(w, body.slug, WithPublishStamp(BuildArticleData(body, author), Null))
    BY <1>2 DEF CreatePost
  <2> DEFINE data == WithPublishStamp(BuildArticleData(body, author), Null)
  <2>2. data \in Data
    BY NewRowType DEF TypeOK
  <2>3. data.article_status = "published" => data.published_at \notin {Null, Unset}
    <3>1. BuildArticleData(body, author) \in Data
      BY BuildType DEF ConstantsAssumption
    <3> QED
      BY <3>1 DEF WithPublishStamp, TypeOK, ConstantsAssumption, Data, Times
  <2> QED
    BY <1>1, <2>1, <2>2, <2>3
<1>3. ASSUME NEW w \in Workers, PublishArticle(w)
      PROVE  DatedInv'
  <2>1. PICK body \in PublishBodies, author \in Authors :
          StartInsert(w, body.slug, [BuildArticleData(body, author)
                                       EXCEPT !.article_status = "draft"])
    BY <1>3 DEF PublishArticle
  <2> DEFINE data == [BuildArticleData(body, author) EXCEPT !.article_status = "draft"]
  <2>2. data \in Data
    BY NewRowType DEF TypeOK
  <2>3. data.article_status = "draft"
    BY BuildType DEF ConstantsAssumption, Data
  <2> QED
    BY <1>1, <2>1, <2>2, <2>3
<1>4. ASSUME NEW w \in Workers, UpdatePost(w)
      PROVE  DatedInv'
  <2>1. ASSUME NEW slug \in Slugs, NEW i \in BySlug(slug),
               NEW body \in UpdateBodies, NEW author \in Authors,
               NEW data, data = BuildArticleData(body, author),
               Found(w, i, IF data.slug = Unset
                             THEN Update(articles[i], data)
                             ELSE [Answered(200) EXCEPT !.pc = "check_slug",
                                                        !.data = data])
        PROVE  DatedInv'
    <3>1. data \in Data /\ articles[i] \in Row
      BY <2>1, BuildType DEF ConstantsAssumption, TypeOK, BySlug
    <3>2. CASE data.slug = Unset
      <4> DEFINE r == Update(articles[i], data)
      <4>1. r \in Request /\ r.pc = "update"
        BY <3>1, RowIsData, UpdateType
      <4>2. r.data = WithUpdateStamp(articles[i],
                                     WithPublishStamp(data, articles[i].published_at))
        BY DEF Update, Answered
      <4>3. Found(w, i, r)
        BY <2>1, <3>2
      <4> HIDE DEF r
      <4> QED
        BY <3>1, <4>1, <4>2, <4>3, StampDated, FoundDated
    <3>3. CASE data.slug # Unset
      <4> DEFINE r == [Answered(200) EXCEPT !.pc = "check_slug", !.data = data]
      <4>1. r \in Request /\ r.pc = "check_slug"
        BY ZenonT(60), <3>1, NoDataType DEF Answered, Request, Codes, PCs
      <4>2. Found(w, i, r)
        BY <2>1, <3>3
      <4> HIDE DEF r
      <4> QED
        BY <4>1, <4>2, FoundDated
    <3> QED
      BY <3>2, <3>3
  <2> QED
    BY ZenonT(60), <1>4, <2>1, DatedNotFound DEF UpdatePost
<1>5. ASSUME NEW w \in Workers, SetStatus(w)
      PROVE  DatedInv'
  <2>1. ASSUME NEW slug \in Slugs, NEW i \in BySlug(slug), NEW status \in Statuses,
               Found(w, i, [Answered(200) EXCEPT
                              !.pc = "update", !.data = StatusData(articles[i], status)])
        PROVE  DatedInv'
    <3> DEFINE data == [NoData EXCEPT !.article_status = status]
               r == [Answered(200) EXCEPT !.pc = "update",
                                          !.data = StatusData(articles[i], status)]
    <3>1. data \in Data /\ articles[i] \in Row
      BY NoDataType DEF Data, NoData, TypeOK, BySlug, ConstantsAssumption
    <3>2. StatusData(articles[i], status) =
            WithUpdateStamp(articles[i], WithPublishStamp(data, articles[i].published_at))
      BY DEF StatusData
    <3>3. StatusData(articles[i], status) \in Data
      BY <3>1, <3>2, StampType DEF TypeOK
    <3>4. r \in Request /\ r.pc = "update" /\ r.data = StatusData(articles[i], status)
      BY ZenonT(60), <3>3, NoDataType DEF Answered, Request, Codes, PCs
    <3>5. Found(w, i, r)
      BY <2>1
    <3> HIDE DEF r, data
    <3> QED
      BY <3>1, <3>2, <3>4, <3>5, StampDated, FoundDated
  <2> QED
    BY <1>5, <2>1, DatedNotFound DEF SetStatus
<1>6. ASSUME NEW w \in Workers, CheckSlug(w)
      PROVE  DatedInv'
  <2> DEFINE u == Update(req[w].loaded, req[w].data)
             r == [u EXCEPT !.id = req[w].id, !.loaded = req[w].loaded]
  <2>1. req[w] \in Request /\ Sound(req[w]) /\ req[w].pc = "check_slug"
    BY <1>6 DEF TypeOK, DatedInv, CheckSlug
  <2>2. req[w].loaded \in Row /\ req[w].data \in Data
    BY <2>1 DEF Sound, Request
  <2>3. u \in Request /\ u.pc = "update"
    BY <2>2, RowIsData, UpdateType
  <2>4. u.data = WithUpdateStamp(req[w].loaded,
                   WithPublishStamp(req[w].data, req[w].loaded.published_at))
    BY DEF Update, Answered
  <2> HIDE DEF u
  <2>5. r.pc = "update" /\ r.data = u.data /\ r.loaded = req[w].loaded
    BY <2>3 DEF Request
  <2>6. req' = [req EXCEPT ![w] = Answered(409)] \/ req' = [req EXCEPT ![w] = r]
    BY <1>6 DEF CheckSlug, Answer, u
  <2> HIDE DEF r
  <2>7. Sound(r)
    BY <2>2, <2>4, <2>5, StampDated DEF Sound
  <2> QED
    BY <2>6, <2>7, AnsweredSound, DatedByRequest
<1>7. ASSUME NEW w \in Workers, DeletePost(w)
      PROVE  DatedInv'
  <2>1. ASSUME NEW slug, NEW i \in BySlug(slug),
               Found(w, i, [Answered(204) EXCEPT !.pc = "delete"])
        PROVE  DatedInv'
    <3> DEFINE r == [Answered(204) EXCEPT !.pc = "delete"]
    <3>1. r \in Request /\ r.pc = "delete"
      BY NoDataType DEF Answered, Request, Codes, PCs
    <3>2. Found(w, i, r)
      BY <2>1
    <3> HIDE DEF r
    <3> QED
      BY <3>1, <3>2, FoundDated
  <2> QED
    BY <1>7, <2>1, DatedNotFound DEF DeletePost
<1>8. ASSUME NEW w \in Workers, Refresh(w)
      PROVE  DatedInv'
  BY <1>8, DatedAnswer DEF Refresh
<1>9. ASSUME NEW w \in Workers, CommitDelete(w)
      PROVE  DatedInv'
  BY <1>9, DatedAnswer DEF CommitDelete
<1>10. CASE UNCHANGED req
  BY <1>10 DEF DatedInv, Sound
<1> QED
  BY <1>2, <1>3, <1>4, <1>5, <1>6, <1>7, <1>8, <1>9, <1>10, DatedInsert, DatedUpdate
     DEF Next, Step, Tick, vars

\* An UPDATE that leaves the row undated is one of a request that loaded a date.
LEMMA FlushDated ==
  ASSUME NEW row \in Row, NEW loaded \in Row, NEW data \in Data,
         data.article_status = "published" =>
           data.published_at \notin {Null, Unset} \/ loaded.published_at # Null,
         NEW new, new = UOW!Flush(row, loaded, data),
         new.article_status = "published", new.published_at = Null,
         ~ (row.article_status = "published" /\ row.published_at = Null)
  PROVE  /\ loaded.published_at # Null
         /\ data.published_at = Null \/ row.published_at = Null
<1>1. /\ new.published_at = IF data.published_at # Unset /\ data.published_at # loaded.published_at
                              THEN data.published_at ELSE row.published_at
      /\ new.article_status = IF data.article_status # Unset /\ data.article_status # loaded.article_status
                                THEN data.article_status ELSE row.article_status
  BY DEF Row, UOW!Flush, UOW!Dirty
<1> QED
  BY <1>1

\* Whatever the bodies and however requests that publish, archive, edit and
\* delete interleave, an article is left published without a date only by a
\* request that loaded a date and clears it, or finds it cleared by another
\* (posts.py:94 and 128, articles.py:438, article_writes.py:60).
THEOREM DatesGoOnlyByClearing == Spec => UndatedOnlyByClearing
<1> DEFINE ByClearing ==
      \A i \in Live' :
        Undated(i)' /\ (i \in Live => ~ Undated(i)) =>
          \E w \in Workers :
            /\ req[w].pc = "update" /\ req[w].id = i
            /\ req[w].loaded.published_at # Null
            /\ req[w].data.published_at = Null \/ articles[i].published_at = Null
<1>1. Init => DatedInv
  BY AnsweredSound DEF Init, DatedInv
<1>2. TypeOK /\ DatedInv /\ [Next]_vars => DatedInv'
  BY ConstantsAssumption, DatedStep
<1>3. TypeOK /\ DatedInv /\ [Next]_vars => [ByClearing]_vars
  <2> SUFFICES ASSUME TypeOK, DatedInv, [Next]_vars, NEW i \in Live',
                      articles'[i].article_status = "published",
                      articles'[i].published_at = Null,
                      i \in Live => ~ Undated(i)
               PROVE  \E w \in Workers :
                        /\ req[w].pc = "update" /\ req[w].id = i
                        /\ req[w].loaded.published_at # Null
                        /\ \/ req[w].data.published_at = Null
                           \/ articles[i].published_at = Null
    BY DEF Undated
  <2>1. CASE UNCHANGED <<articles, nextId>>
    BY <2>1 DEF Undated, Live
  <2>2. ASSUME NEW w \in Workers, Insert(w)
        PROVE  FALSE
    <3>1. Sound(req[w]) /\ req[w].pc = "insert"
      BY <2>2 DEF DatedInv, Insert
    <3>2. (i \in Live /\ articles'[i] = articles[i]) \/ articles'[i] = req[w].data
      BY <2>2 DEF Insert, Live
    <3> QED
      BY <3>1, <3>2 DEF Sound, Undated
  <2>3. ASSUME NEW w \in Workers, CommitDelete(w)
        PROVE  FALSE
    BY <2>3 DEF CommitDelete, Live, Undated
  <2>4. ASSUME NEW w \in Workers, CommitUpdate(w), articles' # articles
        PROVE  /\ req[w].pc = "update" /\ req[w].id = i
               /\ req[w].loaded.published_at # Null
               /\ req[w].data.published_at = Null \/ articles[i].published_at = Null
    <3> DEFINE r == req[w]
    <3>1. /\ r.pc = "update" /\ Sound(r) /\ r.data \in Data
          /\ articles' = [articles EXCEPT ![r.id] = UOW!Flush(@, r.loaded, r.data)]
      BY <2>4 DEF CommitUpdate, DatedInv, TypeOK, Request
    <3>2. Live' = Live /\ i \in Live /\ articles[i] \in Row
      BY <3>1 DEF Live, TypeOK
    <3>3. r.id = i /\ articles'[i] = UOW!Flush(articles[i], r.loaded, r.data)
      BY <3>1, <3>2 DEF Undated, Live
    <3>4. r.loaded \in Row
      BY <3>1 DEF Sound
    <3>5. /\ r.data.article_status = "published" =>
               r.data.published_at \notin {Null, Unset} \/ r.loaded.published_at # Null
          /\ ~ (articles[i].article_status = "published" /\ articles[i].published_at = Null)
      BY <3>1, <3>2 DEF Sound, Undated
    <3> QED
      BY <3>1, <3>2, <3>3, <3>4, <3>5, FlushDated
  <2>5. CASE UNCHANGED articles
    BY <2>5 DEF Undated, Live
  <2> QED
    BY <2>1, <2>2, <2>3, <2>4, <2>5, OnlyCommitsWrite
<1> QED
  BY <1>1, <1>2, <1>3, TypeCorrect, PTL DEF Spec, UndatedOnlyByClearing

-----------------------------------------------------------------------------
(* Edits that merge *)

\* A column takes a value only from the request whose UPDATE is committed: what
\* another request wrote to a column this one did not send is kept
\* (articles.update, posts.py:113).
THEOREM EditsMerge == Spec => PartialUpdate
<1> DEFINE Merged ==
      \A i \in Live \cap Live' : \A c \in DOMAIN NoData :
        articles'[i][c] # articles[i][c] =>
          \E w \in Workers : /\ req[w].pc = "update" /\ req[w].id = i
                             /\ req[w].data[c] = articles'[i][c]
<1>1. TypeOK /\ [Next]_vars => [Merged]_vars
  <2> SUFFICES ASSUME TypeOK, [Next]_vars
               PROVE  Merged
    OBVIOUS
  <2>1. CASE UNCHANGED <<articles, nextId>>
    BY <2>1
  <2>2. ASSUME NEW w \in Workers, Insert(w)
        PROVE  \A i \in Live : articles'[i] = articles[i]
    BY <2>2 DEF Insert, TypeOK
  <2>3. ASSUME NEW w \in Workers, CommitDelete(w)
        PROVE  \A i \in Live' : articles'[i] = articles[i]
    BY <2>3 DEF CommitDelete, Live
  <2>4. ASSUME NEW w \in Workers, CommitUpdate(w)
        PROVE  Merged
    <3> SUFFICES ASSUME NEW i \in Live \cap Live', NEW c \in DOMAIN NoData,
                        articles'[i][c] # articles[i][c]
                 PROVE  /\ req[w].pc = "update" /\ req[w].id = i
                        /\ req[w].data[c] = articles'[i][c]
      BY <2>4
    <3>1. articles' = [articles EXCEPT ![req[w].id] =
                         UOW!Flush(@, req[w].loaded, req[w].data)]
      BY <2>4 DEF CommitUpdate
    <3>2. /\ req[w].pc = "update" /\ req[w].id = i
          /\ articles'[i] = UOW!Flush(articles[i], req[w].loaded, req[w].data)
      BY <2>4, <3>1 DEF CommitUpdate, TypeOK
    <3>3. c \in DOMAIN articles[i]
      BY DEF TypeOK, Row, NoData
    <3> QED
      BY <3>2, <3>3 DEF UOW!Flush
  <2> QED
    BY <2>1, <2>2, <2>3, <2>4, OnlyCommitsWrite
<1> QED
  BY <1>1, TypeCorrect, PTL DEF Spec, PartialUpdate

-----------------------------------------------------------------------------
(* One request at a time *)

\* PUT bodies say nothing about the publication date.
NoDatesSent == \A body \in UpdateBodies : body.published_at = Unset

Edited == DOMAIN NoData \ {"updated_at"}

\* The row is as it was when the request loaded it.
Fresh(r) == r.id \in Live /\ r.loaded = articles[r.id]

NetChange(loaded, data) == \E c \in Edited : data[c] # Unset /\ data[c] # loaded[c]

\* What a request that is about to flush has assigned: it dates a net change and
\* nothing else, with a time since the row was written, and it dates the
\* publication of an undated row only.
Planned(loaded, data) ==
  /\ data.updated_at # Unset <=> NetChange(loaded, data)
  /\ data.updated_at # Unset => /\ loaded.updated_at <= data.updated_at
                                /\ data.updated_at <= now
  /\ NoDatesSent => data.published_at = Unset \/ loaded.published_at = Null

\* What a request knows when nobody else writes: its lookups still hold.
Alone(r) ==
  /\ r.code # 500
  /\ r.pc = "insert" => BySlug(r.data.slug) = {} /\ r.data.updated_at <= now
  /\ r.pc = "check_slug" => /\ Fresh(r)
                            /\ r.data.updated_at = Unset
                            /\ NoDatesSent => r.data.published_at = Unset
  /\ r.pc = "update" => /\ Fresh(r)
                        /\ Planned(r.loaded, r.data)
                        /\ r.data.slug # Unset => BySlug(r.data.slug) \subseteq {r.id}
  /\ r.pc = "refresh" => r.id \in Live

\* No article is dated in the future.
PastOnly == \A i \in Live : articles[i].updated_at <= now

AloneInv == PastOnly /\ \A w \in Workers : Alone(req[w])

\* The handlers' two stamps plan the flush.
LEMMA PlanStamped ==
  ASSUME ConstantsAssumption, now \in Nat, NEW loaded \in Row, NEW data \in Data,
         data.updated_at = Unset, loaded.updated_at <= now,
         NoDatesSent => data.published_at = Unset
  PROVE  LET stamped == WithUpdateStamp(loaded, WithPublishStamp(data, loaded.published_at))
         IN  Planned(loaded, stamped) /\ stamped.slug = data.slug
<1> DEFINE pub     == WithPublishStamp(data, loaded.published_at)
           stamped == WithUpdateStamp(loaded, pub)
<1>1. pub \in Data /\ pub.updated_at = Unset /\ pub.slug = data.slug
  BY StampType DEF WithPublishStamp, Data
<1>2. NoDatesSent => pub.published_at = Unset \/ loaded.published_at = Null
  BY DEF WithPublishStamp, Data
<1> HIDE DEF pub
<1>3. UOW!IsModified(loaded, pub) <=> NetChange(loaded, pub)
  BY <1>1 DEF UOW!IsModified, UOW!Dirty, NetChange, Edited, NoData, Row
<1>4. now # Unset
  BY DEF ConstantsAssumption, Times
<1>5. CASE UOW!IsModified(loaded, pub)
  <2>1. stamped = [pub EXCEPT !.updated_at = now]
    BY <1>5 DEF WithUpdateStamp
  <2>2. /\ stamped.updated_at = now
        /\ \A c \in Edited : stamped[c] = pub[c]
    BY <1>1, <2>1 DEF Data, Edited, NoData
  <2>3. stamped.slug = pub.slug /\ stamped.published_at = pub.published_at
    BY <2>2 DEF Edited, NoData
  <2> HIDE DEF stamped
  <2>4. NetChange(loaded, stamped)
    BY <1>3, <1>5, <2>2 DEF NetChange
  <2>5. stamped.updated_at # Unset <=> NetChange(loaded, stamped)
    BY <1>4, <2>2, <2>4
  <2>6. loaded.updated_at <= stamped.updated_at /\ stamped.updated_at <= now
    BY <2>2
  <2>7. NoDatesSent => stamped.published_at = Unset \/ loaded.published_at = Null
    BY <1>2, <2>3
  <2>8. Planned(loaded, stamped) /\ stamped.slug = data.slug
    BY <1>1, <2>3, <2>5, <2>6, <2>7 DEF Planned
  <2> QED
    BY <2>8 DEF stamped, pub
<1>6. CASE ~ UOW!IsModified(loaded, pub)
  <2>1. stamped = pub
    BY <1>6 DEF WithUpdateStamp
  <2>2. pub.updated_at # Unset <=> NetChange(loaded, pub)
    BY <1>1, <1>3, <1>6
  <2>3. Planned(loaded, pub)
    BY <1>1, <1>2, <2>2 DEF Planned
  <2> QED
    BY <1>1, <2>1, <2>3 DEF pub
<1> QED
  BY <1>5, <1>6

LEMMA AnsweredAlone ==
  ASSUME NEW code, code # 500
  PROVE  Alone(Answered(code))
  BY DEF Alone, Answered, Idle

\* The one request moves on, and the table stays as it is.
LEMMA AloneMove ==
  ASSUME TypeOK, AloneInv, NEW w, Workers = {w}, UNCHANGED <<articles, now>>,
         NEW r, req' = [req EXCEPT ![w] = r], Alone(r)
  PROVE  AloneInv'
<1>1. Live' = Live
  BY DEF Live
<1>2. req'[w] = r
  BY DEF TypeOK
<1>3. Alone(r)'
  BY <1>1 DEF Alone, Fresh, Planned, BySlug
<1>4. PastOnly'
  BY <1>1 DEF AloneInv, PastOnly
<1> QED
  BY <1>2, <1>3, <1>4 DEF AloneInv

LEMMA NotFoundAlone ==
  ASSUME TypeOK, AloneInv, NEW w, Workers = {w}, NEW slug, NotFound(w, slug)
  PROVE  AloneInv'
<1>1. Alone(Answered(404))
  BY AnsweredAlone
<1>2. req' = [req EXCEPT ![w] = Answered(404)] /\ UNCHANGED <<articles, now>>
  BY DEF NotFound, Answer
<1> QED
  BY <1>1, <1>2, AloneMove

\* A request that has just loaded its row knows what is in it.
LEMMA FoundAlone ==
  ASSUME TypeOK, AloneInv, NEW w, Workers = {w}, NEW slug, NEW i \in BySlug(slug),
         NEW r \in Request, Found(w, i, r), r.code # 500,
         r.pc \in {"check_slug", "update", "delete"},
         r.pc = "check_slug" => /\ r.data.updated_at = Unset
                                /\ NoDatesSent => r.data.published_at = Unset,
         r.pc = "update" => Planned(articles[i], r.data) /\ r.data.slug = Unset
  PROVE  AloneInv'
<1> DEFINE s == [r EXCEPT !.id = i, !.loaded = articles[i]]
<1>1. /\ s.pc = r.pc /\ s.data = r.data /\ s.code = r.code
      /\ s.id = i /\ s.loaded = articles[i]
  BY DEF Request
<1>2. req' = [req EXCEPT ![w] = s] /\ UNCHANGED <<articles, now>>
  BY DEF Found
<1>3. i \in Live
  BY DEF BySlug
<1> HIDE DEF s
<1>4. Fresh(s)
  BY <1>1, <1>3 DEF Fresh
<1>5. Alone(s)
  BY <1>1, <1>4 DEF Alone
<1> QED
  BY <1>2, <1>5, AloneMove, ZenonT(30)

LEMMA StartInsertAlone ==
  ASSUME ConstantsAssumption, TypeOK, AloneInv, NEW w, Workers = {w},
         NEW slug, NEW data \in Data, data.slug = slug, slug \in Slugs,
         StartInsert(w, slug, data)
  PROVE  AloneInv'
<1> DEFINE r == [req[w] EXCEPT !.pc = "insert", !.data = WithDefaults(data)]
<1>1. CASE SlugExists(slug, 0)
  <2>1. Alone(Answered(409))
    BY AnsweredAlone
  <2>2. req' = [req EXCEPT ![w] = Answered(409)] /\ UNCHANGED <<articles, now>>
    BY <1>1 DEF StartInsert, Answer
  <2> QED
    BY <2>1, <2>2, AloneMove
<1>2. CASE ~ SlugExists(slug, 0)
  <2>1. req' = [req EXCEPT ![w] = r] /\ UNCHANGED <<articles, now>>
    BY <1>2 DEF StartInsert, TypeOK
  <2>2. /\ WithDefaults(data).slug = slug
        /\ WithDefaults(data).updated_at = now /\ now \in Nat
    BY DEF WithDefaults, Data, TypeOK
  <2>3. BySlug(slug) = {}
    BY <1>2 DEF SlugExists, TypeOK, BySlug
  <2>4. /\ r.pc = "insert" /\ r.data = WithDefaults(data)
        /\ r.code = req[w].code /\ r.code # 500
    BY DEF TypeOK, Request, AloneInv, Alone
  <2> HIDE DEF r
  <2>5. Alone(r)
    BY <2>2, <2>3, <2>4 DEF Alone
  <2> QED
    BY <2>1, <2>5, AloneMove
<1> QED
  BY <1>1, <1>2

\* A request whose lookups still hold is never refused by the index.
LEMMA InsertAlone ==
  ASSUME TypeOK, AloneInv, NEW w, Workers = {w}, Insert(w)
  PROVE  AloneInv'
<1> DEFINE r == [Answered(201) EXCEPT !.pc = "refresh", !.id = nextId]
<1>1. req[w].pc = "insert" /\ Alone(req[w]) /\ req[w].data \in Row
  BY DEF AloneInv, Insert, TypeOK
<1>2. BySlug(req[w].data.slug) = {} /\ req[w].data.updated_at <= now
  BY <1>1 DEF Alone
<1>3. ~ IndexRefuses(req[w].data.slug, nextId)
  BY <1>2 DEF IndexRefuses, BySlug
<1>4. /\ articles' = [i \in Live \cup {nextId} |->
                        IF i = nextId THEN req[w].data ELSE articles[i]]
      /\ req' = [req EXCEPT ![w] = r] /\ now' = now
  BY <1>3 DEF Insert
<1>5. Live' = Live \cup {nextId}
  BY <1>4 DEF Live
<1>6. PastOnly'
  BY <1>2, <1>4, <1>5 DEF AloneInv, PastOnly
<1>7. r.pc = "refresh" /\ r.id = nextId /\ r.code = 201
  BY DEF Answered
<1> HIDE DEF r
<1>8. req'[w] = r
  BY <1>4 DEF TypeOK
<1>9. /\ req'[w].pc = "refresh" /\ req'[w].id \in Live' /\ req'[w].code # 500
  BY <1>5, <1>7, <1>8
<1>10. Alone(req[w])'
  BY <1>9 DEF Alone
<1> QED
  BY <1>6, <1>10 DEF AloneInv

LEMMA UpdateAlone ==
  ASSUME TypeOK, AloneInv, NEW w, Workers = {w}, CommitUpdate(w)
  PROVE  AloneInv'
<1> DEFINE r     == req[w]
           after == [r EXCEPT !.pc = "refresh"]
           row   == UOW!Flush(articles[r.id], r.loaded, r.data)
<1>1. r.pc = "update" /\ Alone(r) /\ r \in Request
  BY DEF AloneInv, CommitUpdate, TypeOK
<1>2. /\ r.id \in Live /\ r.loaded = articles[r.id] /\ Planned(r.loaded, r.data)
      /\ r.data.slug # Unset => BySlug(r.data.slug) \subseteq {r.id}
  BY <1>1 DEF Alone, Fresh
<1>3. after.pc = "refresh" /\ after.id = r.id /\ after.code = r.code
  BY <1>1 DEF Request
<1>4. "slug" \in UOW!Dirty(r.loaded, r.data) => ~ IndexRefuses(r.data.slug, r.id)
  BY <1>2 DEF UOW!Dirty, IndexRefuses, BySlug
<1>5. /\ req' = [req EXCEPT ![w] = after] /\ now' = now
      /\ articles' = articles \/ articles' = [articles EXCEPT ![r.id] = row]
  BY <1>2, <1>4 DEF CommitUpdate, TypeOK
<1>6. row \in Row /\ row.updated_at <= now
  <2>1. /\ articles[r.id] \in Row /\ r.loaded \in Data /\ r.data \in Data
        /\ articles[r.id].updated_at <= now
    BY <1>1, <1>2 DEF TypeOK, Request, AloneInv, PastOnly
  <2>2. row.updated_at \in {articles[r.id].updated_at, r.data.updated_at}
    BY <2>1 DEF UOW!Flush, Row
  <2>3. row.updated_at # articles[r.id].updated_at => r.data.updated_at # Unset
    BY <2>1 DEF UOW!Flush, UOW!Dirty, Row
  <2> QED
    BY <1>2, <2>1, <2>2, <2>3, FlushType DEF Planned
<1> HIDE DEF row, after
<1>7. Live' = Live /\ PastOnly'
  BY <1>2, <1>5, <1>6 DEF AloneInv, PastOnly, TypeOK, Live
<1>8. after.code # 500 /\ after.id \in Live'
  BY <1>1, <1>2, <1>3, <1>7 DEF Alone
<1>9. req'[w] = after
  BY <1>5 DEF TypeOK
<1>10. /\ req'[w].pc = "refresh" /\ req'[w].id \in Live' /\ req'[w].code # 500
  BY <1>3, <1>8, <1>9
<1>11. Alone(req[w])'
  BY <1>10 DEF Alone
<1> QED
  BY <1>7, <1>11 DEF AloneInv

LEMMA DeleteAlone ==
  ASSUME TypeOK, AloneInv, NEW w, Workers = {w}, CommitDelete(w)
  PROVE  AloneInv'
<1>1. /\ articles' = [i \in Live \ {req[w].id} |-> articles[i]]
      /\ req' = [req EXCEPT ![w] = Answered(204)] /\ now' = now
  BY DEF CommitDelete, Answer
<1>2. PastOnly'
  BY <1>1 DEF AloneInv, PastOnly, Live
<1>3. Alone(Answered(204))'
  BY DEF Alone, Answered, Idle
<1>4. req'[w] = Answered(204)
  BY <1>1 DEF TypeOK
<1> QED
  BY <1>2, <1>3, <1>4 DEF AloneInv

LEMMA CheckSlugAlone ==
  ASSUME ConstantsAssumption, TypeOK, AloneInv, NEW w, Workers = {w}, CheckSlug(w)
  PROVE  AloneInv'
<1> DEFINE u == Update(req[w].loaded, req[w].data)
           r == [u EXCEPT !.id = req[w].id, !.loaded = req[w].loaded]
<1>1. req[w].pc = "check_slug" /\ Alone(req[w]) /\ req[w] \in Request
  BY DEF AloneInv, CheckSlug, TypeOK
<1>2. /\ Fresh(req[w]) /\ req[w].data.updated_at = Unset
      /\ NoDatesSent => req[w].data.published_at = Unset
  BY <1>1 DEF Alone
<1>3. CASE SlugExists(req[w].data.slug, req[w].id)
  <2>1. Alone(Answered(409))
    BY AnsweredAlone
  <2>2. req' = [req EXCEPT ![w] = Answered(409)] /\ UNCHANGED <<articles, now>>
    BY <1>3 DEF CheckSlug, Answer
  <2> QED
    BY <2>1, <2>2, AloneMove
<1>4. CASE ~ SlugExists(req[w].data.slug, req[w].id)
  <2>1. req' = [req EXCEPT ![w] = r] /\ UNCHANGED <<articles, now>>
    BY <1>4 DEF CheckSlug
  <2>2. /\ req[w].loaded \in Row /\ req[w].data \in Data /\ now \in Nat
        /\ req[w].loaded.updated_at <= now
    BY <1>1, <1>2 DEF Fresh, TypeOK, Request, AloneInv, PastOnly
  <2>3. u \in Request /\ u.pc = "update"
    BY <2>2, RowIsData, UpdateType
  <2>4. /\ u.code = 200
        /\ u.data = WithUpdateStamp(req[w].loaded,
                      WithPublishStamp(req[w].data, req[w].loaded.published_at))
    BY DEF Update, Answered
  <2> HIDE DEF u
  <2>5. /\ r.pc = "update" /\ r.data = u.data /\ r.code = u.code
        /\ r.id = req[w].id /\ r.loaded = req[w].loaded
    BY <2>3 DEF Request
  <2> HIDE DEF r
  <2>6. Planned(r.loaded, r.data) /\ r.data.slug = req[w].data.slug
    BY <1>2, <2>2, <2>4, <2>5, PlanStamped
  <2>7. BySlug(r.data.slug) \subseteq {r.id}
    BY <1>4, <2>5, <2>6 DEF SlugExists
  <2>8. Fresh(r)
    BY <1>2, <2>5 DEF Fresh
  <2>9. Alone(r)
    BY <2>4, <2>5, <2>6, <2>7, <2>8 DEF Alone
  <2> QED
    BY <2>1, <2>9, AloneMove
<1> QED
  BY <1>3, <1>4

LEMMA AloneStep ==
  ASSUME ConstantsAssumption, TypeOK, AloneInv, NEW w, Workers = {w}, [Next]_vars
  PROVE  AloneInv'
<1>0. now \in Nat /\ w \in Workers
  BY DEF TypeOK
<1>1. CASE CreatePost(w)
  <2>1. PICK body \in CreateBodies, author \in Authors :
          StartInsert(w, body.slug, WithPublishStamp(BuildArticleData(body, author), Null))
    BY <1>1 DEF CreatePost
  <2> DEFINE data == WithPublishStamp(BuildArticleData(body, author), Null)
  <2>2. body.slug \in Slugs /\ BuildArticleData(body, author).slug = body.slug
    BY DEF ConstantsAssumption, BuildArticleData, NoData
  <2>3. BuildArticleData(body, author) \in Data /\ data \in Data
    BY <1>0, NewRowType, BuildType DEF ConstantsAssumption
  <2>4. data.slug = body.slug
    BY <2>2, <2>3 DEF WithPublishStamp, Data
  <2> QED
    BY <2>1, <2>2, <2>3, <2>4, StartInsertAlone
<1>2. CASE PublishArticle(w)
  <2>1. PICK body \in PublishBodies, author \in Authors :
          StartInsert(w, body.slug, [BuildArticleData(body, author)
                                       EXCEPT !.article_status = "draft"])
    BY <1>2 DEF PublishArticle
  <2> DEFINE data == [BuildArticleData(body, author) EXCEPT !.article_status = "draft"]
  <2>2. body.slug \in Slugs /\ BuildArticleData(body, author).slug = body.slug
    BY DEF ConstantsAssumption, BuildArticleData, NoData
  <2>3. BuildArticleData(body, author) \in Data /\ data \in Data
    BY <1>0, NewRowType, BuildType DEF ConstantsAssumption
  <2>4. data.slug = body.slug
    BY <2>2, <2>3 DEF Data
  <2> QED
    BY <2>1, <2>2, <2>3, <2>4, StartInsertAlone
<1>3. CASE UpdatePost(w)
  <2>1. ASSUME NEW slug \in Slugs, NEW i \in BySlug(slug),
               NEW body \in UpdateBodies, NEW author \in Authors,
               NEW data, data = BuildArticleData(body, author),
               Found(w, i, IF data.slug = Unset
                             THEN Update(articles[i], data)
                             ELSE [Answered(200) EXCEPT !.pc = "check_slug",
                                                        !.data = data])
        PROVE  AloneInv'
    <3>1. /\ data \in Data /\ articles[i] \in Row /\ articles[i].updated_at <= now
      BY <2>1, BuildType DEF ConstantsAssumption, TypeOK, BySlug, AloneInv, PastOnly
    <3>2. data.updated_at = Unset /\ (NoDatesSent => data.published_at = Unset)
      BY <2>1 DEF BuildArticleData, NoData, NoDatesSent
    <3>3. CASE data.slug = Unset
      <4> DEFINE r == Update(articles[i], data)
      <4>1. r \in Request /\ r.pc = "update"
        BY <3>1, RowIsData, UpdateType
      <4>2. /\ r.code = 200
            /\ r.data = WithUpdateStamp(articles[i],
                          WithPublishStamp(data, articles[i].published_at))
        BY DEF Update, Answered
      <4>3. Found(w, i, r)
        BY <2>1, <3>3
      <4> HIDE DEF r
      <4>4. Planned(articles[i], r.data) /\ r.data.slug = Unset
        BY <1>0, <3>1, <3>2, <3>3, <4>2, PlanStamped
      <4> QED
        BY <4>1, <4>2, <4>3, <4>4, FoundAlone
    <3>4. CASE data.slug # Unset
      <4> DEFINE r == [Answered(200) EXCEPT !.pc = "check_slug", !.data = data]
      <4>1. r \in Request /\ r.pc = "check_slug" /\ r.data = data
        BY ZenonT(60), <3>1, NoDataType DEF Answered, Request, Codes, PCs
      <4>2. Found(w, i, r) /\ r.code = 200
        BY <2>1, <3>4 DEF Answered
      <4> HIDE DEF r
      <4> QED
        BY <3>2, <4>1, <4>2, FoundAlone
    <3> QED
      BY <3>3, <3>4
  <2> QED
    BY ZenonT(60), <1>3, <2>1, NotFoundAlone DEF UpdatePost
<1>4. CASE SetStatus(w)
  <2>1. ASSUME NEW slug \in Slugs, NEW i \in BySlug(slug), NEW status \in Statuses,
               Found(w, i, [Answered(200) EXCEPT
                              !.pc = "update", !.data = StatusData(articles[i], status)])
        PROVE  AloneInv'
    <3> DEFINE data == [NoData EXCEPT !.article_status = status]
               r == [Answered(200) EXCEPT !.pc = "update",
                                          !.data = StatusData(articles[i], status)]
    <3>1. /\ data \in Data /\ articles[i] \in Row /\ articles[i].updated_at <= now
          /\ data.updated_at = Unset /\ data.published_at = Unset /\ data.slug = Unset
      BY NoDataType DEF Data, NoData, TypeOK, BySlug, AloneInv, PastOnly
    <3>2. StatusData(articles[i], status) =
            WithUpdateStamp(articles[i], WithPublishStamp(data, articles[i].published_at))
      BY DEF StatusData
    <3>3. StatusData(articles[i], status) \in Data
      BY <1>0, <3>1, <3>2, StampType
    <3>4. r \in Request /\ r.pc = "update" /\ r.data = StatusData(articles[i], status)
      BY ZenonT(60), <3>3, NoDataType DEF Answered, Request, Codes, PCs
    <3>5. Found(w, i, r) /\ r.code = 200
      BY <2>1 DEF Answered
    <3> HIDE DEF r, data
    <3>6. Planned(articles[i], r.data) /\ r.data.slug = Unset
      BY <1>0, <3>1, <3>2, <3>4, PlanStamped
    <3> QED
      BY <3>4, <3>5, <3>6, FoundAlone
  <2> QED
    BY <1>4, <2>1, NotFoundAlone DEF SetStatus
<1>5. CASE DeletePost(w)
  <2>1. ASSUME NEW slug, NEW i \in BySlug(slug),
               Found(w, i, [Answered(204) EXCEPT !.pc = "delete"])
        PROVE  AloneInv'
    <3> DEFINE r == [Answered(204) EXCEPT !.pc = "delete"]
    <3>1. r \in Request /\ r.pc = "delete" /\ r.code = 204
      BY NoDataType DEF Answered, Request, Codes, PCs
    <3>2. Found(w, i, r)
      BY <2>1
    <3> HIDE DEF r
    <3> QED
      BY <3>1, <3>2, FoundAlone
  <2> QED
    BY <1>5, <2>1, NotFoundAlone DEF DeletePost
<1>6. CASE Refresh(w)
  <2>1. req[w].id \in Live /\ req[w].code # 500
    BY <1>0, <1>6 DEF Refresh, AloneInv, Alone
  <2>2. PICK code : code = req[w].code
    OBVIOUS
  <2>3. Alone(Answered(code))
    BY <2>1, <2>2, AnsweredAlone
  <2>4. req' = [req EXCEPT ![w] = Answered(code)] /\ UNCHANGED <<articles, now>>
    BY <1>6, <2>1, <2>2 DEF Refresh, Answer
  <2> QED
    BY <2>3, <2>4, AloneMove
<1>7. CASE Tick
  <2>1. now <= now' /\ now' \in Nat /\ UNCHANGED <<articles, req>>
    BY <1>0, <1>7 DEF Tick
  <2>2. PastOnly'
    BY <1>0, <2>1 DEF AloneInv, PastOnly, Live, TypeOK, Row, Times
  <2>3. Alone(req[w])'
    <3>1. Alone(req[w]) /\ req[w] \in Request /\ (req[w].pc = "insert" => req[w].data \in Row)
      BY <1>0 DEF AloneInv, TypeOK
    <3>2. req[w].pc = "insert" => BySlug(req[w].data.slug)' = {} /\ req[w].data.updated_at <= now'
      BY <1>0, <2>1, <3>1 DEF Alone, BySlug, Live, Row, Times
    <3>3. req[w].pc = "update" => Planned(req[w].loaded, req[w].data)'
      BY <1>0, <2>1, <3>1, ConstantsAssumption
         DEF Alone, Planned, Request, Data, Times
    <3> QED
      BY <2>1, <3>1, <3>2, <3>3 DEF Alone, Fresh, BySlug, Live
  <2> QED
    BY <2>2, <2>3 DEF AloneInv
<1>8. CASE UNCHANGED vars
  BY <1>8 DEF vars, AloneInv, PastOnly, Alone, Fresh, Planned, BySlug, Live
<1> QED
  BY <1>1, <1>2, <1>3, <1>4, <1>5, <1>6, <1>7, <1>8, InsertAlone, UpdateAlone,
     DeleteAlone, CheckSlugAlone DEF Next, Step

LEMMA AloneInit == Init => AloneInv
  BY DEF Init, AloneInv, PastOnly, Live, Alone, Answered, Idle

LEMMA AloneCorrect ==
  ASSUME NEW w, Workers = {w}
  PROVE  Spec => []AloneInv
<1>1. TypeOK /\ AloneInv /\ [Next]_vars => AloneInv'
  BY ConstantsAssumption, AloneStep
<1> QED
  BY <1>1, AloneInit, TypeCorrect, PTL DEF Spec

\* Without other requests, every answer is one the routes document: no index
\* refuses a write and no row is gone when it is written or read again
\* (posts.py:82 and 116, articles.py:396 to 449).
THEOREM AloneAnswersAreDocumented ==
  ASSUME NEW w, Workers = {w}
  PROVE  Spec => []OnlyDocumentedStatuses
<1>1. AloneInv => OnlyDocumentedStatuses
  BY DEF AloneInv, Alone, OnlyDocumentedStatuses
<1>2. Spec => []AloneInv
  BY AloneCorrect
<1> QED
  BY <1>1, <1>2, PTL

\* What a request assigned over the row as it is in the table
Assigned(row, data) == [c \in DOMAIN row |-> IF data[c] = Unset THEN row[c] ELSE data[c]]

\* An article changes by a flush of the row it was, and as planned.
ByPlan(w, i) ==
  /\ req[w].pc = "update" /\ req[w].id = i
  /\ req[w].data \in Data /\ Planned(articles[i], req[w].data)
  /\ articles'[i] = Assigned(articles[i], req[w].data)

LEMMA FlushFresh ==
  ASSUME NEW row \in Row, NEW data \in Data
  PROVE  /\ UOW!Flush(row, row, data) = Assigned(row, data)
         /\ UOW!Dirty(row, data) = {} => Assigned(row, data) = row
  BY DEF UOW!Flush, UOW!Dirty, Assigned, Row

LEMMA AloneChange ==
  ASSUME TypeOK, AloneInv, NEW w, Workers = {w}, [Next]_vars,
         NEW i \in Live \cap Live', articles'[i] # articles[i]
  PROVE  ByPlan(w, i)
<1>1. CASE UNCHANGED <<articles, nextId>>
  BY <1>1
<1>2. CASE Insert(w)
  BY <1>2 DEF Insert, TypeOK
<1>3. CASE CommitDelete(w)
  BY <1>3 DEF CommitDelete, Live
<1>4. CASE CommitUpdate(w)
  <2>1. articles' = [articles EXCEPT ![req[w].id] =
                       UOW!Flush(@, req[w].loaded, req[w].data)]
    BY <1>4 DEF CommitUpdate
  <2>2. /\ req[w].pc = "update" /\ req[w].id = i
        /\ articles'[i] = UOW!Flush(articles[i], req[w].loaded, req[w].data)
    BY <1>4, <2>1 DEF CommitUpdate, TypeOK
  <2>3. Alone(req[w]) /\ req[w].data \in Data /\ articles[i] \in Row
    BY DEF AloneInv, TypeOK, Request
  <2>4. req[w].loaded = articles[i] /\ Planned(articles[i], req[w].data)
    BY <2>2, <2>3 DEF Alone, Fresh
  <2> QED
    BY <2>2, <2>3, <2>4, FlushFresh DEF ByPlan
<1> QED
  BY <1>1, <1>2, <1>3, <1>4, OnlyCommitsWrite

\* If no body sends a date and requests come one at a time, a publication date
\* that is there is never stamped over: archiving and publishing again keeps it
\* (posts.py:128, articles.py:438).
THEOREM AloneFirstStampSticks ==
  ASSUME NEW w, Workers = {w}, NoDatesSent
  PROVE  Spec => FirstStampSticks
<1> DEFINE Sticks == \A i \in Live \cap Live' :
                       articles[i].published_at # Null =>
                         articles'[i].published_at = articles[i].published_at
<1>1. TypeOK /\ AloneInv /\ [Next]_vars => [Sticks]_vars
  <2> SUFFICES ASSUME TypeOK, AloneInv, [Next]_vars, NEW i \in Live \cap Live',
                      articles[i].published_at # Null, articles'[i] # articles[i]
               PROVE  articles'[i].published_at = articles[i].published_at
    OBVIOUS
  <2>1. ByPlan(w, i) /\ articles[i] \in Row
    BY AloneChange DEF TypeOK
  <2>2. req[w].data.published_at = Unset
    BY <2>1 DEF ByPlan, Planned
  <2> QED
    BY <2>1, <2>2 DEF ByPlan, Assigned, Row
<1>2. Spec => []AloneInv
  BY AloneCorrect
<1> QED
  BY <1>1, <1>2, TypeCorrect, PTL DEF Spec, FirstStampSticks

\* One request at a time, updated_at never goes back and every change of what a
\* reader sees moves it to the time of the request that made it (articles.py:423).
THEOREM AloneChangeMovesLastmod ==
  ASSUME NEW w0, Workers = {w0}
  PROVE  Spec => ChangeMovesLastmod
<1> DEFINE Moves == \A i \in Live \cap Live' :
                      /\ articles'[i].updated_at >= articles[i].updated_at
                      /\ Changes(i) => \E w \in Workers :
                           /\ req[w].pc = "update" /\ req[w].id = i
                           /\ articles'[i].updated_at = req[w].data.updated_at
<1>1. TypeOK /\ AloneInv /\ [Next]_vars => [Moves]_vars
  <2> SUFFICES ASSUME TypeOK, AloneInv, [Next]_vars, NEW i \in Live \cap Live'
               PROVE  /\ articles'[i].updated_at >= articles[i].updated_at
                      /\ Changes(i) => /\ req[w0].pc = "update" /\ req[w0].id = i
                                       /\ articles'[i].updated_at = req[w0].data.updated_at
    OBVIOUS
  <2>1. articles[i] \in Row /\ articles[i].updated_at \in Nat
    BY DEF TypeOK, Row, Times
  <2>2. CASE articles'[i] = articles[i]
    BY <2>1, <2>2 DEF Changes
  <2>3. CASE articles'[i] # articles[i]
    <3>1. ByPlan(w0, i)
      BY <2>3, AloneChange
    <3> DEFINE data == req[w0].data
    <3>2. /\ data \in Data
          /\ data.updated_at # Unset <=> NetChange(articles[i], data)
          /\ data.updated_at # Unset => articles[i].updated_at <= data.updated_at
      BY <3>1 DEF ByPlan, Planned
    <3>3. articles'[i].updated_at = IF data.updated_at = Unset THEN articles[i].updated_at
                                                               ELSE data.updated_at
      BY <2>1, <3>1 DEF ByPlan, Assigned, Row
    <3>4. Changes(i) => NetChange(articles[i], data)
      BY <2>1, <3>1 DEF ByPlan, Assigned, Row, Changes, Visible, NetChange, Edited, NoData
    <3>5. articles'[i].updated_at >= articles[i].updated_at
      BY <2>1, <3>2, <3>3 DEF Data, Times
    <3> QED
      BY <3>1, <3>2, <3>3, <3>4, <3>5 DEF ByPlan
  <2> QED
    BY <2>2, <2>3
<1>2. Spec => []AloneInv
  BY AloneCorrect
<1> QED
  BY <1>1, <1>2, TypeCorrect, PTL DEF Spec, ChangeMovesLastmod

\* One request at a time, the date that the sitemap publishes moves only with
\* another column of the row: one that a reader can see, or the author that a
\* save by another member of staff assigns (articles.py:425, article_writes.py:93).
THEOREM AloneLastmodOnlyWithAnEdit ==
  ASSUME NEW w, Workers = {w}
  PROVE  Spec => LastmodOnlyWithAnEdit
<1> DEFINE Quiet == \A i \in Live \cap Live' :
                      articles'[i].updated_at # articles[i].updated_at =>
                        Changes(i) \/ articles'[i].author # articles[i].author
<1>1. TypeOK /\ AloneInv /\ [Next]_vars => [Quiet]_vars
  <2> SUFFICES ASSUME TypeOK, AloneInv, [Next]_vars, NEW i \in Live \cap Live',
                      articles'[i].updated_at # articles[i].updated_at
               PROVE  Changes(i) \/ articles'[i].author # articles[i].author
    OBVIOUS
  <2>1. articles[i] \in Row /\ ByPlan(w, i)
    BY AloneChange DEF TypeOK
  <2> DEFINE data == req[w].data
  <2>2. data \in Data /\ NetChange(articles[i], data)
    BY <2>1 DEF ByPlan, Assigned, Planned, Row
  <2>3. PICK c \in Edited : data[c] # Unset /\ data[c] # articles[i][c]
    BY <2>2 DEF NetChange
  <2>4. c \in Visible \cup {"author"}
    BY <2>3 DEF Edited, NoData, Visible
  <2>5. articles'[i][c] = data[c]
    BY <2>1, <2>3, <2>4 DEF ByPlan, Assigned, Row, Visible
  <2> QED
    BY <2>3, <2>4, <2>5 DEF Changes
<1>2. Spec => []AloneInv
  BY AloneCorrect
<1> QED
  BY <1>1, <1>2, TypeCorrect, PTL DEF Spec, LastmodOnlyWithAnEdit

\* One request at a time, whatever a PUT or PATCH assigned is in the row once it
\* has committed, whether the flush sent it or not (posts.py:113, articles.py:422).
THEOREM AloneSentIsApplied ==
  ASSUME NEW w0, Workers = {w0}
  PROVE  Spec => SentIsApplied
<1> DEFINE Applied == \A w \in Workers :
              req[w].pc = "update" /\ req'[w].pc = "refresh" =>
                \A c \in DOMAIN NoData :
                  req[w].data[c] # Unset => articles'[req[w].id][c] = req[w].data[c]
<1>1. TypeOK /\ AloneInv /\ [Next]_vars => [Applied]_vars
  <2> SUFFICES ASSUME TypeOK, AloneInv, [Next]_vars,
                      req[w0].pc = "update", req'[w0].pc = "refresh",
                      NEW c \in DOMAIN NoData, req[w0].data[c] # Unset
               PROVE  articles'[req[w0].id][c] = req[w0].data[c]
    OBVIOUS
  <2> DEFINE r == req[w0]
  <2>1. Alone(r) /\ r.data \in Data
    BY DEF AloneInv, TypeOK, Request
  <2>2. r.id \in Live /\ r.loaded = articles[r.id] /\ articles[r.id] \in Row
    <3>1. Fresh(r)
      BY <2>1 DEF Alone
    <3> QED
      BY <3>1 DEF Fresh, TypeOK
  <2>3. CommitUpdate(w0)
    <3>1. ~ Ready(w0) /\ ~ UNCHANGED req
      BY DEF Ready, Idle
    <3>2. ASSUME NEW slug, NotFound(w0, slug)
          PROVE  FALSE
      BY <3>1, <3>2 DEF NotFound
    <3>3. ASSUME NEW j, NEW q, Found(w0, j, q)
          PROVE  FALSE
      BY <3>1, <3>3 DEF Found
    <3>4. ~ UpdatePost(w0) /\ ~ SetStatus(w0) /\ ~ DeletePost(w0)
      BY <3>2, <3>3 DEF UpdatePost, SetStatus, DeletePost
    <3>5. ~ CreatePost(w0) /\ ~ PublishArticle(w0)
      BY <3>1 DEF CreatePost, PublishArticle, StartInsert
    <3> QED
      BY <3>1, <3>4, <3>5 DEF Next, Step, Tick, vars, Insert, CheckSlug, Refresh, CommitDelete
  <2>4. CASE UOW!Dirty(r.loaded, r.data) = {}
    <3>1. articles' = articles
      BY <2>3, <2>4 DEF CommitUpdate
    <3> QED
      BY <2>1, <2>2, <2>4, <3>1 DEF UOW!Dirty, Row, NoData
  <2>5. CASE UOW!Dirty(r.loaded, r.data) # {}
    <3>1. articles' = [articles EXCEPT ![r.id] = UOW!Flush(@, r.loaded, r.data)]
      <4>1. req' # [req EXCEPT ![w0] = Answered(500)]
        BY DEF Answered, Idle, TypeOK
      <4> QED
        BY <2>3, <2>5, <4>1 DEF CommitUpdate, Answer
    <3>2. articles'[r.id] = Assigned(articles[r.id], r.data)
      BY <2>1, <2>2, <3>1, FlushFresh DEF TypeOK
    <3> QED
      BY <2>1, <2>2, <3>2 DEF Assigned, Row, NoData
  <2> QED
    BY <2>4, <2>5
<1>2. Spec => []AloneInv
  BY AloneCorrect
<1> QED
  BY <1>1, <1>2, TypeCorrect, PTL DEF Spec, SentIsApplied

-----------------------------------------------------------------------------
(* The payload of a write: what normalising stores, for every text, list  *)
(* and body. The loops of Payload are recursive functions, and the facts  *)
(* about them are proved by induction on how far a loop has come; a set   *)
(* of numbers stands for the claim.                                       *)

\* A set of numbers that is not empty has a least one: what proofs by
\* induction on a length use below.
LEMMA LeastNumber ==
  ASSUME NEW T \in SUBSET Nat, T # {}
  PROVE  \E m \in T : \A k \in T : m <= k
<1>1. \E Less : /\ IsWellFoundedOn(Less, Nat)
                /\ \A k, m \in Nat : k < m => <<k, m>> \in Less
  <2>1. \A k, m \in Nat : k < m => <<k, m>> \in OpToRel(<, Nat)
    BY Zenon DEF OpToRel
  <2> QED
    BY <2>1, NatLessThanWellFounded, Zenon
<1>2. PICK Less : /\ IsWellFoundedOn(Less, Nat)
                  /\ \A k, m \in Nat : k < m => <<k, m>> \in Less
  BY <1>1
<1>3. \E m \in T : \A k \in T : ~ (<<k, m>> \in Less)
  <2>1. T \subseteq Nat
    OBVIOUS
  <2>2. IsWellFoundedOn(Less, Nat)
    BY <1>2
  <2> QED
    BY ONLY WFMin, <2>1, <2>2, T # {}
<1>4. PICK m \in T : \A k \in T : ~ (k < m)
  BY <1>2, <1>3, Zenon
<1> QED
  BY <1>4

\* Induction up to n, over the set of the numbers a claim holds of
LEMMA UpTo ==
  ASSUME NEW n \in Nat, NEW Holds,
         0 \in Holds,
         \A i \in 1 .. n : i - 1 \in Holds => i \in Holds
  PROVE  0 .. n \subseteq Holds
<1> DEFINE Fails == (0 .. n) \ Holds
<1> SUFFICES ASSUME Fails # {} PROVE FALSE
  OBVIOUS
<1>1. PICK m \in Fails : \A k \in Fails : m <= k
  BY LeastNumber, Fails \in SUBSET Nat
<1>2. m \in 1 .. n /\ m - 1 \in 0 .. n /\ m - 1 \notin Fails
  BY <1>1
<1> QED
  BY <1>1, <1>2

\* What a loop over n items has computed after each of them
Run(S, start, n, step) ==
  {run \in [0 .. n -> S] : run[0] = start /\ \A i \in 1 .. n : run[i] = step[i][run[i - 1]]}

\* Every such loop has a run, and so a result after its last item.
LEMMA LoopRuns ==
  ASSUME NEW S, NEW start \in S, NEW n \in Nat, NEW step \in [1 .. n -> [S -> S]]
  PROVE  Run(S, start, n, step) # {}
<1> DEFINE Steps(f, m) == /\ f \in [0 .. m -> S]
                          /\ f[0] = start
                          /\ \A i \in 1 .. m : f[i] = step[i][f[i - 1]]
           Runs == {m \in 0 .. n : \E f : Steps(f, m)}
<1>1. 0 \in Runs
  <2> DEFINE f == [i \in 0 .. 0 |-> start]
  <2>1. Steps(f, 0)
    OBVIOUS
  <2> HIDE DEF Steps, f
  <2> QED
    BY <2>1
<1>2. ASSUME NEW m \in 1 .. n, m - 1 \in Runs
      PROVE  m \in Runs
  <2>1. PICK g : Steps(g, m - 1)
    BY <1>2
  <2> DEFINE last == step[m][g[m - 1]]
             f    == [i \in 0 .. m |-> IF i = m THEN last ELSE g[i]]
  <2>2. last \in S
    BY <2>1
  <2>3. f \in [0 .. m -> S] /\ f[0] = start
    <3> HIDE DEF last
    <3> QED
      BY <2>1, <2>2
  <2>4. ASSUME NEW i \in 1 .. m
        PROVE  f[i] = step[i][f[i - 1]]
    <3>1. CASE i = m
      BY <3>1
    <3>2. CASE i # m
      BY <3>2, <2>1
    <3> QED
      BY <3>1, <3>2
  <2>5. Steps(f, m)
    <3> HIDE DEF f
    <3> QED
      BY <2>3, <2>4
  <2> HIDE DEF Steps, f
  <2> QED
    BY <2>5
<1>3. n \in Runs
  <2> HIDE DEF Runs
  <2>1. 0 .. n \subseteq Runs
    BY <1>1, <1>2, UpTo, Zenon
  <2> QED
    BY <2>1
<1>4. PICK f : Steps(f, n)
  BY <1>3
<1> QED
  BY <1>4 DEF Run

\* How far Pick has come at each position
PickRun(S, seq, positions) ==
  {upto \in [0 .. Len(seq) -> Seq(S)] :
     /\ upto[0] = <<>>
     /\ \A i \in 1 .. Len(seq) :
          upto[i] = IF i \in positions THEN Append(upto[i - 1], seq[i]) ELSE upto[i - 1]
     /\ Pick(seq, positions) = upto[Len(seq)]}

\* Pick reaches the end of every sequence.
LEMMA PickRuns ==
  ASSUME NEW S, NEW seq \in Seq(S), NEW positions
  PROVE  PickRun(S, seq, positions) # {}
<1> DEFINE Then(out, i) == IF i \in positions THEN Append(out, seq[i]) ELSE out
           Whole(f) == [i \in 0 .. Len(seq) |-> IF i = 0 THEN <<>> ELSE Then(f[i - 1], i)]
           step == [i \in 1 .. Len(seq) |-> [out \in Seq(S) |-> Then(out, i)]]
<1>1. Len(seq) \in Nat /\ <<>> \in Seq(S)
  OBVIOUS
<1>2. \A out \in Seq(S), i \in 1 .. Len(seq) : Then(out, i) \in Seq(S)
  OBVIOUS
<1> HIDE DEF Then
<1>3. /\ step \in [1 .. Len(seq) -> [Seq(S) -> Seq(S)]]
      /\ \A out \in Seq(S), i \in 1 .. Len(seq) : step[i][out] = Then(out, i)
  BY <1>2
<1> HIDE DEF step
<1>4. PICK run \in [0 .. Len(seq) -> Seq(S)] :
        run[0] = <<>> /\ \A i \in 1 .. Len(seq) : run[i] = step[i][run[i - 1]]
  <2>1. Run(Seq(S), <<>>, Len(seq), step) # {}
    BY <1>1, <1>3, LoopRuns, Zenon
  <2> QED
    BY <2>1 DEF Run
<1>5. run = Whole(run)
  <2>1. run = [i \in 0 .. Len(seq) |-> run[i]]
    BY <1>4
  <2>2. \A i \in 0 .. Len(seq) : run[i] = IF i = 0 THEN <<>> ELSE Then(run[i - 1], i)
    <3> SUFFICES ASSUME NEW i \in 0 .. Len(seq), i # 0
                 PROVE  run[i] = Then(run[i - 1], i)
      BY <1>4
    <3>1. i \in 1 .. Len(seq) /\ run[i - 1] \in Seq(S)
      BY <1>1, <1>4
    <3> QED
      BY <3>1, <1>3, <1>4
  <2> QED
    BY <2>1, <2>2
<1> DEFINE upto[i \in 0 .. Len(seq)] ==
             IF i = 0 THEN <<>>
             ELSE IF i \in positions THEN Append(upto[i - 1], seq[i])
                                     ELSE upto[i - 1]
<1>6. upto = Whole(upto)
  BY <1>5 DEF Then
<1>7. Pick(seq, positions) = upto[Len(seq)]
  BY DEF Pick
<1> HIDE DEF upto
<1>8. upto[0] = <<>> /\ \A i \in 1 .. Len(seq) : upto[i] = Then(upto[i - 1], i)
  BY <1>6, <1>1
<1>9. \A i \in 0 .. Len(seq) : upto[i] \in Seq(S)
  <2> DEFINE Holds == {i \in 0 .. Len(seq) : upto[i] \in Seq(S)}
  <2>1. 0 \in Holds
    <3>1. upto[0] \in Seq(S)
      BY <1>1, <1>8, Zenon
    <3> QED
      BY <3>1, <1>1
  <2>2. \A i \in 1 .. Len(seq) : i - 1 \in Holds => i \in Holds
    BY <1>1, <1>2, <1>8
  <2> HIDE DEF Holds
  <2>3. 0 .. Len(seq) \subseteq Holds
    BY <2>1, <2>2, <1>1, UpTo
  <2> QED
    BY <2>3 DEF Holds
<1>10. upto = [i \in 0 .. Len(seq) |-> upto[i]]
  BY <1>6
<1>11. upto \in PickRun(S, seq, positions)
  BY <1>7, <1>8, <1>9, <1>10 DEF Then, PickRun
<1> QED
  BY <1>11

\* What is picked comes from those positions, in no greater number, and it is
\* all when those are all the positions.
LEMMA PickType ==
  ASSUME NEW S, NEW seq \in Seq(S), NEW positions
  PROVE  /\ Pick(seq, positions) \in Seq({seq[i] : i \in positions \cap DOMAIN seq})
         /\ Pick(seq, positions) \in Seq(S)
         /\ Len(Pick(seq, positions)) <= Len(seq)
         /\ DOMAIN seq \subseteq positions => Pick(seq, positions) = seq
<1> DEFINE Picked == {seq[i] : i \in positions \cap DOMAIN seq}
<1>1. PICK upto \in [0 .. Len(seq) -> Seq(S)] :
           /\ upto[0] = <<>>
           /\ \A i \in 1 .. Len(seq) :
                upto[i] = IF i \in positions THEN Append(upto[i - 1], seq[i])
                                             ELSE upto[i - 1]
           /\ Pick(seq, positions) = upto[Len(seq)]
  <2>1. PickRun(S, seq, positions) # {}
    BY PickRuns, Zenon
  <2> QED
    BY <2>1 DEF PickRun
<1> DEFINE Good(i) == /\ upto[i] \in Seq(Picked)
                      /\ Len(upto[i]) <= i
                      /\ DOMAIN seq \subseteq positions =>
                           /\ Len(upto[i]) = i
                           /\ \A j \in 1 .. i : upto[i][j] = seq[j]
           Holds == {i \in 0 .. Len(seq) : Good(i)}
<1>2. 0 \in Holds
  BY <1>1
<1>3. ASSUME NEW i \in 1 .. Len(seq), i - 1 \in Holds
      PROVE  i \in Holds
  <2>1. Good(i - 1) /\ i \in DOMAIN seq
    BY <1>3
  <2>2. CASE i \in positions
    <3>1. upto[i] = Append(upto[i - 1], seq[i]) /\ seq[i] \in Picked
      BY <1>1, <2>2, <2>1
    <3> HIDE DEF Picked
    <3>2. /\ upto[i] \in Seq(Picked)
          /\ Len(upto[i]) = Len(upto[i - 1]) + 1
          /\ \A j \in 1 .. Len(upto[i - 1]) : upto[i][j] = upto[i - 1][j]
          /\ upto[i][Len(upto[i - 1]) + 1] = seq[i]
      BY <3>1, <2>1, AppendProperties
    <3>3. Len(upto[i - 1]) \in Nat
      BY <2>1
    <3>4. Len(upto[i]) <= i
      BY <3>2, <3>3, <2>1
    <3>5. ASSUME DOMAIN seq \subseteq positions
          PROVE  Len(upto[i]) = i /\ \A j \in 1 .. i : upto[i][j] = seq[j]
      <4>1. Len(upto[i - 1]) = i - 1 /\ \A j \in 1 .. i - 1 : upto[i - 1][j] = seq[j]
        BY <2>1, <3>5
      <4>2. Len(upto[i]) = i /\ upto[i][i] = seq[i]
        BY <3>2, <4>1
      <4>3. \A j \in 1 .. i - 1 : upto[i][j] = seq[j]
        BY <3>2, <4>1
      <4> QED
        BY <4>2, <4>3
    <3> QED
      BY <3>2, <3>4, <3>5
  <2>3. CASE i \notin positions
    <3>1. upto[i] = upto[i - 1] /\ ~ (DOMAIN seq \subseteq positions)
      BY <1>1, <2>3, <2>1
    <3> HIDE DEF Picked
    <3>2. Len(upto[i - 1]) \in Nat
      BY <2>1
    <3> QED
      BY <3>1, <3>2, <2>1
  <2> QED
    BY <2>2, <2>3
<1> HIDE DEF Holds
<1>4. Len(seq) \in Holds
  <2>1. Len(seq) \in Nat
    OBVIOUS
  <2>2. 0 .. Len(seq) \subseteq Holds
    BY <2>1, <1>2, <1>3, UpTo, Zenon
  <2> QED
    BY <2>1, <2>2
<1>5. Good(Len(seq)) /\ upto[Len(seq)] \in Seq(S)
  BY <1>1, <1>4 DEF Holds
<1>6. DOMAIN seq \subseteq positions => Pick(seq, positions) = seq
  BY <1>1, <1>5, SeqEqual
<1> QED
  BY <1>1, <1>5, <1>6

-----------------------------------------------------------------------------
(* Texts *)

\* The ends of a set of positions that is not empty are positions of it.
LEMMA Ends ==
  ASSUME NEW n \in Nat, NEW T, T \subseteq 1 .. n, T # {}
  PROVE  /\ Min(T) \in T /\ \A k \in T : Min(T) <= k
         /\ Max(T) \in T /\ \A k \in T : k <= Max(T)
<1>1. \E m \in T : \A k \in T : m <= k
  BY LeastNumber, T \in SUBSET Nat
<1>2. \E m \in T : \A k \in T : k <= m
  <2> DEFINE Mirror == {n - k : k \in T}
  <2>1. PICK m \in Mirror : \A k \in Mirror : m <= k
    BY LeastNumber, Mirror \in SUBSET Nat, Mirror # {}
  <2>2. n - m \in T /\ \A k \in T : m <= n - k
    BY <2>1
  <2>3. \A k \in T : k <= n - m
    BY <2>2
  <2> QED
    BY <2>2, <2>3
<1>3. \A x, y : (x >= y) = (y <= x)
  OBVIOUS
<1> QED
  BY <1>1, <1>2 DEF Min, Max

\* A slice up to a limit is not longer than the limit, nor than what was
\* sliced, and empty only if that was.
LEMMA CapType ==
  ASSUME NEW S, NEW seq \in Seq(S), NEW n \in Nat \ {0}
  PROVE  /\ Cap(seq, n) \in Seq(S)
         /\ Len(Cap(seq, n)) <= n
         /\ Len(Cap(seq, n)) <= Len(seq)
         /\ seq # <<>> => Cap(seq, n) # <<>>
<1>1. Len(seq) \in Nat
  OBVIOUS
<1>2. Min({n, Len(seq)}) = IF n <= Len(seq) THEN n ELSE Len(seq)
  BY <1>1 DEF Min
<1>3. Cap(seq, n) = SubSeq(seq, 1, IF n <= Len(seq) THEN n ELSE Len(seq))
  BY <1>2 DEF Cap
<1> QED
  BY <1>1, <1>3

\* str.strip adds nothing.
LEMMA StripType ==
  ASSUME NEW text \in Text
  PROVE  Strip(text) \in Text /\ Len(Strip(text)) <= Len(text)
<1> DEFINE ink == {i \in DOMAIN text : text[i] # Blank}
<1>1. CASE ink = {}
  BY <1>1 DEF Strip, Text
<1>2. CASE ink # {}
  <2>1. Len(text) \in Nat /\ ink \subseteq 1 .. Len(text)
    BY DEF Text
  <2> HIDE DEF ink
  <2>2. Min(ink) \in 1 .. Len(text) /\ Max(ink) \in 1 .. Len(text)
    BY <2>1, <1>2, Ends
  <2>3. Strip(text) = SubSeq(text, Min(ink), Max(ink))
    BY <1>2 DEF Strip, ink
  <2> QED
    BY <2>2, <2>3 DEF Text
<1> QED
  BY <1>1, <1>2

\* str.lower keeps the length.
LEMMA LowerType ==
  ASSUME NEW text \in Text
  PROVE  Lower(text) \in Text /\ Len(Lower(text)) = Len(text)
<1>1. \A char \in Char : (IF char = "H" THEN "h" ELSE char) \in Char
  BY DEF Char
<1>2. \A i \in DOMAIN text : text[i] \in Char
  BY DEF Text
<1>3. \A i \in DOMAIN text : (IF text[i] = "H" THEN "h" ELSE text[i]) \in Char
  BY <1>1, <1>2
<1> QED
  BY <1>3 DEF Lower, Text

\* Dropping takes one of the positions at most, and closes the gap.
LEMMA DropType ==
  ASSUME NEW text \in Text, NEW positions, positions \subseteq DOMAIN text
  PROVE  /\ Drop(text, positions) \in Text
         /\ positions = {} => Drop(text, positions) = text
         /\ positions # {} =>
              \E k \in positions :
                /\ Len(Drop(text, positions)) = Len(text) - 1
                /\ \A i \in 1 .. k - 1 : Drop(text, positions)[i] = text[i]
                /\ \A i \in k .. Len(text) - 1 : Drop(text, positions)[i] = text[i + 1]
<1>1. CASE positions = {}
  BY <1>1 DEF Drop
<1>2. CASE positions # {}
  <2> DEFINE k == CHOOSE i \in positions : TRUE
             before == SubSeq(text, 1, k - 1)
             behind == SubSeq(text, k + 1, Len(text))
  <2>1. k \in positions /\ Drop(text, positions) = before \o behind
    BY <1>2 DEF Drop, RemoveAt
  <2> HIDE DEF k
  <2>2. /\ text \in Seq(Char) /\ Len(text) \in Nat /\ k \in 1 .. Len(text)
        /\ k \in DOMAIN text
    BY <2>1 DEF Text
  <2>3. /\ before \in Seq(Char) /\ Len(before) = k - 1
        /\ \A i \in 1 .. k - 1 : before[i] = text[i]
    BY <2>2
  <2>4. /\ behind \in Seq(Char) /\ Len(behind) = Len(text) - k
        /\ \A i \in 1 .. Len(text) - k : behind[i] = text[k + i]
    <3>1. CASE k = Len(text)
      <4>1. behind = <<>>
        BY <2>2, <3>1
      <4> QED
        BY <2>2, <3>1, <4>1
    <3>2. CASE k # Len(text)
      BY <2>2, <3>2
    <3> QED
      BY <3>1, <3>2
  <2> HIDE DEF before, behind
  <2>5. before \o behind \in Seq(Char) /\ Len(before \o behind) = Len(text) - 1
    BY <2>2, <2>3, <2>4
  <2>6. \A i \in 1 .. k - 1 : (before \o behind)[i] = text[i]
    BY <2>2, <2>3, <2>4
  <2>7. ASSUME NEW i \in k .. Len(text) - 1
        PROVE  (before \o behind)[i] = text[i + 1]
    <3>1. i \in Len(before) + 1 .. Len(before) + Len(behind)
      BY <2>2, <2>3, <2>4
    <3>2. (before \o behind)[i] = behind[i - Len(before)]
      BY <2>3, <2>4, <3>1, ConcatProperties
    <3>3. i - Len(before) \in 1 .. Len(text) - k /\ k + (i - Len(before)) = i + 1
      BY <2>2, <2>3, <3>1
    <3> QED
      BY <2>4, <3>2, <3>3
  <2> QED
    BY <1>2, <2>1, <2>2, <2>5, <2>6, <2>7 DEF Text
<1> QED
  BY <1>1, <1>2

\* The steps of Canonical
Unmarked(text)   == Drop(text, Hollow(text, "#", {}))
Unqueried(text)  == Drop(text, Hollow(text, "?", {"#"}))
Unparamed(text)  == Drop(text, HollowParams(text))

LEMMA CanonicalSteps ==
  ASSUME NEW text
  PROVE  Canonical(text) = Unparamed(Unqueried(Unmarked(text)))
  BY DEF Canonical, Unmarked, Unqueried, Unparamed

\* urlunparse answers a text.
LEMMA CanonicalType ==
  ASSUME NEW text \in Text
  PROVE  Canonical(text) \in Text
<1>1. Unmarked(text) \in Text
  BY DropType DEF Unmarked, Hollow
<1>2. \A t \in Text : Unqueried(t) \in Text
  BY DropType DEF Unqueried, Hollow
<1>3. \A t \in Text : Unparamed(t) \in Text
  BY DropType DEF Unparamed, HollowParams
<1> QED
  BY <1>1, <1>2, <1>3, CanonicalSteps

\* Joining the words of a text with single blanks gives a text.
LEMMA CollapseType ==
  ASSUME NEW value \in {None} \cup Text
  PROVE  Collapse(value) \in Text
<1>1. CASE value = None
  BY <1>1 DEF Collapse, Text
<1>2. CASE value # None
  <2> DEFINE shown == {i \in DOMAIN value : value[i] # Blank \/ i = 1 \/ value[i - 1] # Blank}
  <2>1. Pick(value, shown) \in Text
    BY <1>2, PickType DEF Text
  <2> QED
    BY <1>2, <2>1, StripType DEF Collapse
<1> QED
  BY <1>1, <1>2

\* valid_http_url answers a text or None.
LEMMA UrlType ==
  ASSUME NEW value \in {None} \cup Text
  PROVE  valid_http_url(value) \in {None} \cup Text
<1> DEFINE text == IF value = None THEN <<>> ELSE Strip(value)
           url  == <<"h">> \o Tail(text)
<1>1. text \in Text
  BY StripType DEF Text
<1> HIDE DEF text
<1>2. CASE Len(text) < 2 \/ text[1] \notin {"h", "H"} \/ text[2] \in {"/", "?", "#"}
  BY <1>2 DEF valid_http_url, text
<1>3. CASE ~ (Len(text) < 2 \/ text[1] \notin {"h", "H"} \/ text[2] \in {"/", "?", "#"})
  <2>1. url \in Text /\ Len(url) >= 2
    <3>1. "h" \in Char
      BY DEF Char
    <3>2. Tail(text) \in Seq(Char) /\ Len(Tail(text)) >= 1
      BY <1>1, <1>3 DEF Text
    <3> QED
      BY <3>1, <3>2 DEF Text
  <2>2. valid_http_url(value) = Canonical(url)
    BY <1>3 DEF valid_http_url, text
  <2> HIDE DEF url
  <2>3. Canonical(url) \in Text
    BY <2>1, CanonicalType
  <2> QED
    BY <2>2, <2>3
<1> QED
  BY <1>2, <1>3

\* A keyword that is kept is neither empty nor longer than its limit.
LEMMA KeywordType ==
  ASSUME PayloadAssumption, NEW item \in Text
  PROVE  /\ Keyword(item) \in Text
         /\ Keyword(item) # <<>> =>
              Len(Keyword(item)) \in 1 .. Limits.search_keyword_item
<1>1. Limits.search_keyword_item \in Nat \ {0}
  BY DEF PayloadAssumption, Caps
<1>2. Lower(Collapse(item)) \in Text
  BY CollapseType, LowerType
<1>3. Keyword(item) \in Text /\ Len(Keyword(item)) <= Limits.search_keyword_item
  BY <1>1, <1>2, CapType DEF Keyword, Text
<1> QED
  BY <1>1, <1>3 DEF Text

\* What the loop over the keywords has kept after each of them
KeywordRun(items) ==
  {out \in [0 .. Len(items) -> Seq(Text)] :
     /\ out[0] = <<>>
     /\ \A i \in 1 .. Len(items) : out[i] = AddKeyword(out[i - 1], items[i])
     /\ Keywords(items) = out[Len(items)]}

\* No list reads as an empty one.
LEMMA ItemsType ==
  ASSUME NEW S, NEW value \in {None} \cup Seq(S)
  PROVE  Items(value) \in Seq(S)
  BY DEF Items

\* One more keyword leaves a list of texts.
LEMMA AddKeywordType ==
  ASSUME PayloadAssumption, NEW out \in Seq(Text), NEW item \in Text
  PROVE  AddKeyword(out, item) \in Seq(Text)
<1>1. Keyword(item) \in Text
  BY KeywordType
<1> QED
  BY <1>1 DEF AddKeyword

\* The loop over the keywords reaches the end of every list.
LEMMA KeywordRuns ==
  ASSUME PayloadAssumption, NEW items \in Seq(Text)
  PROVE  KeywordRun(items) # {}
<1> DEFINE Whole(f) ==
             [i \in 0 .. Len(items) |-> IF i = 0 THEN <<>> ELSE AddKeyword(f[i - 1], items[i])]
           step == [i \in 1 .. Len(items) |-> [out \in Seq(Text) |-> AddKeyword(out, items[i])]]
<1>1. Len(items) \in Nat /\ <<>> \in Seq(Text)
  OBVIOUS
<1>2. ASSUME NEW out \in Seq(Text), NEW i \in 1 .. Len(items)
      PROVE  AddKeyword(out, items[i]) \in Seq(Text)
  <2>1. items[i] \in Text
    OBVIOUS
  <2> QED
    BY <2>1, AddKeywordType, Zenon
<1>3. /\ step \in [1 .. Len(items) -> [Seq(Text) -> Seq(Text)]]
      /\ \A out \in Seq(Text), i \in 1 .. Len(items) : step[i][out] = AddKeyword(out, items[i])
  BY <1>2
<1> HIDE DEF step
<1>4. PICK run \in [0 .. Len(items) -> Seq(Text)] :
        run[0] = <<>> /\ \A i \in 1 .. Len(items) : run[i] = step[i][run[i - 1]]
  <2>1. Run(Seq(Text), <<>>, Len(items), step) # {}
    BY <1>1, <1>3, LoopRuns, Zenon
  <2> QED
    BY <2>1 DEF Run
<1>5. run = Whole(run)
  <2>1. run = [i \in 0 .. Len(items) |-> run[i]]
    BY <1>4
  <2>2. \A i \in 0 .. Len(items) :
          run[i] = IF i = 0 THEN <<>> ELSE AddKeyword(run[i - 1], items[i])
    <3> SUFFICES ASSUME NEW i \in 0 .. Len(items), i # 0
                 PROVE  run[i] = AddKeyword(run[i - 1], items[i])
      BY <1>4
    <3>0. i \in 1 .. Len(items) /\ i - 1 \in 0 .. Len(items)
      BY <1>1
    <3>1. i \in 1 .. Len(items) /\ run[i - 1] \in Seq(Text)
      BY <1>4, <3>0
    <3> QED
      BY <3>1, <1>3, <1>4
  <2> QED
    BY <2>1, <2>2
<1> DEFINE out[i \in 0 .. Len(items)] ==
             IF i = 0 THEN <<>> ELSE AddKeyword(out[i - 1], items[i])
<1>6. out = Whole(out)
  BY <1>5
<1>7. Keywords(items) = out[Len(items)]
  BY DEF Keywords
<1> HIDE DEF out
<1>8. out[0] = <<>> /\ \A i \in 1 .. Len(items) : out[i] = AddKeyword(out[i - 1], items[i])
  <2>1. out[0] = <<>>
    BY <1>6, <1>1
  <2>2. ASSUME NEW i \in 1 .. Len(items)
        PROVE  out[i] = AddKeyword(out[i - 1], items[i])
    <3>1. i \in 0 .. Len(items) /\ i # 0
      BY <1>1
    <3>2. Whole(out)[i] = AddKeyword(out[i - 1], items[i])
      BY <3>1
    <3> QED
      BY <1>6, <3>2
  <2> QED
    BY <2>1, <2>2
<1>9. \A i \in 0 .. Len(items) : out[i] \in Seq(Text)
  <2> DEFINE Holds == {i \in 0 .. Len(items) : out[i] \in Seq(Text)}
  <2>1. 0 \in Holds
    <3>1. out[0] \in Seq(Text)
      BY <1>1, <1>8, Zenon
    <3> QED
      BY <3>1, <1>1
  <2>2. \A i \in 1 .. Len(items) : i - 1 \in Holds => i \in Holds
    BY <1>1, <1>2, <1>8
  <2> HIDE DEF Holds
  <2>3. 0 .. Len(items) \subseteq Holds
    BY <2>1, <2>2, <1>1, UpTo
  <2> QED
    BY <2>3 DEF Holds
<1>10. out = [i \in 0 .. Len(items) |-> out[i]]
  BY <1>6
<1>11. out \in KeywordRun(items)
  BY <1>7, <1>8, <1>9, <1>10 DEF KeywordRun
<1> QED
  BY <1>11

\* What the loop over the keywords keeps respects both of its limits: on the
\* list and on each keyword.
LEMMA KeywordsType ==
  ASSUME PayloadAssumption, NEW items \in Seq(Text)
  PROVE  /\ Keywords(items) \in Seq(Text)
         /\ Len(Keywords(items)) <= Limits.search_keyword_items
         /\ \A i \in DOMAIN Keywords(items) :
              Len(Keywords(items)[i]) \in 1 .. Limits.search_keyword_item
<1> DEFINE cap == Limits.search_keyword_items
           Fit == {text \in Text : Len(text) \in 1 .. Limits.search_keyword_item}
<1>1. cap \in Nat \ {0} /\ Len(items) \in Nat
  BY DEF PayloadAssumption, Caps
<1>2. PICK out \in KeywordRun(items) : TRUE
  BY KeywordRuns
<1> HIDE DEF cap
<1>3. /\ out[0] = <<>>
      /\ \A i \in 1 .. Len(items) : out[i] = AddKeyword(out[i - 1], items[i])
      /\ Keywords(items) = out[Len(items)]
  BY <1>2 DEF KeywordRun
<1> DEFINE Holds == {i \in 0 .. Len(items) : out[i] \in Seq(Fit) /\ Len(out[i]) <= cap}
<1> HIDE DEF Fit
<1>4. 0 \in Holds
  <2>1. out[0] \in Seq(Fit) /\ Len(out[0]) = 0
    BY <1>3, EmptySeq
  <2> QED
    BY <2>1, <1>1
<1>5. ASSUME NEW i \in 1 .. Len(items), i - 1 \in Holds
      PROVE  i \in Holds
  <2>1. out[i - 1] \in Seq(Fit) /\ Len(out[i - 1]) <= cap /\ items[i] \in Text
    BY <1>1, <1>5
  <2>2. out[i] = AddKeyword(out[i - 1], items[i])
    BY <1>3
  <2>3. CASE out[i] = out[i - 1]
    BY <2>1, <2>3
  <2>4. CASE out[i] # out[i - 1]
    <3>1. /\ out[i] = Append(out[i - 1], Keyword(items[i]))
          /\ Keyword(items[i]) # <<>>
          /\ ~ (Len(out[i - 1]) >= cap)
      BY <2>2, <2>4 DEF AddKeyword, cap
    <3>2. Keyword(items[i]) \in Fit
      BY <2>1, <3>1, KeywordType DEF Fit
    <3>3. out[i] \in Seq(Fit) /\ Len(out[i]) = Len(out[i - 1]) + 1
      BY <2>1, <3>1, <3>2
    <3> QED
      <4>1. Len(out[i - 1]) \in Nat
        BY <2>1
      <4>2. Len(out[i]) <= cap
        BY ONLY <1>1, <2>1, <3>1, <3>3, <4>1
      <4> QED
        BY <3>3, <4>2
  <2> QED
    BY <2>3, <2>4
<1> HIDE DEF Holds
<1>6. Len(items) \in Holds
  <2>1. Len(items) \in Nat
    BY <1>1
  <2>2. 0 .. Len(items) \subseteq Holds
    BY <2>1, <1>4, <1>5, UpTo, Zenon
  <2> QED
    BY <2>1, <2>2
<1>7. out[Len(items)] \in Seq(Fit) /\ Len(out[Len(items)]) <= cap
  BY <1>6 DEF Holds
<1>8. out[Len(items)] \in Seq(Text)
  BY <1>7, SeqMonotonic, Fit \subseteq Text DEF Fit
<1>9. \A i \in DOMAIN out[Len(items)] : out[Len(items)][i] \in Fit
  BY <1>7
<1> QED
  BY <1>3, <1>7, <1>8, <1>9 DEF Fit, cap

-----------------------------------------------------------------------------
(* What the normalisers return, field by field *)

\* What the lists of a body hold
TitleUrl == [title : Text, url : Text]
Faq      == [question : Text, answer : Text]
Link     == [cta : {None} \cup Text, url : Text]

\* Every published limit is a positive number.
LEMMA CapsType ==
  ASSUME PayloadAssumption
  PROVE  \A cap \in Caps : Limits[cap] \in Nat \ {0}
  BY DEF PayloadAssumption

\* The elements of a sequence over S are in S.
LEMMA ElementType ==
  ASSUME NEW S, NEW seq \in Seq(S)
  PROVE  /\ ToSet(seq) \subseteq S
         /\ \A i \in DOMAIN seq : seq[i] \in S
  BY DEF ToSet

\* The items with a usable URL are a part of the list.
LEMMA UsableType ==
  ASSUME NEW S, NEW items \in Seq(S),
         \A item \in S : item.url \in Text
  PROVE  /\ Usable(items) \in Seq(S)
         /\ \A i \in DOMAIN Usable(items) : valid_http_url(Usable(items)[i].url) \in Text
<1> DEFINE usable == {i \in DOMAIN items : valid_http_url(items[i].url) # None}
           Picked == {items[i] : i \in usable \cap DOMAIN items}
<1>1. Usable(items) = Pick(items, usable)
  BY DEF Usable
<1>2. Usable(items) \in Seq(Picked) /\ Usable(items) \in Seq(S)
  BY <1>1, PickType
<1>3. \A item \in Picked : valid_http_url(item.url) \in Text
  <2> SUFFICES ASSUME NEW i \in usable
               PROVE  valid_http_url(items[i].url) \in Text
    OBVIOUS
  <2>1. items[i].url \in Text /\ valid_http_url(items[i].url) # None
    OBVIOUS
  <2> QED
    BY <2>1, UrlType
<1> HIDE DEF Picked
<1>4. \A i \in DOMAIN Usable(items) : Usable(items)[i] \in Picked
  BY <1>2, ElementType
<1> QED
  BY <1>2, <1>3, <1>4

\* normalise_url_title_list cuts the list and every title at its limit.
LEMMA UrlTitlesType ==
  ASSUME PayloadAssumption, NEW value \in {None} \cup Seq(TitleUrl)
  PROVE  /\ normalise_url_title_list(value) \in Seq(TitleUrl)
         /\ Within(normalise_url_title_list(value), Limits.url_title_list)
         /\ \A item \in ToSet(normalise_url_title_list(value)) :
              Within(item.title, Limits.url_title_title)
<1> DEFINE items == Usable(Items(value))
           stored == Each(StoredUrlTitle, items)
           Fit == {item \in TitleUrl : Within(item.title, Limits.url_title_title)}
<1>1. /\ items \in Seq(TitleUrl)
      /\ \A i \in DOMAIN items : valid_http_url(items[i].url) \in Text
  <2>1. Items(value) \in Seq(TitleUrl)
    BY ItemsType
  <2>2. \A item \in TitleUrl : item.url \in Text
    BY DEF TitleUrl
  <2> QED
    BY <2>1, <2>2, UsableType
<1>2. Limits.url_title_list \in Nat \ {0} /\ Limits.url_title_title \in Nat \ {0}
  BY CapsType DEF Caps
<1> HIDE DEF items
<1>3. ASSUME NEW i \in DOMAIN items
      PROVE  StoredUrlTitle(items[i]) \in Fit
  <2>1. items[i] \in TitleUrl
    BY <1>1, ElementType
  <2>2. items[i].title \in Text
    BY <2>1 DEF TitleUrl
  <2>3. Strip(items[i].title) \in Seq(Char)
    BY <2>2, StripType DEF Text
  <2>4. /\ Cap(Strip(items[i].title), Limits.url_title_title) \in Text
        /\ Within(Cap(Strip(items[i].title), Limits.url_title_title), Limits.url_title_title)
    BY <2>3, <1>2, CapType DEF Text, Within
  <2> QED
    BY <2>4, <1>1 DEF TitleUrl, StoredUrlTitle
<1>4. stored \in Seq(Fit)
  <2> HIDE DEF Fit
  <2>1. stored = [i \in DOMAIN items |-> StoredUrlTitle(items[i])]
    BY DEF Each
  <2> QED
    BY <2>1, <1>1, <1>3
<1> HIDE DEF Fit
<1>5. Cap(stored, Limits.url_title_list) \in Seq(Fit)
      /\ Len(Cap(stored, Limits.url_title_list)) <= Limits.url_title_list
  BY <1>4, <1>2, CapType
<1>6. normalise_url_title_list(value) = Cap(stored, Limits.url_title_list)
  BY DEF normalise_url_title_list, items
<1>7. Fit \subseteq TitleUrl /\ \A item \in Fit : Within(item.title, Limits.url_title_title)
  BY DEF Fit
<1>8. /\ Cap(stored, Limits.url_title_list) \in Seq(TitleUrl)
      /\ ToSet(Cap(stored, Limits.url_title_list)) \subseteq Fit
  BY <1>5, <1>7, SeqMonotonic, ElementType
<1> HIDE DEF stored
<1> QED
  BY <1>5, <1>6, <1>7, <1>8 DEF Within

\* normalise_article_links cuts the list, every label and every URL.
LEMMA LinksType ==
  ASSUME PayloadAssumption, NEW value \in {None} \cup Seq(Link)
  PROVE  /\ normalise_article_links(value) \in Seq(Link)
         /\ Within(normalise_article_links(value), Limits.links)
         /\ \A item \in ToSet(normalise_article_links(value)) :
              Within(item.cta, Limits.link_cta) /\ Within(item.url, Limits.link_url)
<1> DEFINE items == Usable(Items(value))
           stored == Each(StoredLink, items)
           Fit == {item \in Link : /\ Within(item.cta, Limits.link_cta)
                                   /\ Within(item.url, Limits.link_url)}
<1>1. /\ items \in Seq(Link)
      /\ \A i \in DOMAIN items : valid_http_url(items[i].url) \in Text
  <2>1. Items(value) \in Seq(Link)
    BY ItemsType
  <2>2. \A item \in Link : item.url \in Text
    BY DEF Link
  <2> QED
    BY <2>1, <2>2, UsableType
<1>2. /\ Limits.links \in Nat \ {0}
      /\ Limits.link_cta \in Nat \ {0}
      /\ Limits.link_url \in Nat \ {0}
  BY CapsType DEF Caps
<1> HIDE DEF items
<1>3. ASSUME NEW i \in DOMAIN items
      PROVE  StoredLink(items[i]) \in Fit
  <2>1. items[i] \in Link
    BY <1>1, ElementType
  <2>2. items[i].cta \in {None} \cup Text
    BY <2>1 DEF Link
  <2>3. View \in Text /\ Within(View, Limits.link_cta)
    BY DEF PayloadAssumption, Within
  <2>4. StoredCta(items[i].cta) \in Text /\ Within(StoredCta(items[i].cta), Limits.link_cta)
    <3>1. CASE items[i].cta = None
      BY <3>1, <2>3 DEF StoredCta
    <3>2. CASE items[i].cta # None
      <4> DEFINE cut == Cap(Strip(items[i].cta), Limits.link_cta)
      <4>1. Strip(items[i].cta) \in Seq(Char)
        BY <2>2, <3>2, StripType DEF Text
      <4>2. cut \in Text /\ Within(cut, Limits.link_cta)
        BY <4>1, <1>2, CapType DEF Text, Within
      <4>3. StoredCta(items[i].cta) = IF cut = <<>> THEN View ELSE cut
        BY <3>2 DEF StoredCta
      <4> HIDE DEF cut
      <4> QED
        BY <4>2, <4>3, <2>3
    <3> QED
      BY <3>1, <3>2
  <2>5. /\ Cap(valid_http_url(items[i].url), Limits.link_url) \in Text
        /\ Within(Cap(valid_http_url(items[i].url), Limits.link_url), Limits.link_url)
    BY <1>1, <1>2, CapType DEF Text, Within
  <2> QED
    BY <2>4, <2>5 DEF Link, StoredLink
<1>4. stored \in Seq(Fit)
  <2> HIDE DEF Fit
  <2>1. stored = [i \in DOMAIN items |-> StoredLink(items[i])]
    BY DEF Each
  <2> QED
    BY <2>1, <1>1, <1>3
<1> HIDE DEF Fit
<1>5. Cap(stored, Limits.links) \in Seq(Fit)
      /\ Len(Cap(stored, Limits.links)) <= Limits.links
  BY <1>4, <1>2, CapType
<1>6. normalise_article_links(value) = Cap(stored, Limits.links)
  BY DEF normalise_article_links, items
<1>7. Fit \subseteq Link
      /\ \A item \in Fit : Within(item.cta, Limits.link_cta) /\ Within(item.url, Limits.link_url)
  BY DEF Fit
<1>8. /\ Cap(stored, Limits.links) \in Seq(Link)
      /\ ToSet(Cap(stored, Limits.links)) \subseteq Fit
  BY <1>5, <1>7, SeqMonotonic, ElementType
<1> HIDE DEF stored
<1> QED
  BY <1>5, <1>6, <1>7, <1>8 DEF Within

\* normalise_faq_list cuts the list, and keeps no item with an empty half.
LEMMA FaqType ==
  ASSUME PayloadAssumption, NEW value \in {None} \cup Seq(Faq)
  PROVE  /\ normalise_faq_list(value) \in Seq(Faq)
         /\ Within(normalise_faq_list(value), Limits.faq_items)
         /\ \A item \in ToSet(normalise_faq_list(value)) :
              /\ Len(item.question) \in 1 .. Limits.faq_question
              /\ Len(item.answer) \in 1 .. Limits.faq_answer
<1> DEFINE items  == Items(value)
           stored == Each(StoredFaq, items)
           whole  == {i \in DOMAIN stored : stored[i].question # <<>> /\ stored[i].answer # <<>>}
           Cut == {item \in Faq : /\ Within(item.question, Limits.faq_question)
                                  /\ Within(item.answer, Limits.faq_answer)}
           Fit == {item \in Faq : /\ Len(item.question) \in 1 .. Limits.faq_question
                                  /\ Len(item.answer) \in 1 .. Limits.faq_answer}
<1>1. items \in Seq(Faq)
  BY ItemsType
<1>2. /\ Limits.faq_items \in Nat \ {0}
      /\ Limits.faq_question \in Nat \ {0}
      /\ Limits.faq_answer \in Nat \ {0}
  BY CapsType DEF Caps
<1> HIDE DEF items
<1>3. ASSUME NEW i \in DOMAIN items
      PROVE  StoredFaq(items[i]) \in Cut
  <2>1. items[i] \in Faq
    BY <1>1, ElementType
  <2>2. items[i].question \in Text /\ items[i].answer \in Text
    BY <2>1 DEF Faq
  <2>3. Collapse(items[i].question) \in Seq(Char) /\ Strip(items[i].answer) \in Seq(Char)
    BY <2>2, StripType, CollapseType DEF Text
  <2>4. /\ Cap(Collapse(items[i].question), Limits.faq_question) \in Text
        /\ Within(Cap(Collapse(items[i].question), Limits.faq_question), Limits.faq_question)
    BY <2>3, <1>2, CapType DEF Text, Within
  <2>5. /\ Cap(Strip(items[i].answer), Limits.faq_answer) \in Text
        /\ Within(Cap(Strip(items[i].answer), Limits.faq_answer), Limits.faq_answer)
    BY <2>3, <1>2, CapType DEF Text, Within
  <2> QED
    BY <2>4, <2>5 DEF Faq, StoredFaq
<1>4. stored \in Seq(Cut)
  <2> HIDE DEF Cut
  <2>1. stored = [i \in DOMAIN items |-> StoredFaq(items[i])]
    BY DEF Each
  <2> QED
    BY <2>1, <1>1, <1>3
<1> DEFINE Picked == {stored[i] : i \in whole \cap DOMAIN stored}
<1>5. Pick(stored, whole) \in Seq(Picked)
  <2> HIDE DEF stored, whole, Cut
  <2> QED
    BY <1>4, PickType
<1>6. Picked \subseteq Fit
  <2> SUFFICES ASSUME NEW i \in DOMAIN stored, stored[i].question # <<>>, stored[i].answer # <<>>
               PROVE  stored[i] \in Fit
    OBVIOUS
  <2>1. stored[i] \in Cut
    <3> HIDE DEF stored, Cut
    <3> QED
      BY <1>4, ElementType
  <2> HIDE DEF stored
  <2>2. stored[i].question \in Seq(Char) /\ stored[i].answer \in Seq(Char)
    BY <2>1 DEF Faq, Text
  <2>3. Len(stored[i].question) \in Nat \ {0} /\ Len(stored[i].answer) \in Nat \ {0}
    BY <2>2, EmptySeq
  <2> QED
    BY <2>1, <2>3, <1>2 DEF Within
<1> HIDE DEF Fit, Picked
<1>7. Pick(stored, whole) \in Seq(Fit)
  BY <1>5, <1>6, SeqMonotonic
<1>8. normalise_faq_list(value) = Cap(Pick(stored, whole), Limits.faq_items)
  BY DEF normalise_faq_list, items
<1> HIDE DEF stored, whole
<1>9. /\ normalise_faq_list(value) \in Seq(Fit)
      /\ Len(normalise_faq_list(value)) <= Limits.faq_items
  <2>1. /\ Cap(Pick(stored, whole), Limits.faq_items) \in Seq(Fit)
        /\ Len(Cap(Pick(stored, whole), Limits.faq_items)) <= Limits.faq_items
    BY <1>2, <1>7, CapType
  <2> QED
    BY <2>1, <1>8
<1>10. ToSet(normalise_faq_list(value)) \subseteq Fit /\ Fit \subseteq Faq
  BY <1>9, ElementType DEF Fit
<1>11. normalise_faq_list(value) \in Seq(Faq)
  BY <1>9, <1>10, SeqMonotonic
<1> QED
  BY <1>9, <1>10, <1>11 DEF Fit, Within

\* A meta field is None or a text within its limit, never an empty one.
LEMMA MetaType ==
  ASSUME PayloadAssumption, NEW field \in MetaFields, NEW value \in {None} \cup Text
  PROVE  /\ normalise_meta(field, value) \in {None} \cup Text
         /\ normalise_meta(field, value) # None =>
              Len(normalise_meta(field, value)) \in 1 .. Limits[field]
<1>1. Limits[field] \in Nat \ {0}
  BY CapsType DEF Caps
<1>2. Collapse(value) \in Seq(Char)
  BY CollapseType DEF Text
<1>3. CASE Collapse(value) = <<>>
  BY <1>3 DEF normalise_meta
<1>4. CASE Collapse(value) # <<>>
  <2>1. normalise_meta(field, value) = Cap(Collapse(value), Limits[field])
    BY <1>4 DEF normalise_meta
  <2>2. /\ Cap(Collapse(value), Limits[field]) \in Seq(Char)
        /\ Cap(Collapse(value), Limits[field]) # <<>>
        /\ Len(Cap(Collapse(value), Limits[field])) <= Limits[field]
    BY <1>1, <1>2, <1>4, CapType
  <2>3. Len(Cap(Collapse(value), Limits[field])) \in Nat \ {0}
    BY <2>2, EmptySeq
  <2> QED
    BY <1>1, <2>1, <2>2, <2>3 DEF Text
<1> QED
  BY <1>3, <1>4

\* The cover is None or within its limit.
LEMMA CoverType ==
  ASSUME PayloadAssumption, NEW value \in {None} \cup Text
  PROVE  /\ normalise_cover_image_url(value) \in {None} \cup Text
         /\ normalise_cover_image_url(value) # None =>
              Within(normalise_cover_image_url(value), Limits.cover_image_url)
<1>1. Limits.cover_image_url \in Nat \ {0}
  BY CapsType DEF Caps
<1>2. CASE valid_http_url(value) = None
  BY <1>2 DEF normalise_cover_image_url
<1>3. CASE valid_http_url(value) # None
  <2>1. normalise_cover_image_url(value) = Cap(valid_http_url(value), Limits.cover_image_url)
    BY <1>3 DEF normalise_cover_image_url
  <2>2. valid_http_url(value) \in Seq(Char)
    BY <1>3, UrlType DEF Text
  <2> QED
    BY <2>1, <2>2, <1>1, CapType DEF Text, Within
<1> QED
  BY <1>2, <1>3

\* An element of a sanitised body has an allowed tag, is as nh3 writes it, and
\* has the forced attributes once if it is an anchor.
Sanitized(node) ==
  /\ node.tag \in Allowed /\ node.size = node.written
  /\ node.forced = IF node.tag = "a" THEN 1 ELSE 0

\* Sanitizing leaves such nodes only.
LEMMA HtmlType ==
  ASSUME NEW value \in {None} \cup Seq(Node)
  PROVE  /\ sanitize_article_html(value) \in Seq(Node)
         /\ \A node \in ToSet(sanitize_article_html(value)) : Sanitized(node)
<1> DEFINE items == Items(value)
           down  == Each(Downgrade, items)
           Allow == {i \in DOMAIN down : down[i].tag \in Allowed}
           kept  == Pick(down, Allow)
           Written(node) == [node EXCEPT !.size = node.written, !.forced = 0]
           clean == [i \in DOMAIN kept |-> Written(kept[i])]
           html  == Each(ForceTarget, clean)
           Good  == {node \in Node : node.tag \in Allowed}
           Plain == {node \in Good : node.forced = 0 /\ node.size = node.written}
           Done  == {node \in Node : Sanitized(node)}
<1>1. items \in Seq(Node)
  BY ItemsType
<1> HIDE DEF items
<1>2. down \in Seq(Node)
  <2>1. \A node \in Node : Downgrade(node) \in Node
    <3>1. ASSUME NEW node \in Node
          PROVE  [node EXCEPT !.tag = "h2"] \in Node
      BY DEF Node, Tags
    <3> QED
      BY <3>1 DEF Downgrade
  <2>2. \A i \in DOMAIN items : Downgrade(items[i]) \in Node
    BY <1>1, <2>1, ElementType
  <2>3. down = [i \in DOMAIN items |-> Downgrade(items[i])]
    BY DEF Each
  <2> QED
    BY <1>1, <2>2, <2>3
<1> HIDE DEF down
<1>3. kept \in Seq(Good)
  <2> DEFINE Picked == {down[i] : i \in Allow \cap DOMAIN down}
  <2>1. kept \in Seq(Picked)
    <3> HIDE DEF Allow
    <3> QED
      BY <1>2, PickType
  <2>2. Picked \subseteq Good
    BY <1>2, ElementType
  <2> HIDE DEF Picked, Good, kept
  <2> QED
    BY <2>1, <2>2, <1>2, SeqMonotonic
<1> HIDE DEF kept
<1>4. clean \in Seq(Plain)
  <2>1. \A node \in Good : Written(node) \in Plain
    BY DEF Node
  <2> HIDE DEF Plain, Good, Written
  <2>2. \A i \in DOMAIN kept : Written(kept[i]) \in Plain
    BY <2>1, <1>3, ElementType
  <2> QED
    BY <2>2, <1>3
<1> HIDE DEF clean
<1>5. html \in Seq(Done)
  <2>1. \A node \in Plain : ForceTarget(node) \in Done
    BY DEF Node, ForceTarget, Sanitized
  <2>2. \A i \in DOMAIN clean : ForceTarget(clean[i]) \in Done
    <3> HIDE DEF Plain, Done
    <3> QED
      BY <2>1, <1>4, ElementType
  <2>3. html = [i \in DOMAIN clean |-> ForceTarget(clean[i])]
    BY DEF Each
  <2> HIDE DEF Plain, Done, html
  <2> QED
    BY <2>2, <2>3, <1>4
<1>6. sanitize_article_html(value) = html
  BY DEF sanitize_article_html, CleanHtml, clean, kept, down, items
<1> HIDE DEF html
<1>7. ToSet(html) \subseteq Done /\ html \in Seq(Node)
  <2>1. Done \subseteq Node
    OBVIOUS
  <2> HIDE DEF Done
  <2> QED
    BY <1>5, <2>1, ElementType, SeqMonotonic
<1> QED
  BY <1>1, <1>3, <1>4, <1>5, <1>6, <1>7 DEF items

\* Null is no value of any of the types.
LEMMA NoneType ==
  ASSUME PayloadAssumption
  PROVE  /\ None \notin Text /\ None \notin Seq(Text)
         /\ None \notin Seq(TitleUrl) /\ None \notin Seq(Link) /\ None \notin Seq(Faq)
         /\ None \notin Seq(Node)
<1>1. \A field \in Fields : None \notin Typed[field]
  BY DEF PayloadAssumption
<1>2. /\ Typed["title"] = Text /\ Typed["search_keyword"] = Seq(Text)
      /\ Typed["youtube_video_url"] = Seq(TitleUrl) /\ Typed["links"] = Seq(Link)
      /\ Typed["faq"] = Seq(Faq) /\ Typed["html_content"] = Seq(Node)
  BY DEF Typed, Fields, PlainFields, MetaFields, UrlTitleFields, TitleUrl, Link, Faq
<1>3. {"title", "search_keyword", "youtube_video_url", "links", "faq", "html_content"} \subseteq Fields
  BY DEF Fields, PlainFields, UrlTitleFields
<1> QED
  BY <1>1, <1>2, <1>3

\* A body that was sanitised is left alone.
LEMMA HtmlSettles ==
  ASSUME NEW value \in Seq(Node), \A node \in ToSet(value) : Sanitized(node), None \notin Seq(Node)
  PROVE  sanitize_article_html(value) = value
<1> DEFINE down  == Each(Downgrade, value)
           Allow == {i \in DOMAIN down : down[i].tag \in Allowed}
           kept  == Pick(down, Allow)
           clean == [i \in DOMAIN kept |-> [kept[i] EXCEPT !.size = kept[i].written, !.forced = 0]]
           html  == Each(ForceTarget, clean)
<1>1. Items(value) = value
  BY DEF Items
<1>2. value = [i \in DOMAIN value |-> value[i]] /\ \A i \in DOMAIN value : value[i] \in Node /\ Sanitized(value[i])
  BY ElementType DEF ToSet
<1>3. \A i \in DOMAIN value : Downgrade(value[i]) = value[i]
  BY <1>2 DEF Downgrade, Sanitized, Allowed
<1>4. down = value
  BY <1>2, <1>3 DEF Each
<1>5. DOMAIN value \subseteq Allow
  BY <1>2, <1>4 DEF Sanitized
<1> HIDE DEF down, Allow
<1>6. kept = value
  BY <1>4, <1>5, PickType
<1> HIDE DEF kept
<1>7. html = [i \in DOMAIN value |-> ForceTarget([value[i] EXCEPT !.size = value[i].written, !.forced = 0])]
  BY <1>6 DEF Each
<1>8. ASSUME NEW i \in DOMAIN value
      PROVE  ForceTarget([value[i] EXCEPT !.size = value[i].written, !.forced = 0]) = value[i]
  <2>1. PICK node \in Node : node = value[i] /\ Sanitized(node)
    BY <1>2
  <2>2. /\ node = [tag |-> node.tag, size |-> node.size, written |-> node.written,
                    forced |-> node.forced]
        /\ node.size = node.written
        /\ node.forced = IF node.tag = "a" THEN 1 ELSE 0
    BY <2>1 DEF Sanitized, Node
  <2> DEFINE Plain == [tag |-> node.tag, size |-> node.written, written |-> node.written,
                      forced |-> 0]
  <2>3. ForceTarget([node EXCEPT !.size = node.written, !.forced = 0]) = node
    <3> DEFINE plain == [node EXCEPT !.size = node.written, !.forced = 0]
    <3>0. /\ plain \in Node /\ plain.tag = node.tag /\ plain.size = node.written
          /\ plain.written = node.written /\ plain.forced = 0
      BY <2>1 DEF Node
    <3> HIDE DEF plain
    <3>1. plain = Plain
      BY <3>0 DEF Node
    <3>2. ForceTarget(Plain) = node
      <4>1. CASE node.tag = "a"
        BY <2>2, <4>1 DEF ForceTarget
      <4>2. CASE node.tag # "a"
        BY <2>2, <4>2 DEF ForceTarget
      <4> QED
        BY <4>1, <4>2
    <3> QED
      BY <3>1, <3>2 DEF plain
  <2> QED
    BY <2>1, <2>3
<1>9. html = value
  BY <1>2, <1>7, <1>8
<1>10. sanitize_article_html(value) = html
  BY <1>1 DEF sanitize_article_html, CleanHtml, clean, kept, down, Allow
<1> QED
  BY <1>9, <1>10

-----------------------------------------------------------------------------
(* What the columns of an article hold *)

\* What column field can hold
Storable(field, value) ==
  CASE field \in PlainFields -> value \in Text /\ Within(value, Limits[field])
    [] field \in MetaFields ->
         /\ value \in {None} \cup Text
         /\ value # None => Len(value) \in 1 .. Limits[field]
    [] field = "cover_image_url" ->
         /\ value \in {None} \cup Text
         /\ value # None => Within(value, Limits.cover_image_url)
    [] field = "category" -> value \in Categories
    [] field = "html_content" ->
         /\ value \in Seq(Node)
         /\ \A node \in ToSet(value) : Sanitized(node)
    [] field = "search_keyword" ->
         /\ value \in Seq(Text)
         /\ Within(value, Limits.search_keyword_items)
         /\ \A k \in ToSet(value) : Len(k) \in 1 .. Limits.search_keyword_item
    [] field \in UrlTitleFields ->
         /\ value \in Seq(TitleUrl)
         /\ Within(value, Limits.url_title_list)
         /\ \A item \in ToSet(value) : Within(item.title, Limits.url_title_title)
    [] field = "links" ->
         /\ value \in Seq(Link)
         /\ Within(value, Limits.links)
         /\ \A item \in ToSet(value) :
              Within(item.cta, Limits.link_cta) /\ Within(item.url, Limits.link_url)
    [] field = "faq" ->
         /\ value \in Seq(Faq)
         /\ Within(value, Limits.faq_items)
         /\ \A item \in ToSet(value) :
              /\ Len(item.question) \in 1 .. Limits.faq_question
              /\ Len(item.answer) \in 1 .. Limits.faq_answer

\* Each column of the article holds what it can hold.
ContentInv ==
  /\ content = [field \in Fields |-> content[field]]
  /\ \A field \in Fields : Storable(field, content[field])

\* What build_article_data makes of a value that ArticleUpdate accepts
LEMMA BuiltHolds ==
  ASSUME PayloadAssumption, NEW field \in Fields, NEW value,
         field # "category" => value \in Sendable[field] /\ Accepts(field, value)
  PROVE  Storable(field, Built(field, value))
<1>1. CASE field \in PlainFields
  <2>1. value \in {None} \cup Text
    BY <1>1 DEF Sendable, Typed, Fields, PlainFields, MetaFields, UrlTitleFields
  <2>2. Limits[field] \in Nat \ {0}
    BY <1>1, CapsType DEF Caps
  <2>3. Built(field, value) = IF value = None THEN <<>> ELSE Strip(value)
    BY <1>1 DEF Built, PlainFields, MetaFields, UrlTitleFields
  <2>4. value # None => Len(value) <= Limits[field]
    BY <1>1 DEF Accepts, PlainFields, MetaFields, UrlTitleFields
  <2>5. Built(field, value) \in Text /\ Within(Built(field, value), Limits[field])
    <3>1. CASE value = None
      BY <3>1, <2>2, <2>3 DEF Text, Within
    <3>2. CASE value # None
      <4>1. Strip(value) \in Text /\ Len(Strip(value)) <= Len(value)
        BY <2>1, <3>2, StripType
      <4>2. Len(Strip(value)) \in Nat /\ Len(value) \in Nat
        BY <4>1, <2>1, <3>2 DEF Text
      <4> QED
        BY <4>1, <4>2, <2>2, <2>3, <2>4, <3>2 DEF Within
    <3> QED
      BY <3>1, <3>2
  <2> QED
    BY <1>1, <2>5 DEF Storable, PlainFields, MetaFields, UrlTitleFields
<1>2. CASE field \in MetaFields
  <2>1. value \in {None} \cup Text
    BY <1>2 DEF Sendable, Typed, Fields, PlainFields, MetaFields, UrlTitleFields
  <2>2. Built(field, value) = normalise_meta(field, value)
    BY <1>2 DEF Built, PlainFields, MetaFields, UrlTitleFields
  <2>3. /\ Built(field, value) \in {None} \cup Text
        /\ Built(field, value) # None => Len(Built(field, value)) \in 1 .. Limits[field]
    BY <1>2, <2>1, <2>2, MetaType
  <2> QED
    BY <1>2, <2>3 DEF Storable, PlainFields, MetaFields, UrlTitleFields
<1>3. CASE field = "cover_image_url"
  <2>1. value \in {None} \cup Text
    BY <1>3 DEF Sendable, Typed, Fields, PlainFields, MetaFields, UrlTitleFields
  <2>2. Built(field, value) = normalise_cover_image_url(value)
    BY <1>3 DEF Built, PlainFields, MetaFields, UrlTitleFields
  <2> QED
    BY <1>3, <2>1, <2>2, CoverType DEF Storable, PlainFields, MetaFields, UrlTitleFields
<1>4. CASE field = "category"
  <2>1. Built(field, value) \in Categories
    BY <1>4 DEF Built, category_slug_to_enum, Categories, PlainFields, MetaFields, UrlTitleFields
  <2> QED
    BY <1>4, <2>1 DEF Storable, PlainFields, MetaFields, UrlTitleFields
<1>5. CASE field = "html_content"
  <2>1. value \in {None} \cup Seq(Node)
    BY <1>5 DEF Sendable, Typed, Fields, PlainFields, MetaFields, UrlTitleFields
  <2>2. Built(field, value) = sanitize_article_html(value)
    BY <1>5 DEF Built, PlainFields, MetaFields, UrlTitleFields
  <2>3. /\ Built(field, value) \in Seq(Node)
        /\ \A node \in ToSet(Built(field, value)) : Sanitized(node)
    BY <2>1, <2>2, HtmlType
  <2> QED
    BY <1>5, <2>3 DEF Storable, PlainFields, MetaFields, UrlTitleFields
<1>6. CASE field = "search_keyword"
  <2>1. value \in {None} \cup Seq(Text)
    BY <1>6 DEF Sendable, Typed, Fields, PlainFields, MetaFields, UrlTitleFields
  <2>2. Built(field, value) = Keywords(Items(value))
    BY <1>6 DEF Built, normalise_search_keyword, PlainFields, MetaFields, UrlTitleFields
  <2>3. Items(value) \in Seq(Text)
    BY <2>1, ItemsType
  <2>4. /\ Built(field, value) \in Seq(Text)
        /\ Within(Built(field, value), Limits.search_keyword_items)
        /\ \A k \in ToSet(Built(field, value)) : Len(k) \in 1 .. Limits.search_keyword_item
    BY <2>2, <2>3, KeywordsType DEF Within, ToSet
  <2> QED
    BY <1>6, <2>4 DEF Storable, PlainFields, MetaFields, UrlTitleFields
<1>7. CASE field \in UrlTitleFields
  <2>1. value \in {None} \cup Seq(TitleUrl)
    BY <1>7 DEF Sendable, Typed, Fields, TitleUrl, PlainFields, MetaFields, UrlTitleFields
  <2>2. Built(field, value) = normalise_url_title_list(value)
    BY <1>7 DEF Built, PlainFields, MetaFields, UrlTitleFields
  <2> QED
    BY <1>7, <2>1, <2>2, UrlTitlesType DEF Storable, PlainFields, MetaFields, UrlTitleFields
<1>8. CASE field = "links"
  <2>1. value \in {None} \cup Seq(Link)
    BY <1>8 DEF Sendable, Typed, Fields, Link, PlainFields, MetaFields, UrlTitleFields
  <2>2. Built(field, value) = normalise_article_links(value)
    BY <1>8 DEF Built, PlainFields, MetaFields, UrlTitleFields
  <2> QED
    BY <1>8, <2>1, <2>2, LinksType DEF Storable, PlainFields, MetaFields, UrlTitleFields
<1>9. CASE field = "faq"
  <2>1. value \in {None} \cup Seq(Faq)
    BY <1>9 DEF Sendable, Typed, Fields, Faq, PlainFields, MetaFields, UrlTitleFields
  <2>2. Built(field, value) = normalise_faq_list(value)
    BY <1>9 DEF Built, PlainFields, MetaFields, UrlTitleFields
  <2> QED
    BY <1>9, <2>1, <2>2, FaqType DEF Storable, PlainFields, MetaFields, UrlTitleFields
<1> QED
  BY <1>1, <1>2, <1>3, <1>4, <1>5, <1>6, <1>7, <1>8, <1>9 DEF Fields

\* What is stored is a value that the form can send back.
LEMMA HoldsIsSendable ==
  ASSUME NEW field \in Fields, NEW value, Storable(field, value), field # "category"
  PROVE  value \in Sendable[field]
<1>1. CASE field \in PlainFields \cup MetaFields \cup {"cover_image_url"}
  BY <1>1 DEF Storable, Sendable, Typed, PlainFields, MetaFields, UrlTitleFields
<1>2. CASE field \in UrlTitleFields
  BY <1>2 DEF Storable, Sendable, Typed, PlainFields, MetaFields, UrlTitleFields, TitleUrl
<1>3. CASE field = "html_content"
  BY <1>3 DEF Storable, Sendable, Typed, PlainFields, MetaFields, UrlTitleFields
<1>4. CASE field = "search_keyword"
  BY <1>4 DEF Storable, Sendable, Typed, PlainFields, MetaFields, UrlTitleFields
<1>5. CASE field = "links"
  BY <1>5 DEF Storable, Sendable, Typed, PlainFields, MetaFields, UrlTitleFields, Link
<1>6. CASE field = "faq"
  BY <1>6 DEF Storable, Sendable, Typed, PlainFields, MetaFields, UrlTitleFields, Faq
<1> QED
  BY <1>1, <1>2, <1>3, <1>4, <1>5, <1>6 DEF Fields

\* The columns after a body that was accepted as a whole
LEMMA MergeHolds ==
  ASSUME PayloadAssumption, ContentInv, NEW body,
         \A field \in (DOMAIN body \cap Fields) \ {"category"} :
           body[field] \in Sendable[field] /\ Accepts(field, body[field]),
         content' = Merge(body)
  PROVE  ContentInv'
<1> DEFINE kept == {field \in DOMAIN body : field # "category" \/ body[field] # None}
<1>1. content' = [field \in Fields |-> IF field \in kept THEN Built(field, body[field])
                                                         ELSE content[field]]
  BY DEF Merge
<1>2. ASSUME NEW field \in Fields
      PROVE  Storable(field, content'[field])
  <2>1. CASE field \in kept
    <3>1. content'[field] = Built(field, body[field])
      BY <1>1, <2>1
    <3>2. field # "category" =>
            body[field] \in Sendable[field] /\ Accepts(field, body[field])
      BY <2>1
    <3> QED
      BY <3>1, <3>2, BuiltHolds
  <2>2. CASE field \notin kept
    BY <1>1, <2>2 DEF ContentInv
  <2> QED
    BY <2>1, <2>2
<1>3. content' = [field \in Fields |-> content'[field]]
  BY <1>1
<1>4. ASSUME NEW field \in Fields
      PROVE  Storable(field, content[field])'
  BY <1>2 DEF Storable
<1> QED
  BY <1>3, <1>4 DEF ContentInv

\* A keyword edit, as long as nothing was saved after it, is what is stored.
SentInv ==
  /\ echoes \in 0 .. 4
  /\ sent.field = "search_keyword" /\ echoes = 0 =>
       /\ sent.value \in {None} \cup Seq(Text)
       /\ content.search_keyword = Keywords(Items(sent.value))

\* The inductive invariant of Payload
PayloadInv == ContentInv /\ SentInv

\* An article without any of the columns meets it.
LEMMA PayloadStart ==
  ASSUME PayloadAssumption, PayloadInit
  PROVE  PayloadInv
<1>1. content = [field \in Fields |-> content[field]]
  BY DEF PayloadInit
<1>2. ASSUME NEW field \in Fields
      PROVE  Storable(field, content[field])
  <2>1. CASE field \in MetaFields \cup {"cover_image_url"}
    <3>1. content[field] = None
      BY <2>1 DEF PayloadInit
    <3> QED
      BY <2>1, <3>1 DEF Storable, PlainFields, MetaFields, UrlTitleFields
  <2>2. CASE field = "category"
    BY <2>2 DEF PayloadInit, Storable, PlainFields, MetaFields, UrlTitleFields, Categories
  <2>3. CASE field \notin MetaFields \cup {"cover_image_url", "category"}
    <3> DEFINE nothing == <<>>
    <3>1. content[field] = nothing
      BY <2>3 DEF PayloadInit
    <3>2. field \in {"title", "description", "instagram_post_url", "youtube_video_url",
                     "html_content", "search_keyword", "links", "faq"}
      BY <2>3 DEF Fields, PlainFields, MetaFields, UrlTitleFields
    <3>3. /\ nothing \in Text /\ nothing \in Seq(TitleUrl) /\ nothing \in Seq(Node)
          /\ nothing \in Seq(Text) /\ nothing \in Seq(Link) /\ nothing \in Seq(Faq)
          /\ Len(nothing) = 0 /\ DOMAIN nothing = {} /\ ToSet(nothing) = {}
      BY EmptySeq DEF ToSet, Text
    <3> HIDE DEF nothing
    <3>4. \A cap \in Caps : Limits[cap] \in Nat \ {0}
      BY CapsType
    <3>5. CASE field \in PlainFields
      <4>1. Within(nothing, Limits[field])
        BY <3>3, <3>4, <3>5 DEF Within, Caps
      <4> QED
        BY <3>1, <3>3, <3>5, <4>1 DEF Storable, PlainFields, MetaFields, UrlTitleFields
    <3>6. CASE field \in UrlTitleFields
      <4>1. Within(nothing, Limits.url_title_list)
        BY <3>3, <3>4 DEF Within, Caps
      <4> QED
        BY <3>1, <3>3, <3>6, <4>1 DEF Storable, PlainFields, MetaFields, UrlTitleFields
    <3>7. CASE field = "html_content"
      BY <3>1, <3>3, <3>7 DEF Storable, PlainFields, MetaFields, UrlTitleFields
    <3>8. CASE field \in {"search_keyword", "links", "faq"}
      <4>1. /\ Within(nothing, Limits.search_keyword_items)
            /\ Within(nothing, Limits.links)
            /\ Within(nothing, Limits.faq_items)
        BY <3>3, <3>4 DEF Within, Caps
      <4> QED
        BY <3>1, <3>3, <3>8, <4>1 DEF Storable, PlainFields, MetaFields, UrlTitleFields
    <3> QED
      BY <3>2, <3>5, <3>6, <3>7, <3>8 DEF PlainFields, UrlTitleFields
  <2> QED
    BY <2>1, <2>2, <2>3
<1>3. SentInv
  BY DEF PayloadInit, NoEdit, SentInv
<1> QED
  BY <1>1, <1>2, <1>3 DEF PayloadInv, ContentInv

\* A PATCH of one column keeps it.
LEMMA SaveHolds ==
  ASSUME PayloadAssumption, PayloadInv, Save
  PROVE  PayloadInv'
<1>1. PICK field \in Fields : \E value \in Inputs[field] :
        /\ Accepts(field, value)
        /\ content' = Merge([f \in {field} |-> value])
        /\ sent' = [field |-> field, value |-> value]
  BY DEF Save
<1>2. PICK value \in Inputs[field] :
        /\ Accepts(field, value)
        /\ content' = Merge([f \in {field} |-> value])
        /\ sent' = [field |-> field, value |-> value]
  BY <1>1
<1>3. value \in Sendable[field]
  BY <1>2 DEF PayloadAssumption
<1>4. ContentInv'
  <2> DEFINE body == [f \in {field} |-> value]
  <2>1. \A f \in (DOMAIN body \cap Fields) \ {"category"} :
          body[f] \in Sendable[f] /\ Accepts(f, body[f])
    BY <1>2, <1>3
  <2> HIDE DEF body
  <2> QED
    BY <1>2, <2>1, MergeHolds DEF PayloadInv, body
<1>5. SentInv'
  <2>1. echoes' \in 0 .. 4
    BY DEF Save, PayloadInv, SentInv
  <2>2. ASSUME sent'.field = "search_keyword"
        PROVE  /\ sent'.value \in {None} \cup Seq(Text)
               /\ content'.search_keyword = Keywords(Items(sent'.value))
    <3>1. field = "search_keyword" /\ sent'.value = value
      BY <1>2, <2>2
    <3>2. value \in {None} \cup Seq(Text)
      BY <1>3, <3>1 DEF Sendable, Typed, Fields, PlainFields, MetaFields, UrlTitleFields
    <3>3. content'.search_keyword = Built("search_keyword", value)
      BY <1>2, <3>1 DEF Merge, Fields
    <3>4. Built("search_keyword", value) = Keywords(Items(value))
      BY DEF Built, PlainFields, MetaFields, UrlTitleFields, normalise_search_keyword
    <3> QED
      BY <3>1, <3>2, <3>3, <3>4
  <2> QED
    BY <2>1, <2>2 DEF SentInv
<1> QED
  BY <1>4, <1>5 DEF PayloadInv

\* A Markdown body, rendered, keeps it.
LEMMA PublishHolds ==
  ASSUME PayloadAssumption, PayloadInv, Publish
  PROVE  PayloadInv'
<1>1. PICK markdown \in Markdowns :
        /\ Len(markdown) <= Limits.html_content
        /\ content' = [content EXCEPT !.html_content = render_markdown(markdown)]
        /\ sent' = [field |-> "content", value |-> markdown]
  BY DEF Publish
<1> DEFINE nodes == [i \in DOMAIN markdown |-> Rendered[markdown[i]]]
<1>2. nodes \in Seq(Node)
  <2>1. markdown \in Seq(DOMAIN Rendered)
    BY DEF PayloadAssumption
  <2>2. \A m \in DOMAIN Rendered : Rendered[m] \in Node
    BY DEF Rendered, Element, Node, Tags
  <2>3. \A i \in DOMAIN markdown : Rendered[markdown[i]] \in Node
    BY <2>1, <2>2, ElementType
  <2> HIDE DEF Rendered
  <2> QED
    BY <2>1, <2>3
<1>3. render_markdown(markdown) = sanitize_article_html(nodes)
  BY DEF render_markdown
<1> HIDE DEF nodes
<1>4. Storable("html_content", render_markdown(markdown))
  <2>1. /\ sanitize_article_html(nodes) \in Seq(Node)
        /\ \A node \in ToSet(sanitize_article_html(nodes)) : Sanitized(node)
    BY <1>2, HtmlType
  <2> QED
    BY <1>3, <2>1 DEF Storable, PlainFields, MetaFields, UrlTitleFields
<1>5. ContentInv'
  <2>1. content' = [field \in Fields |-> IF field = "html_content" THEN render_markdown(markdown)
                                                                  ELSE content[field]]
    BY <1>1 DEF PayloadInv, ContentInv
  <2>2. \A field \in Fields : Storable(field, content'[field])
    BY <1>4, <2>1 DEF PayloadInv, ContentInv
  <2>3. \A field \in Fields : Storable(field, content[field])'
    BY <2>2 DEF Storable
  <2> QED
    BY <2>1, <2>3 DEF ContentInv
<1>6. SentInv'
  BY <1>1 DEF Publish, PayloadInv, SentInv
<1> QED
  BY <1>5, <1>6 DEF PayloadInv

\* Sending the stored form back keeps it.
LEMMA ResaveHolds ==
  ASSUME PayloadAssumption, PayloadInv, Resave
  PROVE  PayloadInv'
<1>1. ContentInv'
  <2>1. CASE Refused = {}
    <3>1. content' = Merge(Form)
      BY <2>1 DEF Resave
    <3>2. ASSUME NEW field \in (DOMAIN Form \cap Fields) \ {"category"}
          PROVE  Form[field] \in Sendable[field] /\ Accepts(field, Form[field])
      <4>1. Form[field] = content[field]
        BY DEF Form
      <4>2. Form[field] \in Sendable[field]
        BY <4>1, HoldsIsSendable DEF PayloadInv, ContentInv
      <4> QED
        BY <2>1, <4>2 DEF Refused
    <3> QED
      BY <3>1, <3>2, MergeHolds DEF PayloadInv
  <2>2. CASE Refused # {}
    BY <2>2 DEF Resave, PayloadInv, ContentInv, Storable
  <2> QED
    BY <2>1, <2>2
<1>2. SentInv'
  <2>1. echoes \in 0 .. 4 /\ echoes' = Min({echoes + 1, 4})
    BY DEF Resave, PayloadInv, SentInv
  <2>2. echoes' \in 1 .. 4
    BY <2>1 DEF Min
  <2> QED
    BY <2>2 DEF SentInv
<1> QED
  BY <1>1, <1>2 DEF PayloadInv

\* It holds after any number of saves, of any of the inputs.
LEMMA PayloadCorrect ==
  ASSUME PayloadAssumption
  PROVE  PayloadSpec => []PayloadInv
<1>1. PayloadInit => PayloadInv
  BY PayloadStart
<1>2. PayloadInv /\ [PayloadNext]_payloadVars => PayloadInv'
  <2> SUFFICES ASSUME PayloadInv, [PayloadNext]_payloadVars PROVE PayloadInv'
    OBVIOUS
  <2>1. CASE Save
    BY <2>1, SaveHolds
  <2>2. CASE Publish
    BY <2>2, PublishHolds
  <2>3. CASE Resave
    BY <2>3, ResaveHolds
  <2>4. CASE UNCHANGED payloadVars
    BY <2>4 DEF payloadVars, PayloadInv, ContentInv, SentInv, Storable
  <2> QED
    BY <2>1, <2>2, <2>3, <2>4 DEF PayloadNext
<1> QED
  BY <1>1, <1>2, PTL DEF PayloadSpec

\* Whatever was sent, what is stored keeps the published limits.
THEOREM LimitsAreKept ==
  ASSUME PayloadAssumption
  PROVE  PayloadSpec => []WithinLimits
<1>1. ASSUME PayloadInv PROVE WithinLimits
  <2>1. \A field \in Fields : Storable(field, content[field])
    BY <1>1 DEF PayloadInv, ContentInv
  <2>2. \A f \in MetaFields : content[f] # None => Len(content[f]) \in 1 .. Limits[f]
    BY <2>1 DEF Storable, Fields, PlainFields, MetaFields, UrlTitleFields
  <2>3. /\ \A f \in PlainFields : Within(content[f], Limits[f])
        /\ content.cover_image_url # None =>
             Within(content.cover_image_url, Limits.cover_image_url)
        /\ content.category \in Categories
    BY <2>1 DEF Storable, Fields, PlainFields, MetaFields, UrlTitleFields
  <2>4. Storable("search_keyword", content.search_keyword)
    BY <2>1 DEF Fields
  <2>5. Storable("faq", content.faq)
    BY <2>1 DEF Fields
  <2>6. Storable("links", content.links)
    BY <2>1 DEF Fields
  <2>7. Storable("html_content", content.html_content)
    BY <2>1 DEF Fields
  <2>8. \A f \in UrlTitleFields :
          /\ Within(content[f], Limits.url_title_list)
          /\ \A item \in ToSet(content[f]) : Within(item.title, Limits.url_title_title)
    BY <2>1 DEF Storable, Fields, PlainFields, MetaFields, UrlTitleFields
  <2>9. /\ Within(content.search_keyword, Limits.search_keyword_items)
        /\ \A k \in ToSet(content.search_keyword) : Len(k) \in 1 .. Limits.search_keyword_item
    BY <2>4 DEF Storable, PlainFields, MetaFields, UrlTitleFields
  <2>10. /\ Within(content.faq, Limits.faq_items)
         /\ \A item \in ToSet(content.faq) :
              /\ Len(item.question) \in 1 .. Limits.faq_question
              /\ Len(item.answer) \in 1 .. Limits.faq_answer
    BY <2>5 DEF Storable, PlainFields, MetaFields, UrlTitleFields
  <2>11. /\ Within(content.links, Limits.links)
         /\ \A item \in ToSet(content.links) :
              Within(item.cta, Limits.link_cta) /\ Within(item.url, Limits.link_url)
    BY <2>6 DEF Storable, PlainFields, MetaFields, UrlTitleFields
  <2>12. \A node \in ToSet(content.html_content) :
           /\ node.tag \in Allowed /\ node.size = node.written
           /\ node.forced = IF node.tag = "a" THEN 1 ELSE 0
    BY <2>7 DEF Storable, Sanitized, PlainFields, MetaFields, UrlTitleFields
  <2> QED
    BY <2>2, <2>3, <2>8, <2>9, <2>10, <2>11, <2>12 DEF WithinLimits
<1>2. PayloadSpec => []PayloadInv
  BY PayloadCorrect
<1> QED
  BY <1>1, <1>2, PTL

\* The form of a stored article is accepted again but for its body, and once it
\* was accepted it is ever after: sanitising what was sanitised adds nothing.
THEOREM StoredComesBack ==
  ASSUME PayloadAssumption
  PROVE  PayloadSpec => StoredIsAccepted
<1>1. ASSUME PayloadInv PROVE Refused \subseteq {"html_content"}
  <2>1. \A field \in Fields : Storable(field, content[field])
    BY <1>1 DEF PayloadInv, ContentInv
  <2>2. \A field \in Fields \ {"category"} : Form[field] = content[field]
    BY DEF Form
  <2>3. ASSUME NEW field \in Fields, field # "html_content"
        PROVE  Accepts(field, Form[field])
    <3> DEFINE value == Form[field]
    <3>1. CASE field \in PlainFields
      <4>1. Len(value) <= Limits[field]
        BY <2>1, <2>2, <3>1 DEF Storable, Within, PlainFields, MetaFields, UrlTitleFields
      <4> HIDE DEF value
      <4> QED
        BY <3>1, <4>1 DEF Accepts, PlainFields, value
    <3>2. CASE field = "faq"
      <4>1. Storable("faq", value)
        BY <2>1, <2>2, <3>2
      <4> HIDE DEF value
      <4>2. \A item \in ToSet(value) :
              /\ Len(item.question) \in 1 .. Limits.faq_question
              /\ Len(item.answer) \in 1 .. Limits.faq_answer
        BY <4>1 DEF Storable, PlainFields, MetaFields, UrlTitleFields
      <4> QED
        BY <3>2, <4>2 DEF Accepts, ToSet, value
    <3>3. CASE field = "links"
      <4>1. Storable("links", value)
        BY <2>1, <2>2, <3>3
      <4> HIDE DEF value
      <4>2. \A item \in ToSet(value) :
              Len(item.cta) <= Limits.link_cta /\ Len(item.url) <= Limits.link_url
        BY <4>1 DEF Storable, Within, PlainFields, MetaFields, UrlTitleFields
      <4> QED
        BY <3>3, <4>2 DEF Accepts, ToSet, value
    <3>4. CASE field \notin PlainFields \cup {"faq", "links", "html_content"}
      BY <3>4 DEF Accepts, PlainFields
    <3> QED
      BY <2>3, <3>1, <3>2, <3>3, <3>4
  <2> QED
    BY <2>3 DEF Refused
<1>2. ASSUME PayloadInv, (Refused \subseteq {"html_content"})', PayloadNext,
             sent # NoEdit, Refused = {}
      PROVE  Refused' = {}
  <2>1. content' = Merge(Form)
    BY <1>2 DEF PayloadNext, Save, Publish, Resave
  <2> DEFINE html == content.html_content
  <2>2. Form["html_content"] = html
    BY DEF Form, Fields
  <2>3. content'.html_content = html
    <3>1. "html_content" \in DOMAIN Form /\ "html_content" \in Fields
      BY DEF Form, Fields
    <3>2. content'.html_content = Built("html_content", html)
      BY <2>1, <2>2, <3>1 DEF Merge
    <3>3. /\ html \in Seq(Node) /\ \A node \in ToSet(html) : Sanitized(node)
          /\ None \notin Seq(Node)
      <4>1. Storable("html_content", html)
        BY <1>2, <3>1 DEF PayloadInv, ContentInv
      <4> HIDE DEF html
      <4> QED
        BY <4>1, NoneType DEF Storable, PlainFields, MetaFields, UrlTitleFields
    <3> HIDE DEF html
    <3>4. sanitize_article_html(html) = html
      BY <3>3, HtmlSettles
    <3> QED
      BY <3>2, <3>4 DEF Built, PlainFields, MetaFields, UrlTitleFields
  <2>4. Accepts("html_content", html)
    BY <1>2, <2>2 DEF Refused, Fields
  <2>5. Form'["html_content"] = html
    BY <2>3 DEF Form, Fields
  <2> HIDE DEF html
  <2>6. "html_content" \notin Refused'
    BY <2>4, <2>5 DEF Refused
  <2> QED
    BY <1>2, <2>6
<1>3. ASSUME PayloadInv, (Refused \subseteq {"html_content"})', [PayloadNext]_payloadVars
      PROVE  [sent # NoEdit /\ Refused = {} => Refused' = {}]_payloadVars
  BY <1>2, <1>3
<1>4. PayloadSpec => []PayloadInv
  BY PayloadCorrect
<1> QED
  BY <1>1, <1>3, <1>4, PTL DEF PayloadSpec, StoredIsAccepted

-----------------------------------------------------------------------------
(* Which keywords get the places *)

\* The first of the items that give keyword k
FirstOf(items, k) == Min({i \in DOMAIN items : Keyword(items[i]) = k})

\* The keywords among the first n items
WantedOf(items, n) == {Keyword(items[i]) : i \in 1 .. n} \ {<<>>}

\* It is one of the items, and none before it gives that keyword.
LEMMA FirstIsFirst ==
  ASSUME NEW items \in Seq(Text), NEW j \in DOMAIN items
  PROVE  /\ FirstOf(items, Keyword(items[j])) \in DOMAIN items
         /\ FirstOf(items, Keyword(items[j])) <= j
         /\ Keyword(items[FirstOf(items, Keyword(items[j]))]) = Keyword(items[j])
<1> DEFINE same == {i \in DOMAIN items : Keyword(items[i]) = Keyword(items[j])}
<1>1. same \subseteq 1 .. Len(items) /\ Len(items) \in Nat /\ j \in same
  OBVIOUS
<1> HIDE DEF same
<1>2. Min(same) \in same /\ Min(same) <= j
  BY <1>1, Ends
<1>3. FirstOf(items, Keyword(items[j])) = Min(same)
  BY DEF FirstOf, same
<1> QED
  BY <1>2, <1>3 DEF same

\* The first item of a keyword wanted among the first n is among them.
LEMMA WantedHaveFirst ==
  ASSUME NEW items \in Seq(Text), NEW n \in 0 .. Len(items), NEW k \in WantedOf(items, n)
  PROVE  /\ FirstOf(items, k) \in 1 .. n
         /\ Keyword(items[FirstOf(items, k)]) = k
         /\ \A j \in DOMAIN items : Keyword(items[j]) = k => FirstOf(items, k) <= j
<1>1. PICK j \in 1 .. n : k = Keyword(items[j])
  BY DEF WantedOf
<1>2. j \in DOMAIN items /\ DOMAIN items = 1 .. Len(items) /\ Len(items) \in Nat
  OBVIOUS
<1>3. /\ FirstOf(items, k) \in DOMAIN items
      /\ FirstOf(items, k) <= j
      /\ Keyword(items[FirstOf(items, k)]) = k
  BY <1>1, <1>2, FirstIsFirst
<1>4. ASSUME NEW i \in DOMAIN items, Keyword(items[i]) = k
      PROVE  FirstOf(items, k) <= i
  BY <1>4, FirstIsFirst
<1> QED
  BY <1>2, <1>3, <1>4

\* What is kept of the first n items: in the order they were first sent, all of
\* them while there is room, and none that comes after one left out.
InOrder(items, n, out) ==
  /\ out \in Seq(Text)
  /\ Len(out) <= Limits.search_keyword_items
  /\ \A a, b \in DOMAIN out : a < b => FirstOf(items, out[a]) < FirstOf(items, out[b])
  /\ \A a \in DOMAIN out : out[a] \in WantedOf(items, n)
  /\ Len(out) < Limits.search_keyword_items =>
       \A k \in WantedOf(items, n) : \E a \in DOMAIN out : k = out[a]
  /\ \A k \in WantedOf(items, Len(items)) :
       Len(out) = Limits.search_keyword_items /\ (\A a \in DOMAIN out : k # out[a])
         => \A a \in DOMAIN out : FirstOf(items, out[a]) < FirstOf(items, k)

\* One turn of the loop over the keywords keeps that.
LEMMA KeepsOrder ==
  ASSUME PayloadAssumption, NEW items \in Seq(Text), NEW n \in 1 .. Len(items),
         NEW out, InOrder(items, n - 1, out)
  PROVE  InOrder(items, n, AddKeyword(out, items[n]))
<1> DEFINE max == Limits.search_keyword_items
           new == Keyword(items[n])
<1>1. max \in Nat \ {0} /\ Len(items) \in Nat /\ Len(out) \in Nat
      /\ n - 1 \in 0 .. Len(items) /\ n \in 0 .. Len(items)
  BY CapsType DEF Caps, InOrder
<1>2. new \in Text
  BY KeywordType
<1>3. WantedOf(items, n) = WantedOf(items, n - 1) \cup ({new} \ {<<>>})
  BY <1>1 DEF WantedOf
<1>4. WantedOf(items, n) \subseteq WantedOf(items, Len(items))
  BY <1>1 DEF WantedOf
<1> HIDE DEF max, new
<1>5. CASE Len(out) >= max \/ new = <<>> \/ \E a \in DOMAIN out : new = out[a]
  <2>1. AddKeyword(out, items[n]) = out
    BY <1>5 DEF AddKeyword, Contains, max, new
  <2>2. Len(out) < max => \A k \in WantedOf(items, n) : \E a \in DOMAIN out : k = out[a]
    BY <1>3, <1>5, <1>1 DEF InOrder, max
  <2>3. \A a \in DOMAIN out : out[a] \in WantedOf(items, n)
    BY <1>3 DEF InOrder
  <2> QED
    BY <2>1, <2>2, <2>3 DEF InOrder, max
<1>6. CASE ~ (Len(out) >= max \/ new = <<>> \/ \E a \in DOMAIN out : new = out[a])
  <2> DEFINE out2 == Append(out, new)
  <2>1. AddKeyword(out, items[n]) = out2
    BY <1>6 DEF AddKeyword, Contains, max, new
  <2>2. out \in Seq(Text) /\ Len(out) < max
    BY <1>1, <1>6 DEF InOrder
  <2>3. /\ out2 \in Seq(Text) /\ Len(out2) = Len(out) + 1
        /\ DOMAIN out = 1 .. Len(out) /\ DOMAIN out2 = 1 .. (Len(out) + 1)
        /\ \A a \in DOMAIN out : out2[a] = out[a]
        /\ out2[Len(out) + 1] = new
    BY <1>2, <2>2
  <2> HIDE DEF out2
  <2>4. \A k \in WantedOf(items, n - 1) : \E a \in DOMAIN out : k = out[a]
    BY <2>2 DEF InOrder, max
  <2>5. new \in WantedOf(items, n) /\ new \notin WantedOf(items, n - 1)
    BY <1>3, <1>6, <2>4
  <2>6. ASSUME NEW k \in WantedOf(items, Len(items)) \ WantedOf(items, n - 1)
        PROVE  FirstOf(items, k) \in n .. Len(items)
    <3>1. FirstOf(items, k) \in 1 .. Len(items) /\ Keyword(items[FirstOf(items, k)]) = k
      BY <1>1, WantedHaveFirst
    <3>2. FirstOf(items, k) \notin 1 .. (n - 1)
      <4> SUFFICES ASSUME FirstOf(items, k) \in 1 .. (n - 1) PROVE FALSE
        OBVIOUS
      <4>1. k # <<>>
        BY DEF WantedOf
      <4>2. \E i \in 1 .. (n - 1) : Keyword(items[i]) = k
        BY <3>1
      <4> QED
        BY <4>1, <4>2, <2>6 DEF WantedOf
    <3> QED
      BY <3>1, <3>2, <1>1
  <2>7. FirstOf(items, new) = n
    <3>1. FirstOf(items, new) \in 1 .. n
      BY <1>1, <2>5, WantedHaveFirst
    <3>2. FirstOf(items, new) \in n .. Len(items)
      BY <1>4, <2>5, <2>6
    <3> QED
      BY <3>1, <3>2, <1>1
  <2>8. \A a \in DOMAIN out : FirstOf(items, out[a]) \in 1 .. (n - 1)
    <3> SUFFICES ASSUME NEW a \in DOMAIN out
                 PROVE  FirstOf(items, out[a]) \in 1 .. (n - 1)
      OBVIOUS
    <3>1. out[a] \in WantedOf(items, n - 1)
      BY DEF InOrder
    <3> QED
      BY <3>1, <1>1, WantedHaveFirst
  <2>9. ASSUME NEW a \in DOMAIN out2, NEW b \in DOMAIN out2, a < b
        PROVE  FirstOf(items, out2[a]) < FirstOf(items, out2[b])
    <3>1. a \in DOMAIN out /\ out2[a] = out[a]
      BY <2>3, <2>9, <1>1
    <3>2. CASE b \in DOMAIN out
      BY <3>1, <3>2, <2>3, <2>9 DEF InOrder
    <3>3. CASE b \notin DOMAIN out
      <4>1. out2[b] = new
        BY <3>3, <2>3, <1>1
      <4> QED
        BY <3>1, <4>1, <2>7, <2>8, <1>1
    <3> QED
      BY <3>2, <3>3
  <2>10. ASSUME NEW a \in DOMAIN out2
         PROVE  out2[a] \in WantedOf(items, n) /\ FirstOf(items, out2[a]) \in 1 .. n
    <3>1. CASE a \in DOMAIN out
      <4>1. out2[a] = out[a] /\ out[a] \in WantedOf(items, n - 1)
        BY <3>1, <2>3 DEF InOrder
      <4> QED
        BY <3>1, <4>1, <1>1, <1>3, <2>8
    <3>2. CASE a \notin DOMAIN out
      <4>1. out2[a] = new
        BY <3>2, <2>3, <1>1
      <4> QED
        BY <4>1, <2>5, <2>7, <1>1
    <3> QED
      BY <3>1, <3>2
  <2>11. ASSUME NEW k \in WantedOf(items, n)
         PROVE  \E a \in DOMAIN out2 : k = out2[a]
    <3>1. CASE k = new
      BY <3>1, <2>3, <1>1
    <3>2. CASE k # new
      <4>1. PICK a \in DOMAIN out : k = out[a]
        BY <3>2, <1>3, <2>4
      <4> QED
        BY <4>1, <2>3, <1>1
    <3> QED
      BY <3>1, <3>2
  <2>12. ASSUME NEW k \in WantedOf(items, Len(items)), \A a \in DOMAIN out2 : k # out2[a],
                NEW a \in DOMAIN out2
         PROVE  FirstOf(items, out2[a]) < FirstOf(items, k)
    <3>1. k \notin WantedOf(items, n)
      BY <2>11, <2>12
    <3>2. k \notin WantedOf(items, n - 1) /\ k # new
      BY <3>1, <1>3, <2>5
    <3>3. FirstOf(items, k) \in n .. Len(items) /\ Keyword(items[FirstOf(items, k)]) = k
      BY <3>2, <2>6, <1>1, WantedHaveFirst
    <3>4. FirstOf(items, k) # n
      BY <3>2, <3>3 DEF new
    <3> QED
      BY <3>3, <3>4, <2>10, <1>1
  <2>13. Len(out2) <= max
    BY <1>1, <2>2, <2>3
  <2>14. \A a, b \in DOMAIN out2 : a < b => FirstOf(items, out2[a]) < FirstOf(items, out2[b])
    BY <2>9
  <2>15. /\ \A a \in DOMAIN out2 : out2[a] \in WantedOf(items, n)
         /\ \A k \in WantedOf(items, n) : \E a \in DOMAIN out2 : k = out2[a]
    BY <2>10, <2>11
  <2>16. \A k \in WantedOf(items, Len(items)) :
           (\A a \in DOMAIN out2 : k # out2[a])
             => \A a \in DOMAIN out2 : FirstOf(items, out2[a]) < FirstOf(items, k)
    BY <2>12
  <2>17. out2 \in Seq(Text)
    BY <2>3
  <2>18. InOrder(items, n, out2)
    BY <2>13, <2>14, <2>15, <2>16, <2>17, Zenon DEF InOrder, max
  <2> QED
    BY <2>1, <2>18
<1> QED
  BY <1>5, <1>6

\* So it holds of what the loop returns.
LEMMA KeywordsInOrder ==
  ASSUME PayloadAssumption, NEW items \in Seq(Text)
  PROVE  InOrder(items, Len(items), Keywords(items))
<1>1. PICK out \in KeywordRun(items) : TRUE
  BY KeywordRuns
<1>2. /\ out[0] = <<>>
      /\ \A i \in 1 .. Len(items) : out[i] = AddKeyword(out[i - 1], items[i])
      /\ Keywords(items) = out[Len(items)]
  BY <1>1 DEF KeywordRun
<1> DEFINE Good == {i \in 0 .. Len(items) : InOrder(items, i, out[i])}
<1>3. Len(items) \in Nat
  OBVIOUS
<1>4. 0 \in Good
  <2> DEFINE nothing == <<>>
  <2>1. out[0] = nothing
    BY <1>2
  <2>2. nothing \in Seq(Text) /\ Len(nothing) = 0 /\ DOMAIN nothing = {}
    OBVIOUS
  <2> HIDE DEF nothing
  <2>3. WantedOf(items, 0) = {} /\ Limits.search_keyword_items \in Nat \ {0}
    BY CapsType DEF WantedOf, Caps
  <2> QED
    <3>1. /\ Len(nothing) <= Limits.search_keyword_items
          /\ Len(nothing) # Limits.search_keyword_items
      BY <2>2, <2>3
    <3>2. InOrder(items, 0, nothing)
      BY <2>2, <2>3, <3>1, Zenon DEF InOrder
    <3> QED
      BY <1>3, <2>1, <3>2
<1>5. ASSUME NEW i \in 1 .. Len(items), i - 1 \in Good
      PROVE  i \in Good
  <2>1. InOrder(items, i - 1, out[i - 1])
    BY <1>5
  <2>2. InOrder(items, i, AddKeyword(out[i - 1], items[i]))
    BY <2>1, KeepsOrder
  <2> QED
    BY <1>2, <1>3, <2>2
<1> HIDE DEF Good
<1>6. 0 .. Len(items) \subseteq Good
  BY <1>3, <1>4, <1>5, UpTo, Zenon
<1>7. Len(items) \in Good
  BY <1>3, <1>6
<1> QED
  BY <1>2, <1>7 DEF Good

\* The keywords sent first are those that are stored, in that order.
LEMMA FirstOnesAreKept ==
  ASSUME PayloadAssumption, NEW items \in Seq(Text)
  PROVE  LET wanted == WantedOf(items, Len(items))
             Earlier(k) == {k2 \in wanted : FirstOf(items, k2) < FirstOf(items, k)}
             kept == Keywords(items)
         IN  /\ ToSet(kept) = {k \in wanted :
                                 Cardinality(Earlier(k)) < Limits.search_keyword_items}
             /\ \A k \in ToSet(kept) : kept[Cardinality(Earlier(k)) + 1] = k
<1> DEFINE wanted == WantedOf(items, Len(items))
           Earlier(k) == {k2 \in wanted : FirstOf(items, k2) < FirstOf(items, k)}
           kept == Keywords(items)
           max == Limits.search_keyword_items
<1>1. InOrder(items, Len(items), kept)
  BY KeywordsInOrder
<1> HIDE DEF kept, max, wanted
<1>2. /\ kept \in Seq(Text) /\ Len(kept) <= max
      /\ \A a, b \in DOMAIN kept : a < b => FirstOf(items, kept[a]) < FirstOf(items, kept[b])
      /\ \A a \in DOMAIN kept : kept[a] \in wanted
      /\ Len(kept) < max => \A k \in wanted : \E a \in DOMAIN kept : k = kept[a]
      /\ \A k \in wanted :
           Len(kept) = max /\ (\A a \in DOMAIN kept : k # kept[a])
             => \A a \in DOMAIN kept : FirstOf(items, kept[a]) < FirstOf(items, k)
  BY <1>1, Zenon DEF InOrder, max, wanted
<1>3. max \in Nat \ {0} /\ Len(items) \in Nat /\ Len(kept) \in Nat
      /\ DOMAIN kept = 1 .. Len(kept)
  BY <1>2, CapsType DEF Caps, max
<1>4. Len(kept) \in Nat /\ max \in Nat /\ Len(kept) <= max
  BY <1>2, <1>3
<1>5. \A k \in wanted : FirstOf(items, k) \in Nat
  <2> SUFFICES ASSUME NEW k \in wanted PROVE FirstOf(items, k) \in Nat
    OBVIOUS
  <2>1. FirstOf(items, k) \in 1 .. Len(items)
    BY <1>3, WantedHaveFirst DEF wanted
  <2> QED
    BY <2>1, <1>3
<1>6. ASSUME NEW b \in DOMAIN kept
      PROVE  Cardinality(Earlier(kept[b])) = b - 1
  <2> DEFINE before == {kept[a] : a \in 1 .. (b - 1)}
  <2>1. b \in 1 .. Len(kept) /\ b - 1 \in Nat /\ kept[b] \in wanted
        /\ \A a \in 1 .. (b - 1) : a \in DOMAIN kept /\ a < b
    <3>1. b \in 1 .. Len(kept)
      BY <1>3
    <3>2. kept[b] \in wanted
      BY <1>2
    <3> QED
      BY <3>1, <3>2, <1>3
  <2>2. before \subseteq Earlier(kept[b])
    BY <1>2, <2>1
  <2>3. ASSUME NEW k \in Earlier(kept[b])
        PROVE  k \in before
    <3>1. \E a \in DOMAIN kept : k = kept[a]
      <4> SUFFICES ASSUME \A a \in DOMAIN kept : k # kept[a] PROVE FALSE
        OBVIOUS
      <4>1. Len(kept) = max
        <5>1. ~ (Len(kept) < max)
          BY <1>2
        <5> QED
          BY ONLY <5>1, <1>4
      <4>2. FirstOf(items, kept[b]) < FirstOf(items, k)
        BY <1>2, <4>1
      <4> QED
        BY <4>2, <1>5, <2>1
    <3>2. PICK a \in DOMAIN kept : k = kept[a]
      BY <3>1
    <3>3. a < b
      <4> SUFFICES ASSUME ~ (a < b) PROVE FALSE
        OBVIOUS
      <4>1. a = b \/ b < a
        BY <1>3
      <4>2. FirstOf(items, kept[a]) < FirstOf(items, kept[b])
        BY <3>2
      <4>3. kept[a] \in wanted
        BY <1>2
      <4> QED
        BY <4>1, <4>2, <4>3, <1>2, <1>5, <2>1
    <3> QED
      BY <3>2, <3>3, <1>3
  <2>4. Earlier(kept[b]) = before
    BY <2>2, <2>3
  <2> DEFINE f == [a \in 1 .. (b - 1) |-> kept[a]]
  <2>5. f \in Bijection(1 .. (b - 1), before)
    <3>1. ASSUME NEW a \in 1 .. (b - 1), NEW c \in 1 .. (b - 1), kept[a] = kept[c]
          PROVE  a = c
      <4>1. a \in DOMAIN kept /\ c \in DOMAIN kept
        BY <2>1
      <4>2. ~ (a < c) /\ ~ (c < a)
        <5>1. FirstOf(items, kept[a]) \in Nat
          BY <4>1, <1>2, <1>5
        <5> QED
          BY <3>1, <4>1, <5>1, <1>2
      <4> QED
        BY <4>2
    <3> QED
      BY <3>1 DEF Bijection, Injection, Surjection, IsInjective
  <2> HIDE DEF f, before
  <2>6. Cardinality(before) = b - 1
    BY <2>1, <2>5, FS_CountingElements DEF ExistsBijection
  <2> QED
    BY <2>4, <2>6
<1>7. ASSUME NEW k \in wanted, \A a \in DOMAIN kept : k # kept[a]
      PROVE  ~ (Cardinality(Earlier(k)) < max)
  <2>1. Len(kept) = max
    <3>1. ~ (Len(kept) < max)
      BY <1>2, <1>7
    <3> QED
      BY ONLY <3>1, <1>4
  <2>2. {kept[a] : a \in 1 .. max} \subseteq Earlier(k)
    BY <1>2, <1>3, <1>7, <2>1
  <2> DEFINE f == [a \in 1 .. max |-> kept[a]]
             all == {kept[a] : a \in 1 .. max}
  <2>3. f \in Bijection(1 .. max, all)
    <3>1. ASSUME NEW a \in 1 .. max, NEW c \in 1 .. max, kept[a] = kept[c]
          PROVE  a = c
      <4>1. a \in DOMAIN kept /\ c \in DOMAIN kept
        BY <2>1, <1>3
      <4>2. ~ (a < c) /\ ~ (c < a)
        <5>1. FirstOf(items, kept[a]) \in Nat
          BY <4>1, <1>2, <1>5
        <5> QED
          BY <3>1, <4>1, <5>1, <1>2
      <4> QED
        BY <4>2
    <3> QED
      BY <3>1 DEF Bijection, Injection, Surjection, IsInjective
  <2>4. IsFiniteSet(Earlier(k))
    <3> DEFINE every == {Keyword(items[i]) : i \in 1 .. Len(items)}
               g == [i \in 1 .. Len(items) |-> Keyword(items[i])]
    <3>1. g \in Surjection(1 .. Len(items), every)
      BY DEF Surjection
    <3>2. Earlier(k) \subseteq every
      BY DEF wanted, WantedOf
    <3> HIDE DEF g, every
    <3>3. IsFiniteSet(1 .. Len(items))
      <4>1. 1 \in Int /\ Len(items) \in Int
        BY <1>3
      <4> QED
        BY <4>1, FS_Interval
    <3>4. IsFiniteSet(every)
      BY <3>1, <3>3, FS_Surjection
    <3> HIDE DEF Earlier
    <3> QED
      BY <3>2, <3>4, FS_Subset
  <2> HIDE DEF f, all, Earlier
  <2>5. Cardinality(all) = max
    BY <1>3, <2>3, FS_CountingElements DEF ExistsBijection
  <2>6. Cardinality(all) <= Cardinality(Earlier(k)) /\ Cardinality(Earlier(k)) \in Nat
    BY <2>2, <2>4, FS_Subset, FS_CardinalityType DEF all
  <2> QED
    BY <2>5, <2>6, <1>3
<1> HIDE DEF Earlier
<1>8. ASSUME NEW k \in ToSet(kept)
      PROVE  /\ k \in wanted /\ Cardinality(Earlier(k)) < max
             /\ kept[Cardinality(Earlier(k)) + 1] = k
  <2>1. PICK b \in DOMAIN kept : k = kept[b]
    BY <1>8 DEF ToSet
  <2>2. Cardinality(Earlier(k)) = b - 1
    BY <1>6, <2>1
  <2>3. b \in 1 .. Len(kept) /\ Len(kept) <= max
    BY <1>2, <1>3
  <2>4. b - 1 < max /\ (b - 1) + 1 = b
    BY <2>3, <1>3
  <2>5. k \in wanted
    BY <1>2, <2>1
  <2> QED
    BY <2>1, <2>2, <2>4, <2>5
<1>9. ASSUME NEW k \in wanted, Cardinality(Earlier(k)) < max
      PROVE  k \in ToSet(kept)
  BY <1>7, <1>9 DEF ToSet
<1>10. ToSet(kept) = {k \in wanted : Cardinality(Earlier(k)) < max}
  BY <1>8, <1>9
<1> QED
  BY <1>8, <1>10 DEF kept, max, wanted, Earlier

\* When an edit sends more keywords than there is room for, those sent first
\* are stored, in the order they were first sent, each once.
THEOREM KeywordsStayFirst ==
  ASSUME PayloadAssumption
  PROVE  PayloadSpec => []KeywordsFirst
<1>1. ASSUME PayloadInv PROVE KeywordsFirst
  <2> SUFFICES ASSUME sent.field = "search_keyword", echoes = 0
               PROVE  KeywordsFirst
    BY DEF KeywordsFirst
  <2> DEFINE items == Items(sent.value)
             wanted == WantedOf(items, Len(items))
             Earlier(k) == {k2 \in wanted : FirstOf(items, k2) < FirstOf(items, k)}
  <2>1. items \in Seq(Text) /\ content.search_keyword = Keywords(items)
    BY <1>1, ItemsType DEF PayloadInv, SentInv
  <2>2. /\ ToSet(content.search_keyword) =
              {k \in wanted : Cardinality(Earlier(k)) < Limits.search_keyword_items}
        /\ \A k \in ToSet(content.search_keyword) :
             content.search_keyword[Cardinality(Earlier(k)) + 1] = k
    BY <2>1, FirstOnesAreKept
  <2>3. wanted = {Keyword(items[i]) : i \in DOMAIN items} \ {<<>>}
    <3>1. DOMAIN items = 1 .. Len(items)
      BY <2>1
    <3> QED
      BY <3>1 DEF WantedOf
  <2> HIDE DEF wanted
  <2> QED
    BY <2>2, <2>3, Zenon DEF KeywordsFirst, FirstOf
<1>2. PayloadSpec => []PayloadInv
  BY PayloadCorrect
<1> QED
  BY <1>1, <1>2, PTL

-----------------------------------------------------------------------------
(* An untouched save: what a column looks like after s of them. Four are  *)
(* enough for every end that a cap has left to be trimmed.                 *)

\* No blank at either end
Trim(text) == text # <<>> => text[1] # Blank /\ text[Len(text)] # Blank

\* No two blanks in a row
Tight(text) == \A i \in DOMAIN text : i > 1 /\ text[i] = Blank => text[i - 1] # Blank

Small(text) == \A i \in DOMAIN text : text[i] # "H"

\* A trimmed text that may have been cut since
TextAfter(s, text) == /\ text # <<>> => text[1] # Blank
                      /\ s > 0 => Trim(text)

\* A scheme, and a character of a host
Hosted(url) == Len(url) > 1 /\ url[1] = "h" /\ url[2] \notin {"/", "?", "#"}

\* No mark of an empty part, or only at the end
Whole(url) == Hollow(url, "#", {}) = {} /\ Hollow(url, "?", {"#"}) = {} /\ HollowParams(url) = {}

Cut(url) == \A i \in DOMAIN url : i < Len(url) =>
              i \notin Hollow(url, "?", {"#"}) /\ i \notin HollowParams(url)

\* How often the end of a URL can turn out to be such a mark: each time it is
\* one that comes earlier in a URL.
Has(url, mark) == \E i \in DOMAIN url : url[i] = mark

HasParams(url) == \E i \in DOMAIN url :
  url[i] = Semicolon /\ \A j \in DOMAIN url : j > i => url[j] # "/"

Rank(url) == IF Has(url, "#") THEN 3 ELSE IF Has(url, "?") THEN 2
             ELSE IF HasParams(url) THEN 1 ELSE 0

\* A cut may leave a mark or a blank at the end, and the save that drops the
\* mark a blank.
UrlAfter(s, url) == /\ url \in Text /\ Hosted(url) /\ Cut(url)
                    /\ valid_http_url(url) = url \/ Rank(url) <= 3 - s

KeywordAfter(s, k) == k # <<>> /\ TextAfter(s, k) /\ Tight(k) /\ Small(k)

Distinct(seq) == \A i, j \in DOMAIN seq : seq[i] = seq[j] => i = j

After(s, field, value) ==
  CASE field \in PlainFields -> Trim(value)
    [] field \in MetaFields -> value # None => TextAfter(s, value) /\ Tight(value)
    [] field = "cover_image_url" -> value # None => UrlAfter(s, value)
    [] field \in {"category", "html_content"} -> TRUE
    [] field = "search_keyword" ->
         Distinct(value) /\ \A i \in DOMAIN value : KeywordAfter(s, value[i])
    [] field \in UrlTitleFields ->
         \A i \in DOMAIN value : TextAfter(s, value[i].title) /\ UrlAfter(s, value[i].url)
    [] field = "links" ->
         \A i \in DOMAIN value : /\ value[i].cta \notin {None, <<>>} /\ Trim(value[i].cta)
                                 /\ UrlAfter(s, value[i].url)
    [] field = "faq" ->
         \A i \in DOMAIN value : /\ Trim(value[i].question) /\ Tight(value[i].question)
                                 /\ Trim(value[i].answer)

\* A form that is refused stays what it is.
QuietInv ==
  /\ sent = NoEdit => echoes = 0
  /\ \A field \in Fields : After(0, field, content[field])
  /\ Refused = {} => \A field \in Fields : After(echoes, field, content[field])

\* What str.strip leaves is a slice, from ink to ink.
LEMMA StripSlice ==
  ASSUME NEW text \in Text
  PROVE  \/ Strip(text) = <<>> /\ \A i \in DOMAIN text : text[i] = Blank
         \/ \E a, b \in DOMAIN text :
              /\ a <= b /\ Strip(text) = SubSeq(text, a, b)
              /\ text[a] # Blank /\ text[b] # Blank
              /\ \A i \in DOMAIN text : i < a \/ b < i => text[i] = Blank
<1> DEFINE ink == {i \in DOMAIN text : text[i] # Blank}
<1>1. CASE ink = {}
  BY <1>1 DEF Strip
<1>2. CASE ink # {}
  <2>1. Len(text) \in Nat /\ ink \subseteq 1 .. Len(text) /\ DOMAIN text = 1 .. Len(text)
    BY DEF Text
  <2>2. /\ Min(ink) \in ink /\ \A k \in ink : Min(ink) <= k
        /\ Max(ink) \in ink /\ \A k \in ink : k <= Max(ink)
    <3> HIDE DEF ink
    <3> QED
      BY <2>1, <1>2, Ends
  <2>3. Strip(text) = SubSeq(text, Min(ink), Max(ink))
    BY <1>2 DEF Strip
  <2> DEFINE a == Min(ink)
             b == Max(ink)
  <2> HIDE DEF a, b
  <2>4. /\ a \in DOMAIN text /\ b \in DOMAIN text /\ a <= b
        /\ text[a] # Blank /\ text[b] # Blank
    BY <2>1, <2>2 DEF a, b
  <2>5. ASSUME NEW i \in DOMAIN text, i < a \/ b < i
        PROVE  text[i] = Blank
    <3> SUFFICES ASSUME i \in ink PROVE FALSE
      OBVIOUS
    <3>1. a <= i /\ i <= b
      BY <2>2 DEF a, b
    <3>2. i \in Nat /\ a \in Nat /\ b \in Nat
      BY <2>1, <2>4
    <3> QED
      BY <2>5, <3>1, <3>2
  <2> QED
    BY <2>3, <2>4, <2>5 DEF a, b
<1> QED
  BY <1>1, <1>2

\* The end of a text that is stripped is cut off, and nothing else if it begins
\* with ink; a trimmed text is left alone.
LEMMA StripKeeps ==
  ASSUME NEW text \in Text
  PROVE  /\ Strip(text) \in Text /\ Trim(Strip(text))
         /\ Tight(text) => Tight(Strip(text))
         /\ Small(text) => Small(Strip(text))
         /\ text # <<>> /\ text[1] # Blank =>
              /\ Strip(text) # <<>>
              /\ \A i \in DOMAIN Strip(text) : i \in DOMAIN text /\ Strip(text)[i] = text[i]
              /\ \A i \in DOMAIN text \ DOMAIN Strip(text) : text[i] = Blank
         /\ Trim(text) => Strip(text) = text
<1>1. text \in Seq(Char) /\ Len(text) \in Nat /\ DOMAIN text = 1 .. Len(text)
  BY DEF Text
<1>2. CASE Strip(text) = <<>> /\ \A i \in DOMAIN text : text[i] = Blank
  BY <1>1, <1>2 DEF Text, Trim, Tight, Small
<1>3. ASSUME NEW a \in DOMAIN text, NEW b \in DOMAIN text, a <= b,
             Strip(text) = SubSeq(text, a, b), text[a] # Blank, text[b] # Blank,
             \A i \in DOMAIN text : i < a \/ b < i => text[i] = Blank
      PROVE  /\ Strip(text) \in Text /\ Trim(Strip(text))
             /\ Tight(text) => Tight(Strip(text))
             /\ Small(text) => Small(Strip(text))
             /\ text # <<>> /\ text[1] # Blank =>
                  /\ Strip(text) # <<>>
                  /\ \A i \in DOMAIN Strip(text) : i \in DOMAIN text /\ Strip(text)[i] = text[i]
                  /\ \A i \in DOMAIN text \ DOMAIN Strip(text) : text[i] = Blank
             /\ Trim(text) => Strip(text) = text
  <2> DEFINE s == Strip(text)
  <2>1. a \in 1 .. Len(text) /\ b \in 1 .. Len(text)
    BY <1>1
  <2>2. /\ s \in Seq(Char) /\ Len(s) = b - a + 1 /\ DOMAIN s = 1 .. Len(s)
        /\ \A i \in 1 .. Len(s) : s[i] = text[a + i - 1] /\ a + i - 1 \in DOMAIN text
    <3>1. a \in Nat /\ b \in Nat /\ a >= 1 /\ b <= Len(text) /\ a <= b
      BY <1>1, <1>3, <2>1
    <3>2. /\ SubSeq(text, a, b) \in Seq(Char)
          /\ Len(SubSeq(text, a, b)) = b - a + 1
          /\ \A i \in 1 .. b - a + 1 : SubSeq(text, a, b)[i] = text[a + i - 1]
      BY <1>1, <3>1
    <3>3. s \in Seq(Char) /\ Len(s) = b - a + 1 /\ DOMAIN s = 1 .. Len(s)
      BY <1>3, <3>2
    <3>4. \A i \in 1 .. Len(s) : a + i - 1 \in 1 .. Len(text)
      BY <1>1, <3>1, <3>3
    <3> QED
      BY <1>1, <1>3, <3>2, <3>3, <3>4
  <2> HIDE DEF s
  <2>3. s # <<>> /\ s[1] = text[a] /\ s[Len(s)] = text[b]
    <3>1. Len(s) \in Nat \ {0} /\ a + 1 - 1 = a /\ a + Len(s) - 1 = b
      BY <1>1, <1>3, <2>1, <2>2
    <3>2. 1 \in 1 .. Len(s) /\ Len(s) \in 1 .. Len(s)
      BY <3>1
    <3>3. s[1] = text[a] /\ s[Len(s)] = text[b]
      BY <2>2, <3>1, <3>2
    <3>4. Len(<<>>) = 0
      OBVIOUS
    <3> QED
      BY <3>1, <3>3, <3>4
  <2>4. Trim(s)
    BY <2>3, <1>3 DEF Trim
  <2>5. ASSUME Tight(text) PROVE Tight(s)
    <3> SUFFICES ASSUME NEW i \in DOMAIN s, i > 1, s[i] = Blank
                 PROVE  s[i - 1] # Blank
      BY DEF Tight
    <3>0. Len(s) \in Nat /\ a \in Nat \ {0} /\ i \in 1 .. Len(s)
      <4>1. a \in Nat \ {0}
        BY <1>1, <2>1
      <4>2. Len(s) \in Nat /\ i \in 1 .. Len(s)
        BY <2>2
      <4> QED
        BY <4>1, <4>2
    <3>1. /\ i - 1 \in 1 .. Len(s)
          /\ a + i - 1 > 1 /\ a + (i - 1) - 1 = (a + i - 1) - 1
      BY <3>0
    <3>2. s[i] = text[a + i - 1] /\ s[i - 1] = text[(a + i - 1) - 1] /\ a + i - 1 \in DOMAIN text
      BY <2>2, <3>0, <3>1
    <3> HIDE DEF s
    <3> QED
      BY <2>5, <3>1, <3>2 DEF Tight
  <2>6. Small(text) => Small(s)
    BY <2>2 DEF Small
  <2>7. ASSUME text # <<>>, text[1] # Blank PROVE a = 1
    BY <2>7, <2>1, <1>1, <1>3
  <2>8. ASSUME text # <<>>, text[1] # Blank
        PROVE  /\ \A i \in DOMAIN s : i \in DOMAIN text /\ s[i] = text[i]
               /\ \A i \in DOMAIN text \ DOMAIN s : text[i] = Blank
    <3>1. \A i \in DOMAIN s : i \in DOMAIN text /\ s[i] = text[i]
      BY <2>7, <2>8, <2>2, <2>1
    <3>2. \A i \in DOMAIN text : b < i => text[i] = Blank
      BY <1>3
    <3>3. DOMAIN s = 1 .. b
      BY <2>7, <2>8, <2>2, <2>1, <1>1
    <3>4. \A i \in DOMAIN text \ DOMAIN s : b < i
      BY <1>1, <2>1, <3>3
    <3> QED
      BY <3>1, <3>2, <3>4
  <2>9. ASSUME Trim(text) PROVE s = text
    <3>1. text # <<>> /\ text[1] # Blank /\ text[Len(text)] # Blank
      BY <2>9, <2>1, <1>1 DEF Trim
    <3>2. a = 1 /\ b = Len(text)
      BY <3>1, <2>1, <2>7, <1>1, <1>3
    <3> QED
      BY <3>2, <2>1, <2>2, <1>1
  <2> QED
    BY <2>2, <2>3, <2>4, <2>5, <2>6, <2>8, <2>9 DEF s, Text
<1> QED
  BY <1>2, <1>3, StripSlice

\* A cut keeps the beginning, and everything if the limit allows.
LEMMA CapKeeps ==
  ASSUME NEW S, NEW seq \in Seq(S), NEW n \in Nat \ {0}
  PROVE  /\ DOMAIN Cap(seq, n) \subseteq DOMAIN seq
         /\ \A i \in DOMAIN Cap(seq, n) : Cap(seq, n)[i] = seq[i]
         /\ Len(seq) <= n => Cap(seq, n) = seq
         /\ Len(Cap(seq, n)) = IF n <= Len(seq) THEN n ELSE Len(seq)
<1>1. Len(seq) \in Nat
  OBVIOUS
<1>2. Min({n, Len(seq)}) = IF n <= Len(seq) THEN n ELSE Len(seq)
  BY <1>1 DEF Min
<1>3. Cap(seq, n) = SubSeq(seq, 1, IF n <= Len(seq) THEN n ELSE Len(seq))
  BY <1>2 DEF Cap
<1> QED
  BY <1>1, <1>3

\* So a cut text has the beginning of the whole one.
LEMMA CapAfter ==
  ASSUME NEW text \in Text, NEW n \in Nat \ {0}
  PROVE  /\ Cap(text, n) \in Text
         /\ Trim(text) => TextAfter(0, Cap(text, n))
         /\ Tight(text) => Tight(Cap(text, n))
         /\ Small(text) => Small(Cap(text, n))
         /\ text # <<>> => Cap(text, n) # <<>>
         /\ Len(text) <= n => Cap(text, n) = text
<1>1. text \in Seq(Char) /\ Len(text) \in Nat /\ DOMAIN text = 1 .. Len(text)
  BY DEF Text
<1> DEFINE cut == Cap(text, n)
<1>2. /\ cut \in Seq(Char)
      /\ text # <<>> => cut # <<>>
  BY <1>1, CapType
<1>3. /\ DOMAIN cut \subseteq DOMAIN text
      /\ \A i \in DOMAIN cut : cut[i] = text[i]
      /\ Len(text) <= n => cut = text
  BY <1>1, CapKeeps
<1> HIDE DEF cut
<1>4. Len(cut) \in Nat /\ DOMAIN cut = 1 .. Len(cut)
  BY <1>2
<1>5. Trim(text) => TextAfter(0, cut)
  BY <1>1, <1>2, <1>3, <1>4 DEF Trim, TextAfter
<1>6. Tight(text) => Tight(cut)
  BY <1>1, <1>3, <1>4 DEF Tight
<1>7. Small(text) => Small(cut)
  BY <1>3 DEF Small
<1> QED
  BY <1>2, <1>3, <1>5, <1>6, <1>7 DEF cut, Text

\* str.lower moves no blank.
LEMMA LowerKeeps ==
  ASSUME NEW text \in Text
  PROVE  /\ Small(Lower(text))
         /\ Trim(text) => Trim(Lower(text))
         /\ Tight(text) => Tight(Lower(text))
         /\ Small(text) => Lower(text) = text
<1>1. text \in Seq(Char) /\ Len(text) \in Nat /\ DOMAIN text = 1 .. Len(text)
  BY DEF Text
<1>2. Lower(text) \in Text /\ Len(Lower(text)) = Len(text)
  BY LowerType
<1>3. /\ DOMAIN Lower(text) = DOMAIN text
      /\ \A i \in DOMAIN text : Lower(text)[i] = IF text[i] = "H" THEN "h" ELSE text[i]
  BY DEF Lower
<1>4. \A i \in DOMAIN text : /\ Lower(text)[i] # "H"
                             /\ Lower(text)[i] = Blank <=> text[i] = Blank
  BY <1>3 DEF Blank
<1>5. Small(Lower(text))
  BY <1>3, <1>4 DEF Small
<1>6. Trim(text) => Trim(Lower(text))
  BY <1>1, <1>2, <1>3, <1>4 DEF Trim, Text
<1>7. Tight(text) => Tight(Lower(text))
  BY <1>1, <1>3, <1>4 DEF Tight
<1>8. Small(text) => Lower(text) = text
  BY <1>1, <1>3 DEF Small, Lower
<1> QED
  BY <1>5, <1>6, <1>7, <1>8

\* The positions that collapsing runs of blanks keeps
Shown(text) == {i \in DOMAIN text : text[i] # Blank \/ i = 1 \/ text[i - 1] # Blank}

\* What they pick has no two blanks in a row.
LEMMA ShownIsTight ==
  ASSUME NEW text \in Text
  PROVE  Tight(Pick(text, Shown(text)))
<1>1. text \in Seq(Char) /\ Len(text) \in Nat /\ DOMAIN text = 1 .. Len(text)
  BY DEF Text
<1>2. PICK upto \in PickRun(Char, text, Shown(text)) : TRUE
  BY <1>1, PickRuns, Zenon
<1>3. /\ upto \in [0 .. Len(text) -> Seq(Char)]
      /\ upto[0] = <<>>
      /\ \A i \in 1 .. Len(text) :
           upto[i] = IF i \in Shown(text) THEN Append(upto[i - 1], text[i]) ELSE upto[i - 1]
      /\ Pick(text, Shown(text)) = upto[Len(text)]
  BY <1>2 DEF PickRun
<1> DEFINE Good(i) == /\ Tight(upto[i])
                      /\ i > 0 => /\ upto[i] # <<>>
                                  /\ upto[i][Len(upto[i])] = Blank <=> text[i] = Blank
           Holds == {i \in 0 .. Len(text) : Good(i)}
<1>4. 0 \in Holds
  BY <1>1, <1>3 DEF Tight
<1>5. ASSUME NEW i \in 1 .. Len(text), i - 1 \in Holds
      PROVE  i \in Holds
  <2> DEFINE old == upto[i - 1]
             new == upto[i]
  <2>1. /\ i - 1 \in 0 .. Len(text) /\ i \in DOMAIN text
        /\ old \in Seq(Char) /\ Len(old) \in Nat /\ DOMAIN old = 1 .. Len(old)
        /\ text[i] \in Char
    <3>1. i - 1 \in 0 .. Len(text) /\ i \in DOMAIN text
      BY <1>1
    <3>2. old \in Seq(Char)
      BY <1>3, <3>1
    <3> QED
      BY <1>1, <3>1, <3>2
  <2>2. Good(i - 1)
    BY <1>5
  <2>3. CASE i \in Shown(text)
    <3>1. new = Append(old, text[i])
      BY <1>3, <2>3
    <3>2. /\ new # <<>> /\ Len(new) = Len(old) + 1 /\ DOMAIN new = 1 .. Len(new)
          /\ new[Len(new)] = text[i]
          /\ \A j \in 1 .. Len(old) : new[j] = old[j]
      BY <2>1, <3>1
    <3>3. text[i] = Blank => i = 1 \/ text[i - 1] # Blank
      BY <2>3 DEF Shown
    <3>4. ASSUME text[i] = Blank, Len(new) > 1
          PROVE  old[Len(old)] # Blank
      <4>1. CASE i = 1
        <5>1. old = <<>>
          BY <4>1, <1>3
        <5> QED
          BY <5>1, <3>2, <3>4
      <4>2. CASE i # 1
        BY <4>2, <2>2, <3>3, <3>4
      <4> QED
        BY <4>1, <4>2
    <3> HIDE DEF old, new
    <3>5. Tight(new)
      <4> SUFFICES ASSUME NEW j \in DOMAIN new, j > 1, new[j] = Blank
                   PROVE  new[j - 1] # Blank
        BY DEF Tight
      <4>1. j \in 1 .. Len(old) + 1 /\ j - 1 \in 1 .. Len(old)
        BY <2>1, <3>2
      <4>2. CASE j \in 1 .. Len(old)
        <5>1. old[j] = Blank /\ new[j - 1] = old[j - 1]
          BY <3>2, <4>1, <4>2
        <5>2. Tight(old)
          BY <2>2 DEF old
        <5> QED
          BY <5>1, <5>2, <4>2, <2>1 DEF Tight
      <4>3. CASE j = Len(new)
        <5>1. j - 1 = Len(old) /\ text[i] = Blank /\ Len(new) > 1
          BY <2>1, <3>2, <4>3
        <5> QED
          BY <5>1, <3>2, <3>4, <4>1
      <4> QED
        BY <2>1, <3>2, <4>1, <4>2, <4>3
    <3>6. Good(i)
      BY <3>2, <3>5 DEF new
    <3> QED
      BY <3>6
  <2>4. CASE i \notin Shown(text)
    <3>1. new = old
      BY <1>3, <2>4
    <3>2. text[i] = Blank /\ i # 1 /\ text[i - 1] = Blank
      BY <2>1, <2>4 DEF Shown
    <3>3. Good(i)
      BY <2>2, <3>1, <3>2
    <3> QED
      BY <3>3
  <2> QED
    BY <2>3, <2>4
<1>6. Good(Len(text))
  <2> HIDE DEF Good
  <2>1. 0 .. Len(text) \subseteq Holds
    <3> HIDE DEF Holds
    <3> QED
      BY <1>1, <1>4, <1>5, UpTo
  <2> QED
    BY <1>1, <2>1
<1> QED
  BY <1>3, <1>6

\* _collapse trims, leaves single blanks, and leaves a text alone that has only
\* single ones but for its ends.
LEMMA CollapseKeeps ==
  ASSUME NEW value \in {None} \cup Text
  PROVE  /\ Collapse(value) \in Text
         /\ Trim(Collapse(value)) /\ Tight(Collapse(value))
         /\ value # None => Len(Collapse(value)) <= Len(value)
         /\ value # None /\ Tight(value) => Collapse(value) = Strip(value)
<1>1. CASE value = None
  BY <1>1 DEF Collapse, Text, Trim, Tight
<1>2. CASE value # None
  <2> DEFINE picked == Pick(value, Shown(value))
  <2>1. value \in Text /\ Collapse(value) = Strip(picked)
    BY <1>2 DEF Collapse, Shown
  <2>2. /\ picked \in Text /\ Len(picked) <= Len(value)
        /\ DOMAIN value \subseteq Shown(value) => picked = value
    BY <2>1, PickType DEF Text
  <2>3. Tight(picked)
    BY <2>1, ShownIsTight
  <2> HIDE DEF picked
  <2>4. Strip(picked) \in Text /\ Trim(Strip(picked)) /\ Tight(Strip(picked))
    BY <2>2, <2>3, StripKeeps
  <2>5. Len(Strip(picked)) <= Len(value)
    <3>1. Len(Strip(picked)) <= Len(picked)
      BY <2>2, StripType
    <3>2. Len(Strip(picked)) \in Nat /\ Len(picked) \in Nat /\ Len(value) \in Nat
      BY <2>1, <2>2, <2>4 DEF Text
    <3> QED
      BY <2>2, <3>1, <3>2
  <2>6. ASSUME Tight(value) PROVE picked = value
    <3>1. DOMAIN value = 1 .. Len(value) /\ Len(value) \in Nat
      BY <2>1 DEF Text
    <3>2. DOMAIN value \subseteq Shown(value)
      BY <2>6, <3>1 DEF Tight, Shown
    <3> QED
      BY <2>2, <3>2
  <2> QED
    BY <2>1, <2>4, <2>5, <2>6
<1> QED
  BY <1>1, <1>2

\* A semicolon is none of the others.
LEMMA SemicolonIs ==
  Semicolon \notin {"h", "/", "?", "#", Blank}
  BY Zenon DEF Semicolon, Blank

\* What a step of Canonical drops from a URL that has a host leaves both, and
\* the URL no longer.
LEMMA DropHosted ==
  ASSUME NEW url \in Text, Hosted(url),
         NEW positions, positions \subseteq DOMAIN url, 1 \notin positions, 2 \notin positions
  PROVE  /\ Drop(url, positions) \in Text /\ Hosted(Drop(url, positions))
         /\ Len(Drop(url, positions)) <= Len(url)
<1> DEFINE left == Drop(url, positions)
<1>1. /\ left \in Text
      /\ positions = {} => left = url
      /\ positions # {} => \E k \in positions :
           Len(left) = Len(url) - 1 /\ \A i \in 1 .. k - 1 : left[i] = url[i]
  BY DropType
<1> HIDE DEF left
<1>2. Len(url) \in Nat /\ DOMAIN url = 1 .. Len(url)
  BY DEF Text
<1>3. CASE positions = {}
  BY <1>1, <1>2, <1>3 DEF left
<1>4. CASE positions # {}
  <2>1. PICK k \in positions :
          Len(left) = Len(url) - 1 /\ \A i \in 1 .. k - 1 : left[i] = url[i]
    BY <1>1, <1>4
  <2>2. k \in 3 .. Len(url)
    BY <1>2, <2>1
  <2>3. left[1] = url[1] /\ left[2] = url[2] /\ Len(left) > 1 /\ Len(left) <= Len(url)
    BY <1>2, <2>1, <2>2
  <2> QED
    BY <1>1, <2>3 DEF Hosted, left
<1> QED
  BY <1>3, <1>4

\* So does Canonical as a whole.
LEMMA CanonicalHosted ==
  ASSUME NEW url \in Text, Hosted(url)
  PROVE  /\ Canonical(url) \in Text /\ Hosted(Canonical(url))
         /\ Len(Canonical(url)) <= Len(url)
<1>1. ASSUME NEW u \in Text, Hosted(u)
      PROVE  /\ Unmarked(u) \in Text /\ Hosted(Unmarked(u)) /\ Len(Unmarked(u)) <= Len(u)
             /\ Unqueried(u) \in Text /\ Hosted(Unqueried(u)) /\ Len(Unqueried(u)) <= Len(u)
             /\ Unparamed(u) \in Text /\ Hosted(Unparamed(u)) /\ Len(Unparamed(u)) <= Len(u)
  <2>1. u[1] \notin {"/", Semicolon, "?", "#"} /\ u[2] \notin {"/", "?", "#"}
    BY <1>1, SemicolonIs DEF Hosted
  <2>2. 1 \notin Hollow(u, "#", {}) /\ 2 \notin Hollow(u, "#", {})
    BY <2>1 DEF Hollow
  <2>3. 1 \notin Hollow(u, "?", {"#"}) /\ 2 \notin Hollow(u, "?", {"#"})
    BY <2>1 DEF Hollow
  <2>4. 1 \notin HollowParams(u) /\ 2 \notin HollowParams(u)
    <3> SUFFICES ASSUME NEW i \in {1, 2}, NEW j \in 1 .. i - 1, u[j] = "/"
                 PROVE  FALSE
      BY DEF HollowParams
    <3>1. j = 1
      OBVIOUS
    <3> QED
      BY <2>1, <3>1
  <2>5. /\ Hollow(u, "#", {}) \subseteq DOMAIN u /\ Hollow(u, "?", {"#"}) \subseteq DOMAIN u
        /\ HollowParams(u) \subseteq DOMAIN u
    BY DEF Hollow, HollowParams
  <2>6. Unmarked(u) \in Text /\ Hosted(Unmarked(u)) /\ Len(Unmarked(u)) <= Len(u)
    BY <1>1, <2>2, <2>5, DropHosted DEF Unmarked
  <2>7. Unqueried(u) \in Text /\ Hosted(Unqueried(u)) /\ Len(Unqueried(u)) <= Len(u)
    BY <1>1, <2>3, <2>5, DropHosted DEF Unqueried
  <2>8. Unparamed(u) \in Text /\ Hosted(Unparamed(u)) /\ Len(Unparamed(u)) <= Len(u)
    BY <1>1, <2>4, <2>5, DropHosted DEF Unparamed
  <2> QED
    BY <2>6, <2>7, <2>8
<1> DEFINE bare  == Unmarked(url)
           plain == Unqueried(bare)
           left  == Unparamed(plain)
<1>2. bare \in Text /\ Hosted(bare) /\ Len(bare) <= Len(url)
  BY <1>1
<1> HIDE DEF bare
<1>3. plain \in Text /\ Hosted(plain) /\ Len(plain) <= Len(bare)
  BY <1>1, <1>2
<1> HIDE DEF plain
<1>4. left \in Text /\ Hosted(left) /\ Len(left) <= Len(plain)
  BY <1>1, <1>3
<1> HIDE DEF left
<1>5. Canonical(url) = left
  BY CanonicalSteps DEF bare, plain, left
<1>6. Len(url) \in Nat /\ Len(bare) \in Nat /\ Len(plain) \in Nat /\ Len(left) \in Nat
  BY <1>2, <1>3, <1>4 DEF Text
<1> QED
  BY <1>2, <1>3, <1>4, <1>5, <1>6

\* A URL without a mark of an empty part is left as it is.
LEMMA WholeIsCanonical ==
  ASSUME NEW url, Whole(url)
  PROVE  Canonical(url) = url
<1>1. Unmarked(url) = url /\ Unqueried(url) = url /\ Unparamed(url) = url
  BY DEF Whole, Unmarked, Unqueried, Unparamed, Drop
<1> QED
  BY <1>1, CanonicalSteps

\* What dropping does to the positions of a text
Gap(text, k, left) ==
  /\ k \in DOMAIN text /\ left \in Text /\ Len(left) = Len(text) - 1
  /\ \A i \in 1 .. k - 1 : left[i] = text[i]
  /\ \A i \in k .. Len(text) - 1 : left[i] = text[i + 1]

\* Dropping an empty fragment leaves no other.
LEMMA FragmentDropped ==
  ASSUME NEW text \in Text
  PROVE  Unmarked(text) \in Text /\ Hollow(Unmarked(text), "#", {}) = {}
<1> DEFINE marks == Hollow(text, "#", {})
           left  == Unmarked(text)
<1>1. text \in Seq(Char) /\ Len(text) \in Nat /\ DOMAIN text = 1 .. Len(text)
  BY DEF Text
<1>2. CASE marks = {}
  BY <1>2 DEF Unmarked, Drop
<1>3. CASE marks # {}
  <2>1. marks \subseteq DOMAIN text
    BY DEF Hollow
  <2> HIDE DEF marks
  <2>2. PICK k \in marks : Gap(text, k, left)
    BY <1>3, <2>1, DropType DEF Gap, Unmarked, marks
  <2> HIDE DEF left
  <2>3. k = Len(text) /\ \A j \in 1 .. k - 1 : text[j] # "#"
    BY <1>1, <2>2 DEF marks, Hollow
  <2>4. \A i \in DOMAIN left : left[i] # "#"
    <3>1. DOMAIN left = 1 .. k - 1
      BY <1>1, <2>2, <2>3 DEF Gap, Text
    <3> QED
      BY <2>2, <2>3, <3>1 DEF Gap
  <2> QED
    BY <2>2, <2>4 DEF Hollow, Gap, left
<1> QED
  BY <1>2, <1>3

\* Dropping an empty query leaves no other, and no empty fragment.
LEMMA QueryDropped ==
  ASSUME NEW text \in Text, Hollow(text, "#", {}) = {}
  PROVE  /\ Unqueried(text) \in Text
         /\ Hollow(Unqueried(text), "#", {}) = {}
         /\ Hollow(Unqueried(text), "?", {"#"}) = {}
<1> DEFINE marks == Hollow(text, "?", {"#"})
           left  == Unqueried(text)
<1>1. text \in Seq(Char) /\ Len(text) \in Nat /\ DOMAIN text = 1 .. Len(text)
  BY DEF Text
<1>2. CASE marks = {}
  BY <1>2 DEF Unqueried, Drop
<1>3. CASE marks # {}
  <2>1. marks \subseteq DOMAIN text
    BY DEF Hollow
  <2> HIDE DEF marks
  <2>2. PICK k \in marks : Gap(text, k, left)
    BY <1>3, <2>1, DropType DEF Gap, Unqueried, marks
  <2> HIDE DEF left
  <2>3. /\ k \in 1 .. Len(text) /\ text[k] = "?"
        /\ k < Len(text) => text[k + 1] = "#"
        /\ \A j \in 1 .. k - 1 : text[j] \notin {"#", "?"}
    BY <1>1, <2>2 DEF marks, Hollow
  <2>4. /\ left \in Text /\ Len(left) = Len(text) - 1 /\ DOMAIN left = 1 .. Len(text) - 1
        /\ \A i \in 1 .. k - 1 : left[i] = text[i]
        /\ \A i \in k .. Len(text) - 1 : left[i] = text[i + 1]
    BY <2>2, <1>1 DEF Gap, Text
  <2>5. ASSUME NEW i \in Hollow(left, "?", {"#"})
        PROVE  FALSE
    <3>1. i \in 1 .. Len(text) - 1 /\ left[i] = "?" /\ \A j \in 1 .. i - 1 : left[j] # "#"
      BY <2>4, <2>5 DEF Hollow
    <3>2. i >= k
      BY <2>3, <2>4, <3>1
    <3>3. left[k] = "#"
      BY <1>1, <2>3, <2>4, <3>1, <3>2
    <3>4. i # k
      BY <3>1, <3>3
    <3> QED
      BY <2>3, <3>1, <3>2, <3>3, <3>4
  <2>6. ASSUME NEW i \in Hollow(left, "#", {})
        PROVE  FALSE
    <3>1. /\ i = Len(text) - 1 /\ i \in 1 .. Len(text) - 1 /\ left[i] = "#"
          /\ \A j \in 1 .. i - 1 : left[j] # "#"
      BY <1>1, <2>4, <2>6 DEF Hollow
    <3>2. i >= k
      BY <2>3, <2>4, <3>1
    <3>3. left[k] = "#"
      BY <1>1, <2>3, <2>4, <3>1, <3>2
    <3>4. i = k
      <4>1. ~ (k \in 1 .. i - 1)
        BY <3>1, <3>3
      <4> QED
        BY <2>3, <3>1, <3>2, <4>1
    <3>5. text[Len(text)] = "#" /\ Len(text) = k + 1
      <4>0. k = Len(text) - 1
        BY <3>1, <3>4
      <4>1. Len(text) = k + 1 /\ k < Len(text)
        BY <1>1, <4>0
      <4> QED
        BY <2>3, <4>1
    <3>6. \A j \in 1 .. Len(text) - 1 : text[j] # "#"
      BY <2>3, <3>5
    <3>7. Len(text) \in Hollow(text, "#", {})
      BY <1>1, <2>3, <3>5, <3>6 DEF Hollow
    <3> QED
      BY <3>7
  <2> QED
    BY <2>4, <2>5, <2>6 DEF left
<1> QED
  BY <1>2, <1>3

\* Dropping empty params leaves none, and no other empty part.
LEMMA ParamsDropped ==
  ASSUME NEW text \in Text, Hollow(text, "#", {}) = {}, Hollow(text, "?", {"#"}) = {}
  PROVE  Unparamed(text) \in Text /\ Whole(Unparamed(text))
<1> DEFINE marks == HollowParams(text)
           left  == Unparamed(text)
<1>1. text \in Seq(Char) /\ Len(text) \in Nat /\ DOMAIN text = 1 .. Len(text)
  BY DEF Text
<1>2. CASE marks = {}
  BY <1>2 DEF Unparamed, Drop, Whole
<1>3. CASE marks # {}
  <2>1. marks \subseteq DOMAIN text
    BY DEF HollowParams
  <2> HIDE DEF marks
  <2>2. PICK k \in marks : Gap(text, k, left)
    BY <1>3, <2>1, DropType DEF Gap, Unparamed, marks
  <2> HIDE DEF left
  <2>0. Semicolon \notin {"?", "#", "/"}
    BY SemicolonIs
  <2>3. /\ k \in 1 .. Len(text) /\ text[k] = Semicolon
        /\ k < Len(text) => text[k + 1] \in {"?", "#"}
        /\ \A j \in 1 .. k - 1 : text[j] \notin {"?", "#"}
    BY <1>1, <2>2 DEF marks, HollowParams
  <2>4. PICK m \in 1 .. k - 1 : text[m] = "/" /\ \A j \in m + 1 .. k - 1 : text[j] # Semicolon
    BY <2>2 DEF marks, HollowParams
  <2>5. /\ left \in Text /\ Len(left) = Len(text) - 1 /\ DOMAIN left = 1 .. Len(text) - 1
        /\ \A i \in 1 .. k - 1 : left[i] = text[i]
        /\ \A i \in k .. Len(text) - 1 : left[i] = text[i + 1]
    BY <2>2, <1>1 DEF Gap, Text
  <2>6. \A i \in k .. Len(text) - 1 : left[k] \in {"?", "#"}
    BY <1>1, <2>3, <2>5
  <2>7. ASSUME NEW i \in HollowParams(left)
        PROVE  FALSE
    <3>1. /\ i \in 1 .. Len(text) - 1 /\ left[i] = Semicolon
          /\ i < Len(text) - 1 => left[i + 1] \in {"?", "#"}
          /\ \A j \in 1 .. i - 1 : left[j] \notin {"?", "#"}
      BY <2>5, <2>7 DEF HollowParams
    <3>2. i < k
      <4> SUFFICES ASSUME i >= k PROVE FALSE
        BY <2>3, <3>1
      <4>1. left[k] \in {"?", "#"}
        BY <1>1, <2>3, <2>6, <3>1
      <4>2. i # k
        BY <2>0, <3>1, <4>1
      <4> QED
        BY <2>3, <3>1, <4>1, <4>2
    <3>3. i = k - 1
      <4> SUFFICES ASSUME i < k - 1 PROVE FALSE
        BY <2>3, <3>1, <3>2
      <4>1. left[i + 1] \in {"?", "#"} /\ i + 1 \in 1 .. k - 1
        BY <1>1, <2>3, <3>1
      <4> QED
        BY <2>3, <2>5, <4>1
    <3>4. text[i] = Semicolon
      BY <2>3, <2>5, <3>1, <3>3
    <3>5. m # i
      BY <2>0, <2>4, <3>4
    <3> QED
      BY <2>3, <2>4, <3>1, <3>3, <3>4, <3>5
  <2>8. ASSUME NEW i \in Hollow(left, "?", {"#"})
        PROVE  FALSE
    <3>1. /\ i \in 1 .. Len(text) - 1 /\ left[i] = "?"
          /\ i < Len(text) - 1 => left[i + 1] = "#"
          /\ \A j \in 1 .. i - 1 : left[j] \notin {"?", "#"}
      BY <2>5, <2>8 DEF Hollow
    <3>2. i >= k
      BY <2>3, <2>5, <3>1
    <3>3. left[k] \in {"?", "#"}
      BY <1>1, <2>3, <2>6, <3>1, <3>2
    <3>4. i = k
      <4>1. ~ (k \in 1 .. i - 1)
        BY <3>1, <3>3
      <4> QED
        BY <2>3, <3>1, <3>2, <4>1
    <3>5. text[k + 1] = "?" /\ k + 1 \in 1 .. Len(text)
      BY <1>1, <2>3, <2>5, <3>1, <3>4
    <3>6. k + 1 < Len(text) => text[k + 2] = "#"
      <4> SUFFICES ASSUME k + 1 < Len(text) PROVE text[k + 2] = "#"
        OBVIOUS
      <4>1. left[k + 1] = "#"
        BY <1>1, <2>3, <3>1, <3>4
      <4>2. left[k + 1] = text[(k + 1) + 1] /\ (k + 1) + 1 = k + 2
        BY <1>1, <2>3, <2>5
      <4> QED
        BY <4>1, <4>2
    <3>7. \A j \in 1 .. (k + 1) - 1 : text[j] \notin {"?", "#"}
      <4>1. \A j \in 1 .. (k + 1) - 1 : j \in 1 .. k - 1 \/ j = k
        BY <1>1, <2>3
      <4> QED
        BY <2>0, <2>3, <4>1
    <3>8. (k + 1) + 1 = k + 2 /\ k + 1 \in DOMAIN text
      BY <1>1, <2>3, <3>5
    <3>9. k + 1 \in Hollow(text, "?", {"#"})
      BY <3>5, <3>6, <3>7, <3>8 DEF Hollow
    <3> QED
      BY <3>9
  <2>9. ASSUME NEW i \in Hollow(left, "#", {})
        PROVE  FALSE
    <3>1. /\ i = Len(text) - 1 /\ i \in 1 .. Len(text) - 1 /\ left[i] = "#"
          /\ \A j \in 1 .. i - 1 : left[j] # "#"
      BY <1>1, <2>5, <2>9 DEF Hollow
    <3>2. i >= k
      BY <2>3, <2>5, <3>1
    <3>3. text[Len(text)] = "#"
      BY <1>1, <2>3, <2>5, <3>1, <3>2
    <3>4. ASSUME NEW j \in 1 .. Len(text) - 1
          PROVE  text[j] # "#"
      <4>1. CASE j < k
        BY <2>3, <4>1
      <4>2. CASE j = k
        BY <2>0, <2>3, <4>2
      <4>3. CASE j > k
        <5>1. j - 1 \in k .. Len(text) - 1 /\ j - 1 \in 1 .. i - 1 /\ (j - 1) + 1 = j
          BY <1>1, <2>3, <3>1, <4>3
        <5>2. left[j - 1] = text[j]
          BY <2>5, <5>1
        <5> QED
          BY <3>1, <5>1, <5>2
      <4> QED
        BY <2>3, <4>1, <4>2, <4>3
    <3>5. Len(text) \in Hollow(text, "#", {})
      BY <1>1, <2>3, <3>3, <3>4 DEF Hollow
    <3> QED
      BY <3>5
  <2> QED
    BY <2>5, <2>7, <2>8, <2>9 DEF left, Whole
<1> QED
  BY <1>2, <1>3

\* So what urlunparse answers has no mark of an empty part.
LEMMA CanonicalIsWhole ==
  ASSUME NEW text \in Text
  PROVE  Whole(Canonical(text))
<1> DEFINE bare  == Unmarked(text)
           plain == Unqueried(bare)
<1>1. bare \in Text /\ Hollow(bare, "#", {}) = {}
  BY FragmentDropped
<1> HIDE DEF bare
<1>2. plain \in Text /\ Hollow(plain, "#", {}) = {} /\ Hollow(plain, "?", {"#"}) = {}
  BY <1>1, QueryDropped
<1> HIDE DEF plain
<1>3. Whole(Unparamed(plain))
  BY <1>2, ParamsDropped
<1> QED
  BY <1>3, CanonicalSteps DEF bare, plain

\* A URL that begins a cut one is cut likewise.
LEMMA CutPrefix ==
  ASSUME NEW url \in Text, Cut(url), NEW text \in Text,
         \A i \in DOMAIN text : i \in DOMAIN url /\ text[i] = url[i]
  PROVE  Cut(text)
<1>1. /\ Len(url) \in Nat /\ DOMAIN url = 1 .. Len(url)
      /\ Len(text) \in Nat /\ DOMAIN text = 1 .. Len(text)
  BY DEF Text
<1> SUFFICES ASSUME NEW i \in DOMAIN text, i < Len(text)
             PROVE  i \notin Hollow(text, "?", {"#"}) /\ i \notin HollowParams(text)
  BY DEF Cut
<1>2. /\ i \in DOMAIN url /\ i < Len(url) /\ text[i] = url[i] /\ text[i + 1] = url[i + 1]
      /\ \A j \in 1 .. i - 1 : text[j] = url[j]
  <2>1. i + 1 \in DOMAIN text /\ \A j \in 1 .. i - 1 : j \in DOMAIN text
    BY <1>1
  <2>2. i + 1 \in DOMAIN url /\ i \in DOMAIN url
    BY <2>1
  <2>3. i < Len(url)
    BY <1>1, <2>2
  <2> QED
    BY <2>1, <2>2, <2>3
<1>3. i \notin Hollow(url, "?", {"#"}) /\ i \notin HollowParams(url)
  BY <1>2 DEF Cut
<1>4. i \notin Hollow(text, "?", {"#"})
  BY <1>2, <1>3 DEF Hollow
<1>5. i \notin HollowParams(text)
  <2> SUFFICES ASSUME i \in HollowParams(text) PROVE FALSE
    OBVIOUS
  <2>1. /\ text[i] = Semicolon /\ text[i + 1] \in {"?", "#"}
        /\ \A j \in 1 .. i - 1 : text[j] \notin {"?", "#"}
    BY DEF HollowParams
  <2>2. PICK m \in 1 .. i - 1 : text[m] = "/" /\ \A j \in m + 1 .. i - 1 : text[j] # Semicolon
    BY DEF HollowParams
  <2>3. url[m] = "/" /\ \A j \in m + 1 .. i - 1 : url[j] # Semicolon
    <3>1. \A j \in m + 1 .. i - 1 : j \in 1 .. i - 1
      BY <1>1
    <3> QED
      BY <1>2, <2>2, <3>1
  <2>4. i \in HollowParams(url)
    BY <1>2, <2>1, <2>3 DEF HollowParams
  <2> QED
    BY <1>3, <2>4
<1> QED
  BY <1>4, <1>5

LEMMA RankType ==
  ASSUME NEW url
  PROVE  Rank(url) \in 0 .. 3
  BY DEF Rank

\* Blanks at its end give a URL no rank.
LEMMA RankOfStripped ==
  ASSUME NEW url \in Text, NEW text \in Text,
         \A i \in DOMAIN text : i \in DOMAIN url /\ text[i] = url[i],
         \A i \in DOMAIN url \ DOMAIN text : url[i] = Blank
  PROVE  Rank(text) <= Rank(url)
<1>1. \A mark : Has(text, mark) => Has(url, mark)
  BY DEF Has
<1>2. HasParams(text) => HasParams(url)
  <2> SUFFICES ASSUME HasParams(text) PROVE HasParams(url)
    OBVIOUS
  <2>1. PICK i \in DOMAIN text :
          text[i] = Semicolon /\ \A j \in DOMAIN text : j > i => text[j] # "/"
    BY DEF HasParams
  <2>2. Blank # "/"
    BY Zenon DEF Blank
  <2>3. \A j \in DOMAIN url : j > i => url[j] # "/"
    BY <2>1, <2>2
  <2> QED
    BY <2>1, <2>3 DEF HasParams
<1> QED
  BY <1>1, <1>2 DEF Rank

\* What urlunparse takes from a cut URL is the mark it was cut behind, and there
\* are fewer to come.
LEMMA CutCanonical ==
  ASSUME NEW url \in Text, Len(url) > 1, Cut(url), Canonical(url) # url
  PROVE  /\ url[Len(url)] \in {Semicolon, "?", "#"}
         /\ Canonical(url) \in Text
         /\ Rank(Canonical(url)) < Rank(url)
<1> DEFINE n     == Len(url)
           front == SubSeq(url, 1, n - 1)
<1>1. url \in Seq(Char) /\ n \in Nat /\ n > 1 /\ DOMAIN url = 1 .. n
  BY DEF Text
<1>2. front \in Text /\ Len(front) = n - 1 /\ \A i \in 1 .. n - 1 : front[i] = url[i]
  BY <1>1 DEF Text
<1>3. DOMAIN front = 1 .. n - 1
  BY <1>1, <1>2 DEF Text
<1>0. Semicolon \notin {"?", "#", "/"}
  BY SemicolonIs
<1>4. \A i \in 1 .. n - 1 : i \notin Hollow(url, "?", {"#"}) /\ i \notin HollowParams(url)
  BY <1>1 DEF Cut
<1>n. n = Len(url)
  OBVIOUS
<1> HIDE DEF n, front
<1>5. ASSUME NEW positions, positions = {n}
      PROVE  Drop(url, positions) = front
  <2>1. /\ Drop(url, positions) \in Text
        /\ \E k \in positions :
             /\ Len(Drop(url, positions)) = Len(url) - 1
             /\ \A i \in 1 .. k - 1 : Drop(url, positions)[i] = url[i]
    <3>1. positions \subseteq DOMAIN url /\ positions # {}
      BY <1>1, <1>5
    <3> QED
      BY <3>1, DropType
  <2> DEFINE left == Drop(url, positions)
  <2>2. left \in Seq(Char) /\ Len(left) = n - 1 /\ \A i \in 1 .. n - 1 : left[i] = url[i]
    BY <1>5, <1>n, <2>1 DEF Text
  <2> HIDE DEF left
  <2>3. left = front
    BY <1>1, <1>2, <2>2, SeqEqual DEF Text
  <2> QED
    BY <2>3 DEF left
<1>6. Hollow(url, "#", {}) \in {{}, {n}}
  <2>1. \A i \in Hollow(url, "#", {}) : i = n
    BY <1>1, <1>n DEF Hollow
  <2> QED
    BY <2>1
<1>7. Hollow(url, "?", {"#"}) \in {{}, {n}}
  <2>1. \A i \in Hollow(url, "?", {"#"}) : i \in 1 .. n
    BY <1>1 DEF Hollow
  <2>2. \A i \in Hollow(url, "?", {"#"}) : i = n
    BY <1>1, <1>4, <2>1
  <2> QED
    BY <2>2
<1>8. HollowParams(url) \in {{}, {n}}
  <2>1. \A i \in HollowParams(url) : i \in 1 .. n
    BY <1>1 DEF HollowParams
  <2>2. \A i \in HollowParams(url) : i = n
    BY <1>1, <1>4, <2>1
  <2> QED
    BY <2>2
<1>9. ASSUME url[n] \in {"?", "#"}
      PROVE  HollowParams(front) = {}
  <2> SUFFICES ASSUME NEW i \in HollowParams(front) PROVE FALSE
    OBVIOUS
  <2>1. /\ i \in 1 .. n - 1 /\ front[i] = Semicolon
        /\ i < n - 1 => front[i + 1] \in {"?", "#"}
        /\ \A j \in 1 .. i - 1 : front[j] \notin {"?", "#"}
    BY <1>2, <1>3 DEF HollowParams
  <2>2. PICK m \in 1 .. i - 1 : front[m] = "/" /\ \A j \in m + 1 .. i - 1 : front[j] # Semicolon
    BY DEF HollowParams
  <2>3. url[i] = Semicolon /\ url[i + 1] \in {"?", "#"}
    <3>1. CASE i = n - 1
      <4>1. i + 1 = n
        BY <1>1, <3>1
      <4> QED
        BY <1>2, <1>9, <2>1, <4>1
    <3>2. CASE i # n - 1
      <4>1. i < n - 1 /\ i + 1 \in 1 .. n - 1
        BY <1>1, <2>1, <3>2
      <4> QED
        BY <1>2, <2>1, <4>1
    <3> QED
      BY <3>1, <3>2
  <2>4. \A j \in 1 .. i - 1 : front[j] = url[j]
    BY <1>1, <1>2, <2>1
  <2>5. \A j \in m + 1 .. i - 1 : j \in 1 .. i - 1
    BY <1>1, <2>1
  <2>6. /\ \A j \in 1 .. i - 1 : url[j] \notin {"?", "#"}
        /\ url[m] = "/" /\ \A j \in m + 1 .. i - 1 : url[j] # Semicolon
    BY <2>1, <2>2, <2>4, <2>5
  <2>7. i \in HollowParams(url)
    BY <1>1, <2>1, <2>3, <2>6 DEF HollowParams
  <2> QED
    BY <1>4, <2>1, <2>7
<1>10. CASE Hollow(url, "#", {}) = {n}
  <2>1. url[n] = "#" /\ \A j \in 1 .. n - 1 : url[j] # "#"
    BY <1>1, <1>10 DEF Hollow
  <2>2. \A i \in DOMAIN front : front[i] # "#"
    BY <1>2, <1>3, <2>1
  <2>3. Unmarked(url) = front
    BY <1>5, <1>10 DEF Unmarked
  <2>4. Hollow(front, "?", {"#"}) = {}
    <3> SUFFICES ASSUME NEW i \in Hollow(front, "?", {"#"}) PROVE FALSE
      OBVIOUS
    <3>1. i < n - 1 => front[i + 1] = "#"
      BY <1>2 DEF Hollow
    <3>2. \A j \in 1 .. i - 1 : front[j] \notin {"#", "?"}
      BY DEF Hollow
    <3>3. i \in 1 .. n - 1 /\ front[i] = "?"
      BY <1>2, <1>3 DEF Hollow
    <3>4. i = n - 1
      <4> SUFFICES ASSUME i # n - 1 PROVE FALSE
        OBVIOUS
      <4>1. i < n - 1 /\ i + 1 \in 1 .. n - 1
        BY <1>1, <3>3
      <4> QED
        BY <1>3, <2>2, <3>1, <4>1
    <3>5. i + 1 = n /\ \A j \in 1 .. i - 1 : j \in 1 .. n - 1
      BY <1>1, <3>3, <3>4
    <3>6. url[i] = "?" /\ url[i + 1] = "#"
      BY <1>2, <2>1, <3>3, <3>5
    <3>7. \A j \in 1 .. i - 1 : url[j] \notin {"#", "?"}
      BY <1>2, <3>2, <3>5
    <3>8. i \in Hollow(url, "?", {"#"})
      BY <1>1, <3>3, <3>6, <3>7 DEF Hollow
    <3> QED
      BY <1>4, <3>3, <3>8
  <2>5. HollowParams(front) = {}
    BY <1>9, <2>1
  <2>6. Hollow(front, "#", {}) = {}
    BY <2>2 DEF Hollow
  <2>7. Canonical(url) = front
    <3>1. Unqueried(front) = front /\ Unparamed(front) = front
      BY <2>4, <2>5 DEF Unqueried, Unparamed, Drop
    <3> QED
      BY <2>3, <3>1, CanonicalSteps
  <2>8. Has(url, "#") /\ ~ Has(front, "#")
    BY <1>1, <2>1, <2>2 DEF Has
  <2>9. Rank(front) < Rank(url)
    BY <2>8 DEF Rank
  <2> QED
    BY <1>2, <1>n, <2>1, <2>7, <2>9
<1>11. CASE Hollow(url, "#", {}) = {} /\ Hollow(url, "?", {"#"}) = {n}
  <2>1. url[n] = "?" /\ \A j \in 1 .. n - 1 : url[j] \notin {"?", "#"}
    BY <1>1, <1>11 DEF Hollow
  <2>2. \A i \in DOMAIN front : front[i] \notin {"?", "#"}
    BY <1>2, <1>3, <2>1
  <2>3. Unmarked(url) = url
    BY <1>11 DEF Unmarked, Drop
  <2>4. Unqueried(url) = front
    BY <1>5, <1>11 DEF Unqueried
  <2>5. HollowParams(front) = {}
    BY <1>9, <2>1
  <2>6. Canonical(url) = front
    <3>1. Unparamed(front) = front
      BY <2>5 DEF Unparamed, Drop
    <3> QED
      BY <2>3, <2>4, <3>1, CanonicalSteps
  <2>7. Has(url, "?") /\ ~ Has(front, "?") /\ ~ Has(front, "#")
    BY <1>1, <2>1, <2>2 DEF Has
  <2>8. Rank(front) < Rank(url)
    BY <2>7 DEF Rank
  <2> QED
    BY <1>2, <1>n, <2>1, <2>6, <2>8
<1>12. CASE Hollow(url, "#", {}) = {} /\ Hollow(url, "?", {"#"}) = {} /\ HollowParams(url) = {n}
  <2>1. url[n] = Semicolon /\ \A j \in 1 .. n - 1 : url[j] \notin {"?", "#"}
    BY <1>1, <1>12 DEF HollowParams
  <2>2. PICK m \in 1 .. n - 1 : url[m] = "/" /\ \A j \in m + 1 .. n - 1 : url[j] # Semicolon
    BY <1>12 DEF HollowParams
  <2>3. Canonical(url) = front
    <3>1. Unmarked(url) = url /\ Unqueried(url) = url
      BY <1>12 DEF Unmarked, Unqueried, Drop
    <3>2. Unparamed(url) = front
      BY <1>5, <1>12 DEF Unparamed
    <3> QED
      BY <3>1, <3>2, CanonicalSteps
  <2>4. ~ Has(front, "?") /\ ~ Has(front, "#")
    BY <1>2, <1>3, <2>1 DEF Has
  <2>5. ~ HasParams(front)
    <3> SUFFICES ASSUME NEW i \in DOMAIN front, front[i] = Semicolon,
                        \A j \in DOMAIN front : j > i => front[j] # "/"
                 PROVE  FALSE
      BY DEF HasParams
    <3>1. i \in 1 .. n - 1 /\ url[i] = Semicolon /\ front[m] = "/" /\ m \in DOMAIN front
      BY <1>2, <1>3, <2>2
    <3>2. i <= m
      <4>1. ~ (i \in m + 1 .. n - 1)
        BY <2>2, <3>1
      <4> QED
        BY <1>1, <3>1, <4>1
    <3>3. i # m
      BY <1>0, <2>2, <3>1
    <3>4. m > i
      BY <1>1, <3>1, <3>2, <3>3
    <3> QED
      BY <3>1, <3>4
  <2>6. HasParams(url)
    <3>1. \A j \in DOMAIN url : ~ (j > n)
      BY <1>1
    <3> QED
      BY <1>1, <2>1, <3>1 DEF HasParams
  <2>7. Rank(front) = 0
    BY <2>4, <2>5 DEF Rank
  <2>8. Rank(url) > 0
    BY <2>6 DEF Rank
  <2> QED
    BY <1>2, <1>n, <2>1, <2>3, <2>7, <2>8
<1>13. ~ Whole(url)
  BY WholeIsCanonical
<1> QED
  BY <1>6, <1>7, <1>8, <1>10, <1>11, <1>12, <1>13 DEF Whole

\* What valid_http_url answers has a scheme and begins a host, and is not longer
\* than what it was given.
LEMMA UrlFrom ==
  ASSUME NEW value \in {None} \cup Text, valid_http_url(value) # None
  PROVE  /\ value # None
         /\ UrlAfter(0, valid_http_url(value))
         /\ Len(valid_http_url(value)) <= Len(value)
<1> DEFINE text == Strip(value)
           full == <<"h">> \o Tail(text)
           url  == valid_http_url(value)
<1>1. value # None
  <2>1. Len(<<>>) < 2
    OBVIOUS
  <2> QED
    BY <2>1 DEF valid_http_url
<1>2. text \in Text /\ Len(text) <= Len(value) /\ value \in Text
  BY <1>1, StripType
<1>3. /\ ~ (Len(text) < 2 \/ text[1] \notin {"h", "H"} \/ text[2] \in {"/", "?", "#"})
      /\ url = Canonical(full)
  BY <1>1 DEF valid_http_url
<1> HIDE DEF text
<1>4. /\ text \in Seq(Char) /\ Len(text) \in Nat /\ Len(text) > 1 /\ Len(value) \in Nat
      /\ text[2] \notin {"/", "?", "#"}
  BY <1>2, <1>3 DEF Text
<1>5. full \in Text /\ Len(full) = Len(text) /\ full[1] = "h" /\ full[2] = text[2]
  <2>1. "h" \in Char
    BY DEF Char
  <2>2. /\ Tail(text) \in Seq(Char) /\ Len(Tail(text)) = Len(text) - 1
        /\ Tail(text)[1] = text[2]
    BY <1>4
  <2> HIDE DEF text
  <2>3. <<"h">> \in Seq(Char) /\ Len(<<"h">>) = 1 /\ <<"h">>[1] = "h"
    BY <2>1
  <2> QED
    BY <1>4, <2>2, <2>3, ConcatProperties DEF Text
<1>6. Hosted(full)
  BY <1>4, <1>5 DEF Hosted
<1> HIDE DEF full, url
<1>7. url \in Text /\ Hosted(url) /\ Len(url) <= Len(full)
  BY <1>3, <1>5, <1>6, CanonicalHosted
<1>8. Cut(url)
  <2>1. Whole(url)
    BY <1>3, <1>5, CanonicalIsWhole
  <2> QED
    BY <2>1 DEF Whole, Cut
<1>9. Rank(url) <= 3 - 0
  BY RankType
<1>10. Len(url) <= Len(value)
  <2>1. Len(url) \in Nat
    BY <1>7 DEF Text
  <2> QED
    BY <1>2, <1>4, <1>5, <1>7, <2>1
<1> QED
  BY <1>1, <1>7, <1>8, <1>9, <1>10 DEF UrlAfter, url

\* A URL that was stored only has its end trimmed.
LEMMA UrlOfStored ==
  ASSUME NEW url \in Text, Hosted(url), None \notin Text
  PROVE  valid_http_url(url) = IF Len(Strip(url)) < 2 THEN None ELSE Canonical(Strip(url))
<1> DEFINE text == Strip(url)
<1>1. url \in Seq(Char) /\ Len(url) > 1 /\ url[1] = "h" /\ url[2] \notin {"/", "?", "#"}
  BY DEF Hosted, Text
<1>2. url # <<>> /\ url[1] # Blank
  BY <1>1 DEF Blank
<1>3. /\ text \in Text /\ text # <<>>
      /\ \A i \in DOMAIN text : i \in DOMAIN url /\ text[i] = url[i]
  BY <1>2, StripKeeps
<1>4. valid_http_url(url) =
        IF Len(text) < 2 \/ text[1] \notin {"h", "H"} \/ text[2] \in {"/", "?", "#"}
        THEN None ELSE Canonical(<<"h">> \o Tail(text))
  <2>1. url # None
    OBVIOUS
  <2> QED
    BY <2>1 DEF valid_http_url
<1> HIDE DEF text
<1>5. text \in Seq(Char) /\ Len(text) \in Nat \ {0} /\ DOMAIN text = 1 .. Len(text)
  BY <1>3 DEF Text
<1>6. text[1] = "h"
  BY <1>1, <1>3, <1>5
<1>7. Len(text) > 1 => text[2] \notin {"/", "?", "#"}
  BY <1>1, <1>3, <1>5
<1>8. <<"h">> \o Tail(text) = text
  BY <1>5, <1>6
<1>9. valid_http_url(url) = IF Len(text) < 2 THEN None ELSE Canonical(text)
  <2>1. CASE Len(text) < 2
    BY <2>1, <1>4
  <2>2. CASE ~ (Len(text) < 2)
    <3>1. text[2] \notin {"/", "?", "#"}
      BY <2>2, <1>5, <1>7
    <3> QED
      BY <2>2, <3>1, <1>4, <1>6, <1>8
  <2> QED
    BY <2>1, <2>2
<1> QED
  BY <1>9 DEF text

\* A save takes a mark or blanks from the end of a URL or leaves it as it is, and
\* after four there is nothing to take; nor is there without a frayed end.
LEMMA UrlSettles ==
  ASSUME NEW url \in Text, UrlAfter(0, url), None \notin Text
  PROVE  /\ valid_http_url(url) # None =>
              \A s \in 0 .. 3 : UrlAfter(s, url) => UrlAfter(s + 1, valid_http_url(url))
         /\ UrlAfter(4, url) => valid_http_url(url) = url
         /\ url[Len(url)] \notin {Blank, Semicolon, "?", "#"} => UrlAfter(4, url)
<1> DEFINE text  == Strip(url)
           again == valid_http_url(url)
<1>1. url \in Seq(Char) /\ Len(url) > 1 /\ url[1] = "h" /\ Hosted(url) /\ Cut(url)
  BY DEF UrlAfter, Hosted, Text
<1>2. url # <<>> /\ url[1] # Blank
  BY <1>1 DEF Blank
<1>3. /\ text \in Text /\ Trim(text) /\ text # <<>>
      /\ \A i \in DOMAIN text : i \in DOMAIN url /\ text[i] = url[i]
      /\ \A i \in DOMAIN url \ DOMAIN text : url[i] = Blank
      /\ Trim(url) => text = url
  BY <1>2, StripKeeps
<1>4. again = IF Len(text) < 2 THEN None ELSE Canonical(text)
  BY <1>1, UrlOfStored
<1> HIDE DEF text, again
<1>5. text \in Seq(Char) /\ Len(text) \in Nat \ {0} /\ DOMAIN text = 1 .. Len(text)
  BY <1>3 DEF Text
<1>6. Cut(text) /\ Rank(text) <= Rank(url)
  BY <1>1, <1>3, CutPrefix, RankOfStripped
<1>7. \A u : Rank(u) \in 0 .. 3
  BY RankType
<1>8. ASSUME Len(text) > 1, Canonical(text) = text
      PROVE  valid_http_url(text) = text
  <2>1. Hosted(text)
    BY <1>1, <1>3, <1>5, <1>8 DEF Hosted
  <2>2. Strip(text) = text
    BY <1>3, StripKeeps
  <2>3. valid_http_url(text) = IF Len(text) < 2 THEN None ELSE text
    BY <1>3, <1>8, <2>1, <2>2, UrlOfStored
  <2> QED
    BY <1>5, <1>8, <2>3
<1>9. ASSUME again # None, NEW s \in 0 .. 3, UrlAfter(s, url)
      PROVE  UrlAfter(s + 1, again)
  <2>1. Len(text) > 1 /\ again = Canonical(text)
    BY <1>4, <1>5, <1>9
  <2>2. again \in Text /\ Hosted(again) /\ Cut(again)
    <3>1. url \in {None} \cup Text
      OBVIOUS
    <3>2. UrlAfter(0, again)
      BY <1>9, <3>1, UrlFrom DEF again
    <3> QED
      BY <3>2 DEF UrlAfter
  <2>3. CASE Canonical(text) = text
    <3>1. valid_http_url(again) = again
      BY <1>8, <2>1, <2>3
    <3> QED
      BY <2>2, <3>1 DEF UrlAfter
  <2>4. CASE Canonical(text) # text
    <3>1. Rank(again) < Rank(text)
      BY <1>3, <1>6, <2>1, <2>4, CutCanonical
    <3>2. CASE again = url
      <4>1. valid_http_url(again) = again
        BY <3>2 DEF again
      <4> QED
        BY <2>2, <4>1 DEF UrlAfter
    <3>3. CASE again # url
      <4>1. Rank(url) <= 3 - s
        BY <1>9, <3>3 DEF UrlAfter, again
      <4>2. Rank(again) \in Int /\ Rank(text) \in Int /\ Rank(url) \in Int
        BY <1>7
      <4>3. Rank(again) <= 3 - (s + 1)
        BY <1>6, <3>1, <4>1, <4>2
      <4> QED
        BY <2>2, <4>3 DEF UrlAfter
    <3> QED
      BY <3>2, <3>3
  <2> QED
    BY <2>3, <2>4
<1>10. UrlAfter(4, url) => again = url
  <2>1. ~ (Rank(url) <= 3 - 4)
    BY <1>7
  <2> QED
    BY <2>1 DEF UrlAfter, again
<1>11. ASSUME url[Len(url)] \notin {Blank, Semicolon, "?", "#"}
       PROVE  UrlAfter(4, url)
  <2>1. Trim(url)
    BY <1>2, <1>11 DEF Trim
  <2>2. text = url
    BY <1>3, <2>1
  <2>3. Canonical(url) = url
    BY <1>1, <1>11, CutCanonical
  <2>4. valid_http_url(url) = url
    BY <1>1, <1>8, <2>2, <2>3
  <2> QED
    BY <1>1, <2>4 DEF UrlAfter
<1> QED
  BY <1>9, <1>10, <1>11 DEF again

\* How a keyword is stored begins with ink, and storing it again trims it at
\* most.
LEMMA KeywordSettles ==
  ASSUME PayloadAssumption, NEW item \in Text
  PROVE  /\ Keyword(item) # <<>> => KeywordAfter(0, Keyword(item))
         /\ KeywordAfter(0, item) /\ Len(item) <= Limits.search_keyword_item =>
              /\ Keyword(item) # <<>> /\ KeywordAfter(2, Keyword(item))
              /\ Trim(item) => Keyword(item) = item
<1> DEFINE max   == Limits.search_keyword_item
           plain == Collapse(item)
           lower == Lower(plain)
<1>1. max \in Nat \ {0}
  BY DEF PayloadAssumption, Caps
<1>2. plain \in Text /\ Trim(plain) /\ Tight(plain)
  BY CollapseKeeps
<1>3. lower \in Text /\ Small(lower) /\ Trim(lower) /\ Tight(lower)
  BY <1>2, LowerType, LowerKeeps
<1>4. Keyword(item) = Cap(lower, max)
  BY DEF Keyword
<1>5. ASSUME Keyword(item) # <<>> PROVE KeywordAfter(0, Keyword(item))
  <2> HIDE DEF lower, max
  <2> QED
    BY <1>1, <1>3, <1>4, <1>5, CapAfter DEF KeywordAfter
<1>6. ASSUME KeywordAfter(0, item), Len(item) <= max
      PROVE  /\ Keyword(item) # <<>> /\ KeywordAfter(2, Keyword(item))
             /\ Trim(item) => Keyword(item) = item
  <2>1. item # <<>> /\ item[1] # Blank /\ Tight(item) /\ Small(item)
    BY <1>6 DEF KeywordAfter, TextAfter
  <2>2. item \in {None} \cup Text /\ item # None
    BY NoneType
  <2>3. plain = Strip(item)
    BY <2>1, <2>2, CollapseKeeps
  <2>4. Small(plain) /\ plain # <<>>
    BY <2>1, <2>3, StripKeeps
  <2>5. lower = plain
    BY <1>2, <2>4, LowerKeeps
  <2>6. Len(plain) <= max
    <3>1. Len(plain) <= Len(item)
      BY <2>3, StripType
    <3>2. Len(plain) \in Nat /\ Len(item) \in Nat
      BY <1>2 DEF Text
    <3> QED
      BY <1>1, <1>6, <3>1, <3>2
  <2> HIDE DEF plain, lower, max
  <2>7. Cap(plain, max) = plain
    BY <1>1, <1>2, <2>6, CapAfter
  <2>8. Keyword(item) = plain
    BY <1>4, <2>5, <2>7
  <2>9. KeywordAfter(2, plain)
    BY <1>2, <2>4 DEF KeywordAfter, TextAfter, Trim
  <2>10. Trim(item) => plain = item
    BY <2>3, StripKeeps
  <2> QED
    BY <2>4, <2>8, <2>9, <2>10
<1> QED
  BY <1>5, <1>6

\* The keywords that are kept come from the items, and each is kept once.
LEMMA KeywordsFrom ==
  ASSUME PayloadAssumption, NEW items \in Seq(Text)
  PROVE  /\ Distinct(Keywords(items))
         /\ \A a \in DOMAIN Keywords(items) : \E i \in DOMAIN items :
              Keywords(items)[a] = Keyword(items[i]) /\ Keyword(items[i]) # <<>>
<1> DEFINE out == Keywords(items)
<1>1. InOrder(items, Len(items), out)
  BY KeywordsInOrder
<1> HIDE DEF out
<1>2. /\ out \in Seq(Text) /\ Len(items) \in Nat
      /\ \A a, b \in DOMAIN out : a < b => FirstOf(items, out[a]) < FirstOf(items, out[b])
      /\ \A a \in DOMAIN out : out[a] \in WantedOf(items, Len(items))
  BY <1>1 DEF InOrder
<1>3. \A a \in DOMAIN out : FirstOf(items, out[a]) \in Nat
  BY <1>2, WantedHaveFirst
<1>4. Distinct(out)
  <2> SUFFICES ASSUME NEW a \in DOMAIN out, NEW b \in DOMAIN out, out[a] = out[b], a # b
               PROVE  FALSE
    BY DEF Distinct
  <2>1. a \in Nat /\ b \in Nat
    BY <1>2
  <2>2. a < b \/ b < a
    BY <2>1
  <2>3. FirstOf(items, out[a]) = FirstOf(items, out[b]) /\ FirstOf(items, out[a]) \in Nat
    BY <1>3
  <2>4. ~ (FirstOf(items, out[a]) < FirstOf(items, out[b]))
    BY <2>3
  <2>5. ~ (FirstOf(items, out[b]) < FirstOf(items, out[a]))
    BY <2>3
  <2> QED
    BY <1>2, <2>2, <2>4, <2>5
<1>5. DOMAIN items = 1 .. Len(items)
  OBVIOUS
<1> QED
  BY <1>2, <1>4, <1>5 DEF out, WantedOf

\* Keywords that need nothing are all kept, as they are.
LEMMA KeywordsStay ==
  ASSUME PayloadAssumption, NEW items \in Seq(Text),
         Len(items) <= Limits.search_keyword_items, Distinct(items),
         \A i \in DOMAIN items : Keyword(items[i]) = items[i] /\ items[i] # <<>>
  PROVE  Keywords(items) = items
<1> DEFINE max == Limits.search_keyword_items
<1>1. PICK out \in KeywordRun(items) : TRUE
  BY KeywordRuns, Zenon
<1>2. /\ out[0] = <<>>
      /\ \A i \in 1 .. Len(items) : out[i] = AddKeyword(out[i - 1], items[i])
      /\ Keywords(items) = out[Len(items)]
  BY <1>1 DEF KeywordRun
<1>3. max \in Nat \ {0} /\ Len(items) \in Nat /\ DOMAIN items = 1 .. Len(items)
  BY DEF PayloadAssumption, Caps
<1> DEFINE Holds == {i \in 0 .. Len(items) : out[i] = SubSeq(items, 1, i)}
<1>4. 0 \in Holds
  <2>1. SubSeq(items, 1, 0) = <<>>
    OBVIOUS
  <2>2. out[0] = SubSeq(items, 1, 0)
    BY <1>2, <2>1, Zenon
  <2>3. 0 \in 0 .. Len(items)
    BY <1>3
  <2> QED
    BY <2>2, <2>3
<1>5. ASSUME NEW i \in 1 .. Len(items), i - 1 \in Holds
      PROVE  i \in Holds
  <2> DEFINE old == SubSeq(items, 1, i - 1)
  <2>1. out[i - 1] = old /\ i \in 0 .. Len(items) /\ i \in DOMAIN items
    BY <1>3, <1>5
  <2>2. /\ old \in Seq(Text) /\ Len(old) = i - 1 /\ DOMAIN old = 1 .. i - 1
        /\ \A j \in 1 .. i - 1 : old[j] = items[j] /\ j \in DOMAIN items
    BY <1>3
  <2>3. Append(old, items[i]) = SubSeq(items, 1, i)
    BY <1>3
  <2> HIDE DEF old, max
  <2>4. ~ Contains(old, items[i])
    <3> SUFFICES ASSUME NEW j \in DOMAIN old, old[j] = items[i] PROVE FALSE
      BY DEF Contains
    <3>1. items[j] = items[i] /\ j \in DOMAIN items /\ j # i
      BY <2>2
    <3> QED
      BY <2>1, <3>1 DEF Distinct
  <2>5. ~ (Len(old) >= max)
    BY <1>3, <2>2 DEF max
  <2>6. Keyword(items[i]) = items[i] /\ items[i] # <<>>
    BY <2>1
  <2>7. AddKeyword(old, items[i]) = Append(old, items[i])
    BY <2>4, <2>5, <2>6 DEF AddKeyword, max
  <2> QED
    BY <1>2, <2>1, <2>3, <2>7
<1>6. Len(items) \in Holds
  <2>1. 0 .. Len(items) \subseteq Holds
    <3> HIDE DEF Holds
    <3> QED
      BY <1>3, <1>4, <1>5, UpTo
  <2> QED
    BY <1>3, <2>1
<1>7. out[Len(items)] = SubSeq(items, 1, Len(items))
  BY <1>6
<1> QED
  BY <1>2, <1>7

\* The usable items are items with a URL, and all of them if each has one.
LEMMA UsableFrom ==
  ASSUME NEW S, NEW items \in Seq(S)
  PROVE  /\ \A i \in DOMAIN Usable(items) : \E j \in DOMAIN items :
              Usable(items)[i] = items[j] /\ valid_http_url(items[j].url) # None
         /\ (\A j \in DOMAIN items : valid_http_url(items[j].url) # None) => Usable(items) = items
<1> DEFINE usable == {i \in DOMAIN items : valid_http_url(items[i].url) # None}
           Picked == {items[i] : i \in usable \cap DOMAIN items}
<1>1. Usable(items) = Pick(items, usable)
  BY DEF Usable
<1>2. /\ Usable(items) \in Seq(Picked)
      /\ DOMAIN items \subseteq usable => Usable(items) = items
  <2> HIDE DEF usable
  <2> QED
    BY <1>1, PickType
<1>3. \A item \in Picked : \E j \in DOMAIN items :
        item = items[j] /\ valid_http_url(items[j].url) # None
  OBVIOUS
<1> HIDE DEF Picked
<1>4. \A i \in DOMAIN Usable(items) : Usable(items)[i] \in Picked
  BY <1>2, ElementType
<1> QED
  BY <1>2, <1>3, <1>4

\* What normalise_url_title_list returns comes from usable items, and what
\* needs nothing stays.
LEMMA UrlTitlesFrom ==
  ASSUME PayloadAssumption, NEW value \in {None} \cup Seq(TitleUrl)
  PROVE  /\ \A a \in DOMAIN normalise_url_title_list(value) : \E item \in TitleUrl :
              /\ \E j \in DOMAIN Items(value) : item = Items(value)[j]
              /\ valid_http_url(item.url) # None
              /\ normalise_url_title_list(value)[a] = StoredUrlTitle(item)
         /\ /\ Len(Items(value)) <= Limits.url_title_list
            /\ \A j \in DOMAIN Items(value) : /\ valid_http_url(Items(value)[j].url) # None
                                              /\ StoredUrlTitle(Items(value)[j]) = Items(value)[j]
            => normalise_url_title_list(value) = Items(value)
<1> DEFINE items  == Items(value)
           some   == Usable(items)
           stored == Each(StoredUrlTitle, some)
           max    == Limits.url_title_list
<1>1. items \in Seq(TitleUrl)
  BY ItemsType
<1>2. max \in Nat \ {0}
  BY CapsType DEF Caps
<1>3. normalise_url_title_list(value) = Cap(stored, max)
  BY DEF normalise_url_title_list
<1> HIDE DEF items, max
<1>4. \A item \in TitleUrl : item.url \in Text
  BY DEF TitleUrl
<1>5. /\ some \in Seq(TitleUrl)
      /\ \A i \in DOMAIN some : \E j \in DOMAIN items :
           some[i] = items[j] /\ valid_http_url(items[j].url) # None
      /\ (\A j \in DOMAIN items : valid_http_url(items[j].url) # None) => some = items
  BY <1>1, <1>4, UsableType, UsableFrom
<1> HIDE DEF some
<1>6. stored = [i \in DOMAIN some |-> StoredUrlTitle(some[i])]
  BY DEF Each
<1> DEFINE S == {StoredUrlTitle(some[i]) : i \in DOMAIN some}
<1>7. stored \in Seq(S) /\ DOMAIN stored = DOMAIN some
  <2> HIDE DEF stored
  <2>1. \A i \in DOMAIN some : StoredUrlTitle(some[i]) \in S
    OBVIOUS
  <2> HIDE DEF S
  <2>2. DOMAIN some = 1 .. Len(some) /\ Len(some) \in Nat
    BY <1>5
  <2>3. \A i \in 1 .. Len(some) : StoredUrlTitle(some[i]) \in S
    BY <2>1, <2>2
  <2>4. [i \in 1 .. Len(some) |-> StoredUrlTitle(some[i])] \in Seq(S)
    BY <2>2, <2>3
  <2> QED
    BY <1>6, <2>2, <2>4
<1> HIDE DEF stored, S
<1>8. /\ DOMAIN Cap(stored, max) \subseteq DOMAIN stored
      /\ \A i \in DOMAIN Cap(stored, max) : Cap(stored, max)[i] = stored[i]
      /\ Len(stored) <= max => Cap(stored, max) = stored
  BY <1>2, <1>7, CapKeeps
<1>9. ASSUME NEW a \in DOMAIN Cap(stored, max)
      PROVE  \E item \in TitleUrl : /\ \E j \in DOMAIN items : item = items[j]
                                    /\ valid_http_url(item.url) # None
                                    /\ Cap(stored, max)[a] = StoredUrlTitle(item)
  <2>1. a \in DOMAIN some /\ Cap(stored, max)[a] = StoredUrlTitle(some[a])
    BY <1>6, <1>7, <1>8
  <2>2. some[a] \in TitleUrl
    BY <1>5, <2>1, ElementType
  <2>3. \E j \in DOMAIN items : some[a] = items[j] /\ valid_http_url(items[j].url) # None
    BY <1>5, <2>1
  <2> QED
    BY <2>1, <2>2, <2>3
<1>10. ASSUME Len(items) <= max,
              \A j \in DOMAIN items : /\ valid_http_url(items[j].url) # None
                                      /\ StoredUrlTitle(items[j]) = items[j]
       PROVE  Cap(stored, max) = items
  <2>1. some = items
    BY <1>5, <1>10
  <2>2. stored = items
    <3>1. items = [i \in DOMAIN items |-> items[i]]
      BY <1>1
    <3> QED
      BY <1>6, <1>10, <2>1, <3>1
  <2> QED
    BY <1>8, <1>10, <2>2
<1> QED
  BY <1>3, <1>9, <1>10 DEF items, max

\* So it is for normalise_article_links.
LEMMA LinksFrom ==
  ASSUME PayloadAssumption, NEW value \in {None} \cup Seq(Link)
  PROVE  /\ \A a \in DOMAIN normalise_article_links(value) : \E item \in Link :
              /\ \E j \in DOMAIN Items(value) : item = Items(value)[j]
              /\ valid_http_url(item.url) # None
              /\ normalise_article_links(value)[a] = StoredLink(item)
         /\ /\ Len(Items(value)) <= Limits.links
            /\ \A j \in DOMAIN Items(value) : /\ valid_http_url(Items(value)[j].url) # None
                                              /\ StoredLink(Items(value)[j]) = Items(value)[j]
            => normalise_article_links(value) = Items(value)
<1> DEFINE items  == Items(value)
           some   == Usable(items)
           stored == Each(StoredLink, some)
           max    == Limits.links
<1>1. items \in Seq(Link)
  BY ItemsType
<1>2. max \in Nat \ {0}
  BY CapsType DEF Caps
<1>3. normalise_article_links(value) = Cap(stored, max)
  BY DEF normalise_article_links
<1> HIDE DEF items, max
<1>4. \A item \in Link : item.url \in Text
  BY DEF Link
<1>5. /\ some \in Seq(Link)
      /\ \A i \in DOMAIN some : \E j \in DOMAIN items :
           some[i] = items[j] /\ valid_http_url(items[j].url) # None
      /\ (\A j \in DOMAIN items : valid_http_url(items[j].url) # None) => some = items
  BY <1>1, <1>4, UsableType, UsableFrom
<1> HIDE DEF some
<1>6. stored = [i \in DOMAIN some |-> StoredLink(some[i])]
  BY DEF Each
<1> DEFINE S == {StoredLink(some[i]) : i \in DOMAIN some}
<1>7. stored \in Seq(S) /\ DOMAIN stored = DOMAIN some
  <2> HIDE DEF stored
  <2>1. \A i \in DOMAIN some : StoredLink(some[i]) \in S
    OBVIOUS
  <2> HIDE DEF S
  <2>2. DOMAIN some = 1 .. Len(some) /\ Len(some) \in Nat
    BY <1>5
  <2>3. \A i \in 1 .. Len(some) : StoredLink(some[i]) \in S
    BY <2>1, <2>2
  <2>4. [i \in 1 .. Len(some) |-> StoredLink(some[i])] \in Seq(S)
    BY <2>2, <2>3
  <2> QED
    BY <1>6, <2>2, <2>4
<1> HIDE DEF stored, S
<1>8. /\ DOMAIN Cap(stored, max) \subseteq DOMAIN stored
      /\ \A i \in DOMAIN Cap(stored, max) : Cap(stored, max)[i] = stored[i]
      /\ Len(stored) <= max => Cap(stored, max) = stored
  BY <1>2, <1>7, CapKeeps
<1>9. ASSUME NEW a \in DOMAIN Cap(stored, max)
      PROVE  \E item \in Link : /\ \E j \in DOMAIN items : item = items[j]
                                    /\ valid_http_url(item.url) # None
                                    /\ Cap(stored, max)[a] = StoredLink(item)
  <2>1. a \in DOMAIN some /\ Cap(stored, max)[a] = StoredLink(some[a])
    BY <1>6, <1>7, <1>8
  <2>2. some[a] \in Link
    BY <1>5, <2>1, ElementType
  <2>3. \E j \in DOMAIN items : some[a] = items[j] /\ valid_http_url(items[j].url) # None
    BY <1>5, <2>1
  <2> QED
    BY <2>1, <2>2, <2>3
<1>10. ASSUME Len(items) <= max,
              \A j \in DOMAIN items : /\ valid_http_url(items[j].url) # None
                                      /\ StoredLink(items[j]) = items[j]
       PROVE  Cap(stored, max) = items
  <2>1. some = items
    BY <1>5, <1>10
  <2>2. stored = items
    <3>1. items = [i \in DOMAIN items |-> items[i]]
      BY <1>1
    <3> QED
      BY <1>6, <1>10, <2>1, <3>1
  <2> QED
    BY <1>8, <1>10, <2>2
<1> QED
  BY <1>3, <1>9, <1>10 DEF items, max

\* normalise_faq_list returns whole entries, and leaves a list alone that needs
\* nothing.
LEMMA FaqFrom ==
  ASSUME PayloadAssumption, NEW value \in {None} \cup Seq(Faq)
  PROVE  /\ \A a \in DOMAIN normalise_faq_list(value) : \E item \in Faq :
              /\ \E j \in DOMAIN Items(value) : item = Items(value)[j]
              /\ normalise_faq_list(value)[a] = StoredFaq(item)
         /\ /\ Len(Items(value)) <= Limits.faq_items
            /\ \A j \in DOMAIN Items(value) :
                 /\ StoredFaq(Items(value)[j]) = Items(value)[j]
                 /\ Items(value)[j].question # <<>> /\ Items(value)[j].answer # <<>>
            => normalise_faq_list(value) = Items(value)
<1> DEFINE items  == Items(value)
           stored == Each(StoredFaq, items)
           whole  == {i \in DOMAIN stored : stored[i].question # <<>> /\ stored[i].answer # <<>>}
           max    == Limits.faq_items
           S      == {StoredFaq(items[i]) : i \in DOMAIN items}
<1>1. items \in Seq(Faq)
  BY ItemsType
<1>2. max \in Nat \ {0}
  BY CapsType DEF Caps
<1>3. normalise_faq_list(value) = Cap(Pick(stored, whole), max)
  BY DEF normalise_faq_list
<1> HIDE DEF items, max
<1>4. stored = [i \in DOMAIN items |-> StoredFaq(items[i])]
  BY DEF Each
<1>5. DOMAIN items = 1 .. Len(items) /\ Len(items) \in Nat
  BY <1>1
<1>6. stored \in Seq(S)
  <2>1. \A i \in DOMAIN items : StoredFaq(items[i]) \in S
    OBVIOUS
  <2> HIDE DEF stored, S
  <2>2. [i \in 1 .. Len(items) |-> StoredFaq(items[i])] \in Seq(S)
    BY <1>5, <2>1
  <2> QED
    BY <1>4, <1>5, <2>2
<1> HIDE DEF stored, whole, S
<1>7. /\ Pick(stored, whole) \in Seq(S)
      /\ DOMAIN stored \subseteq whole => Pick(stored, whole) = stored
  BY <1>6, PickType
<1> DEFINE picked == Pick(stored, whole)
<1> HIDE DEF picked
<1>8. /\ DOMAIN Cap(picked, max) \subseteq DOMAIN picked
      /\ \A i \in DOMAIN Cap(picked, max) : Cap(picked, max)[i] = picked[i]
      /\ Len(picked) <= max => Cap(picked, max) = picked
  BY <1>2, <1>7, CapKeeps DEF picked
<1>9. ASSUME NEW a \in DOMAIN Cap(picked, max)
      PROVE  \E item \in Faq : /\ \E j \in DOMAIN items : item = items[j]
                               /\ Cap(picked, max)[a] = StoredFaq(item)
  <2>1. Cap(picked, max)[a] \in S
    BY <1>7, <1>8, ElementType DEF picked
  <2>2. PICK j \in DOMAIN items : Cap(picked, max)[a] = StoredFaq(items[j])
    BY <2>1 DEF S
  <2>3. items[j] \in Faq
    BY <1>1, ElementType
  <2> QED
    BY <2>2, <2>3
<1>10. ASSUME Len(items) <= max,
              \A j \in DOMAIN items : /\ StoredFaq(items[j]) = items[j]
                                      /\ items[j].question # <<>> /\ items[j].answer # <<>>
       PROVE  Cap(picked, max) = items
  <2>1. stored = items
    <3>1. items = [i \in DOMAIN items |-> items[i]]
      BY <1>1
    <3> QED
      BY <1>4, <1>10, <3>1
  <2>2. DOMAIN stored \subseteq whole
    BY <1>10, <2>1 DEF whole
  <2>3. picked = items
    BY <1>7, <2>1, <2>2 DEF picked
  <2> QED
    BY <1>8, <1>10, <2>3
<1> QED
  BY <1>3, <1>9, <1>10 DEF items, max, picked

\* A text that is stripped and cut to its limit, and stripped again
LEMMA TextSettles ==
  ASSUME NEW text \in Text, NEW n \in Nat \ {0}
  PROVE  /\ TextAfter(0, Cap(Strip(text), n))
         /\ Len(text) <= n => /\ Cap(Strip(text), n) = Strip(text)
                              /\ TextAfter(2, Cap(Strip(text), n))
                              /\ Trim(text) => Cap(Strip(text), n) = text
<1> DEFINE bare == Strip(text)
<1>1. /\ bare \in Text /\ Trim(bare) /\ Len(bare) <= Len(text)
      /\ Trim(text) => bare = text
  BY StripKeeps, StripType
<1>2. Len(bare) \in Nat /\ Len(text) \in Nat
  BY <1>1 DEF Text
<1> HIDE DEF bare
<1>3. /\ TextAfter(0, Cap(bare, n))
      /\ Len(bare) <= n => Cap(bare, n) = bare
  BY <1>1, CapAfter
<1>4. TextAfter(2, bare)
  BY <1>1 DEF TextAfter, Trim
<1> QED
  BY <1>1, <1>2, <1>3, <1>4 DEF bare

\* The same for the whole title and URL
LEMMA UrlTitleSettles ==
  ASSUME PayloadAssumption, NEW item \in TitleUrl, valid_http_url(item.url) # None
  PROVE  LET stored == StoredUrlTitle(item)
         IN  /\ TextAfter(0, stored.title) /\ UrlAfter(0, stored.url)
             /\ UrlAfter(0, item.url) /\ Within(item.title, Limits.url_title_title) =>
                  /\ TextAfter(2, stored.title)
                  /\ \A s \in 0 .. 3 : UrlAfter(s, item.url) => UrlAfter(s + 1, stored.url)
                  /\ UrlAfter(4, item.url) /\ Trim(item.title) => stored = item
<1> DEFINE stored == StoredUrlTitle(item)
           max    == Limits.url_title_title
<1>1. max \in Nat \ {0} /\ None \notin Text
  BY CapsType, NoneType DEF Caps
<1>2. item.title \in Text /\ item.url \in Text /\ item = [title |-> item.title, url |-> item.url]
  BY DEF TitleUrl
<1>3. /\ stored.title = Cap(Strip(item.title), max) /\ stored.url = valid_http_url(item.url)
      /\ stored = [url |-> valid_http_url(item.url), title |-> Cap(Strip(item.title), max)]
  BY DEF StoredUrlTitle
<1> HIDE DEF stored, max
<1>4. /\ TextAfter(0, stored.title)
      /\ Len(item.title) <= max => /\ TextAfter(2, stored.title)
                                   /\ Trim(item.title) => stored.title = item.title
  BY <1>1, <1>2, <1>3, TextSettles
<1>5. UrlAfter(0, stored.url)
  BY <1>2, <1>3, UrlFrom
<1>6. UrlAfter(0, item.url) =>
        /\ \A s \in 0 .. 3 : UrlAfter(s, item.url) => UrlAfter(s + 1, stored.url)
        /\ UrlAfter(4, item.url) => stored.url = item.url
  BY <1>1, <1>2, <1>3, UrlSettles
<1>7. stored.title = item.title /\ stored.url = item.url => stored = item
  BY <1>2, <1>3
<1> QED
  BY <1>4, <1>5, <1>6, <1>7 DEF stored, max, Within

\* A link: the schema has refused what its caps would cut.
LEMMA LinkSettles ==
  ASSUME PayloadAssumption, NEW item \in Link, valid_http_url(item.url) # None,
         item.cta # None => Len(item.cta) <= Limits.link_cta,
         Len(item.url) <= Limits.link_url
  PROVE  LET stored == StoredLink(item)
         IN  /\ stored.cta \notin {None, <<>>} /\ Trim(stored.cta) /\ UrlAfter(0, stored.url)
             /\ UrlAfter(0, item.url) =>
                  /\ \A s \in 0 .. 3 : UrlAfter(s, item.url) => UrlAfter(s + 1, stored.url)
                  /\ UrlAfter(4, item.url) /\ item.cta \notin {None, <<>>} /\ Trim(item.cta)
                       => stored = item
<1> DEFINE stored == StoredLink(item)
           full   == valid_http_url(item.url)
           max    == Limits.link_cta
<1>1. max \in Nat \ {0} /\ Limits.link_url \in Nat \ {0} /\ None \notin Text
  BY CapsType, NoneType DEF Caps
<1>2. item.cta \in {None} \cup Text /\ item.url \in Text /\ item = [cta |-> item.cta, url |-> item.url]
  BY DEF Link
<1>3. stored = [cta |-> StoredCta(item.cta), url |-> Cap(full, Limits.link_url)]
  BY DEF StoredLink
<1>4. View \in Text /\ View # <<>> /\ Trim(View)
  <2>1. View \in Seq(Char) /\ View # <<>> /\ Head(View) # Blank /\ Last(View) # Blank
    BY DEF PayloadAssumption, Text
  <2>2. View[1] # Blank /\ View[Len(View)] # Blank
    BY <2>1 DEF Last
  <2> QED
    BY <2>1, <2>2 DEF Trim, Text
<1> HIDE DEF max, full, stored
<1>5. stored.url = full
  <2>1. UrlAfter(0, full) /\ Len(full) <= Len(item.url)
    BY <1>2, UrlFrom DEF full
  <2>2. full \in Text /\ Len(full) \in Nat /\ Len(item.url) \in Nat
    BY <1>2, <2>1 DEF UrlAfter, Text
  <2>3. Len(full) <= Limits.link_url
    BY <1>1, <2>1, <2>2
  <2> QED
    BY <1>1, <1>3, <2>2, <2>3, CapAfter
<1>6. /\ stored.cta \in Text /\ stored.cta # <<>> /\ Trim(stored.cta)
      /\ item.cta \notin {None, <<>>} /\ Trim(item.cta) => stored.cta = item.cta
  <2>1. stored.cta = StoredCta(item.cta)
    BY <1>3
  <2>2. CASE item.cta = None
    <3>1. stored.cta = View
      BY <2>1, <2>2 DEF StoredCta
    <3> QED
      BY <1>4, <2>2, <3>1
  <2>3. CASE item.cta # None
    <3> DEFINE bare == Strip(item.cta)
    <3>1. /\ bare \in Text /\ Trim(bare)
          /\ Trim(item.cta) => bare = item.cta
      BY <1>2, <2>3, StripKeeps
    <3>2. Cap(bare, max) = bare
      BY <1>1, <1>2, <2>3, TextSettles DEF max
    <3>3. stored.cta = IF bare = <<>> THEN View ELSE bare
      BY <2>1, <2>3, <3>2 DEF StoredCta, max
    <3> HIDE DEF bare
    <3> QED
      BY <1>4, <3>1, <3>3
  <2> QED
    BY <2>2, <2>3
<1>7. UrlAfter(0, full)
  BY <1>2, UrlFrom DEF full
<1>8. UrlAfter(0, item.url) =>
        /\ \A s \in 0 .. 3 : UrlAfter(s, item.url) => UrlAfter(s + 1, full)
        /\ UrlAfter(4, item.url) => full = item.url
  BY <1>1, <1>2, UrlSettles DEF full
<1>9. stored.cta = item.cta /\ stored.url = item.url => stored = item
  BY <1>2, <1>3
<1>10. stored.cta \notin {None, <<>>}
  BY <1>1, <1>6
<1> QED
  BY <1>5, <1>6, <1>7, <1>8, <1>9, <1>10 DEF stored

\* An entry of the FAQ: likewise
LEMMA FaqSettles ==
  ASSUME PayloadAssumption, NEW item \in Faq,
         Len(item.question) \in 1 .. Limits.faq_question,
         Len(item.answer) \in 1 .. Limits.faq_answer
  PROVE  LET stored == StoredFaq(item)
         IN  /\ Trim(stored.question) /\ Tight(stored.question) /\ Trim(stored.answer)
             /\ Trim(item.question) /\ Tight(item.question) /\ Trim(item.answer) => stored = item
<1> DEFINE stored == StoredFaq(item)
           plain  == Collapse(item.question)
<1>1. Limits.faq_question \in Nat \ {0} /\ Limits.faq_answer \in Nat \ {0} /\ None \notin Text
  BY CapsType, NoneType DEF Caps
<1>2. item.question \in Text /\ item.answer \in Text
      /\ item = [question |-> item.question, answer |-> item.answer]
  BY DEF Faq
<1>3. stored = [question |-> Cap(plain, Limits.faq_question),
                answer   |-> Cap(Strip(item.answer), Limits.faq_answer)]
  BY DEF StoredFaq
<1>4. /\ plain \in Text /\ Trim(plain) /\ Tight(plain) /\ Len(plain) <= Len(item.question)
      /\ Tight(item.question) => plain = Strip(item.question)
  BY <1>1, <1>2, CollapseKeeps
<1>5. Trim(item.question) => Strip(item.question) = item.question
  BY <1>2, StripKeeps
<1> HIDE DEF stored, plain
<1>6. Len(plain) <= Limits.faq_question
  <2>1. Len(plain) \in Nat /\ Len(item.question) \in Nat
    BY <1>2, <1>4 DEF Text
  <2> QED
    BY <1>1, <1>4, <2>1
<1>7. stored.question = plain
  BY <1>1, <1>3, <1>4, <1>6, CapAfter
<1>8. /\ stored.answer = Strip(item.answer) /\ Trim(stored.answer)
      /\ Trim(item.answer) => stored.answer = item.answer
  <2>1. Cap(Strip(item.answer), Limits.faq_answer) = Strip(item.answer)
    BY <1>1, <1>2, TextSettles
  <2>2. Trim(Strip(item.answer)) /\ (Trim(item.answer) => Strip(item.answer) = item.answer)
    BY <1>2, StripKeeps
  <2> QED
    BY <1>3, <2>1, <2>2
<1>9. stored.question = item.question /\ stored.answer = item.answer => stored = item
  BY <1>2, <1>3
<1> QED
  BY <1>4, <1>5, <1>7, <1>8, <1>9 DEF stored

\* What saving the stored value again does
Settles(field, value) ==
  /\ \A s \in 0 .. 3 : After(s, field, value) => After(s + 1, field, Built(field, value))
  /\ After(4, field, value) => Built(field, value) = value

\* Title and description
LEMMA PlainSettles ==
  ASSUME PayloadAssumption, NEW field \in PlainFields, NEW value \in {None} \cup Text
  PROVE  /\ After(0, field, Built(field, value))
         /\ Storable(field, value) => Settles(field, value)
<1>1. Built(field, value) = IF value = None THEN <<>> ELSE Strip(value)
  BY DEF Built, PlainFields, MetaFields, UrlTitleFields
<1>2. \A s, v : After(s, field, v) = Trim(v)
  BY DEF After, PlainFields, MetaFields, UrlTitleFields
<1>3. Trim(Built(field, value))
  <2>1. CASE value = None
    <3>1. Built(field, value) = <<>>
      BY <1>1, <2>1
    <3> QED
      BY <3>1 DEF Trim
  <2>2. CASE value # None
    BY <1>1, <2>2, StripKeeps
  <2> QED
    BY <2>1, <2>2
<1>4. ASSUME Storable(field, value), Trim(value)
      PROVE  Built(field, value) = value
  <2>1. value \in Text /\ value # None
    BY <1>4, NoneType DEF Storable, PlainFields, MetaFields, UrlTitleFields
  <2> QED
    BY <1>1, <1>4, <2>1, StripKeeps
<1> QED
  BY <1>2, <1>3, <1>4 DEF Settles

\* Meta title and description
LEMMA MetaSettles ==
  ASSUME PayloadAssumption, NEW field \in MetaFields, NEW value \in {None} \cup Text
  PROVE  /\ After(0, field, Built(field, value))
         /\ Storable(field, value) => Settles(field, value)
<1> DEFINE plain == Collapse(value)
           max   == Limits[field]
           built == Built(field, value)
<1>1. built = IF plain = <<>> THEN None ELSE Cap(plain, max)
  BY DEF Built, normalise_meta, PlainFields, MetaFields, UrlTitleFields
<1>2. \A s, v : After(s, field, v) = (v # None => TextAfter(s, v) /\ Tight(v))
  BY DEF After, PlainFields, MetaFields, UrlTitleFields
<1>3. max \in Nat \ {0} /\ None \notin Text
  BY CapsType, NoneType DEF Caps
<1>4. /\ plain \in Text /\ Trim(plain) /\ Tight(plain)
      /\ value # None => Len(plain) <= Len(value)
      /\ value # None /\ Tight(value) => plain = Strip(value)
  BY CollapseKeeps
<1>5. value = None => plain = <<>>
  BY DEF Collapse
<1> HIDE DEF plain, max, built
<1>6. built # None => TextAfter(0, built) /\ Tight(built)
  BY <1>1, <1>3, <1>4, CapAfter
<1>7. ASSUME Storable(field, value), value # None, TextAfter(0, value), Tight(value)
      PROVE  /\ built # None => TextAfter(2, built) /\ Tight(built)
             /\ Trim(value) => built = value
  <2>1. value \in Text /\ Len(value) \in 1 .. max
    BY <1>7 DEF Storable, max, PlainFields, MetaFields, UrlTitleFields
  <2>2. Len(plain) <= max
    <3>1. Len(plain) \in Nat
      BY <1>4 DEF Text
    <3> QED
      BY <1>3, <1>4, <1>7, <2>1, <3>1
  <2>3. built # None => built = plain
    BY <1>1, <1>3, <1>4, <2>2, CapAfter
  <2>4. Trim(value) => plain = value
    BY <1>4, <1>7, <2>1, StripKeeps
  <2>5. value # <<>>
    <3> SUFFICES ASSUME value = <<>> PROVE FALSE
      OBVIOUS
    <3>1. Len(value) = 0
      OBVIOUS
    <3> QED
      BY <2>1, <3>1
  <2>6. Trim(value) => built = value
    BY <1>1, <1>3, <1>4, <2>2, <2>4, <2>5, CapAfter
  <2> QED
    BY <1>4, <2>3, <2>6 DEF TextAfter, Trim
<1>8. /\ \A v : \A s \in 0 .. 4 : TextAfter(s, v) => TextAfter(0, v)
      /\ \A v : \A s \in 0 .. 3 : TextAfter(2, v) => TextAfter(s + 1, v)
      /\ \A v : TextAfter(4, v) => TextAfter(0, v) /\ Trim(v)
  BY DEF TextAfter
<1>9. value = None => built = None
  BY <1>1, <1>5
<1>10. After(0, field, built)
  BY <1>2, <1>6
<1>11. ASSUME Storable(field, value)
       PROVE  Settles(field, value)
  <2>1. CASE value = None
    BY <1>2, <1>9, <2>1 DEF Settles, built
  <2>2. CASE value # None
    <3>1. ASSUME NEW s \in 0 .. 3, After(s, field, value)
          PROVE  After(s + 1, field, built)
      <4>0. TextAfter(s, value) /\ Tight(value)
        BY <2>2, <3>1 DEF After, PlainFields, MetaFields, UrlTitleFields
      <4>1. TextAfter(0, value) /\ Tight(value)
        BY <4>0 DEF TextAfter
      <4>2. built # None => TextAfter(2, built) /\ Tight(built)
        BY <1>7, <1>11, <2>2, <4>1
      <4> QED
        BY <1>2, <1>8, <4>2
    <3>2. ASSUME After(4, field, value)
          PROVE  built = value
      BY <1>2, <1>7, <1>8, <1>11, <2>2, <3>2
    <3> QED
      BY <3>1, <3>2 DEF Settles, built
  <2> QED
    BY <2>1, <2>2
<1> QED
  BY <1>10, <1>11 DEF built

\* What is known of a URL after some saves was known before them.
LEMMA UrlAfterAnyFirst ==
  ASSUME NEW url, NEW s \in 0 .. 4, UrlAfter(s, url)
  PROVE  UrlAfter(0, url)
<1>1. Rank(url) <= 3 - 0
  BY RankType
<1> QED
  BY <1>1 DEF UrlAfter

\* The cover
LEMMA CoverSettles ==
  ASSUME PayloadAssumption, NEW value \in {None} \cup Text
  PROVE  /\ After(0, "cover_image_url", Built("cover_image_url", value))
         /\ Storable("cover_image_url", value) => Settles("cover_image_url", value)
<1> DEFINE full  == valid_http_url(value)
           max   == Limits.cover_image_url
           built == Built("cover_image_url", value)
<1>1. built = IF full = None THEN None ELSE Cap(full, max)
  BY DEF Built, normalise_cover_image_url, PlainFields, MetaFields, UrlTitleFields
<1>2. \A s, v : After(s, "cover_image_url", v) = (v # None => UrlAfter(s, v))
  BY DEF After, PlainFields, MetaFields, UrlTitleFields
<1>3. max \in Nat \ {0} /\ max > 1 /\ None \notin Text
  BY CapsType, NoneType DEF Caps
<1>4. value = None => full = None
  <2>1. Len(<<>>) < 2
    OBVIOUS
  <2> QED
    BY <2>1 DEF valid_http_url
<1>5. full # None => UrlAfter(0, full) /\ Len(full) <= Len(value)
  BY UrlFrom
<1> HIDE DEF full, max, built
<1>6. ASSUME full # None
      PROVE  UrlAfter(0, Cap(full, max)) /\ (Len(full) <= max => Cap(full, max) = full)
  <2>1. full \in Text /\ full \in Seq(Char) /\ Len(full) > 1 /\ Len(full) \in Nat
        /\ full[1] = "h" /\ full[2] \notin {"/", "?", "#"} /\ Cut(full)
    BY <1>5, <1>6 DEF UrlAfter, Hosted, Text
  <2> DEFINE cut == Cap(full, max)
  <2>2. cut \in Text
    BY <1>3, <2>1, CapAfter
  <2>3. /\ \A i \in DOMAIN cut : cut[i] = full[i]
        /\ Len(full) <= max => cut = full
        /\ Len(cut) = IF max <= Len(full) THEN max ELSE Len(full)
    BY <1>3, <2>1, CapKeeps
  <2> HIDE DEF cut
  <2>4. Len(cut) > 1 /\ Len(cut) \in Nat /\ DOMAIN cut = 1 .. Len(cut)
    BY <1>3, <2>1, <2>2, <2>3 DEF Text
  <2>5. Hosted(cut)
    BY <2>1, <2>3, <2>4 DEF Hosted
  <2>6. UrlAfter(0, cut)
    <3>1. \A i \in DOMAIN cut : i \in DOMAIN full /\ cut[i] = full[i]
      BY <2>1, <2>3, <2>4, <1>3
    <3>2. Cut(cut)
      BY <2>1, <2>2, <3>1, CutPrefix
    <3>3. Rank(cut) <= 3 - 0
      BY RankType
    <3> QED
      BY <2>2, <2>5, <3>2, <3>3 DEF UrlAfter
  <2> QED
    BY <2>3, <2>6 DEF cut
<1>7. After(0, "cover_image_url", built)
  BY <1>1, <1>2, <1>6
<1>8. ASSUME Storable("cover_image_url", value), value # None, UrlAfter(0, value)
      PROVE  /\ built = full
             /\ full # None => \A s \in 0 .. 3 : UrlAfter(s, value) => UrlAfter(s + 1, full)
             /\ UrlAfter(4, value) => full = value
  <2>1. value \in Text /\ Len(value) <= max
    BY <1>8 DEF Storable, Within, max, PlainFields, MetaFields, UrlTitleFields
  <2>2. full # None => Len(full) <= max
    <3> SUFFICES ASSUME full # None PROVE Len(full) <= max
      OBVIOUS
    <3>1. Len(full) <= Len(value) /\ full \in Text
      BY <1>5 DEF UrlAfter
    <3>2. Len(full) \in Nat /\ Len(value) \in Nat
      BY <2>1, <3>1 DEF Text
    <3> QED
      BY <1>3, <2>1, <3>1, <3>2
  <2>3. built = full
    BY <1>1, <1>6, <2>2
  <2>4. /\ full # None => \A s \in 0 .. 3 : UrlAfter(s, value) => UrlAfter(s + 1, full)
        /\ UrlAfter(4, value) => full = value
    BY <1>3, <1>8, <2>1, UrlSettles DEF full
  <2> QED
    BY <2>3, <2>4
<1>9. ASSUME Storable("cover_image_url", value)
      PROVE  Settles("cover_image_url", value)
  <2>1. CASE value = None
    <3>1. built = None
      BY <1>1, <1>4, <2>1
    <3> QED
      BY <1>2, <2>1, <3>1 DEF Settles, built
  <2>2. CASE value # None
    <3>1. \A s \in 0 .. 4 : UrlAfter(s, value) => UrlAfter(0, value)
      BY UrlAfterAnyFirst
    <3>2. ASSUME NEW s \in 0 .. 3, After(s, "cover_image_url", value)
          PROVE  After(s + 1, "cover_image_url", built)
      <4>0. UrlAfter(s, value)
        BY <2>2, <3>2 DEF After, PlainFields, MetaFields, UrlTitleFields
      <4>1. UrlAfter(0, value)
        BY <4>0, UrlAfterAnyFirst
      <4> QED
        BY <1>2, <1>8, <1>9, <2>2, <4>0, <4>1
    <3>3. ASSUME After(4, "cover_image_url", value)
          PROVE  built = value
      <4>0. UrlAfter(4, value)
        BY <2>2, <3>3 DEF After, PlainFields, MetaFields, UrlTitleFields
      <4>1. UrlAfter(0, value)
        BY <4>0, UrlAfterAnyFirst
      <4> QED
        BY <1>8, <1>9, <2>2, <4>0, <4>1
    <3> QED
      BY <3>2, <3>3 DEF Settles, built
  <2> QED
    BY <2>1, <2>2
<1> QED
  BY <1>7, <1>9 DEF built

\* The keywords
LEMMA KeywordsSettle ==
  ASSUME PayloadAssumption, NEW value \in {None} \cup Seq(Text)
  PROVE  /\ After(0, "search_keyword", Built("search_keyword", value))
         /\ Storable("search_keyword", value) => Settles("search_keyword", value)
<1> DEFINE items == Items(value)
           built == Built("search_keyword", value)
           max   == Limits.search_keyword_item
<1>1. built = Keywords(items)
  BY DEF Built, normalise_search_keyword, PlainFields, MetaFields, UrlTitleFields
<1>2. \A s, v : After(s, "search_keyword", v) =
                  (Distinct(v) /\ \A i \in DOMAIN v : KeywordAfter(s, v[i]))
  BY DEF After, PlainFields, MetaFields, UrlTitleFields
<1>3. items \in Seq(Text)
  BY ItemsType
<1>4. Storable("search_keyword", value) =>
        /\ items = value
        /\ Len(items) <= Limits.search_keyword_items
        /\ \A i \in DOMAIN items : Len(items[i]) <= max
  <2> SUFFICES ASSUME Storable("search_keyword", value)
               PROVE  /\ items = value
                      /\ Len(items) <= Limits.search_keyword_items
                      /\ \A i \in DOMAIN items : Len(items[i]) <= max
    OBVIOUS
  <2>1. /\ value \in Seq(Text) /\ Len(value) <= Limits.search_keyword_items
        /\ \A k \in ToSet(value) : Len(k) \in 1 .. max
    BY DEF Storable, Within, max, PlainFields, MetaFields, UrlTitleFields
  <2>2. items = value
    BY <2>1, NoneType DEF Items
  <2> HIDE DEF items
  <2>3. \A i \in DOMAIN items : items[i] \in ToSet(value)
    BY <2>2 DEF ToSet
  <2>4. max \in Nat
    BY CapsType DEF Caps, max
  <2> QED
    BY <2>1, <2>2, <2>3, <2>4
<1> HIDE DEF items, max, built
<1>5. Distinct(built) /\ \A a \in DOMAIN built : \E i \in DOMAIN items :
        built[a] = Keyword(items[i]) /\ Keyword(items[i]) # <<>>
  BY <1>1, <1>3, KeywordsFrom
<1>6. \A i \in DOMAIN items : items[i] \in Text
  BY <1>3, ElementType
<1>7. ASSUME NEW i \in DOMAIN items
      PROVE  /\ Keyword(items[i]) # <<>> => KeywordAfter(0, Keyword(items[i]))
             /\ KeywordAfter(0, items[i]) /\ Len(items[i]) <= max =>
                  /\ Keyword(items[i]) # <<>> /\ KeywordAfter(2, Keyword(items[i]))
                  /\ Trim(items[i]) => Keyword(items[i]) = items[i]
  BY <1>6, KeywordSettles DEF max
<1>8. After(0, "search_keyword", built)
  <2>1. ASSUME NEW a \in DOMAIN built PROVE KeywordAfter(0, built[a])
    <3>1. PICK i \in DOMAIN items : built[a] = Keyword(items[i]) /\ Keyword(items[i]) # <<>>
      BY <1>5
    <3> QED
      BY <1>7, <3>1
  <2> QED
    BY <1>2, <1>5, <2>1
<1>9. /\ \A k : \A s \in 0 .. 3 : KeywordAfter(2, k) => KeywordAfter(s + 1, k)
      /\ \A k : \A s \in 0 .. 4 : KeywordAfter(s, k) => KeywordAfter(0, k)
      /\ \A k : KeywordAfter(4, k) => Trim(k) /\ k # <<>>
  BY DEF KeywordAfter, TextAfter
<1>10. ASSUME Storable("search_keyword", value), NEW s \in 0 .. 3,
              After(s, "search_keyword", value)
       PROVE  After(s + 1, "search_keyword", built)
  <2>1. ASSUME NEW a \in DOMAIN built PROVE KeywordAfter(s + 1, built[a])
    <3>1. PICK i \in DOMAIN items : built[a] = Keyword(items[i]) /\ Keyword(items[i]) # <<>>
      BY <1>5
    <3>2. KeywordAfter(0, items[i]) /\ Len(items[i]) <= max
      <4>1. KeywordAfter(s, value[i])
        BY <1>4, <1>10 DEF After, PlainFields, MetaFields, UrlTitleFields
      <4>2. items = value /\ Len(items[i]) <= max
        BY <1>4, <1>10
      <4> QED
        BY <4>1, <4>2 DEF KeywordAfter, TextAfter
    <3>3. KeywordAfter(2, built[a])
      BY <1>7, <3>1, <3>2
    <3> QED
      BY <1>9, <3>3
  <2> QED
    BY <1>2, <1>5, <2>1
<1>11. ASSUME Storable("search_keyword", value), After(4, "search_keyword", value)
       PROVE  built = value
  <2>1. Distinct(items) /\ \A i \in DOMAIN items : KeywordAfter(4, items[i])
    BY <1>2, <1>4, <1>11
  <2>2. \A i \in DOMAIN items : Keyword(items[i]) = items[i] /\ items[i] # <<>>
    <3> SUFFICES ASSUME NEW i \in DOMAIN items
                 PROVE  Keyword(items[i]) = items[i] /\ items[i] # <<>>
      OBVIOUS
    <3>1. KeywordAfter(0, items[i]) /\ Trim(items[i]) /\ items[i] # <<>>
      BY <1>9, <2>1
    <3> QED
      BY <1>4, <1>7, <1>11, <3>1
  <2>3. Keywords(items) = items
    BY <1>3, <1>4, <1>11, <2>1, <2>2, KeywordsStay
  <2> QED
    BY <1>1, <1>4, <1>11, <2>3
<1> QED
  BY <1>8, <1>10, <1>11 DEF Settles, built

\* The posts and videos
LEMMA UrlTitlesSettle ==
  ASSUME PayloadAssumption, NEW field \in UrlTitleFields, NEW value \in {None} \cup Seq(TitleUrl)
  PROVE  /\ After(0, field, Built(field, value))
         /\ Storable(field, value) => Settles(field, value)
<1> DEFINE items == Items(value)
           built == Built(field, value)
           max   == Limits.url_title_title
<1>1. built = normalise_url_title_list(value)
  BY DEF Built, PlainFields, MetaFields, UrlTitleFields
<1>2. \A s, v : After(s, field, v) =
                  (\A i \in DOMAIN v : TextAfter(s, v[i].title) /\ UrlAfter(s, v[i].url))
  BY DEF After, PlainFields, MetaFields, UrlTitleFields
<1>3. items \in Seq(TitleUrl)
  BY ItemsType
<1>4. Storable(field, value) =>
        /\ items = value
        /\ Len(items) <= Limits.url_title_list
        /\ \A i \in DOMAIN items : Within(items[i].title, max)
  <2> SUFFICES ASSUME Storable(field, value)
               PROVE  /\ items = value
                      /\ Len(items) <= Limits.url_title_list
                      /\ \A i \in DOMAIN items : Within(items[i].title, max)
    OBVIOUS
  <2>1. /\ value \in Seq(TitleUrl) /\ Len(value) <= Limits.url_title_list
        /\ \A item \in ToSet(value) : Within(item.title, max)
    BY DEF Storable, Within, max, PlainFields, MetaFields, UrlTitleFields
  <2>2. items = value
    BY <2>1, NoneType DEF Items
  <2> HIDE DEF items
  <2> QED
    BY <2>1, <2>2 DEF ToSet
<1> HIDE DEF items, max, built
<1>5. /\ \A a \in DOMAIN built : \E item \in TitleUrl :
           /\ \E j \in DOMAIN items : item = items[j]
           /\ valid_http_url(item.url) # None
           /\ built[a] = StoredUrlTitle(item)
      /\ /\ Len(items) <= Limits.url_title_list
         /\ \A j \in DOMAIN items : /\ valid_http_url(items[j].url) # None
                                    /\ StoredUrlTitle(items[j]) = items[j]
         => built = items
  BY <1>1, UrlTitlesFrom DEF items
<1>6. ASSUME NEW item \in TitleUrl, valid_http_url(item.url) # None
      PROVE  /\ TextAfter(0, StoredUrlTitle(item).title) /\ UrlAfter(0, StoredUrlTitle(item).url)
             /\ UrlAfter(0, item.url) /\ Within(item.title, max) =>
                  /\ TextAfter(2, StoredUrlTitle(item).title)
                  /\ \A s \in 0 .. 3 :
                       UrlAfter(s, item.url) => UrlAfter(s + 1, StoredUrlTitle(item).url)
                  /\ UrlAfter(4, item.url) /\ Trim(item.title) => StoredUrlTitle(item) = item
  BY <1>6, UrlTitleSettles DEF max
<1>7. /\ \A t : \A s \in 0 .. 3 : TextAfter(2, t) => TextAfter(s + 1, t)
      /\ \A t : TextAfter(4, t) => Trim(t)
  BY DEF TextAfter
<1>8. After(0, field, built)
  <2> SUFFICES ASSUME NEW a \in DOMAIN built
               PROVE  TextAfter(0, built[a].title) /\ UrlAfter(0, built[a].url)
    BY <1>2
  <2>1. PICK item \in TitleUrl : valid_http_url(item.url) # None /\ built[a] = StoredUrlTitle(item)
    BY <1>5
  <2> QED
    BY <1>6, <2>1
<1>9. ASSUME Storable(field, value), NEW s \in 0 .. 3, After(s, field, value)
      PROVE  After(s + 1, field, built)
  <2> SUFFICES ASSUME NEW a \in DOMAIN built
               PROVE  TextAfter(s + 1, built[a].title) /\ UrlAfter(s + 1, built[a].url)
    BY <1>2
  <2>1. PICK item \in TitleUrl : /\ \E j \in DOMAIN items : item = items[j]
                                 /\ valid_http_url(item.url) # None
                                 /\ built[a] = StoredUrlTitle(item)
    BY <1>5
  <2>2. UrlAfter(s, item.url) /\ Within(item.title, max)
    BY <1>2, <1>4, <1>9, <2>1
  <2>3. UrlAfter(0, item.url)
    BY <2>2, UrlAfterAnyFirst
  <2>4. TextAfter(2, built[a].title) /\ UrlAfter(s + 1, built[a].url)
    BY <1>6, <2>1, <2>2, <2>3
  <2> QED
    BY <1>7, <2>4
<1>10. ASSUME Storable(field, value), After(4, field, value)
       PROVE  built = value
  <2>1. ASSUME NEW j \in DOMAIN items
        PROVE  valid_http_url(items[j].url) # None /\ StoredUrlTitle(items[j]) = items[j]
    <3>1. items[j] \in TitleUrl /\ None \notin Text
      BY <1>3, ElementType, NoneType
    <3>2. UrlAfter(4, items[j].url) /\ TextAfter(4, items[j].title) /\ Within(items[j].title, max)
      BY <1>2, <1>4, <1>10
    <3>3. UrlAfter(0, items[j].url) /\ Trim(items[j].title)
      BY <1>7, <3>2, UrlAfterAnyFirst
    <3>4. valid_http_url(items[j].url) # None
      <4>1. items[j].url \in Text
        BY <3>1 DEF TitleUrl
      <4>2. valid_http_url(items[j].url) = items[j].url
        BY <3>1, <3>2, <3>3, <4>1, UrlSettles
      <4> QED
        BY <3>1, <4>1, <4>2
    <3> QED
      BY <1>6, <3>1, <3>2, <3>3, <3>4
  <2> QED
    BY <1>4, <1>5, <1>10, <2>1
<1> QED
  BY <1>8, <1>9, <1>10 DEF Settles, built

\* The links
LEMMA LinksSettle ==
  ASSUME PayloadAssumption, NEW value \in {None} \cup Seq(Link), Accepts("links", value)
  PROVE  /\ After(0, "links", Built("links", value))
         /\ Storable("links", value) => Settles("links", value)
<1> DEFINE items == Items(value)
           built == Built("links", value)
<1>1. built = normalise_article_links(value)
  BY DEF Built, PlainFields, MetaFields, UrlTitleFields
<1>2. \A s, v : After(s, "links", v) =
                  (\A i \in DOMAIN v : /\ v[i].cta \notin {None, <<>>} /\ Trim(v[i].cta)
                                       /\ UrlAfter(s, v[i].url))
  BY DEF After, PlainFields, MetaFields, UrlTitleFields
<1>3. items \in Seq(Link)
  BY ItemsType
<1>4. Storable("links", value) => items = value /\ Len(items) <= Limits.links
  <2> SUFFICES ASSUME Storable("links", value)
               PROVE  items = value /\ Len(items) <= Limits.links
    OBVIOUS
  <2>1. value \in Seq(Link) /\ Len(value) <= Limits.links
    BY DEF Storable, Within, PlainFields, MetaFields, UrlTitleFields
  <2>2. items = value
    BY <2>1, NoneType DEF Items
  <2> QED
    BY <2>1, <2>2
<1>5. \A i \in DOMAIN items : /\ items[i].cta # None => Len(items[i].cta) <= Limits.link_cta
                              /\ Len(items[i].url) <= Limits.link_url
  <2>1. CASE value = None
    <3>1. items = <<>>
      BY <2>1 DEF Items
    <3> HIDE DEF items
    <3> QED
      BY <3>1
  <2>2. CASE value # None
    <3>1. items = value
      BY <2>2 DEF Items
    <3> HIDE DEF items
    <3> QED
      BY <2>2, <3>1 DEF Accepts
  <2> QED
    BY <2>1, <2>2
<1> HIDE DEF items, built
<1>6. /\ \A a \in DOMAIN built : \E item \in Link :
           /\ \E j \in DOMAIN items : item = items[j]
           /\ valid_http_url(item.url) # None
           /\ built[a] = StoredLink(item)
      /\ /\ Len(items) <= Limits.links
         /\ \A j \in DOMAIN items : /\ valid_http_url(items[j].url) # None
                                    /\ StoredLink(items[j]) = items[j]
         => built = items
  BY <1>1, LinksFrom DEF items
<1>7. ASSUME NEW j \in DOMAIN items, valid_http_url(items[j].url) # None
      PROVE  LET stored == StoredLink(items[j])
             IN  /\ stored.cta \notin {None, <<>>} /\ Trim(stored.cta) /\ UrlAfter(0, stored.url)
                 /\ UrlAfter(0, items[j].url) =>
                      /\ \A s \in 0 .. 3 :
                           UrlAfter(s, items[j].url) => UrlAfter(s + 1, stored.url)
                      /\ /\ UrlAfter(4, items[j].url) /\ items[j].cta \notin {None, <<>>}
                         /\ Trim(items[j].cta)
                         => stored = items[j]
  <2>1. items[j] \in Link
    BY <1>3, ElementType
  <2> QED
    BY <1>5, <1>7, <2>1, LinkSettles
<1>8. ASSUME NEW a \in DOMAIN built
      PROVE  \E j \in DOMAIN items : valid_http_url(items[j].url) # None /\ built[a] = StoredLink(items[j])
  BY <1>6
<1>9. After(0, "links", built)
  <2> SUFFICES ASSUME NEW a \in DOMAIN built
               PROVE  /\ built[a].cta \notin {None, <<>>} /\ Trim(built[a].cta)
                      /\ UrlAfter(0, built[a].url)
    BY <1>2
  <2>1. PICK j \in DOMAIN items : valid_http_url(items[j].url) # None /\ built[a] = StoredLink(items[j])
    BY <1>8
  <2> QED
    BY <1>7, <2>1
<1>10. ASSUME Storable("links", value), NEW s \in 0 .. 3, After(s, "links", value)
       PROVE  After(s + 1, "links", built)
  <2>1. ASSUME NEW a \in DOMAIN built
        PROVE  /\ built[a].cta \notin {None, <<>>} /\ Trim(built[a].cta)
               /\ UrlAfter(s + 1, built[a].url)
    <3>1. PICK j \in DOMAIN items : valid_http_url(items[j].url) # None /\ built[a] = StoredLink(items[j])
      BY <1>8
    <3>2. UrlAfter(s, items[j].url)
      BY <1>2, <1>4, <1>10
    <3>3. UrlAfter(0, items[j].url)
      BY <3>2, UrlAfterAnyFirst
    <3> QED
      BY <1>7, <3>1, <3>2, <3>3
  <2> QED
    BY <1>2, <2>1
<1>11. ASSUME Storable("links", value), After(4, "links", value)
       PROVE  built = value
  <2>1. ASSUME NEW j \in DOMAIN items
        PROVE  valid_http_url(items[j].url) # None /\ StoredLink(items[j]) = items[j]
    <3>1. UrlAfter(4, items[j].url) /\ items[j].cta \notin {None, <<>>} /\ Trim(items[j].cta)
      BY <1>2, <1>4, <1>11
    <3>2. UrlAfter(0, items[j].url)
      BY <3>1, UrlAfterAnyFirst
    <3>3. valid_http_url(items[j].url) # None
      <4>1. items[j].url \in Text /\ None \notin Text
        BY <3>1, NoneType DEF UrlAfter
      <4>2. valid_http_url(items[j].url) = items[j].url
        BY <3>1, <3>2, <4>1, UrlSettles
      <4> QED
        BY <4>1, <4>2
    <3> QED
      BY <1>7, <3>1, <3>2, <3>3
  <2> QED
    BY <1>4, <1>6, <1>11, <2>1
<1> QED
  BY <1>9, <1>10, <1>11 DEF Settles, built

\* The FAQ
LEMMA FaqListSettles ==
  ASSUME PayloadAssumption, NEW value \in {None} \cup Seq(Faq), Accepts("faq", value)
  PROVE  /\ After(0, "faq", Built("faq", value))
         /\ Storable("faq", value) => Settles("faq", value)
<1> DEFINE items == Items(value)
           built == Built("faq", value)
<1>1. built = normalise_faq_list(value)
  BY DEF Built, PlainFields, MetaFields, UrlTitleFields
<1>2. \A s, v : After(s, "faq", v) =
                  (\A i \in DOMAIN v : /\ Trim(v[i].question) /\ Tight(v[i].question)
                                       /\ Trim(v[i].answer))
  BY DEF After, PlainFields, MetaFields, UrlTitleFields
<1>3. items \in Seq(Faq)
  BY ItemsType
<1>4. Storable("faq", value) => items = value /\ Len(items) <= Limits.faq_items
  <2> SUFFICES ASSUME Storable("faq", value)
               PROVE  items = value /\ Len(items) <= Limits.faq_items
    OBVIOUS
  <2>1. value \in Seq(Faq) /\ Len(value) <= Limits.faq_items
    BY DEF Storable, Within, PlainFields, MetaFields, UrlTitleFields
  <2>2. items = value
    BY <2>1, NoneType DEF Items
  <2> QED
    BY <2>1, <2>2
<1>5. \A i \in DOMAIN items : /\ Len(items[i].question) \in 1 .. Limits.faq_question
                              /\ Len(items[i].answer) \in 1 .. Limits.faq_answer
  <2>1. CASE value = None
    <3>1. items = <<>>
      BY <2>1 DEF Items
    <3> HIDE DEF items
    <3> QED
      BY <3>1
  <2>2. CASE value # None
    <3>1. items = value
      BY <2>2 DEF Items
    <3> HIDE DEF items
    <3> QED
      BY <2>2, <3>1 DEF Accepts
  <2> QED
    BY <2>1, <2>2
<1> HIDE DEF items, built
<1>6. /\ \A a \in DOMAIN built : \E item \in Faq :
           /\ \E j \in DOMAIN items : item = items[j]
           /\ built[a] = StoredFaq(item)
      /\ /\ Len(items) <= Limits.faq_items
         /\ \A j \in DOMAIN items : /\ StoredFaq(items[j]) = items[j]
                                    /\ items[j].question # <<>> /\ items[j].answer # <<>>
         => built = items
  BY <1>1, FaqFrom DEF items
<1>7. ASSUME NEW j \in DOMAIN items
      PROVE  /\ LET stored == StoredFaq(items[j])
                IN  /\ Trim(stored.question) /\ Tight(stored.question) /\ Trim(stored.answer)
                    /\ Trim(items[j].question) /\ Tight(items[j].question) /\ Trim(items[j].answer)
                         => stored = items[j]
             /\ items[j].question # <<>> /\ items[j].answer # <<>>
  <2>1. items[j] \in Faq
    BY <1>3, ElementType
  <2>2. items[j].question # <<>> /\ items[j].answer # <<>>
    <3>1. Len(items[j].question) # 0 /\ Len(items[j].answer) # 0
      BY <1>5
    <3>2. Len(<<>>) = 0
      OBVIOUS
    <3> QED
      BY <3>1, <3>2
  <2> QED
    BY <1>5, <2>1, <2>2, FaqSettles
<1>8. \A s : After(s, "faq", built)
  <2> SUFFICES ASSUME NEW a \in DOMAIN built
               PROVE  /\ Trim(built[a].question) /\ Tight(built[a].question)
                      /\ Trim(built[a].answer)
    BY <1>2
  <2>1. PICK j \in DOMAIN items : built[a] = StoredFaq(items[j])
    BY <1>6
  <2> QED
    BY <1>7, <2>1
<1>9. ASSUME Storable("faq", value), After(4, "faq", value)
      PROVE  built = value
  <2>1. \A j \in DOMAIN items : StoredFaq(items[j]) = items[j]
    BY <1>2, <1>4, <1>7, <1>9
  <2> QED
    BY <1>4, <1>6, <1>7, <1>9, <2>1
<1> QED
  BY <1>8, <1>9 DEF Settles, built

\* Every column but the category
LEMMA FieldSettles ==
  ASSUME PayloadAssumption, NEW field \in Fields \ {"category"}, NEW value \in Sendable[field],
         Accepts(field, value)
  PROVE  /\ After(0, field, Built(field, value))
         /\ Storable(field, value) => Settles(field, value)
<1>1. CASE field \in PlainFields
  <2>1. value \in {None} \cup Text
    BY <1>1 DEF Sendable, Typed, Fields, PlainFields, MetaFields, UrlTitleFields
  <2> QED
    BY <1>1, <2>1, PlainSettles
<1>2. CASE field \in MetaFields
  <2>1. value \in {None} \cup Text
    BY <1>2 DEF Sendable, Typed, Fields, PlainFields, MetaFields, UrlTitleFields
  <2> QED
    BY <1>2, <2>1, MetaSettles
<1>3. CASE field = "cover_image_url"
  <2>1. value \in {None} \cup Text
    BY <1>3 DEF Sendable, Typed, Fields, PlainFields, MetaFields, UrlTitleFields
  <2> QED
    BY <1>3, <2>1, CoverSettles
<1>4. CASE field = "html_content"
  <2>1. \A s, v : After(s, field, v)
    BY <1>4 DEF After, PlainFields, MetaFields, UrlTitleFields
  <2>2. ASSUME Storable(field, value) PROVE Built(field, value) = value
    <3>1. /\ value \in Seq(Node) /\ \A node \in ToSet(value) : Sanitized(node)
          /\ None \notin Seq(Node)
      BY <1>4, <2>2, NoneType DEF Storable, PlainFields, MetaFields, UrlTitleFields
    <3>2. sanitize_article_html(value) = value
      BY <3>1, HtmlSettles
    <3> QED
      BY <1>4, <3>2 DEF Built, PlainFields, MetaFields, UrlTitleFields
  <2> QED
    BY <2>1, <2>2 DEF Settles
<1>5. CASE field = "search_keyword"
  <2>1. value \in {None} \cup Seq(Text)
    BY <1>5 DEF Sendable, Typed, Fields, PlainFields, MetaFields, UrlTitleFields
  <2> QED
    BY <1>5, <2>1, KeywordsSettle
<1>6. CASE field \in UrlTitleFields
  <2>1. value \in {None} \cup Seq(TitleUrl)
    BY <1>6 DEF Sendable, Typed, Fields, TitleUrl, PlainFields, MetaFields, UrlTitleFields
  <2> QED
    BY <1>6, <2>1, UrlTitlesSettle
<1>7. CASE field = "links"
  <2>1. value \in {None} \cup Seq(Link)
    BY <1>7 DEF Sendable, Typed, Fields, Link, PlainFields, MetaFields, UrlTitleFields
  <2> QED
    BY <1>7, <2>1, LinksSettle
<1>8. CASE field = "faq"
  <2>1. value \in {None} \cup Seq(Faq)
    BY <1>8 DEF Sendable, Typed, Fields, Faq, PlainFields, MetaFields, UrlTitleFields
  <2> QED
    BY <1>8, <2>1, FaqListSettles
<1> QED
  BY <1>1, <1>2, <1>3, <1>4, <1>5, <1>6, <1>7, <1>8 DEF Fields

\* What holds after more saves holds before them; and a category never changes.
LEMMA AfterBefore ==
  ASSUME NEW field \in Fields, NEW value
  PROVE  /\ \A s \in 0 .. 4 : After(s, field, value) => After(0, field, value)
         /\ field = "category" => \A s : After(s, field, value)
<1>1. \A t : \A s \in 0 .. 4 : TextAfter(s, t) => TextAfter(0, t)
  BY DEF TextAfter
<1>2. \A u : \A s \in 0 .. 4 : UrlAfter(s, u) => UrlAfter(0, u)
  BY UrlAfterAnyFirst
<1>3. \A k : \A s \in 0 .. 4 : KeywordAfter(s, k) => KeywordAfter(0, k)
  BY <1>1 DEF KeywordAfter
<1>4. CASE field \in PlainFields
  BY <1>4 DEF After, PlainFields, MetaFields, UrlTitleFields
<1>5. CASE field \in MetaFields
  BY <1>1, <1>5 DEF After, PlainFields, MetaFields, UrlTitleFields
<1>6. CASE field = "cover_image_url"
  BY <1>2, <1>6 DEF After, PlainFields, MetaFields, UrlTitleFields
<1>7. CASE field \in {"category", "html_content"}
  BY <1>7 DEF After, PlainFields, MetaFields, UrlTitleFields
<1>8. CASE field = "search_keyword"
  BY <1>3, <1>8 DEF After, PlainFields, MetaFields, UrlTitleFields
<1>9. CASE field \in UrlTitleFields
  BY <1>1, <1>2, <1>9 DEF After, PlainFields, MetaFields, UrlTitleFields
<1>10. CASE field = "links"
  BY <1>2, <1>10 DEF After, PlainFields, MetaFields, UrlTitleFields
<1>11. CASE field = "faq"
  BY <1>11 DEF After, PlainFields, MetaFields, UrlTitleFields
<1> QED
  BY <1>4, <1>5, <1>6, <1>7, <1>8, <1>9, <1>10, <1>11 DEF Fields

\* The whole form, saved again
LEMMA FormSettles ==
  ASSUME PayloadAssumption, ContentInv, Refused = {}, NEW field \in Fields
  PROVE  LET again == Merge(Form)[field]
         IN  /\ \A s \in 0 .. 3 : After(s, field, content[field]) => After(s + 1, field, again)
             /\ After(4, field, content[field]) => again = content[field]
<1>1. CASE field = "category"
  <2> DEFINE slug == category_enum_to_slug(content.category)
  <2>1. content.category \in Categories /\ None \notin Categories
    BY DEF ContentInv, Storable, Fields, PlainFields, MetaFields, UrlTitleFields, PayloadAssumption
  <2>2. category_slug_to_enum(slug) = content.category
    BY <2>1 DEF category_enum_to_slug, category_slug_to_enum
  <2> HIDE DEF slug
  <2>3. Built("category", slug) = content.category
    BY <2>1, <2>2 DEF Built, PlainFields, MetaFields, UrlTitleFields
  <2>4. Form["category"] = slug
    BY DEF Form, Fields, slug
  <2>5. Merge(Form)["category"] = content.category
    BY <2>3, <2>4 DEF Merge, Fields
  <2> QED
    BY <1>1, <2>5, AfterBefore
<1>2. CASE field # "category"
  <2>1. Form[field] = content[field] /\ field \in DOMAIN Form
    BY <1>2 DEF Form
  <2>2. Merge(Form)[field] = Built(field, content[field])
    BY <1>2, <2>1 DEF Merge
  <2>3. Storable(field, content[field])
    BY DEF ContentInv
  <2>4. content[field] \in Sendable[field]
    BY <1>2, <2>3, HoldsIsSendable
  <2>5. Accepts(field, content[field])
    BY <2>1 DEF Refused
  <2>6. Settles(field, content[field])
    BY <1>2, <2>3, <2>4, <2>5, FieldSettles
  <2> QED
    BY <2>2, <2>6 DEF Settles
<1> QED
  BY <1>1, <1>2

\* The columns of a new article need nothing.
LEMMA QuietStart ==
  ASSUME PayloadAssumption, PayloadInit
  PROVE  QuietInv
<1>1. ASSUME NEW field \in Fields
      PROVE  After(0, field, content[field])
  <2>1. CASE field \in MetaFields \cup {"cover_image_url"}
    <3>1. content[field] = None
      BY <2>1 DEF PayloadInit
    <3> QED
      BY <2>1, <3>1 DEF After, PlainFields, MetaFields, UrlTitleFields
  <2>2. CASE field = "category"
    BY <2>2, AfterBefore
  <2>3. CASE field \notin MetaFields \cup {"cover_image_url", "category"}
    <3> DEFINE nothing == <<>>
    <3>1. content[field] = nothing
      BY <2>3 DEF PayloadInit
    <3>2. field \in PlainFields \cup UrlTitleFields \cup {"html_content", "search_keyword", "links", "faq"}
      BY <2>3 DEF Fields
    <3>3. Trim(nothing) /\ Distinct(nothing) /\ DOMAIN nothing = {}
      BY DEF Trim, Distinct
    <3> HIDE DEF nothing
    <3> QED
      BY <3>1, <3>2, <3>3 DEF After, PlainFields, MetaFields, UrlTitleFields
  <2> QED
    BY <2>1, <2>2, <2>3
<1>2. echoes = 0
  BY DEF PayloadInit
<1> QED
  BY <1>1, <1>2 DEF QuietInv

\* A first edit leaves what one round of normalising leaves.
LEMMA FirstEditIsQuiet ==
  ASSUME PayloadAssumption, PayloadInv, QuietInv, Save \/ Publish
  PROVE  QuietInv'
<1>1. sent = NoEdit /\ echoes = 0 /\ echoes' = 0
  BY DEF Save, Publish, QuietInv
<1>2. ASSUME NEW field \in Fields
      PROVE  After(0, field, content'[field])
  <2>1. After(0, field, content[field])
    BY DEF QuietInv
  <2>2. CASE Save
    <3>1. PICK f \in Fields : \E value \in Inputs[f] :
            Accepts(f, value) /\ content' = Merge([g \in {f} |-> value])
      BY <2>2 DEF Save
    <3>2. PICK value \in Inputs[f] :
            Accepts(f, value) /\ content' = Merge([g \in {f} |-> value])
      BY <3>1
    <3>3. content'[field] = content[field]
            \/ (field = f /\ content'[field] = Built(f, value))
      BY <3>2 DEF Merge
    <3>4. value \in Sendable[f]
      BY DEF PayloadAssumption
    <3>5. f # "category" => After(0, f, Built(f, value))
      BY <3>2, <3>4, FieldSettles
    <3> QED
      BY <2>1, <3>3, <3>5, AfterBefore
  <2>3. CASE Publish
    <3>1. content'[field] = content[field] \/ field = "html_content"
      BY <2>3 DEF Publish, PayloadInv, ContentInv
    <3>2. \A v : After(0, "html_content", v)
      BY DEF After, PlainFields, MetaFields, UrlTitleFields
    <3> QED
      BY <2>1, <3>1, <3>2
  <2> QED
    BY <2>2, <2>3
<1>3. \A field \in Fields : After(0, field, content[field])'
  BY <1>2 DEF After, TextAfter, UrlAfter, KeywordAfter
<1>4. \A field \in Fields : After(echoes, field, content[field])'
  <2>1. \A field \in Fields : After(echoes', field, content'[field])
    BY <1>1, <1>2
  <2> QED
    BY <2>1 DEF After, TextAfter, UrlAfter, KeywordAfter
<1> QED
  BY <1>1, <1>3, <1>4 DEF QuietInv

\* A save of the form takes every column one round further.
LEMMA ResaveIsQuiet ==
  ASSUME PayloadAssumption, PayloadInv, QuietInv, Resave
  PROVE  QuietInv'
<1>1. echoes \in 0 .. 4 /\ echoes' = Min({echoes + 1, 4})
  BY DEF Resave, PayloadInv, SentInv
<1>2. echoes' = IF echoes < 4 THEN echoes + 1 ELSE 4
  BY <1>1 DEF Min
<1>3. echoes' \in 0 .. 4
  BY <1>1, <1>2
<1>4. sent' # NoEdit
  BY DEF Resave
<1>5. CASE Refused = {}
  <2>1. ASSUME NEW field \in Fields
        PROVE  After(0, field, content'[field]) /\ After(echoes', field, content'[field])
    <3> DEFINE old == content[field]
               new == Merge(Form)[field]
    <3>1. content'[field] = new
      BY <1>5 DEF Resave
    <3>2. After(echoes, field, old)
      BY <1>5 DEF QuietInv
    <3>3. /\ \A s \in 0 .. 3 : After(s, field, old) => After(s + 1, field, new)
          /\ After(4, field, old) => new = old
      BY <1>5, FormSettles DEF PayloadInv
    <3> HIDE DEF old, new
    <3>4. After(echoes', field, new)
      <4>1. CASE echoes < 4
        <5>1. echoes \in 0 .. 3 /\ echoes' = echoes + 1
          BY <1>1, <1>2, <4>1
        <5> QED
          BY <3>2, <3>3, <5>1
      <4>2. CASE ~ (echoes < 4)
        <5>1. echoes = 4 /\ echoes' = 4
          BY <1>1, <1>2, <4>2
        <5> QED
          BY <3>2, <3>3, <5>1
      <4> QED
        BY <4>1, <4>2
    <3>5. After(0, field, new)
      BY <1>3, <3>4, AfterBefore
    <3> QED
      BY <3>1, <3>4, <3>5
  <2>2. \A field \in Fields : After(0, field, content[field])' /\ After(echoes, field, content[field])'
    BY <2>1 DEF After, TextAfter, UrlAfter, KeywordAfter
  <2> QED
    BY <1>4, <2>2 DEF QuietInv
<1>6. CASE Refused # {}
  <2>1. content' = content
    BY <1>6 DEF Resave
  <2>2. Refused' = Refused
    BY <2>1 DEF Refused, Form, Accepts
  <2>3. \A field \in Fields : After(0, field, content'[field])
    BY <2>1 DEF QuietInv
  <2>4. \A field \in Fields : After(0, field, content[field])'
    BY <2>3 DEF After, TextAfter, UrlAfter, KeywordAfter
  <2> QED
    BY <1>4, <1>6, <2>2, <2>4 DEF QuietInv
<1> QED
  BY <1>5, <1>6

\* So it holds after any number of saves.
LEMMA QuietCorrect ==
  ASSUME PayloadAssumption
  PROVE  PayloadSpec => []QuietInv
<1>1. PayloadInit => QuietInv
  BY QuietStart
<1>2. PayloadInv /\ QuietInv /\ [PayloadNext]_payloadVars => QuietInv'
  <2> SUFFICES ASSUME PayloadInv, QuietInv, [PayloadNext]_payloadVars PROVE QuietInv'
    OBVIOUS
  <2>1. CASE Save \/ Publish
    BY <2>1, FirstEditIsQuiet
  <2>2. CASE Resave
    BY <2>2, ResaveIsQuiet
  <2>3. CASE UNCHANGED payloadVars
    <3>1. content' = content /\ sent' = sent /\ echoes' = echoes
      BY <2>3 DEF payloadVars
    <3>2. Refused' = Refused
      BY <3>1 DEF Refused, Form, Accepts
    <3>3. \A field \in Fields :
            /\ After(0, field, content'[field])
            /\ Refused = {} => After(echoes', field, content'[field])
      BY <3>1, <3>2 DEF QuietInv
    <3>4. /\ \A field \in Fields : After(0, field, content[field])'
          /\ Refused = {} => \A field \in Fields : After(echoes, field, content[field])'
      BY <3>3 DEF After, TextAfter, UrlAfter, KeywordAfter
    <3> QED
      BY <3>1, <3>2, <3>4 DEF QuietInv
  <2> QED
    BY <2>1, <2>2, <2>3 DEF PayloadNext
<1>3. PayloadSpec => []PayloadInv
  BY PayloadCorrect
<1> QED
  BY <1>1, <1>2, <1>3, PTL DEF PayloadSpec

\* A last character that the next save trims
Ragged(text, chars) == text # None /\ text # <<>> /\ Last(text) \in chars

\* A column without one has nothing left to change.
LEMMA CalmIsDone ==
  ASSUME PayloadAssumption, ContentInv, ~ Frayed, NEW field \in Fields,
         After(0, field, content[field])
  PROVE  After(4, field, content[field])
<1> DEFINE value == content[field]
<1>1. Storable(field, value)
  BY DEF ContentInv
<1>2. None \notin Text
  BY NoneType
<1>3. /\ \A f \in MetaFields : ~ Ragged(content[f], {Blank})
      /\ \A k \in ToSet(content.search_keyword) : ~ Ragged(k, {Blank})
      /\ \A f \in UrlTitleFields : \A item \in ToSet(content[f]) :
           ~ Ragged(item.title, {Blank}) /\ ~ Ragged(item.url, {Blank, Semicolon, "?", "#"})
      /\ \A item \in ToSet(content.links) : ~ Ragged(item.url, {Blank, Semicolon, "?", "#"})
      /\ ~ Ragged(content.cover_image_url, {Blank, Semicolon, "?", "#"})
  BY DEF Frayed, Ragged
<1>4. ASSUME NEW text \in Text, TextAfter(0, text), ~ Ragged(text, {Blank})
      PROVE  TextAfter(4, text)
  <2>1. text # None
    BY <1>2
  <2>2. text # <<>> => text[Len(text)] # Blank
    BY <1>4, <2>1 DEF Ragged, Last
  <2> QED
    BY <1>4, <2>2 DEF TextAfter, Trim
<1>5. ASSUME NEW url, UrlAfter(0, url), ~ Ragged(url, {Blank, Semicolon, "?", "#"})
      PROVE  UrlAfter(4, url)
  <2>1. url \in Text /\ url # None /\ url # <<>>
    <3>1. url \in Text /\ Len(url) > 1
      BY <1>5 DEF UrlAfter, Hosted
    <3>2. Len(<<>>) = 0
      OBVIOUS
    <3> QED
      BY <1>2, <3>1, <3>2
  <2>2. url[Len(url)] \notin {Blank, Semicolon, "?", "#"}
    BY <1>5, <2>1 DEF Ragged, Last
  <2> QED
    BY <1>2, <1>5, <2>1, <2>2, UrlSettles
<1>6. CASE field \in PlainFields \cup {"category", "html_content", "faq"}
  BY <1>6 DEF After, PlainFields, MetaFields, UrlTitleFields
<1>7. CASE field \in MetaFields
  <2>1. value # None => value \in Text /\ TextAfter(0, value) /\ Tight(value)
    BY <1>1, <1>7 DEF After, Storable, PlainFields, MetaFields, UrlTitleFields
  <2>2. value # None => TextAfter(4, value) /\ Tight(value)
    BY <1>3, <1>4, <1>7, <2>1
  <2> HIDE DEF value
  <2>3. After(4, field, value)
    BY <1>7, <2>2 DEF After, PlainFields, MetaFields, UrlTitleFields
  <2> QED
    BY <2>3 DEF value
<1>8. CASE field = "cover_image_url"
  <2>1. value # None => UrlAfter(0, value)
    BY <1>8 DEF After, PlainFields, MetaFields, UrlTitleFields
  <2>2. value # None => UrlAfter(4, value)
    BY <1>3, <1>5, <1>8, <2>1
  <2> HIDE DEF value
  <2>3. After(4, field, value)
    BY <1>8, <2>2 DEF After, PlainFields, MetaFields, UrlTitleFields
  <2> QED
    BY <2>3 DEF value
<1>9. CASE field = "search_keyword"
  <2>1. Distinct(value) /\ \A i \in DOMAIN value : KeywordAfter(0, value[i])
    BY <1>9 DEF After, PlainFields, MetaFields, UrlTitleFields
  <2>2. value \in Seq(Text)
    BY <1>1, <1>9 DEF Storable, PlainFields, MetaFields, UrlTitleFields
  <2>3. ASSUME NEW i \in DOMAIN value PROVE KeywordAfter(4, value[i])
    <3>1. value[i] \in Text /\ value[i] \in ToSet(value)
      BY <2>2, ElementType DEF ToSet
    <3>2. ~ Ragged(value[i], {Blank})
      BY <1>3, <1>9, <3>1
    <3>3. KeywordAfter(0, value[i])
      BY <2>1
    <3>4. TextAfter(4, value[i])
      BY <1>4, <3>1, <3>2, <3>3 DEF KeywordAfter
    <3> QED
      BY <3>3, <3>4 DEF KeywordAfter
  <2> HIDE DEF value
  <2>4. After(4, field, value)
    BY <1>9, <2>1, <2>3 DEF After, PlainFields, MetaFields, UrlTitleFields
  <2> QED
    BY <2>4 DEF value
<1>10. CASE field \in UrlTitleFields
  <2>1. \A i \in DOMAIN value : TextAfter(0, value[i].title) /\ UrlAfter(0, value[i].url)
    BY <1>10 DEF After, PlainFields, MetaFields, UrlTitleFields
  <2>2. value \in Seq(TitleUrl)
    BY <1>1, <1>10 DEF Storable, PlainFields, MetaFields, UrlTitleFields
  <2>3. ASSUME NEW i \in DOMAIN value
        PROVE  TextAfter(4, value[i].title) /\ UrlAfter(4, value[i].url)
    <3>1. value[i] \in TitleUrl /\ value[i] \in ToSet(value)
      BY <2>2, ElementType DEF ToSet
    <3>2. ~ Ragged(value[i].title, {Blank}) /\ ~ Ragged(value[i].url, {Blank, Semicolon, "?", "#"})
      BY <1>3, <1>10, <3>1
    <3>3. value[i].title \in Text
      BY <3>1 DEF TitleUrl
    <3> QED
      BY <1>4, <1>5, <2>1, <3>2, <3>3
  <2> HIDE DEF value
  <2>4. After(4, field, value)
    BY <1>10, <2>3 DEF After, PlainFields, MetaFields, UrlTitleFields
  <2> QED
    BY <2>4 DEF value
<1>11. CASE field = "links"
  <2>1. \A i \in DOMAIN value : /\ value[i].cta \notin {None, <<>>} /\ Trim(value[i].cta)
                                /\ UrlAfter(0, value[i].url)
    BY <1>11 DEF After, PlainFields, MetaFields, UrlTitleFields
  <2>2. ASSUME NEW i \in DOMAIN value PROVE UrlAfter(4, value[i].url)
    <3>1. value[i] \in ToSet(value)
      BY DEF ToSet
    <3>2. ~ Ragged(value[i].url, {Blank, Semicolon, "?", "#"})
      BY <1>3, <1>11, <3>1
    <3> QED
      BY <1>5, <2>1, <3>2
  <2> HIDE DEF value
  <2>3. After(4, field, value)
    BY <1>11, <2>1, <2>2 DEF After, PlainFields, MetaFields, UrlTitleFields
  <2> QED
    BY <2>3 DEF value
<1> QED
  BY <1>6, <1>7, <1>8, <1>9, <1>10, <1>11 DEF Fields

\* An untouched save changes the row only to trim a frayed end, and the fifth
\* one nothing.
THEOREM UntouchedSavesAreQuiet ==
  ASSUME PayloadAssumption
  PROVE  PayloadSpec => UntouchedSaveIsQuiet
<1>1. ASSUME PayloadInv, QuietInv, [PayloadNext]_payloadVars
      PROVE  [sent # NoEdit /\ content' # content => Frayed /\ echoes < 4]_payloadVars
  <2> SUFFICES ASSUME sent # NoEdit, content' # content, ~ (Frayed /\ echoes < 4)
               PROVE  FALSE
    OBVIOUS
  <2>1. Resave
    BY <1>1 DEF PayloadNext, Save, Publish, payloadVars
  <2>2. Refused = {} /\ content' = Merge(Form)
    BY <2>1 DEF Resave
  <2>3. ASSUME NEW field \in Fields
        PROVE  content'[field] = content[field]
    <3>1. After(4, field, content[field])
      <4>1. CASE ~ Frayed
        <5>1. After(0, field, content[field])
          BY <1>1 DEF QuietInv
        <5> QED
          BY <1>1, <4>1, <5>1, CalmIsDone DEF PayloadInv
      <4>2. CASE ~ (echoes < 4)
        <5>1. echoes = 4
          BY <1>1, <4>2 DEF PayloadInv, SentInv
        <5> QED
          BY <1>1, <2>2, <5>1 DEF QuietInv
      <4> QED
        BY <4>1, <4>2
    <3> QED
      BY <1>1, <2>2, <3>1, FormSettles DEF PayloadInv
  <2>4. /\ content = [field \in Fields |-> content[field]]
        /\ content' = [field \in Fields |-> content'[field]]
    BY <1>1, <2>2 DEF PayloadInv, ContentInv, Merge
  <2> QED
    BY <2>3, <2>4
<1>2. PayloadSpec => []PayloadInv
  BY PayloadCorrect
<1>3. PayloadSpec => []QuietInv
  BY QuietCorrect
<1> QED
  BY <1>1, <1>2, <1>3, PTL DEF PayloadSpec, UntouchedSaveIsQuiet

=============================================================================
