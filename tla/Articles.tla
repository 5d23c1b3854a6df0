------------------------------ MODULE Articles ------------------------------
(***************************************************************************)
(* The admin write path of articles: routers/v1/admin/posts.py over        *)
(* services/articles.py, as run by several requests at once.               *)
(*                                                                         *)
(* A request is a worker.  Every statement it sends to the database is one *)
(* step (READ COMMITTED: each sees what has been committed by then), and   *)
(* the Python between two statements belongs to the step before it.  The   *)
(* flush and the COMMIT of a service are one step: each transaction here   *)
(* writes one row with one statement, whose row lock or unique index entry *)
(* it holds until it commits.                                              *)
(***************************************************************************)
EXTENDS Integers, FiniteSets

CONSTANTS
  Workers,        \* requests the service handles at once
  Slugs,          \* URL slugs
  Contents,       \* what the remaining editable columns can hold, sanitised
  Clean,          \* sanitising and normalising, from what is sent to Contents
  Authors,        \* staff members who send writes
  CreateBodies,   \* bodies of POST /admin/posts that pass ArticleCreate
  UpdateBodies,   \* bodies of PUT /admin/posts/{slug} that pass ArticleUpdate
  PublishBodies,  \* bodies of POST /publish/articles that pass ArticlePublish
  Null,           \* SQL NULL, JSON null
  Unset,          \* key absent from a body, attribute not assigned
  MaxId,          \* bound: ids handed out
  MaxTime         \* bound: last clock reading

VARIABLES
  articles,       \* the "Article" table: a row for each live id
  nextId,         \* the id sequence, which a failed INSERT advances as well
  now,            \* now_ist()
  req             \* what each worker is doing

vars == <<articles, nextId, now, req>>

UOW == INSTANCE UnitOfWork

Statuses == {"draft", "published", "archived"}
Times    == Nat

Row ==
  [slug : Slugs, article_status : Statuses, published_at : Times \cup {Null},
   updated_at : Times, content : Contents, author : Authors]

\* Keyword arguments of a service: a row with Unset for what is not given.
Data ==
  [slug : Slugs \cup {Unset}, article_status : Statuses \cup {Unset},
   published_at : Times \cup {Null, Unset}, updated_at : Times \cup {Unset},
   content : Contents \cup {Unset}, author : Authors \cup {Unset}]

NoData ==
  [slug |-> Unset, article_status |-> Unset, published_at |-> Unset,
   updated_at |-> Unset, content |-> Unset, author |-> Unset]

Body ==
  [slug : Slugs \cup {Null, Unset}, article_status : Statuses \cup {Null, Unset},
   published_at : Times \cup {Null, Unset}, content : DOMAIN Clean \cup {Unset}]

ASSUME ConstantsAssumption ==
  /\ MaxId \in Nat /\ MaxTime \in Nat
  /\ Clean \in [DOMAIN Clean -> Contents]
  /\ UpdateBodies \subseteq Body
  /\ CreateBodies \cup PublishBodies \subseteq
       {b \in Body : b.slug \in Slugs /\ b.content \in DOMAIN Clean}
  /\ \A b \in PublishBodies : b.article_status = Unset
  /\ Unset \notin Slugs \cup Statuses \cup Times \cup Contents \cup Authors \cup {Null}
  /\ Unset \notin DOMAIN Clean
  /\ Null \notin Slugs \cup Statuses \cup Times

Codes == {200, 201, 204, 404, 409, 500}
Idle  == "idle"
PCs   == {Idle, "check_slug", "insert", "update", "delete", "refresh"}

\* pc: the statement the worker sends next; code: the status it has answered,
\* or, in "refresh", will answer; id, loaded: the object in its session; data:
\* what it has assigned to the object.
Request ==
  [pc : PCs, code : Codes, id : Nat, loaded : Data, data : Data]

Answered(code) ==
  [pc |-> Idle, code |-> code, id |-> 0, loaded |-> NoData, data |-> NoData]

-----------------------------------------------------------------------------
(* Reads *)

Live == DOMAIN articles

\* find_by_slug: the id of the row, if there is one
BySlug(slug) == {i \in Live : articles[i].slug = slug}

\* Mutants of the two operators that follow
NeverTaken(slug, except) == FALSE

\* slug_exists(slug, except_id)
SlugExists(slug, except) == BySlug(slug) \ {except} # {}

\* The unique index on slug, met by the row with this id
IndexRefuses(slug, id) == \E i \in Live \ {id} : articles[i].slug = slug

-----------------------------------------------------------------------------
(* What the handlers compute between statements *)

\* build_article_data: a null or absent slug or status is not passed on, an
\* explicit null date is; the author is always the one who sent the request.
BuildArticleData(body, author) ==
  [NoData EXCEPT
     !.slug           = IF body.slug = Null THEN Unset ELSE body.slug,
     !.article_status = IF body.article_status = Null THEN Unset
                                                      ELSE body.article_status,
     !.published_at   = body.published_at,
     !.content        = IF body.content = Unset THEN Unset
                                                ELSE Clean[body.content],
     !.author         = author]

\* Mutants of WithPublishStamp: a null sent along is taken for a date, and a
\* date that is there is stamped over.
StampOnAbsentOnly(data, current) ==
  IF data.article_status = "published" /\ current = Null /\ data.published_at = Unset
  THEN [data EXCEPT !.published_at = now]
  ELSE data

StampAlways(data, current) ==
  IF data.article_status = "published" /\ data.published_at \in {Null, Unset}
  THEN [data EXCEPT !.published_at = now]
  ELSE data

\* The two handlers' "publishing without a date stamps it now".
WithPublishStamp(data, current) ==
  IF /\ data.article_status = "published"
     /\ current = Null
     /\ data.published_at \in {Null, Unset}
  THEN [data EXCEPT !.published_at = now]
  ELSE data

\* Mutant of WithUpdateStamp: every request stamps.
StampAnyway(loaded, data) == [data EXCEPT !.updated_at = now]

\* articles.update and articles.set_status: updated_at moves on a net change.
WithUpdateStamp(loaded, data) ==
  IF UOW!IsModified(loaded, data) THEN [data EXCEPT !.updated_at = now] ELSE data

\* Mutant of WithDefaults: the ORM default of published_at is missing.
NoDateDefault(data) ==
  [data EXCEPT !.article_status = IF @ = Unset THEN "draft" ELSE @,
               !.updated_at     = now]

\* articles.create: the column defaults of an INSERT.  The server default of
\* updated_at is the time the transaction began, with this request's reads.
WithDefaults(data) ==
  [data EXCEPT
     !.article_status = IF @ = Unset THEN "draft" ELSE @,
     !.published_at   = IF @ = Unset THEN Null ELSE @,
     !.updated_at     = now]

-----------------------------------------------------------------------------
Init ==
  /\ articles = [i \in {} |-> NoData]
  /\ nextId = 1
  /\ now = 0
  /\ req = [w \in Workers |-> Answered(200)]

Ready(w) == req[w].pc = Idle

Answer(w, code) == req' = [req EXCEPT ![w] = Answered(code)]

\* Bound: no more INSERTs are started than there are ids to hand out.
IdsLeft ==
  nextId + Cardinality({v \in Workers : req[v].pc = "insert"}) <= MaxId

\* The part create_post and publish_article share: the slug is looked up and
\* the row to insert is built.
StartInsert(w, slug, data) ==
  /\ Ready(w)
  /\ IdsLeft
  /\ IF SlugExists(slug, 0)
       THEN Answer(w, 409)
       ELSE req' = [req EXCEPT ![w] = [@ EXCEPT !.pc = "insert",
                                                !.data = WithDefaults(data)]]
  /\ UNCHANGED <<articles, nextId, now>>

\* POST /admin/posts
CreatePost(w) ==
  \E body \in CreateBodies, author \in Authors :
    StartInsert(w, body.slug,
                WithPublishStamp(BuildArticleData(body, author), Null))

\* POST /publish/articles: always a draft
PublishArticle(w) ==
  \E body \in PublishBodies, author \in Authors :
    StartInsert(w, body.slug, [BuildArticleData(body, author)
                                 EXCEPT !.article_status = "draft"])

\* articles.create: INSERT and COMMIT.  The sequence moves even when the
\* unique index refuses the row, which nothing handles: the answer is 500.
Insert(w) ==
  /\ req[w].pc = "insert"
  /\ nextId' = nextId + 1
  /\ IF IndexRefuses(req[w].data.slug, nextId)
       THEN /\ Answer(w, 500)
            /\ UNCHANGED articles
       ELSE /\ articles' = [i \in Live \cup {nextId} |->
                              IF i = nextId THEN req[w].data ELSE articles[i]]
            /\ req' = [req EXCEPT ![w] = [Answered(201) EXCEPT !.pc = "refresh",
                                                              !.id = nextId]]
  /\ UNCHANGED now

\* find_by_slug finds nothing: 404.
NotFound(w, slug) ==
  /\ Ready(w)
  /\ BySlug(slug) = {}
  /\ Answer(w, 404)
  /\ UNCHANGED <<articles, nextId, now>>

\* find_by_slug loads article i into the session; the request goes on as r.
Found(w, i, r) ==
  /\ Ready(w)
  /\ req' = [req EXCEPT ![w] = [r EXCEPT !.id = i, !.loaded = articles[i]]]
  /\ UNCHANGED <<articles, nextId, now>>

\* The assignments of update_post, ready to be flushed.
Update(loaded, data) ==
  [Answered(200) EXCEPT
     !.pc = "update",
     !.data = WithUpdateStamp(loaded, WithPublishStamp(data, loaded.published_at))]

\* PUT /admin/posts/{slug}: a slug in the body is checked by a second SELECT.
UpdatePost(w) ==
  \E slug \in Slugs :
    \/ NotFound(w, slug)
    \/ \E i \in BySlug(slug), body \in UpdateBodies, author \in Authors :
         LET data == BuildArticleData(body, author)
         IN  Found(w, i, IF data.slug = Unset
                           THEN Update(articles[i], data)
                           ELSE [Answered(200) EXCEPT !.pc = "check_slug",
                                                      !.data = data])

CheckSlug(w) ==
  LET r == req[w]
  IN  /\ r.pc = "check_slug"
      /\ IF SlugExists(r.data.slug, r.id)
           THEN Answer(w, 409)
           ELSE req' = [req EXCEPT ![w] = [Update(r.loaded, r.data) EXCEPT
                                             !.id = r.id, !.loaded = r.loaded]]
      /\ UNCHANGED <<articles, nextId, now>>

\* Mutant of StatusData: the status changes and the change is not dated.
StatusUndated(row, status) ==
  WithPublishStamp([NoData EXCEPT !.article_status = status], row.published_at)

\* What articles.set_status assigns
StatusData(row, status) ==
  WithUpdateStamp(row, WithPublishStamp([NoData EXCEPT !.article_status = status],
                                        row.published_at))

\* PATCH /admin/posts/{slug}/status
SetStatus(w) ==
  \E slug \in Slugs :
    \/ NotFound(w, slug)
    \/ \E i \in BySlug(slug), status \in Statuses :
         Found(w, i, [Answered(200) EXCEPT !.pc = "update",
                                           !.data = StatusData(articles[i], status)])

\* Mutant of CommitUpdate: the object is merged into the table, and so comes
\* back if it has been deleted meanwhile.
MergeUpdate(w) ==
  LET r == req[w]
      row == IF r.id \in Live THEN articles[r.id] ELSE r.loaded
  IN  /\ r.pc = "update"
      /\ ~ IndexRefuses(r.data.slug, r.id)
      /\ articles' = [i \in Live \cup {r.id} |->
                        IF i = r.id THEN UOW!Flush(row, r.loaded, r.data)
                                    ELSE articles[i]]
      /\ req' = [req EXCEPT ![w].pc = "refresh"]
      /\ UNCHANGED <<nextId, now>>

\* UPDATE and COMMIT of articles.update and articles.set_status.  Without a
\* net change nothing is sent.  A row deleted meanwhile (StaleDataError) and a
\* slug taken meanwhile (IntegrityError) are both a 500.
CommitUpdate(w) ==
  LET r     == req[w]
      dirty == UOW!Dirty(r.loaded, r.data)
  IN  /\ r.pc = "update"
      /\ IF dirty = {}
           THEN /\ req' = [req EXCEPT ![w].pc = "refresh"]
                /\ UNCHANGED articles
           ELSE IF \/ r.id \notin Live
                   \/ "slug" \in dirty /\ IndexRefuses(r.data.slug, r.id)
             THEN /\ Answer(w, 500)
                  /\ UNCHANGED articles
             ELSE /\ articles' = [articles EXCEPT ![r.id] =
                                    UOW!Flush(@, r.loaded, r.data)]
                  /\ req' = [req EXCEPT ![w].pc = "refresh"]
      /\ UNCHANGED <<nextId, now>>

\* session.refresh: the row is read again for the response body.  If it has
\* been deleted since the COMMIT, the answer is 500 for a write that was made.
Refresh(w) ==
  /\ req[w].pc = "refresh"
  /\ Answer(w, IF req[w].id \in Live THEN req[w].code ELSE 500)
  /\ UNCHANGED <<articles, nextId, now>>

\* DELETE /admin/posts/{slug}
DeletePost(w) ==
  \E slug \in Slugs :
    \/ NotFound(w, slug)
    \/ \E i \in BySlug(slug) : Found(w, i, [Answered(204) EXCEPT !.pc = "delete"])

\* A DELETE that matches no row only logs a warning: the answer is 204 too.
CommitDelete(w) ==
  /\ req[w].pc = "delete"
  /\ articles' = [i \in Live \ {req[w].id} |-> articles[i]]
  /\ Answer(w, 204)
  /\ UNCHANGED <<nextId, now>>

\* Bound: the clock stops at MaxTime.
Tick ==
  /\ now < MaxTime
  /\ now' = now + 1
  /\ UNCHANGED <<articles, nextId, req>>

Step(w) ==
  \/ CreatePost(w)
  \/ PublishArticle(w)
  \/ Insert(w)
  \/ UpdatePost(w)
  \/ CheckSlug(w)
  \/ SetStatus(w)
  \/ CommitUpdate(w)
  \/ Refresh(w)
  \/ DeletePost(w)
  \/ CommitDelete(w)

Next == Tick \/ \E w \in Workers : Step(w)

Spec == Init /\ [][Next]_vars

-----------------------------------------------------------------------------
(* Properties *)

TypeOK ==
  /\ nextId \in Nat \ {0}
  /\ now \in Nat
  /\ Live \subseteq 1 .. nextId - 1
  /\ articles \in [Live -> Row]
  /\ req \in [Workers -> Request]
  /\ \A w \in Workers : req[w].pc = "insert" => req[w].data \in Row

\* No two articles share a slug, whatever the requests that looked the slug up
\* before they wrote it (posts.py create_post, update_post, publish_article).
SlugUnique ==
  \A i, j \in Live : articles[i].slug = articles[j].slug => i = j

\* The article table is a catalogue: see ArticleCatalogue.  An article that was
\* deleted while an update of it was in flight does not come back, and no id is
\* given out twice.
Catalogue ==
  INSTANCE ArticleCatalogue
    WITH entries <- [i \in Live |-> articles[i].slug], next <- nextId

ImplementsCatalogue == Catalogue!CatalogueSpec

\* Two editors at work on one article do not undo each other's columns: a
\* column that changes takes the value that a request being committed assigned
\* to it, never the one a request happened to have loaded (update_post: "only
\* keys actually sent are applied").
PartialUpdate ==
  [][\A i \in Live \cap Live' : \A c \in DOMAIN NoData :
       articles'[i][c] # articles[i][c] =>
         \E w \in Workers : /\ req[w].pc = "update" /\ req[w].id = i
                            /\ req[w].data[c] = articles'[i][c]]_vars

\* What a PUT or PATCH assigned is in the row once it has committed, even when
\* it assigned what was there already and nothing was sent: the other half of
\* "only keys actually sent are applied" (posts.py update_post).
SentIsApplied ==
  [][\A w \in Workers :
       req[w].pc = "update" /\ req'[w].pc = "refresh" =>
         \A c \in DOMAIN NoData :
           req[w].data[c] # Unset => articles'[req[w].id][c] = req[w].data[c]]_vars

\* Published without a publication date
Undated(i) ==
  articles[i].article_status = "published" /\ articles[i].published_at = Null

\* An article is published without a date only if somebody clears the date.
\* PUT {"published_at": null} does so, on a published article too: the handlers
\* stamp a date on the way to published, by whichever route and with a null in
\* the body as well, but only when the row they loaded has none.  So the request
\* that leaves an article undated loaded a date, and clears it or has been
\* overtaken by one that did (posts.py:94 and 128, articles.py:438).
UndatedOnlyByClearing ==
  [][\A i \in Live' :
       Undated(i)' /\ (i \in Live => ~ Undated(i)) =>
         \E w \in Workers :
           /\ req[w].pc = "update" /\ req[w].id = i
           /\ req[w].loaded.published_at # Null
           /\ req[w].data.published_at = Null \/ articles[i].published_at = Null]_vars

\* The publication date is stamped once: archiving and publishing again, by
\* PUT or PATCH, keeps it (set_status: "on first publish").  For clients that
\* send no dates of their own.
FirstStampSticks ==
  [][\A i \in Live \cap Live' :
       articles[i].published_at # Null =>
         articles'[i].published_at = articles[i].published_at]_vars

\* What a reader of the article would notice changing
Visible == {"slug", "article_status", "published_at", "content"}

Changes(i) == \E c \in Visible : articles'[i][c] # articles[i][c]

\* updated_at, which the sitemap publishes as lastmod, moves only when another
\* column does (articles.update: "conditional on a net change"): one that a
\* reader can see, or the author.  The latter is not what the doc goes on to say,
\* that "pressing Save without touching anything leaves the date alone":
\* build_article_data assigns the author with every save, so the untouched save
\* of another member of staff is a net change.
LastmodOnlyWithAnEdit ==
  [][\A i \in Live \cap Live' :
       articles'[i].updated_at # articles[i].updated_at =>
         Changes(i) \/ articles'[i].author # articles[i].author]_vars

\* Whatever changes an article dates the change: updated_at is then that of
\* the request that made it, and it never goes back.
ChangeMovesLastmod ==
  [][\A i \in Live \cap Live' :
       /\ articles'[i].updated_at >= articles[i].updated_at
       /\ Changes(i) => \E w \in Workers :
                          /\ req[w].pc = "update" /\ req[w].id = i
                          /\ articles'[i].updated_at = req[w].data.updated_at]_vars

\* Every answer is one the routes document; a 500 is not.
OnlyDocumentedStatuses == \A w \in Workers : req[w].code # 500
=============================================================================
