----------------------------- MODULE Migrations -----------------------------
(***************************************************************************)
(* Bringing a database of the Node service to the schema of this one:      *)
(* deploy/migrate-prod.sh over migrations/0000 to 0008.  There is no       *)
(* ledger: a run that was interrupted, and one that was not, is repeated   *)
(* from the first file, beside a service that goes on writing.             *)
(*                                                                         *)
(* A step is what PostgreSQL commits at once: a DO block, a BEGIN/COMMIT   *)
(* block, or a single statement; runs of statements that only add or drop  *)
(* what no row of the model has are one step.                              *)
(***************************************************************************)
EXTENDS Integers, FiniteSets

CONSTANTS
  Ids,            \* articles
  People,         \* accounts
  Links,          \* URLs of covers and tags
  Instagram,      \* those among them that match 'instagram\.com'
  Titles,         \* titles of tags
  Covers,         \* covers an editor stores
  TagLists,       \* lists of tags an editor stores
  OldArticles,    \* rows of "Article" as the Node service left them
  OldUsers,       \* rows of "User" likewise
  MaxPasses,      \* bound: runs that are completed
  MaxCrashes,     \* bound: runs that are interrupted
  Null            \* SQL NULL

VARIABLES
  schema,         \* the columns and enum labels there are, of those that matter
  articles,       \* "Article"
  users,          \* "User"
  bookmarks,      \* "Bookmark": pairs of a person and an article
  at,             \* the step the run has come to, or "idle"
  passes,         \* runs completed
  crashes,        \* runs interrupted
  quiet,          \* history: runs started since a write or a failure, up to 3
  origin,         \* history: the articles as they were
  edited          \* history: articles whose tags an editor has stored

data == <<schema, articles, users, bookmarks>>
vars == <<data, at, passes, crashes, quiet, origin, edited>>

Tag == [url : Links, title : Titles]

Legacy == {"job", "exam"}
Signals == {"answer_key", "admit_card", "result", "syllabus", "admission"}
Categories == Signals \cup {"latest_job", "blog"}

\* signals: the groups of keywords that the title has
ArticleRow ==
  [cover_instagram_url : Links \cup {Null}, cover_image_url : Links \cup {Null},
   instagram_post_url : SUBSET Tag,
   article_status : {"draft", "published", "saved"},
   category : Categories \cup Legacy, signals : SUBSET Signals,
   author_id : People \cup {Null}]

UserRow ==
  [auth_provider : {"subscription", "google"}, google_id : BOOLEAN,
   last_login_at : BOOLEAN, api_key_hash : BOOLEAN, api_key : BOOLEAN,
   role : {"user", "admin"}]

OncePerUrl(tags) == \A s, t \in tags : s.url = t.url => s = t

ASSUME ConstantsAssumption ==
  /\ MaxPasses \in Nat /\ MaxCrashes \in Nat
  /\ Null \notin Links
  /\ Instagram \subseteq Links
  /\ "Instagram" \in Titles
  /\ Covers \subseteq Links \cup {Null}
  /\ TagLists \subseteq SUBSET Tag
  /\ OldUsers \subseteq UserRow
  /\ OldArticles \subseteq
       {a \in ArticleRow : a.cover_image_url = Null /\ OncePerUrl(a.instagram_post_url)}

OldSchema == {"cover_instagram_url", "saved", "job", "views"}

NewSchema == {"cover_image_url", "editor", "api_key_hash"}

Names == OldSchema \cup NewSchema

-----------------------------------------------------------------------------
(* The run *)

Steps == {"0000", "0001", "0002", "0003", "0004", "0005a", "0005b", "0006", "0007", "0008"}

\* One step of the run is made and the run goes on to the next.
Go(step, next) ==
  /\ at = step
  /\ at' = next
  /\ UNCHANGED <<passes, crashes, quiet, origin, edited>>

\* ON_ERROR_STOP and set -e: a statement fails and the run ends there.
Fail(step) ==
  /\ at = step
  /\ at' = "idle"
  /\ quiet' = 0
  /\ UNCHANGED <<data, passes, crashes, origin, edited>>

Has(name) == name \in schema

\* Mutant of Copied: only a list that is empty is added to.
CopiedIfEmpty(a) ==
  IF a.cover_instagram_url = Null \/ a.instagram_post_url # {} THEN a.instagram_post_url
  ELSE {[url |-> a.cover_instagram_url, title |-> "Instagram"]}

\* The tags of an article after its cover_instagram_url is copied to them
Copied(a) ==
  IF \/ a.cover_instagram_url = Null
     \/ \E tag \in a.instagram_post_url : tag.url = a.cover_instagram_url
  THEN a.instagram_post_url
  ELSE a.instagram_post_url \cup {[url |-> a.cover_instagram_url, title |-> "Instagram"]}

\* What each file makes of an article
Preserved(a) == [a EXCEPT !.instagram_post_url = Copied(a), !.cover_image_url = Null]
Renamed(a)   == [a EXCEPT !.cover_image_url = a.cover_instagram_url,
                          !.cover_instagram_url = Null]
Unsaved(a)   == [a EXCEPT !.article_status = IF @ = "saved" THEN "draft" ELSE @]
Cleared(a)   == [a EXCEPT !.cover_image_url = IF @ \in Instagram THEN Null ELSE @]

\* Mutant of Rehomed: the public spelling instead of the label
RehomedHyphened(a) == IF a.category \in Legacy THEN "latest-job" ELSE a.category

\* The CASE of 0005: the keywords of a title decide, most specific first.
Rehomed(a) ==
  IF a.category = "job" THEN "latest_job"
  ELSE IF a.category # "exam" THEN a.category
  ELSE IF "answer_key" \in a.signals THEN "answer_key"
  ELSE IF "admit_card" \in a.signals THEN "admit_card"
  ELSE IF "result" \in a.signals THEN "result"
  ELSE IF "syllabus" \in a.signals THEN "syllabus"
  ELSE IF "admission" \in a.signals THEN "admission"
  ELSE "latest_job"

Recategorised(a) == [a EXCEPT !.category = Rehomed(a)]

\* Mutants of PreserveTags: without its guard the UPDATE names a column that is
\* gone; with the guard on the UPDATE alone the live covers are dropped.
PreserveUnguarded ==
  IF ~ Has("cover_instagram_url")
  THEN Fail("0000")
  ELSE /\ Go("0000", "0001")
       /\ articles' = [i \in DOMAIN articles |-> Preserved(articles[i])]
       /\ schema' = schema \ {"cover_image_url"}
       /\ UNCHANGED <<users, bookmarks>>

PreserveAndDrop ==
  /\ Go("0000", "0001")
  /\ articles' = [i \in DOMAIN articles |-> Preserved(articles[i])]
  /\ schema' = schema \ {"cover_image_url"}
  /\ UNCHANGED <<users, bookmarks>>

\* 0000_preserve_instagram_tags
PreserveTags ==
  /\ Go("0000", "0001")
  /\ IF Has("cover_instagram_url")
       THEN /\ articles' = [i \in DOMAIN articles |-> Preserved(articles[i])]
            /\ schema' = schema \ {"cover_image_url"}
       ELSE UNCHANGED <<articles, schema>>
  /\ UNCHANGED <<users, bookmarks>>

\* 0001_add_editor_role
AddEditor ==
  /\ Go("0001", "0002")
  /\ schema' = schema \cup {"editor"}
  /\ UNCHANGED <<articles, users, bookmarks>>

\* 0002_add_hashed_api_key_columns
AddKeyColumns ==
  /\ Go("0002", "0003")
  /\ schema' = schema \cup {"api_key_hash"}
  /\ UNCHANGED <<articles, users, bookmarks>>

\* 0003_rename_cover_image_url: the new name must be free.
RenameCover ==
  IF Has("cover_instagram_url") /\ Has("cover_image_url")
  THEN Fail("0003")
  ELSE /\ Go("0003", "0004")
       /\ IF Has("cover_instagram_url")
            THEN /\ articles' = [i \in DOMAIN articles |-> Renamed(articles[i])]
                 /\ schema' = (schema \ {"cover_instagram_url"}) \cup {"cover_image_url"}
            ELSE UNCHANGED <<articles, schema>>
       /\ UNCHANGED <<users, bookmarks>>

\* 0004_remove_saved_article_status: one of the indexes rebuilt is on the views.
RemoveSaved ==
  IF Has("saved") /\ ~ Has("views")
  THEN Fail("0004")
  ELSE /\ Go("0004", "0005a")
       /\ IF Has("saved")
            THEN /\ articles' = [i \in DOMAIN articles |-> Unsaved(articles[i])]
                 /\ schema' = schema \ {"saved"}
            ELSE UNCHANGED <<articles, schema>>
       /\ UNCHANGED <<users, bookmarks>>

\* 0005_align_to_trimmed_schema, the categories
Recategorise ==
  /\ Go("0005a", "0005b")
  /\ IF Has("job")
       THEN /\ articles' = [i \in DOMAIN articles |-> Recategorised(articles[i])]
            /\ schema' = schema \ {"job"}
       ELSE UNCHANGED <<articles, schema>>
  /\ UNCHANGED <<users, bookmarks>>

\* 0005, the columns, tables and types this service does not map
DropUnused ==
  /\ Go("0005b", "0006")
  /\ schema' = schema \ {"views"}
  /\ UNCHANGED <<articles, users, bookmarks>>

\* 0006_clear_non_image_cover_urls
ClearCovers ==
  IF ~ Has("cover_image_url")
  THEN Fail("0006")
  ELSE /\ Go("0006", "0007")
       /\ articles' = [i \in DOMAIN articles |-> Cleared(articles[i])]
       /\ UNCHANGED <<schema, users, bookmarks>>

\* The WHERE of 0007
Inert(p) ==
  /\ users[p].auth_provider = "subscription"
  /\ ~ users[p].google_id /\ ~ users[p].last_login_at /\ ~ users[p].api_key_hash
  /\ users[p].role = "user"
  /\ ~ \E b \in bookmarks : b[1] = p
  /\ ~ \E i \in DOMAIN articles : articles[i].author_id = p

\* 0007_remove_subscription_accounts
RetireSubscriptions ==
  IF ~ Has("api_key_hash")
  THEN Fail("0007")
  ELSE /\ Go("0007", "0008")
       /\ users' = [p \in {q \in DOMAIN users : ~ Inert(q)} |-> users[p]]
       /\ UNCHANGED <<schema, articles, bookmarks>>

\* 0008_clear_legacy_secrets_and_orphans, with which the run is complete
ClearOrphans ==
  /\ at = "0008"
  /\ at' = "idle"
  /\ users' = [p \in DOMAIN users |-> [users[p] EXCEPT !.api_key = FALSE]]
  /\ bookmarks' = {b \in bookmarks : b[1] \in DOMAIN users /\ b[2] \in DOMAIN articles}
  /\ passes' = passes + 1
  /\ UNCHANGED <<schema, articles, crashes, quiet, origin, edited>>

Migrate ==
  \/ PreserveTags
  \/ AddEditor
  \/ AddKeyColumns
  \/ RenameCover
  \/ RemoveSaved
  \/ Recategorise
  \/ DropUnused
  \/ ClearCovers
  \/ RetireSubscriptions
  \/ ClearOrphans

\* ./deploy/migrate-prod.sh
Start ==
  /\ at = "idle"
  /\ passes < MaxPasses
  /\ at' = "0000"
  /\ quiet' = IF quiet < 3 THEN quiet + 1 ELSE 3
  /\ UNCHANGED <<data, passes, crashes, origin, edited>>

\* The connection or the machine is lost between two commits.
Crash ==
  /\ at # "idle"
  /\ crashes < MaxCrashes
  /\ crashes' = crashes + 1
  /\ at' = "idle"
  /\ quiet' = 0
  /\ UNCHANGED <<data, passes, origin, edited>>

-----------------------------------------------------------------------------
(* The service beside it, one committed write a step.  A request that names *)
(* a column that is not there yet, or loads a label that is no longer one   *)
(* of its own, is a 500 and writes nothing.                                 *)

Serve ==
  /\ quiet' = 0
  /\ UNCHANGED <<schema, at, passes, crashes, origin>>

\* The actor's account and article i can be loaded: the columns that their
\* SELECTs name are there, and the service knows the labels of the row.
Loads(i) ==
  /\ Has("api_key_hash") /\ Has("cover_image_url")
  /\ articles[i].category \notin Legacy /\ articles[i].article_status # "saved"

\* PUT /admin/posts/{slug} of a cover: any http URL is accepted.
StoreCover(i) ==
  /\ Loads(i) /\ Serve
  /\ \E url \in Covers :
       articles' = [articles EXCEPT ![i] = [@ EXCEPT !.cover_image_url = url]]
  /\ UNCHANGED <<users, bookmarks, edited>>

\* PUT of the list of tags
StoreTags(i) ==
  /\ Loads(i) /\ Serve
  /\ \E tags \in TagLists :
       articles' = [articles EXCEPT ![i] = [@ EXCEPT !.instagram_post_url = tags]]
  /\ edited' = edited \cup {i}
  /\ UNCHANGED <<users, bookmarks>>

DeletePost(i) ==
  /\ Loads(i) /\ Serve
  /\ articles' = [j \in DOMAIN articles \ {i} |-> articles[j]]
  /\ UNCHANGED <<users, bookmarks, edited>>

\* upsert_oauth_user, of somebody whose account is there
SignIn(p) ==
  /\ Has("api_key_hash") /\ Serve
  /\ users' = [users EXCEPT ![p] = [@ EXCEPT !.google_id = TRUE, !.last_login_at = TRUE,
                                             !.auth_provider = "google"]]
  /\ UNCHANGED <<articles, bookmarks, edited>>

\* POST /bookmarks/toggle of a published article, by somebody who has signed in
ToggleBookmark(p, i) ==
  /\ Loads(i) /\ articles[i].article_status = "published" /\ Serve
  /\ users[p].last_login_at
  /\ bookmarks' = IF <<p, i>> \in bookmarks THEN bookmarks \ {<<p, i>>}
                                            ELSE bookmarks \cup {<<p, i>>}
  /\ UNCHANGED <<articles, users, edited>>

Service ==
  \/ \E i \in DOMAIN articles : StoreCover(i) \/ StoreTags(i) \/ DeletePost(i)
  \/ \E p \in DOMAIN users : SignIn(p)
  \/ \E p \in DOMAIN users, i \in DOMAIN articles : ToggleBookmark(p, i)

-----------------------------------------------------------------------------
\* The Node service's database, in which bookmarks may point at anything.  An
\* empty cover_image_url may be there already.
Init ==
  /\ schema \in {OldSchema, OldSchema \cup {"cover_image_url"}}
  /\ \E ids \in SUBSET Ids : articles \in [ids -> OldArticles]
  /\ \E ps \in SUBSET People : users \in [ps -> OldUsers]
  /\ bookmarks \in SUBSET (People \X Ids)
  /\ at = "idle" /\ passes = 0 /\ crashes = 0 /\ quiet = 0
  /\ origin = articles
  /\ edited = {}

Next == Start \/ Migrate \/ Crash \/ Service

\* Whoever deploys starts the run again until it completes, and a run that is
\* not interrupted makes its next step.
Fairness == WF_vars(Start) /\ WF_vars(Migrate)

Spec == Init /\ [][Next]_vars /\ Fairness

-----------------------------------------------------------------------------
(* Properties *)

TypeOK ==
  /\ schema \subseteq Names
  /\ DOMAIN articles \subseteq DOMAIN origin /\ DOMAIN origin \subseteq Ids
  /\ articles \in [DOMAIN articles -> ArticleRow]
  /\ origin \in [DOMAIN origin -> OldArticles]
  /\ DOMAIN users \subseteq People /\ users \in [DOMAIN users -> UserRow]
  /\ bookmarks \subseteq People \X Ids
  /\ at \in Steps \cup {"idle"}
  /\ passes \in Nat /\ crashes \in Nat /\ quiet \in 0 .. 3
  /\ edited \subseteq DOMAIN origin

\* Every link the Node service kept as an article's cover becomes one of its
\* tags, once, however often the run is interrupted and repeated, and stays one
\* until an editor stores another list (0000; "so they are copied into the list
\* first").
TagsKept ==
  \A i \in DOMAIN articles \ edited :
    /\ OncePerUrl(articles[i].instagram_post_url)
    /\ origin[i].cover_instagram_url # Null =>
         \/ articles[i].cover_instagram_url = origin[i].cover_instagram_url
         \/ \E tag \in articles[i].instagram_post_url :
              tag.url = origin[i].cover_instagram_url

\* What running everything again may change once it has run to the end ("re-
\* running the whole directory is a no-op", migrations/README.md).  What the
\* service has written since is left alone, but for a cover that is an
\* Instagram link, a bookmark of nothing, and an account that nobody has ever
\* signed in to.  And if it has written nothing, the second run finds at most
\* such accounts, whose last bookmark the first one removed, and the third
\* nothing.
RerunIsHarmless ==
  [][passes > 0 /\ at # "idle" /\ at' # at =>
       /\ schema' = schema
       /\ \A i \in DOMAIN articles :
            /\ i \in DOMAIN articles'
            /\ \/ articles'[i] = articles[i]
               \/ /\ articles[i].cover_image_url \in Instagram
                  /\ articles'[i] = [articles[i] EXCEPT !.cover_image_url = Null]
       /\ \A b \in bookmarks \ bookmarks' : b[1] \notin DOMAIN users \/ b[2] \notin DOMAIN articles
       /\ \A p \in DOMAIN users :
            \/ p \in DOMAIN users' /\ users'[p] = users[p]
            \/ p \notin DOMAIN users' /\ ~ users[p].last_login_at
       /\ quiet > 1 => articles' = articles /\ bookmarks' = bookmarks
       /\ quiet > 2 => UNCHANGED data]_vars

\* However often it is interrupted, the run can be repeated to its end: no file
\* fails on what an earlier run, whole or broken off, or the service has left.
EveryRunEnds == <>[](passes = MaxPasses)
=============================================================================
