# A model of the Sarkari World API

TLA+ specifications of the FastAPI service in `src/`, the configurations TLC
checks them with, and theorems about them that TLAPS proves. Paths below are
relative to the repository (`src/services/users.py` is the service module).

The service is asynchronous Python over PostgreSQL through SQLAlchemy. It keeps
no state of its own between requests: everything is in the database, and
everything that is hard about it comes from requests that read a row, compute,
and write it back while other requests do the same. No handler takes a lock,
asks for a version or an isolation level, or handles an `IntegrityError`. What
the service relies on is unique indexes, the fact that SQLAlchemy writes only
the columns that changed, and staff who seldom work at the same moment. The
models ask how far that carries.

## Inventory

| Component | Code | State | Operations | What is hard | What makes it correct |
|---|---|---|---|---|---|
| Article admin writes | `routers/v1/admin/posts.py`, `services/articles.py` | table `Article` | create, publish-as-draft, PUT, PATCH status, delete | look-then-write over several statements; row deleted or slug taken in between; conditional stamps | unique slugs, edits of different columns merge, nothing deleted comes back, publication dates present and stable, `updated_at` moves with content |
| Payload normalisation | `schemas/article.py`, `services/article_writes.py`, `utils/article_payload.py`, `utils/html.py`, `utils/urls.py`, `utils/slugs.py` | none | validate a body, build the columns to assign from it, render markdown | two layers with caps of their own; trimming before and after a cut; duplicates | what is stored keeps its limits and is accepted again; saving untouched what was loaded changes nothing |
| Accounts and roles | `services/users.py`, `routers/v1/admin/users.py` | table `User` | sign in (find, link or insert), change role | sign-ins racing; role read at authentication and used later | one account per identity; roles come from admins; an admin remains |
| Sessions | `services/tokens.py`, `dependencies.py` | `User.session_invalidated_at`; tokens are with the clients | mint, verify, sign out everywhere | whole-second claims against microsecond stamps; stamps written late | a signed-out session stays so; a new one works; all end |
| API keys | `services/api_keys.py` | `User.api_key_*` | issue, rotate, revoke, resolve | slow hash between look and commit; columns of one key written together | a dead key stays dead; expiry is counted from the key's own issue |
| Bookmarks | `services/bookmarks.py`, `routers/v1/account.py` | table `Bookmark`, without foreign keys | toggle, list | two toggles at once; articles unpublished or deleted underneath | one bookmark per pair; only one's own is removed; no stranger under an old bookmark |
| Web URL triage | `services/web_urls.py`, `utils/urls.py`, `routers/v1/admin/web_urls.py` | table `WebUrl` | add, view, view all, delete, list | look-then-insert; stamps before commits; rows added under "view all" | unique URLs; what was viewed or deleted stays so; nothing sits unseen |
| Public reads, search, paging, sitemap | `routers/v1/public.py`, `services/articles.py`, `schemas/pagination.py` | none | reads | count and rows from two statements; clamped page numbers | pages tile the result; `truncated` is true |
| Admin analytics | `routers/v1/admin/analytics.py` | none | aggregates | meaning of "scheduled" | counters agree with what is public |
| Guards | `dependencies.py`, router declarations | none | resolve the caller, check the role | two kinds of credential | every route has the right guard |
| OAuth | `services/oauth.py` | Google's certificates | verify a credential | external library | only verified emails |
| Unit of work, pool | `db/session.py` | identity map and snapshot per request; 10 + 5 connections | load, flush, commit, refresh, rollback | net-change detection, expiry off | partial updates; everyone is served in the end |
| Middleware, shell | `middleware/`, `main.py`, `exceptions.py` | none | CSRF origin test, request id, errors | nothing concurrent | |
| Migrations | `migrations/`, `deploy/migrate-prod.sh` | the schema and its data | run all files in order | no ledger: a run that broke off, or did not, is repeated from the first file while the service writes | no data is lost; every run can be repeated to its end; a second run changes nothing |

How they interact: a request is authenticated by the guard, which reads the
caller's `User` row; the router calls one service, which runs a few statements
in the request's own session; the answer is built from the refreshed object.
Components meet only in the tables: role changes bear on sessions, keys and
other role changes through `User`; article writes bear on bookmarks through
`Article`.

## Modules

| Module | Models |
|---|---|
| `UnitOfWork` | net-change detection and the UPDATE of the changed columns (SQLAlchemy, external), as constant operators |
| `ArticleCatalogue` | abstract: entries with ids never used again and slugs never shared; one entry changes per step |
| `Articles` | the article write path, statement by statement |
| `Accounts` | sign-ins and role changes, statement by statement |
| `Sessions` | tokens of one account against the clock, sign-outs and role changes |
| `ApiKeys` | the key of one account: issue, rotate, revoke, demote, resolve |
| `Bookmarks` | toggles composed with all of `Articles` (by INSTANCE) |
| `PublicReads` | an infinite scroll and the sitemap, statement by statement, under the staff's commits |
| `Payload` | the two validation layers of an article body, field by field, and the editor who loads and saves again |
| `Migrations` | the files as commits over the columns they touch, with crashes, repeated runs and the service beside them |
| `WebUrls` | the backlog of web URLs, statement by statement, and an editor who works through it |
| `MC*` | instances for TLC; `*_proofs` hold the theorems |

Conventions shared by the modules:

- **A worker is a request being handled.** Its record in `req` (or `toggles`)
  is its program counter, the object as its session loaded it, and what it has
  assigned. A worker is ready for any request again once it has answered.
- **A step is one SQL statement** together with the Python up to the next one.
  The engine sets no isolation level, which leaves PostgreSQL's READ
  COMMITTED: each statement sees what has been committed by then. The flush and the COMMIT of a
  service are one step: every transaction modelled writes one row with one
  statement, whose row lock or index entry it holds until its commit, so
  nothing can come between that another transaction could see.
- **Sessions are created with `expire_on_commit=False, autoflush=False`**
  (`db/session.py:39`): the loaded snapshot stays as it was, which is why it can
  be stale and why `UnitOfWork!Dirty` compares with it.
- **Unhandled exceptions are the answer 500.** An INSERT refused by a unique
  index (`IntegrityError`), an UPDATE of a row that is gone (`StaleDataError`)
  and a refresh of one (`InvalidRequestError`) all end there; the sequence has
  moved all the same. A DELETE of a row that is gone only warns.
- `Null` is SQL NULL and JSON null; `Unset` an absent key or a column that was
  not assigned. A definition named after "Mutant of" in its comment is not part
  of the model: it is a plausible bug, kept to show that a property notices it.

### Articles

`CreatePost`, `PublishArticle`, `UpdatePost`, `SetStatus` and `DeletePost` start
a request with its first SELECT; `CheckSlug`, `Insert`, `CommitUpdate`,
`CommitDelete` and `Refresh` are the later statements. `BuildArticleData` keeps
what decides: a null slug or status is dropped, a null date is passed on, the
author columns are assigned from the caller in every case
(`article_writes.py:93`). The remaining columns (title, HTML, dates of the
recruitment, links, tags) are one column `content`, normalised by the constant
`Clean`. `WithPublishStamp` and `WithUpdateStamp` are the conditional stamps; an
explicit null in the body is stamped like an absent date, but only when the row
that was loaded has none.

### Accounts

`SignIn` and `Insert` are `upsert_oauth_user`; `UpdateRole` and `LoadTarget` the
role change; `CommitUpdate` and `Refresh` end both. What Google can say is the
constant `Credentials`: pairs of subject and email, so that a person can move to
another address and a mailbox can change hands. Profile columns are left out.

### Sessions

One account, for accounts share nothing here. The clock counts fractions of a
second; a claim is rounded down to seconds, a stamp is not. `SignIn` reads the
role, `Mint` the clock; `Logout`, `Stamp` and `CommitLogout` are authentication,
the assignment and the commit of a sign-out. `minted` and `signOut` are history.

### ApiKeys

One account again. A key is named by the clock reading of its issue, and its
hash and prefix are one column, as they are always written together. `IssueApiKey`
loads the row and looks at the role, `AssignKey` is after the hash was computed,
`Commit` the flush. `ended` is history.

### Bookmarks

`ToggleBookmark`, `Look`, then `Add` or `Remove`. `StaffStep` is any step of
`Articles`, by a worker that is not serving a toggle. `delete_for_article` has no caller, so a deleted article
leaves its bookmarks.

### PublicReads

`StartScroll` and `NextPage` are the count of a page (`find_category_page`),
`ShowPage` its rows and the answer, from which the client takes `next_page`;
`StartSitemap` and `CountForSitemap` the rows and the count of the sitemap. The table is reduced to
what is public, with its dates; `Publish`, `Withdraw` and `Redate` are what the
commits of `Articles` do to it. `Position` is the place an article has under
`ORDER BY published_at DESC NULLS LAST, id DESC`, and LIMIT and OFFSET cut a
range of positions. `since` is history.

### WebUrls

`CreateWebUrl` is the parsing and the look for the same URL, `Insert` the rest;
`MarkViewed` and `DeleteWebUrl` load the row, `CommitView` and `CommitDelete`
write. "View all" has three steps, because its UPDATE has no condition and may
find many rows: `MarkAllViewed` sets the stamp, `UpdateAll` is the moment the
UPDATE starts and so decides which rows it finds, `CommitAll` its end. The row
locks it takes in between are not modelled: whatever a view or a deletion commits
while it waits for them is in the table when it ends, and its own value is
written last. What an editor types is a scheme, a host in either case, a port and
invisible characters; `parse_http_url` decides what becomes of each. Titles are
left out, the domain follows from the URL. `ViewTop` is the list, oldest
first, and the opening of its first URL, in one step, which the row may still
leave before it is viewed. `before` is history.

### Payload

`Save` is a PUT of one key, `Publish` the markdown of the publishing API,
`Resave` a PUT of the whole form as `AdminArticle` answers it. `Accepts` is what
the schema refuses (a 422), `Built` one key through `build_article_data`, and
the operators under it are the functions of `utils/` by their names. A text is a
sequence of characters of the seven kinds the code tells apart: a letter in two
cases, a blank, and the marks at which urllib splits a URL (`/`, `;`, `?`, `#`).
A URL is a text whose first character is its scheme. nh3, urllib and the markdown
library are external: what they do to these is modelled, not how. `Limits` has the
caps of `constants/article.py`. `Articles` takes the outcome of all this as `Clean`.

`Canonical` is `urlunparse(urlparse(text))`: fragment, query and params are split off
in this order, each at its first mark, and the mark of an empty one is not written back
(`Hollow`, `HollowParams`). One call can therefore bare what the next call will
drop: `http://h/a ; ? #` takes several saves to settle.

HTML is a sequence of elements. An element has a tag, the size it came with (`size`),
the size nh3 writes it with (`written`, an input: longer if `&`, `>` or a no-break space
becomes an entity or an open tag is closed, shorter if attributes go) and
the number of times the forced attributes are on it (`forced`). `Length` adds these up
and is what the schema caps. `Rendered` gives the elements of markdown, each longer than
its source by its tags. Two facts about the library are assumed: what nh3 has written it
writes again as it is (`size` becomes `written`, and stays it), and the pattern
`<a\s` of `html.py:60` meets nothing but anchors in it.

### Migrations

One action per commit of a file, in the order of `Steps`: `PreserveTags` (0000),
`AddEditor`, `AddKeyColumns`, `RenameCover`, `RemoveSaved`, then `Recategorise`
and `DropUnused` (0005, whose statements commit one by one), `ClearCovers`,
`RetireSubscriptions` (0007) and `ClearOrphans` (0008), with which a run is
complete. A file that finds its work done skips it; one that fails ends the run
(`Fail`: `ON_ERROR_STOP` and `set -e`). `schema` has those columns and enum
labels that some step or some request depends on, and a request that needs one
that is not there, or loads a label that is not one of its own, is a 500 and no
step. This goes by rows: between 0003 and 0005 an article of a category that both
services know can be edited, deleted and bookmarked, one labelled `job` cannot be loaded
(`Loads`). `Crash` breaks a run off between two commits, `Start` begins at the
first file again. `StoreCover` to `ToggleBookmark` are the committed writes of
the service on the columns the files touch. `quiet`, `origin` and `edited` are
history.

## Runs

Passing runs (TLC explores everything, deadlock included):

| Run | Shows |
|---|---|
| `articles_race` | Two requests, two slugs, two ids, all five operations. Among the bodies is the form of an undated draft, renamed and published, which sends `published_at` null. `PartialUpdate` rests on the flush of changed columns; `UndatedOnlyByClearing`, on the stamps of four handlers together, says who can leave a published article without a date. `ImplementsCatalogue` checks the refinement of `ArticleCatalogue`. |
| `articles_serial` | One request at a time, of either of two members of staff, three clock readings. No 500 (`OnlyDocumentedStatuses`), what was assigned is in the row after the commit (`SentIsApplied`), the first publication date sticks, every change readers see moves `updated_at` (`ChangeMovesLastmod`), and nothing else does but a change of author (`LastmodOnlyWithAnEdit`). What holds of the five when requests overlap, and what the exception means, is in "What the code does not ensure". |
| `accounts_race` | Two requests, an admin and an editor to begin with, a mailbox that changes hands. `IdentityUnique` (by the indexes), `RoleOnlyByAdmin`, and `LastAdminByOverlap`: what refusing self-changes does achieve. |
| `sessions_race` | Two requests: `SignOutWorks` at sub-second grain, `NewSessionWorks`, `RevivedOnlyByOverlap` (the only way a signed-out session returns), and the liveness property `SessionsEnd`. |
| `apikeys_race` | Two requests: `EndedKeyStaysDead`, `KeyHasItsDate`, and how a key can be born revoked (`BornRevokedByOverlap`). |
| `bookmarks_race` | Two workers, each a toggle of one of two readers or a staff request: `DeletedStaysNull`, `AnswerHolds`. |
| `reads_race` | Up to two commits during a scroll or a sitemap. Which of them make a scroll miss an article (`NothingSkipped`), show one twice (`NothingRepeated`) or go on to an empty page (`MorePromisesMore`), or a sitemap wrong about itself (`TruncatedTellsIt`). |
| `backlog_race` | Two requests over one URL in two spellings, another one, and what is refused. `UrlUnique` rests on the index; `AllViewed`, that nothing that was listed when "view all" came is unviewed when it is answered; `NothingReturns`, that a view under way neither unviews nor restores a URL; and the liveness property `NothingSitsUnseen`. |
| `payload_forms` | Every input of the bounds for each field, and untouched saves until nothing changes any more (`echoes` counts to four). Limits hold whatever was sent (`WithinLimits`: widths of columns and what `/admin/meta` publishes); no duplicate takes a place from a keyword (`KeywordsFirst`); what was stored is accepted again (`StoredIsAccepted`), and an untouched save is quiet (`UntouchedSaveIsQuiet`), each with the exception the code has. |
| `migrate_rerun` | Three runs, two crashes between any two commits, writes of the service at any moment. `TagsKept`: no link is lost or doubled. `RerunIsHarmless`: what "a no-op" comes to. `EveryRunEnds` (liveness): no file fails on what an earlier run, whole or broken off, has left. |

The type invariants of `Accounts`, `ApiKeys`, `PublicReads` and `WebUrls`, and
the uniqueness of slugs and bookmarks, have theorems instead of a run.

Runs that TLC finds violated, each against a sentence of the repository:

| Run | The sentence | What happens |
|---|---|---|
| `accounts_no_admin` | `README.md:184` | two admins demote each other at once |
| `sessions_revived` | `services/tokens.py:4` | of two overlapping sign-outs the earlier stamp is stored last, and revives a session |

### Bounds

Two workers are what a race here needs: every property that fails by
interleaving fails with two, and the theorems cover any number. Two slugs give
a rename somewhere to go and somewhere to collide; two ids one article to be
deleted and a later one that could take its place. Two ticks a second separate "same second"
from "same instant". One session token is enough, for tokens share nothing but
the account's row, which every one of them only reads. `MaxId`, `MaxTokens`, `MaxBookmarkId` and `MaxTime` stop
new work from starting and never stop work that is under way, so a deadlock TLC
reported would be the system's; the clocks run long enough for every lifetime
to end. Tokens are minted only if they expire by `MaxTime`, without which
`SessionsEnd` would fail for want of time. Workers (and slugs, in `Articles`)
are symmetric; `sessions_race` and `backlog_race`, which have liveness properties, use no symmetry.
In `backlog_race` two ids and two readings of the clock suffice: a row to be found and one that slips in
under the UPDATE, a stamp that is old and one that is new.
`reads_race` starts from every list of up to four articles with two dates or
none, so that ties and undated articles occur, with pages of one and two and a sitemap of at most two; its
lists fit under `MAX_LIST_PAGE` pages (for longer ones see below).

`payload_forms` takes every text up to a length past each cap, so that a cut can
fall on a blank, inside a word or on nothing, with caps of two to four; lists
have one entry more than their cap, and a smaller one for the shape of the
entries. A URL has nine places, which is room for what settles last: a path of three
marks with blanks before each, cut behind the third. A body has up to four
elements under a cap of four, among them elements that nh3 lengthens or shortens and
an anchor that has been here before. An article is edited once: no rule reads another key or what was stored
before. `migrate_rerun` has one article and one person: no file relates two rows
of a table, and a bookmark needs one of each. Bookmarks may be there without
either. Three runs are what it takes to see a third one change nothing, two
crashes let a run be broken off twice at different places. Deadlock is not
checked there: when `MaxPasses` runs are done and the service has nothing to
write, the system has stopped.

### Fairness

`Sessions` has `WF_vars(Tick)`, that time passes. No request is assumed to make
progress there, for a client can hang, and `SessionsEnd` does not need it.

`WebUrls` has weak fairness of each worker's `Continue`: a request that has begun
goes on to its next statement, because a handler is a finite sequence of
statements in the event loop, and a row lock it waits for is gone with the
holder's commit. And it has strong fairness of `ViewTop`: whenever it
can be done again and again, an editor opens the URL at the top of the list. That is not of
the code but of the people: `services/web_urls.py:3` has them work through
the backlog, least recently seen first. It must be strong, because every worker
may be busy in between. Neither makes anybody look at a given URL; that the order
of the list does so is the property.

`Migrations` has weak fairness of `Start` and of `Migrate`: whoever deploys starts
the run again until it completes (there is no ledger, so the first file is the only
place to begin), and a run that nothing interrupts makes its next step. Crashes are
unfair and bounded; the service may write or not.

There is no other liveness to state: nothing waits for anything but the pool.

## Theorems

All hold for every value of the constants that meets the module's assumption,
for any number of requests at once, and without the bounds on ids and time
being small.

**Articles.** `TypeCorrect`; on it, `SlugsStayUnique` and `CatalogueImplemented`:
`OnlyCommitsWrite` reduces every step to an insert, an update or a delete of one
row, and each is an action of the catalogue because the index refuses the
others. `DatesGoOnlyByClearing` holds for whatever bodies, null dates among them,
and needs a strengthening, `DatedInv`: a request that is about to publish an article
carries a date or loaded one, whatever the body said. `EditsMerge` follows from `Flush`.

Five theorems assume `Workers = {w}` and say what the code achieves when requests
do not overlap: `AloneAnswersAreDocumented`, `AloneSentIsApplied`,
`AloneFirstStampSticks`, `AloneChangeMovesLastmod` and `AloneLastmodOnlyWithAnEdit`.
They stand on one inductive invariant, `AloneInv`:
between its statements the request's loaded row is the row there is (`Fresh`), the slug it
will insert or assign is still free, and it has assigned an update stamp exactly
if it has made a net change, no earlier than the row's own (`Planned`). Each of
these is what an overlapping request would take away.

**Payload**, in `Articles_proofs` as the payload is part of the write.
`LimitsAreKept`, `StoredComesBack`, `KeywordsStayFirst` and `UntouchedSavesAreQuiet` hold
for all positive limits (a cover has room for a scheme and a host) and for texts, lists and
bodies of any length. The loops of the normalisers are recursive functions
over positions. Of such a function the provers know nothing to begin with, not even that it exists: `LoopRuns`
proves that a loop over n items has a run, by induction on n, and `PickRuns` and
`KeywordRuns` that the runs of `Pick` and of the loop over keywords are what the
definitions denote. Induction is done without an operator as parameter: the claim
is the set of the numbers it holds of, and `LeastNumber`, from the well-foundedness of the
naturals, gives the first one where it fails (`UpTo`). On it stand the lemmas on
what each normaliser returns (`CapType` to `HtmlType`), and the invariant
`PayloadInv`: each column holds what it can hold (`Storable`), and a keyword edit,
until something is saved after it, is what is stored. `HtmlSettles` says that a sanitised body is sanitised
to itself, from which it follows that a form that was accepted once is accepted ever
after. `InOrder` says of the keywords
kept after n items that they are those with the fewest firsts before them.
`UntouchedSavesAreQuiet` rests on `After`: what a column looks like that has been
normalised once and then saved s times more. Each normaliser is shown to return
something that satisfies `After` with 0 and to take it from each s to s + 1, up to 4
(`TextSettles` and `UrlSettles` for a text and a URL, then element by element and column
by column up to `FormSettles`), and to leave alone what has come to 4. Four are needed
for a URL that a cut has left with three marks and blanks before them: its `Rank` is the
first of the three parts it still has (fragment, query, params), a save that changes it
lowers the rank, and the blank that is left after the last one is trimmed by one save more. `CalmIsDone`
says that without a frayed end 0 is as good as 4. A form that is refused stays what it
is, so `QuietInv` asks more than 0 only of a form that is accepted.

**Accounts.** `OneAccountPerIdentity` needs that no update assigns an email
(`EmailKept`); `RolesComeFromAdmins` that whatever request carries a role was
authorised for someone else (`RolesGranted`); `LastAdminGoesByOverlap` combines
the two facts. `SerialKeepsAnAdmin` proves `AdminExists` under the assumption
`Workers = {w0}`, along `AdminBacked`: the actor of a request under way is still
an admin, other than the target. The run `accounts_no_admin` shows that the
assumption cannot be dropped.

**Sessions.** `NewSessionsWork` along `StampsInOrder` (a stored stamp is no later
than the last answered sign-out; a stamp about to be committed is no earlier than its
request) and a lemma on rounding; `RevivalIsAnOverlap` along the same;
`SignOutsWork` needs only that a stamp about to be stored is no earlier than its
request;
`SerialSignOutHolds`, for `Workers = {w0}`, along `StampCovers` (the stored stamp
covers every answered sign-out).

**ApiKeys.** `EndedKeysStayDead` and `KeysHaveTheirDate` along one inductive `Inv`:
requests about to commit a key carry hash and date together, no two carry the
same one (`RequestsInOrder`), and a stored key that has ended is marked revoked
(`EndedIsRevoked`), which holds because a revocation is lifted only in the UPDATE
that replaces the key. `RevocationsAreLifted` says what an overlapping
revocation can do at most, along `IssuesLift`: a request about to commit a key clears
the revocation it has loaded.

**Bookmarks.** `Inv` adds to `TypeOK` that article ids in use are below the
sequence (`ArticleIds`, proved anew for the instance) and that a toggle about to
delete holds its own reader's row or one that is gone (`TogglesOwn`), which needs
that ids are not used again. From it follow all four properties.
`ReadersDisturbNoArticle` is the composition: seen through the article variables,
every behaviour with readers is one of `Articles`, whose theorems hold there too.

**PublicReads.** The first half of the proofs is about lists: the order is
strict and total, an article's position is the number of newer ones, no two
articles have one position (`PositionsDiffer`) and there is no gap
(`PositionsAreFilled`, by counting). On it, with the ceiling division of
`total_pages`, stands `ScrollInv`: what was not shown is below the pages shown while nothing leaves, what was
shown is above the pages to come while nothing comes in, and a promised page
begins inside the list. `NothingIsSkipped`, `NothingIsRepeated` and `MoreIsKept`
follow, for lists that fit under `MAX_LIST_PAGE` (`ListFits`); `TruncatedIsTrue`
and `TypeCorrect` need no such assumption.

**WebUrls.** `Inv` adds to `TypeOK` and `UrlUnique` what makes "view all" complete
(`AllFound`): the rows its UPDATE has found take in whatever was listed when it
came and still is, since ids are not used again. `UrlsStayUnique`, `AllAreViewed`
and `NothingComesBack` follow, without the fairness. `AloneViewsGoForward`, for
`Workers = {w}`, says that no date of a view goes back then, along `Latest`: the
stamp of a request that is about to date rows is the latest there is.

**Migrations.** `Inv` says for each step what a run that has come this far has
made of the schema (`SchemaInv`; `views` is there while `saved` is, so that 0004 can
build its index), that a completed one left the new schema
(`PassedInv`), that links wait in their column until 0000 has copied them and
that 0003 comes only then (`TagsInv`), and what undisturbed runs have left of
Instagram covers, orphans and inert accounts (`QuietInv`). `NoTagIsLost` follows
from it, and `RepeatingIsHarmless` from it and one lemma per file about what it
makes of a row, for any database the chain may start from, any number of crashes
and runs, and any writes of the service. `NoFileFails` says that a run ends by
completing or by a crash and never at a file that fails, which is the safety half of
`EveryRunEnds`; `NoSecretIsLeft` that after a completed run the schema and the
secrets stay as it left them.

`TypeCorrect` is proved for each of the first eight modules; `Payload` has
`PayloadInv`. The assumptions are the `ASSUME`s
of the modules (types of constants, `Null`, `Unset` and `None` being no values, a
deployed table that respects its own indexes and has an admin), and
they are evaluated by TLC in every run.

Only model-checked: `SessionsEnd`, `NothingSitsUnseen` and `EveryRunEnds` (liveness
and ENABLED are beyond the prover), and of course the violations.

## What the code does not ensure

Beyond the two violated runs, the models and the reading behind them show the
following; none has a run of its own.

- Losing a race is a 500, which no route documents: the second of two creations
  of one slug, account, or bookmark, an update of an article just
  deleted, a renamed slug just taken. A write may have been made although the
  answer is 500, when the row goes between COMMIT and refresh.
- An untouched save by another member of staff moves `updated_at`, for the author
  columns are assigned from whoever saves (`article_writes.py:93`), although
  "opening the editor and pressing Save without touching anything leaves the date
  alone" (`articles.py:415`). `LastmodOnlyWithAnEdit`, checked with two authors, has
  the author as its exception for this; without it, TLC finds the second author's
  save within a few steps.
- Even one's own untouched save can change a row: a cap leaves a blank at
  the end of a text, or a mark or a blank at the end of a URL, and the next saves
  drop them one after the other. After the fourth save nothing is left to change.
- The limits are not all where `constants/article.py:44` puts them: `HTML_CONTENT_MAX`
  is in the schema alone, and the caps of keywords, meta texts and lists of URLs
  in the normalisers alone. A body is measured before it is rendered from markdown, before
  nh3 escapes `&`, `>` and no-break spaces and closes tags, and before `rel` and
  `target` are forced on its links. If these take it over the cap it is stored all the
  same, and the form that holds it is refused with 422 until it is shortened.
- A blank title passes `min_length` and is stored as "". An unknown category becomes
  BLOG without a word.
- An archived article stays in a reader's list of bookmarks (`bookmarks.py:32`
  joins on the id alone), although the entry is to be null "when the article was
  deleted or unpublished" (`schemas/bookmark.py:21`).
- "Re-running the whole directory is a no-op" (`migrations/README.md`) holds only of
  what nobody has touched. 0006 clears an Instagram link an editor has stored as a cover,
  and 0000 no longer copies it to the tags; 0008 deletes bookmarks that have
  become orphans; and 0007 finds, on the second run, accounts whose last bookmark was
  an orphan that the first run's 0008 deleted after its 0007.
- A key that was sent and equals the (stale) loaded value is not written, so an
  editor who restores a title that another editor has just replaced loses the
  edit with a 200. `SentIsApplied` therefore is a property of one request at a time.
- Two overlapping publications both see no date and both stamp; the later one
  stays.
- `{"published_at": null}` alone, sent for a published article, leaves it published and
  undated: the stamp looks at the status in the body and at the date of the row that
  was loaded. Of two overlapping requests, one that clears the date and one that
  publishes, each may be in order alone and the article undated afterwards.
  `UndatedOnlyByClearing` says that there is no other way.
- A person whose Google address changed is looked up by the new one, not found,
  and refused by the index on `google_id`: a 500 on every sign-in.
- A token minted in the second of a sign-out is refused at once; one minted as
  reader lives 30 days although its owner was promoted meanwhile.
- A key issued while the old one is being revoked can be born revoked. One issued
  while its owner is being demoted is left with a plain user, although "issuing one for
  a plain `user` is refused" (`README.md:206`), and works once the account is promoted
  again: `issue` looks at the role of the row it was given, before the slow hash.
- A key does not die on demotion (`README.md:209`) but sleeps: `resolve_api_key`
  looks at the role of the moment, the demotion leaves the hash, and whoever is
  promoted again has the old key back.
- The date of a view can go back: of two overlapping ones the earlier stamp may be
  committed last. And a URL that is added after "view all" took its stamp and
  before its UPDATE starts is marked viewed though nobody saw it listed.
- `parse_http_url` leaves the case of the host in the URL it returns, so that one page typed
  in two ways is two rows with one domain. A bare host with a port is taken for a
  scheme and refused, although `https://` is to be put before a bare host
  (`utils/urls.py:67`).
- An article archived or deleted between the toggle's two looks is bookmarked.
  A toggle whose row is already gone answers "not bookmarked" although another
  toggle may have put a new one there.
- "Scheduled" articles, published with a date to come, are counted as not yet
  public by the dashboard (`articles.py:287`) and served by the public routes,
  whose filter is on the status alone.
- A scroll has offsets and no cursor. An article archived between two pages
  makes the reader miss another one; one published meanwhile is followed by one
  shown twice; one published between the count and the rows of the last page
  pushes an article out of sight, for `has_more` was computed before.
- An article archived between the rows and the count of the sitemap, when one
  more than the cap was public, leaves `truncated` false and an article missing.
- `next_page` is not clamped as `page` is: past `MAX_LIST_PAGE` a client is sent
  to a page that is answered with the last one.

## Plan

Done, in this order: `Articles` with `UnitOfWork` and `ArticleCatalogue`,
`Accounts`, `Sessions`, `ApiKeys`, `Bookmarks`, `PublicReads`, `WebUrls`,
`Migrations` and `Payload`, each with its theorems.

What is left, should it be wanted: `Console`, the composition of `Accounts`, `Sessions` and `ApiKeys` over one
`User` row, with `current_user` choosing between the credentials: what a
demotion, a sign-out and a revocation together leave open.

## Not modelled

Admin analytics, search, facets and the lists without pages (single statements
over no state of their own), OAuth verification (Google's library; its outcome is
`Credentials`), the middleware, configuration, logging and health probes
(stateless), the connection pool (the queue is SQLAlchemy's; the code sets its
size, overflow and timeout, and a request holds one connection from its first statement
to its end, so that nothing can wait in a circle), and the static assignment of guards to routers, which
`tests/test_route_guards.py` tests route by route. nh3, the markdown library and
urllib are external: `Payload` models what they decide for the few kinds of
element and character the code tells apart. Crashes of the
process lose only the requests under way, which is the same as a request that
never takes its next step, and that every specification here allows.

## Running

    tlc -config articles_race.cfg MCArticles
    tlapm Articles_proofs.tla

`PROJECT.json` lists every run, its module and configuration, the source lines
each definition stands for, the hazards and the properties that cover them.
