------------------------------- MODULE WebUrls ------------------------------
(***************************************************************************)
(* The backlog of web URLs (routers/v1/admin/web_urls.py,                  *)
(* services/web_urls.py): add, view, view all, delete, one SQL statement a *)
(* step, and an editor who works through the list from the top.            *)
(***************************************************************************)
EXTENDS Integers, FiniteSets

CONSTANTS
  Workers,         \* requests the service handles at once
  Hosts,           \* host names, in lower case
  TooLong,         \* those longer than WEB_URL_DOMAIN_MAX
  Inputs,          \* what editors paste
  Null,
  MaxId, MaxTime   \* bounds: no URL is added and no clock goes on past these

VARIABLES
  web_urls,  \* the "WebUrl" table: a row for each id in use
  nextId,    \* its id sequence
  now,       \* now_ist()
  req        \* what each worker is doing

vars == <<web_urls, nextId, now, req>>

\* A URL as typed: with a scheme or without, a host that may be in capitals or
\* empty, perhaps with a port, perhaps among invisible or fullwidth characters.
Typed == [scheme : {"none", "http", "HTTP", "other"}, host : Hosts \cup {Null},
          capital : BOOLEAN, port : BOOLEAN, junk : BOOLEAN]

ASSUME WebUrlsAssumption ==
  /\ TooLong \subseteq Hosts
  /\ Inputs \subseteq Typed
  /\ Null \notin Hosts \cup Nat
  /\ MaxId \in Nat /\ MaxTime \in Nat

Url == [scheme : {"http", "https"}, host : Hosts, capital : BOOLEAN, port : BOOLEAN]

\* The title is left out, and the domain is the host in lower case.
Row == [url : Url, last_viewed_at : Nat \cup {Null}, created_at : Nat]

Listed == DOMAIN web_urls

\* began: when the transaction began, which is created_at of what it inserts;
\* loaded: last_viewed_at as it was loaded; ids: the rows an UPDATE finds;
\* before: history, the rows there were when a "view all" came
Request == [pc : {"idle", "insert", "view", "delete", "update all", "commit all", "refresh"},
            code : {200, 201, 204, 404, 409, 422, 500},
            url : Url \cup {Null}, id : Nat, loaded : Nat \cup {Null}, began : Nat,
            ids : SUBSET Nat, before : SUBSET Nat]

Answered(code) == [pc |-> "idle", code |-> code, url |-> Null, id |-> 0, loaded |-> Null,
                   began |-> 0, ids |-> {}, before |-> {}]

-----------------------------------------------------------------------------
(* utils/urls.py *)

\* https:// is put before a bare host, and urlparse puts a scheme in lower case.
\* With a port, a bare host is taken for a scheme (_SCHEME).
Scheme(typed) ==
  CASE typed.scheme = "none" -> IF typed.port THEN "other" ELSE "https"
    [] typed.scheme = "HTTP" -> "http"
    [] OTHER -> typed.scheme

\* parse_http_url: Null if it is refused.  The junk is dropped, the case of the
\* host is not.
parse_http_url(typed) ==
  IF Scheme(typed) = "other" \/ typed.host = Null
    THEN Null
    ELSE [scheme |-> Scheme(typed), host |-> typed.host, capital |-> typed.capital,
          port |-> typed.port]

-----------------------------------------------------------------------------
Init ==
  /\ web_urls = [i \in {} |-> Null]
  /\ nextId = 1
  /\ now = 1
  /\ req = [w \in Workers |-> Answered(200)]

Ready(w) == req[w].pc = "idle"

Answer(w, code) == req' = [req EXCEPT ![w] = Answered(code)]

Begun == [Answered(200) EXCEPT !.began = now]

ByUrl(url) == {i \in Listed : web_urls[i].url = url}

\* POST /admin/web-urls, to find_by_url
CreateWebUrl(w, typed) ==
  LET url == parse_http_url(typed)
  IN  /\ Ready(w)
      /\ nextId <= MaxId   \* bound
      /\ \/ /\ url = Null \/ typed.host \in TooLong
            /\ Answer(w, 422)
         \/ /\ url # Null /\ typed.host \notin TooLong
            /\ ByUrl(url) # {}
            /\ Answer(w, 409)
         \/ /\ url # Null /\ typed.host \notin TooLong
            /\ ByUrl(url) = {}
            /\ req' = [req EXCEPT ![w] = [Begun EXCEPT !.pc = "insert", !.url = url]]
      /\ UNCHANGED <<web_urls, nextId, now>>

\* create, mark_viewed: what is left is the refresh of the row
AfterCommit(w, id, code) ==
  req' = [req EXCEPT ![w] = [Answered(code) EXCEPT !.pc = "refresh", !.id = id]]

\* Mutant of UniqueRefuses
NoConstraint(url) == FALSE

\* WebUrl.url is unique.
UniqueRefuses(url) == ByUrl(url) # {}

\* create: INSERT and COMMIT.  Nothing handles the IntegrityError: 500.
Insert(w) ==
  LET r   == req[w]
      row == [url |-> r.url, last_viewed_at |-> Null, created_at |-> r.began]
  IN  /\ r.pc = "insert"
      /\ nextId' = nextId + 1
      /\ IF UniqueRefuses(r.url)
           THEN Answer(w, 500) /\ UNCHANGED web_urls
           ELSE /\ web_urls' = [i \in Listed \cup {nextId} |->
                                  IF i = nextId THEN row ELSE web_urls[i]]
                /\ AfterCommit(w, nextId, 201)
      /\ UNCHANGED now

\* POST /admin/web-urls/{id}/view, to the assignment of now_ist()
MarkViewed(w, id) ==
  /\ Ready(w)
  /\ \/ id \notin Listed /\ Answer(w, 404)
     \/ /\ id \in Listed
        /\ req' = [req EXCEPT ![w] = [Begun EXCEPT !.pc = "view", !.id = id,
                                                   !.loaded = web_urls[id].last_viewed_at]]
  /\ UNCHANGED <<web_urls, nextId, now>>

\* Mutant of CommitView: the row is written as it was loaded.
CommitViewAsLoaded(w) ==
  /\ req[w].pc = "view" /\ req[w].id \in Listed
  /\ web_urls' = [web_urls EXCEPT ![req[w].id].last_viewed_at = req[w].loaded]
  /\ AfterCommit(w, req[w].id, 200)
  /\ UNCHANGED <<nextId, now>>

\* mark_viewed: the UPDATE, unless the stamp is what was loaded, and COMMIT.
\* A row that is gone is a StaleDataError: 500.
CommitView(w) ==
  LET r == req[w]
  IN  /\ r.pc = "view"
      /\ \/ /\ r.began # r.loaded /\ r.id \notin Listed
            /\ Answer(w, 500)
            /\ UNCHANGED web_urls
         \/ /\ r.began # r.loaded /\ r.id \in Listed
            /\ web_urls' = [web_urls EXCEPT ![r.id].last_viewed_at = r.began]
            /\ AfterCommit(w, r.id, 200)
         \/ /\ r.began = r.loaded
            /\ AfterCommit(w, r.id, 200)
            /\ UNCHANGED web_urls
      /\ UNCHANGED <<nextId, now>>

\* create, mark_viewed: the refresh, which fails if the row is gone
Refresh(w) ==
  /\ req[w].pc = "refresh"
  /\ Answer(w, IF req[w].id \in Listed THEN req[w].code ELSE 500)
  /\ UNCHANGED <<web_urls, nextId, now>>

\* POST /admin/web-urls/mark-all-viewed, to the stamp
MarkAllViewed(w) ==
  /\ Ready(w)
  /\ req' = [req EXCEPT ![w] = [Begun EXCEPT !.pc = "update all", !.before = Listed]]
  /\ UNCHANGED <<web_urls, nextId, now>>

\* Mutant of Found: only rows that were viewed before are found.
FoundViewed == {i \in Listed : web_urls[i].last_viewed_at # Null}

\* mark_all_viewed: the rows its UPDATE, which has no condition, finds when it starts
Found == Listed

UpdateAll(w) ==
  /\ req[w].pc = "update all"
  /\ req' = [req EXCEPT ![w].pc = "commit all", ![w].ids = Found]
  /\ UNCHANGED <<web_urls, nextId, now>>

\* mark_all_viewed: the UPDATE has locked what it found, as far as it is still
\* there, and commits.
CommitAll(w) ==
  LET r == req[w]
  IN  /\ r.pc = "commit all"
      /\ web_urls' = [i \in Listed |->
                        IF i \in r.ids THEN [web_urls[i] EXCEPT !.last_viewed_at = r.began]
                                       ELSE web_urls[i]]
      /\ Answer(w, 200)
      /\ UNCHANGED <<nextId, now>>

\* DELETE /admin/web-urls/{id}, to get_by_id
DeleteWebUrl(w, id) ==
  /\ Ready(w)
  /\ \/ id \notin Listed /\ Answer(w, 404)
     \/ /\ id \in Listed
        /\ req' = [req EXCEPT ![w] = [Begun EXCEPT !.pc = "delete", !.id = id]]
  /\ UNCHANGED <<web_urls, nextId, now>>

\* delete: a row that is gone only logs a warning.
CommitDelete(w) ==
  /\ req[w].pc = "delete"
  /\ web_urls' = [i \in Listed \ {req[w].id} |-> web_urls[i]]
  /\ Answer(w, 204)
  /\ UNCHANGED <<nextId, now>>

Tick ==
  /\ now < MaxTime   \* bound
  /\ now' = now + 1
  /\ UNCHANGED <<web_urls, nextId, req>>

Start(w) ==
  \/ \E typed \in Inputs : CreateWebUrl(w, typed)
  \/ \E id \in 1 .. nextId : MarkViewed(w, id) \/ DeleteWebUrl(w, id)
  \/ MarkAllViewed(w)

Continue(w) ==
  \/ Insert(w)
  \/ CommitView(w)
  \/ Refresh(w)
  \/ UpdateAll(w)
  \/ CommitAll(w)
  \/ CommitDelete(w)

Next == Tick \/ \E w \in Workers : Start(w) \/ Continue(w)

-----------------------------------------------------------------------------
(* The editor *)

\* Mutant of Before: unviewed rows come last.
BeforeUnviewedLast(i, j) ==
  LET a == web_urls[i]
      b == web_urls[j]
  IN  \/ a.last_viewed_at # Null /\ b.last_viewed_at = Null
      \/ a.last_viewed_at # Null /\ b.last_viewed_at # Null
           /\ a.last_viewed_at < b.last_viewed_at
      \/ a.last_viewed_at = b.last_viewed_at
           /\ (a.created_at < b.created_at \/ (a.created_at = b.created_at /\ i < j))

\* list_urls, sort "oldest": last_viewed_at with nulls first, created_at, id
Before(i, j) ==
  LET a == web_urls[i]
      b == web_urls[j]
  IN  \/ a.last_viewed_at = Null /\ b.last_viewed_at # Null
      \/ a.last_viewed_at # Null /\ b.last_viewed_at # Null
           /\ a.last_viewed_at < b.last_viewed_at
      \/ a.last_viewed_at = b.last_viewed_at
           /\ (a.created_at < b.created_at \/ (a.created_at = b.created_at /\ i < j))

\* An editor opens the URL at the top of the list.
ViewTop == \E w \in Workers : \E id \in Listed :
  (\A j \in Listed \ {id} : Before(id, j)) /\ MarkViewed(w, id)

\* Requests are finished, and an editor returns to the top of the list.
Fairness == (\A w \in Workers : WF_vars(Continue(w))) /\ SF_vars(ViewTop)

Spec == Init /\ [][Next]_vars /\ Fairness

-----------------------------------------------------------------------------
(* Properties *)

\* Stored URLs are in the form of parse_http_url, ids come from the sequence, no
\* date is in the future, and a request about to write knows what.
TypeOK ==
  /\ nextId \in Nat \ {0}
  /\ now \in Nat
  /\ Listed \subseteq 1 .. nextId - 1
  /\ web_urls \in [Listed -> Row]
  /\ req \in [Workers -> Request]
  /\ \A i \in Listed : /\ web_urls[i].created_at <= now
                       /\ web_urls[i].last_viewed_at # Null =>
                            web_urls[i].last_viewed_at <= now
  /\ \A w \in Workers : /\ req[w].began <= now
                        /\ req[w].pc = "insert" => req[w].url # Null
                        /\ req[w].before \subseteq 1 .. nextId - 1

\* No URL is listed twice, although editors look first and insert later
\* (WebUrl.url, unique).
UrlUnique == \A i, j \in Listed : web_urls[i].url = web_urls[j].url => i = j

\* "Clear the backlog in one action" (web_urls.mark_all_viewed): when it is
\* answered, whatever was listed when the request came is viewed or gone.
AllViewed ==
  [][\A w \in Workers :
       req[w].pc = "commit all" /\ req'[w].pc = "idle" =>
         \A i \in req[w].before \cap Listed' : web_urls'[i].last_viewed_at # Null]_vars

\* A URL that was viewed stays viewed, and one that was deleted stays away, a view
\* that was under way or not (web_urls.mark_viewed, web_urls.delete).
NothingReturns ==
  [][/\ \A i \in Listed \cap Listed' :
          web_urls[i].last_viewed_at # Null => web_urls'[i].last_viewed_at # Null
     /\ \A i \in Listed' \ Listed : i >= nextId]_vars

\* "Never-viewed rows sort first so nothing sits unseen" (services/web_urls.py): an
\* editor who works from the top sees every URL, or it is viewed with all the
\* others or deleted.
NothingSitsUnseen ==
  \A i \in 1 .. MaxId :
    i \in Listed ~> (i \notin Listed \/ web_urls[i].last_viewed_at # Null)
=============================================================================
