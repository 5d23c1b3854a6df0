----------------------------- MODULE PublicReads ----------------------------
(***************************************************************************)
(* What the public reads of articles (routers/v1/public.py) show while     *)
(* staff publish and withdraw them: an infinite scroll through a category, *)
(* and the sitemap.  Both answers are put together from two statements, a  *)
(* count and the rows, and the staff's commits can come between the two    *)
(* and between the pages.                                                  *)
(*                                                                         *)
(* The table is reduced to the articles that are public (for the scroll: in *)
(* its category), with their dates.  A commit of Articles changes one.     *)
(***************************************************************************)
EXTENDS Integers, FiniteSets, Sequences

CONSTANTS
  Ids,               \* article ids
  Dates, Null,       \* what published_at can hold
  PageSizes,         \* values of per_page, clamped
  MAX_LIST_PAGE,
  SITEMAP_MAX_ROWS,
  MaxWrites          \* bound: commits during one scroll or sitemap

VARIABLES
  published,  \* published_at of each public article
  scroll,     \* the scroll of a client
  sitemap,    \* a request for the sitemap
  since       \* history: what happened since the reading began

vars == <<published, scroll, sitemap, since>>

ASSUME PublicReadsAssumption ==
  /\ IsFiniteSet(Ids) /\ Ids \subseteq Nat
  /\ Dates \subseteq Nat /\ Null \notin Nat
  /\ PageSizes \subseteq Nat \ {0} /\ PageSizes # {}
  /\ MAX_LIST_PAGE \in Nat \ {0}
  /\ SITEMAP_MAX_ROWS \in Nat
  /\ MaxWrites \in Nat

\* A list of articles: the date of each, by its id
Lists == UNION {[ids -> Dates \cup {Null}] : ids \in SUBSET Ids}

\* start: the articles that were public when the scroll began; pages: what the
\* answers so far have shown
Scroll == [pc : {"rows", "count", "done"}, page : Nat \ {0}, per_page : PageSizes,
           total : Nat, start : SUBSET Ids, pages : Seq(SUBSET Ids)]

\* total: 0 until it is counted
Sitemap == [pc : {"none", "count", "done"}, rows : SUBSET Ids, total : Nat]

\* left, came: an article has left, has entered a place in the list; slipped:
\* one has come between the count and the rows of the last answer.
Since == [left : BOOLEAN, came : BOOLEAN, slipped : BOOLEAN, writes : Nat]

Undisturbed == [left |-> FALSE, came |-> FALSE, slipped |-> FALSE, writes |-> 0]

NoScroll  == [pc |-> "done", page |-> 1, per_page |-> CHOOSE n \in PageSizes : TRUE,
              total |-> 0, start |-> {}, pages |-> <<>>]
NoSitemap == [pc |-> "none", rows |-> {}, total |-> 0]

Public == DOMAIN published

Idle == scroll.pc = "done" /\ sitemap.pc # "count"

-----------------------------------------------------------------------------
(* schemas/pagination.py *)

\* Mutant of Clamp: the highest page is left out.
ClampBelow(value, low, high) ==
  IF value < low THEN low ELSE IF value < high THEN value ELSE high - 1

Clamp(value, low, high) ==
  IF value < low THEN low ELSE IF value > high THEN high ELSE value

\* Mutant of Offset: pages are counted from 0.
OffsetFromZero(page, per_page) == page * per_page

Offset(page, per_page) == (page - 1) * per_page

TotalPages(total, per_page) ==
  LET ceiling == -((-total) \div per_page)
  IN  IF ceiling > 1 THEN ceiling ELSE 1

\* Mutant of HasMore
HasMoreOnLast(page, per_page, total) == page <= TotalPages(total, per_page)

HasMore(page, per_page, total) == page < TotalPages(total, per_page)

-----------------------------------------------------------------------------
(* services/articles.py *)

\* ORDER BY published_at DESC NULLS LAST, id DESC
Newer(list, i, j) ==
  LET a == list[i]
      b == list[j]
  IN  \/ a = b /\ i > j
      \/ a # b /\ a # Null /\ (b = Null \/ a > b)

Position(list, i) == Cardinality({j \in DOMAIN list : Newer(list, j, i)})

\* find_category_page, list_for_sitemap: LIMIT and OFFSET
Rows(list, limit, offset) ==
  {i \in DOMAIN list : Position(list, i) >= offset /\ Position(list, i) < offset + limit}

SitemapRows == Rows(published, SITEMAP_MAX_ROWS, 0)

\* count_published, and the count of find_category_page
CountPublished == Cardinality(Public)

\* Mutant of Truncated
TruncatedAtCap(answer) == answer.total >= Cardinality(answer.rows)

\* sitemap: what the answer says of itself
Truncated(answer) == answer.total > Cardinality(answer.rows)

-----------------------------------------------------------------------------
Init ==
  /\ published \in Lists
  /\ scroll = NoScroll
  /\ sitemap = NoSitemap
  /\ since = Undisturbed

\* GET /{category}, the first page: the count
StartScroll ==
  /\ Idle
  /\ \E size \in PageSizes :
       scroll' = [pc |-> "rows", page |-> Clamp(1, 1, MAX_LIST_PAGE), per_page |-> size,
                  total |-> CountPublished, start |-> Public, pages |-> <<>>]
  /\ since' = Undisturbed
  /\ sitemap' = NoSitemap
  /\ UNCHANGED published

\* The rows, and the answer: the client goes on with next_page, if there is one.
ShowPage ==
  LET s    == scroll
      rows == Rows(published, s.per_page, Offset(s.page, s.per_page))
  IN  /\ s.pc = "rows"
      /\ scroll' = [s EXCEPT !.pages = Append(@, rows),
                             !.pc    = IF HasMore(s.page, s.per_page, s.total)
                                         THEN "count" ELSE "done"]
      /\ UNCHANGED <<published, sitemap, since>>

\* GET /{category}?page=next_page: the count
NextPage ==
  /\ scroll.pc = "count"
  /\ scroll' = [scroll EXCEPT !.page = Clamp(@ + 1, 1, MAX_LIST_PAGE), !.pc = "rows",
                              !.total = CountPublished]
  /\ since' = [since EXCEPT !.slipped = FALSE]
  /\ UNCHANGED <<published, sitemap>>

\* GET /sitemap: the rows
StartSitemap ==
  /\ Idle
  /\ sitemap' = [pc |-> "count", rows |-> SitemapRows, total |-> 0]
  /\ since' = Undisturbed
  /\ scroll' = NoScroll
  /\ UNCHANGED published

\* The count, and the answer
CountForSitemap ==
  /\ sitemap.pc = "count"
  /\ sitemap' = [sitemap EXCEPT !.pc = "done", !.total = CountPublished]
  /\ UNCHANGED <<published, scroll, since>>

\* A commit of the staff's.  Before a reading begins it would only lead to
\* another of the initial tables.
Write(left, came) ==
  /\ ~ Idle
  /\ since.writes < MaxWrites   \* bound
  /\ since' = [left    |-> since.left \/ left,
               came    |-> since.came \/ came,
               slipped |-> since.slipped \/ (came /\ scroll.pc = "rows"),
               writes  |-> since.writes + 1]
  /\ UNCHANGED <<scroll, sitemap>>

\* An article is published, at whatever date it has or is given.
Publish ==
  \E i \in Ids \ Public, date \in Dates \cup {Null} :
    /\ published' = [j \in Public \cup {i} |-> IF j = i THEN date ELSE published[j]]
    /\ Write(FALSE, TRUE)

\* It is archived, deleted or moved to another category.
Withdraw ==
  \E i \in Public :
    /\ published' = [j \in Public \ {i} |-> published[j]]
    /\ Write(TRUE, FALSE)

\* It is given another date.
Redate ==
  \E i \in Public, date \in Dates \cup {Null} :
    /\ date # published[i]
    /\ published' = [published EXCEPT ![i] = date]
    /\ Write(TRUE, TRUE)

Next ==
  \/ StartScroll
  \/ ShowPage
  \/ NextPage
  \/ StartSitemap
  \/ CountForSitemap
  \/ Publish
  \/ Withdraw
  \/ Redate

Spec == Init /\ [][Next]_vars

-----------------------------------------------------------------------------
(* Properties *)

\* The list is dated, and a sitemap keeps to its cap.
TypeOK ==
  /\ published \in Lists
  /\ scroll \in Scroll
  /\ sitemap \in Sitemap
  /\ since \in Since
  /\ Cardinality(sitemap.rows) <= SITEMAP_MAX_ROWS

\* Nothing that was public all the while is missing from a scroll, unless
\* something has left the list (what follows moves up, to a page already
\* shown) or has come between the count and the rows of the last answer (whose
\* has_more is then that of the shorter list).
NothingSkipped ==
  scroll.pc = "done" /\ ~ since.left /\ ~ since.slipped =>
    \A i \in scroll.start : \E n \in DOMAIN scroll.pages : i \in scroll.pages[n]

\* Nothing is shown on two pages, unless something has come into the list:
\* "without it [the id], paging can repeat one article on two pages"
\* (articles.find_category_page).
NothingRepeated ==
  ~ since.came =>
    \A m, n \in DOMAIN scroll.pages : m # n => scroll.pages[m] \cap scroll.pages[n] = {}

\* Unless something has left, the page that has_more promised has something to
\* show (schemas/pagination.py: has_more and next_page "for infinite scroll").
MorePromisesMore ==
  ~ since.left =>
    \A n \in DOMAIN scroll.pages : n > 1 => scroll.pages[n] # {}

\* "truncated says whether the cap was hit, so a client can fail loudly rather
\* than publish a partial sitemap and never notice" (public.sitemap): unless
\* something has left between its two statements, the sitemap says that it is
\* truncated exactly when it misses an article.
TruncatedTellsIt ==
  sitemap.pc = "done" /\ ~ since.left =>
    (Truncated(sitemap) <=> ~ (Public \subseteq sitemap.rows))
=============================================================================
