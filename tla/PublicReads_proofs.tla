------------------------- MODULE PublicReads_proofs -------------------------
(***************************************************************************)
(* Theorems about PublicReads.  The first half is about lists alone: the   *)
(* order by date and id puts every article at a position of its own, from  *)
(* 0 on without a gap.  The second half needs of a page only that.         *)
(***************************************************************************)
EXTENDS PublicReads, FiniteSetTheorems, TLAPS

-----------------------------------------------------------------------------
(* Lists *)

\* Every list is of some of the ids, which are finitely many numbers.
LEMMA ListsAreFinite ==
  ASSUME NEW f \in Lists
  PROVE  /\ DOMAIN f \subseteq Ids /\ DOMAIN f \subseteq Nat
         /\ f \in [DOMAIN f -> Dates \cup {Null}]
         /\ IsFiniteSet(DOMAIN f)
         /\ Cardinality(DOMAIN f) \in Nat
         /\ Cardinality(DOMAIN f) <= Cardinality(Ids)
<1>1. PICK ids \in SUBSET Ids : f \in [ids -> Dates \cup {Null}]
  BY DEF Lists
<1>2. DOMAIN f = ids
  BY <1>1
<1>3. IsFiniteSet(ids) /\ Cardinality(ids) <= Cardinality(Ids)
  BY FS_Subset, PublicReadsAssumption
<1>4. Cardinality(ids) \in Nat
  BY <1>3, FS_CardinalityType
<1> QED
  BY <1>1, <1>2, <1>3, <1>4, PublicReadsAssumption

\* published_at DESC NULLS LAST, id DESC leaves no two articles undecided.
LEMMA NewerIsStrict ==
  ASSUME NEW f \in Lists, NEW i \in DOMAIN f
  PROVE  ~ Newer(f, i, i)
BY ListsAreFinite DEF Newer

LEMMA NewerIsTotal ==
  ASSUME NEW f \in Lists, NEW i \in DOMAIN f, NEW j \in DOMAIN f, i # j
  PROVE  Newer(f, i, j) \/ Newer(f, j, i)
<1>1. i \in Nat /\ j \in Nat /\ f[i] \in Nat \cup {Null} /\ f[j] \in Nat \cup {Null}
  BY ListsAreFinite, PublicReadsAssumption
<1>2. CASE f[i] = f[j]
  BY <1>1, <1>2 DEF Newer
<1>3. CASE f[i] # f[j]
  <2>1. CASE f[i] = Null
    BY <1>3, <2>1 DEF Newer
  <2>2. CASE f[j] = Null
    BY <1>3, <2>2 DEF Newer
  <2>3. CASE f[i] # Null /\ f[j] # Null
    <3>1. f[i] \in Nat /\ f[j] \in Nat
      BY <1>1, <2>3
    <3> QED
      BY <3>1, <1>3, <2>3 DEF Newer
  <2> QED
    BY <2>1, <2>2, <2>3
<1> QED
  BY <1>2, <1>3

LEMMA NewerIsTransitive ==
  ASSUME NEW f \in Lists, NEW i \in DOMAIN f, NEW j \in DOMAIN f, NEW k \in DOMAIN f,
         Newer(f, i, j), Newer(f, j, k)
  PROVE  Newer(f, i, k)
<1>1. i \in Nat /\ j \in Nat /\ k \in Nat
  BY ListsAreFinite
<1>2. f[i] \in Nat \cup {Null} /\ f[j] \in Nat \cup {Null} /\ f[k] \in Nat \cup {Null}
  BY ListsAreFinite, PublicReadsAssumption
<1>3. CASE f[i] = f[j]
  BY <1>1, <1>2, <1>3 DEF Newer
<1>4. CASE f[i] # f[j] /\ f[j] = f[k]
  BY <1>1, <1>2, <1>4 DEF Newer
<1>5. CASE f[i] # f[j] /\ f[j] # f[k]
  <2>1. f[i] # Null /\ f[j] # Null
    BY <1>5 DEF Newer
  <2>2. f[i] \in Nat /\ f[j] \in Nat /\ f[i] > f[j]
    BY <1>2, <1>5, <2>1 DEF Newer
  <2>3. CASE f[k] = Null
    BY <2>1, <2>3 DEF Newer
  <2>4. CASE f[k] # Null
    <3>1. f[k] \in Nat /\ f[j] > f[k]
      BY <1>2, <1>5, <2>4 DEF Newer
    <3> QED
      BY <2>1, <2>2, <3>1 DEF Newer
  <2> QED
    BY <2>3, <2>4
<1> QED
  BY <1>3, <1>4, <1>5

\* An article's position is less than the length of the list.
LEMMA PositionInList ==
  ASSUME NEW f \in Lists, NEW i \in DOMAIN f
  PROVE  Position(f, i) \in Nat /\ Position(f, i) < Cardinality(DOMAIN f)
<1> DEFINE Before == {j \in DOMAIN f : Newer(f, j, i)}
<1>1. IsFiniteSet(DOMAIN f) /\ Cardinality(DOMAIN f) \in Nat
  BY ListsAreFinite
<1>2. Before \in SUBSET DOMAIN f /\ i \notin Before
  BY NewerIsStrict
<1> HIDE DEF Before
<1>3. /\ IsFiniteSet(Before) /\ Cardinality(Before) <= Cardinality(DOMAIN f)
      /\ Cardinality(DOMAIN f) = Cardinality(Before) => DOMAIN f = Before
  BY <1>1, <1>2, FS_Subset
<1>4. Cardinality(Before) \in Nat
  BY <1>3, FS_CardinalityType
<1>5. Cardinality(Before) < Cardinality(DOMAIN f)
  BY <1>1, <1>2, <1>3, <1>4
<1>6. Position(f, i) = Cardinality(Before)
  BY DEF Position, Before
<1> QED
  BY <1>4, <1>5, <1>6

\* Newer articles have lower positions: what is before i is before j, and i is.
LEMMA NewerIsLower ==
  ASSUME NEW f \in Lists, NEW i \in DOMAIN f, NEW j \in DOMAIN f, Newer(f, i, j)
  PROVE  Position(f, i) < Position(f, j)
<1> DEFINE Before(k) == {h \in DOMAIN f : Newer(f, h, k)}
<1>1. IsFiniteSet(DOMAIN f)
  BY ListsAreFinite
<1>2. Before(i) \subseteq Before(j)
  BY NewerIsTransitive
<1>3. i \in Before(j) /\ i \notin Before(i)
  BY NewerIsStrict
<1>4. Before(j) \in SUBSET DOMAIN f
  OBVIOUS
<1>5. Position(f, i) = Cardinality(Before(i)) /\ Position(f, j) = Cardinality(Before(j))
  BY DEF Position
<1> HIDE DEF Before
<1>6. IsFiniteSet(Before(j))
  BY <1>1, <1>4, FS_Subset
<1>7. /\ Cardinality(Before(i)) <= Cardinality(Before(j))
      /\ Cardinality(Before(j)) = Cardinality(Before(i)) => Before(j) = Before(i)
  BY <1>2, <1>6, FS_Subset
<1>8. Position(f, i) \in Nat /\ Position(f, j) \in Nat
  BY PositionInList
<1> QED
  BY <1>3, <1>5, <1>7, <1>8

LEMMA PositionsDiffer ==
  ASSUME NEW f \in Lists, NEW i \in DOMAIN f, NEW j \in DOMAIN f, i # j
  PROVE  Position(f, i) # Position(f, j)
<1>1. Position(f, i) \in Nat /\ Position(f, j) \in Nat
  BY PositionInList
<1>2. CASE Newer(f, i, j)
  BY <1>1, <1>2, NewerIsLower
<1>3. CASE Newer(f, j, i)
  BY <1>1, <1>3, NewerIsLower
<1> QED
  BY <1>2, <1>3, NewerIsTotal

\* There is an article at every position up to the length of the list: the
\* positions of n articles are n different numbers below n.
LEMMA PositionsAreFilled ==
  ASSUME NEW f \in Lists, NEW p \in Nat, p < Cardinality(DOMAIN f)
  PROVE  \E i \in DOMAIN f : Position(f, i) = p
<1> DEFINE n == Cardinality(DOMAIN f)
           at == [i \in DOMAIN f |-> Position(f, i)]
<1>1. n \in Nat /\ n - 1 \in Int /\ p \in 0 .. n - 1
  BY ListsAreFinite
<1>2. \A i \in DOMAIN f : Position(f, i) \in 0 .. n - 1
  BY <1>1, PositionInList
<1> HIDE DEF n
<1>3. at \in Injection(DOMAIN f, 0 .. n - 1)
  <2>1. at \in [DOMAIN f -> 0 .. n - 1]
    BY <1>2
  <2>2. \A i, j \in DOMAIN f : at[i] = at[j] => i = j
    BY PositionsDiffer
  <2> QED
    BY <2>1, <2>2 DEF Injection, IsInjective
<1>4. IsFiniteSet(0 .. n - 1)
  BY <1>1, FS_Interval
<1>5. Cardinality(0 .. n - 1) = n
  <2>1. Cardinality(0 .. n - 1) = IF 0 > n - 1 THEN 0 ELSE (n - 1) - 0 + 1
    BY <1>1, FS_Interval
  <2> QED
    BY <1>1, <2>1
<1>6. at \in Surjection(DOMAIN f, 0 .. n - 1)
  <2>1. Cardinality(DOMAIN f) = n
    BY DEF n
  <2> HIDE DEF at
  <2> QED
    BY <1>3, <1>4, <1>5, <2>1, FS_Injection
<1> QED
  BY <1>1, <1>6 DEF Surjection

\* LIMIT is kept to, for no two rows have one position.
LEMMA RowsAreFew ==
  ASSUME NEW f \in Lists, NEW limit \in Nat, NEW offset \in Nat
  PROVE  /\ Rows(f, limit, offset) \subseteq DOMAIN f
         /\ IsFiniteSet(Rows(f, limit, offset))
         /\ Cardinality(Rows(f, limit, offset)) <= limit
<1> DEFINE S  == Rows(f, limit, offset)
           at == [i \in S |-> Position(f, i)]
           T  == offset .. offset + limit - 1
<1>1. S \subseteq DOMAIN f
  BY DEF Rows
<1>2. \A i \in S : Position(f, i) \in T
  BY <1>1, PositionInList DEF Rows
<1>3. at \in Injection(S, T)
  <2>1. at \in [S -> T]
    BY <1>2
  <2>2. \A i, j \in S : at[i] = at[j] => i = j
    BY <1>1, PositionsDiffer
  <2> QED
    BY <2>1, <2>2 DEF Injection, IsInjective
<1>4. IsFiniteSet(T) /\ Cardinality(T) = limit
  BY FS_Interval
<1>5. IsFiniteSet(S) /\ Cardinality(S) <= Cardinality(T)
  <2> HIDE DEF at, S, T
  <2> QED
    BY <1>3, <1>4, FS_Injection
<1> QED
  BY <1>1, <1>4, <1>5

\* A list with more articles in it puts none further up.
LEMMA LongerListsPushDown ==
  ASSUME NEW f \in Lists, NEW g \in Lists, DOMAIN f \subseteq DOMAIN g,
         \A j \in DOMAIN f : f[j] = g[j], NEW i \in DOMAIN f
  PROVE  Position(f, i) <= Position(g, i)
<1> DEFINE BeforeIn(h) == {j \in DOMAIN h : Newer(h, j, i)}
<1>1. BeforeIn(f) \subseteq BeforeIn(g)
  BY DEF Newer
<1>2. IsFiniteSet(BeforeIn(g))
  BY ListsAreFinite, FS_Subset
<1>3. Position(f, i) = Cardinality(BeforeIn(f)) /\ Position(g, i) = Cardinality(BeforeIn(g))
  BY DEF Position
<1> HIDE DEF BeforeIn
<1> QED
  BY <1>1, <1>2, <1>3, FS_Subset

-----------------------------------------------------------------------------
(* Page arithmetic *)

\* total_pages is the ceiling it says, and at least one page.
LEMMA CeilingOfPages ==
  ASSUME NEW total \in Nat, NEW size \in Nat \ {0}
  PROVE  /\ TotalPages(total, size) \in Nat \ {0}
         /\ total <= TotalPages(total, size) * size
         /\ (TotalPages(total, size) - 1) * size < total \/ TotalPages(total, size) = 1
<1> DEFINE q == (-total) \div size
<1>1. q \in Int
  BY SMT
<1>2. size * q <= -total
  BY SMT
<1>3. -total < size * q + size
  BY SMT
<1>4. TotalPages(total, size) = IF -q > 1 THEN -q ELSE 1
  BY DEF TotalPages
<1> HIDE DEF q
<1>5. CASE -q > 1
  <2>1. total <= (-q) * size
    BY <1>1, <1>2
  <2>2. ((-q) - 1) * size < total
    BY <1>1, <1>3
  <2> QED
    BY <1>1, <1>4, <1>5, <2>1, <2>2
<1>6. CASE ~ (-q > 1)
  <2>1. total <= size
    BY <1>1, <1>2, <1>6
  <2> QED
    BY <1>1, <1>4, <1>6, <2>1
<1> QED
  BY <1>5, <1>6

\* A later page begins where an earlier one has ended, or below.
LEMMA PagesDoNotOverlap ==
  ASSUME NEW m \in Nat, NEW n \in Nat, m < n, NEW size \in Nat
  PROVE  m * size <= Offset(n, size)
<1>1. m * size <= (n - 1) * size
  BY SMT
<1> QED
  BY <1>1 DEF Offset

\* has_more: there is an article below the page.
LEMMA MoreIsThere ==
  ASSUME NEW page \in Nat \ {0}, NEW size \in Nat \ {0}, NEW total \in Nat,
         HasMore(page, size, total)
  PROVE  page * size < total /\ page < total
<1> DEFINE t == TotalPages(total, size)
<1>1. t \in Nat \ {0} /\ ((t - 1) * size < total \/ t = 1)
  BY CeilingOfPages
<1>2. page < t
  BY DEF HasMore
<1> HIDE DEF t
<1>3. page * size <= (t - 1) * size
  BY <1>1, <1>2
<1>4. page <= page * size
  BY SMT
<1> QED
  BY <1>1, <1>2, <1>3, <1>4

\* Without has_more, nothing is below the page.
LEMMA NothingIsMissing ==
  ASSUME NEW page \in Nat \ {0}, NEW size \in Nat \ {0}, NEW total \in Nat,
         ~ HasMore(page, size, total)
  PROVE  total <= page * size
<1> DEFINE t == TotalPages(total, size)
<1>1. t \in Nat \ {0} /\ total <= t * size
  BY CeilingOfPages
<1>2. t <= page
  BY <1>1 DEF HasMore
<1> HIDE DEF t
<1>3. t * size <= page * size
  BY <1>1, <1>2
<1>4. t * size \in Nat /\ page * size \in Nat
  BY <1>1
<1> QED
  BY <1>1, <1>3, <1>4
-----------------------------------------------------------------------------
(* Types *)

LEMMA Counting ==
  ASSUME TypeOK
  PROVE  /\ CountPublished \in Nat /\ CountPublished <= Cardinality(Ids)
         /\ IsFiniteSet(Public) /\ Public \subseteq Ids
BY ListsAreFinite DEF TypeOK, CountPublished, Public

LEMMA WriteIsNoted ==
  ASSUME TypeOK, NEW left \in BOOLEAN, NEW came \in BOOLEAN, Write(left, came)
  PROVE  /\ since' \in Since /\ UNCHANGED <<scroll, sitemap>>
         /\ since'.left = (since.left \/ left) /\ since'.came = (since.came \/ came)
         /\ scroll.pc = "rows" /\ came => since'.slipped
         /\ ~ since'.slipped => ~ since.slipped
<1>1. /\ since.left \in BOOLEAN /\ since.came \in BOOLEAN /\ since.slipped \in BOOLEAN
      /\ since.writes \in Nat
  BY DEF TypeOK, Since
<1>2. since' = [left    |-> since.left \/ left,
                came    |-> since.came \/ came,
                slipped |-> since.slipped \/ (came /\ scroll.pc = "rows"),
                writes  |-> since.writes + 1]
  BY DEF Write
<1>3. /\ since'.left = (since.left \/ left) /\ since'.came = (since.came \/ came)
      /\ since'.slipped = (since.slipped \/ (came /\ scroll.pc = "rows"))
  BY <1>2
<1>4. since.writes + 1 \in Nat
  BY <1>1
<1>5. /\ (since.left \/ left) \in BOOLEAN /\ (since.came \/ came) \in BOOLEAN
      /\ (since.slipped \/ (came /\ scroll.pc = "rows")) \in BOOLEAN
  BY <1>1
<1>6. since' \in Since
  BY <1>2, <1>4, <1>5 DEF Since
<1>7. UNCHANGED <<scroll, sitemap>>
  BY DEF Write
<1> QED
  BY <1>3, <1>6, <1>7

\* What a commit of the staff's does to the list, by what the history says.
LEMMA WritesAreNoted ==
  ASSUME TypeOK, Publish \/ Withdraw \/ Redate
  PROVE  /\ published' \in Lists /\ since' \in Since
         /\ UNCHANGED <<scroll, sitemap>>
         /\ ~ since'.left => /\ ~ since.left /\ Public \subseteq Public'
                             /\ \A j \in Public : published[j] = published'[j]
         /\ ~ since'.came => /\ ~ since.came /\ Public' \subseteq Public
                             /\ \A j \in Public' : published'[j] = published[j]
         /\ scroll.pc = "rows" => since'.left \/ since'.slipped
         /\ ~ since'.slipped => ~ since.slipped
<1>1. /\ published \in [Public -> Dates \cup {Null}] /\ Public \subseteq Ids
      /\ since \in Since
  BY ListsAreFinite DEF TypeOK, Public
<1>2. ASSUME NEW i \in Ids \ Public, NEW date \in Dates \cup {Null},
             published' = [j \in Public \cup {i} |-> IF j = i THEN date ELSE published[j]],
             Write(FALSE, TRUE)
      PROVE  /\ published' \in Lists /\ since' \in Since /\ UNCHANGED <<scroll, sitemap>>
             /\ since'.left = since.left /\ since'.came
             /\ Public' = Public \cup {i} /\ \A j \in Public : published[j] = published'[j]
             /\ scroll.pc = "rows" => since'.slipped
             /\ ~ since'.slipped => ~ since.slipped
  <2>1. published' \in [Public \cup {i} -> Dates \cup {Null}]
    BY <1>1, <1>2
  <2>2. published' \in Lists
    BY <1>1, <2>1 DEF Lists
  <2>3. Public' = Public \cup {i}
    BY <2>1 DEF Public
  <2>4. \A j \in Public : published[j] = published'[j]
    BY <1>2
  <2>5. /\ since' \in Since /\ UNCHANGED <<scroll, sitemap>>
        /\ since'.left = (since.left \/ FALSE) /\ since'.came = (since.came \/ TRUE)
        /\ scroll.pc = "rows" /\ TRUE => since'.slipped
        /\ ~ since'.slipped => ~ since.slipped
    BY <1>2, WriteIsNoted
  <2>6. since'.left = since.left
    BY <1>1, <2>5 DEF Since
  <2> QED
    BY <2>2, <2>3, <2>4, <2>5, <2>6
<1>3. ASSUME NEW i \in Public, published' = [j \in Public \ {i} |-> published[j]],
             Write(TRUE, FALSE)
      PROVE  /\ published' \in Lists /\ since' \in Since /\ UNCHANGED <<scroll, sitemap>>
             /\ since'.left /\ since'.came = since.came
             /\ Public' = Public \ {i} /\ \A j \in Public' : published'[j] = published[j]
             /\ ~ since'.slipped => ~ since.slipped
  <2>1. published' \in [Public \ {i} -> Dates \cup {Null}]
    BY <1>1, <1>3
  <2>2. published' \in Lists
    BY <1>1, <2>1 DEF Lists
  <2>3. Public' = Public \ {i}
    BY <2>1 DEF Public
  <2>4. \A j \in Public \ {i} : published'[j] = published[j]
    BY <1>3
  <2>5. /\ since' \in Since /\ UNCHANGED <<scroll, sitemap>>
        /\ since'.left = (since.left \/ TRUE) /\ since'.came = (since.came \/ FALSE)
        /\ ~ since'.slipped => ~ since.slipped
    BY <1>3, WriteIsNoted
  <2>6. since'.came = since.came
    BY <1>1, <2>5 DEF Since
  <2> QED
    BY <2>2, <2>3, <2>4, <2>5, <2>6
<1>4. ASSUME NEW i \in Public, NEW date \in Dates \cup {Null},
             published' = [published EXCEPT ![i] = date], Write(TRUE, TRUE)
      PROVE  /\ published' \in Lists /\ since' \in Since /\ UNCHANGED <<scroll, sitemap>>
             /\ since'.left /\ since'.came
             /\ ~ since'.slipped => ~ since.slipped
  <2>1. published' \in [Public -> Dates \cup {Null}]
    BY <1>1, <1>4
  <2>2. published' \in Lists
    BY <1>1, <2>1 DEF Lists
  <2>3. /\ since' \in Since /\ UNCHANGED <<scroll, sitemap>>
        /\ since'.left = (since.left \/ TRUE) /\ since'.came = (since.came \/ TRUE)
        /\ ~ since'.slipped => ~ since.slipped
    BY <1>4, WriteIsNoted
  <2> QED
    BY <2>2, <2>3
<1>5. CASE Publish
  BY <1>2, <1>5 DEF Publish
<1>6. CASE Withdraw
  BY <1>3, <1>6 DEF Withdraw
<1>7. CASE Redate
  BY <1>4, <1>7 DEF Redate
<1> QED
  BY <1>5, <1>6, <1>7

\* page stays a page number, clamped or not.
LEMMA ClampedPage ==
  ASSUME NEW n \in Nat \ {0}
  PROVE  /\ Clamp(n, 1, MAX_LIST_PAGE) \in Nat \ {0}
         /\ n <= MAX_LIST_PAGE => Clamp(n, 1, MAX_LIST_PAGE) = n
BY PublicReadsAssumption DEF Clamp

LEMMA InitIsTyped ==
  ASSUME Init
  PROVE  TypeOK
<1>1. NoScroll \in Scroll
  BY PublicReadsAssumption DEF NoScroll, Scroll
<1>2. NoSitemap \in Sitemap /\ NoSitemap.rows = {}
  BY DEF NoSitemap, Sitemap
<1>3. Undisturbed \in Since
  BY PublicReadsAssumption DEF Undisturbed, Since
<1> QED
  BY <1>1, <1>2, <1>3, FS_EmptySet, PublicReadsAssumption DEF Init, TypeOK

LEMMA StepIsTyped ==
  ASSUME TypeOK, [Next]_vars
  PROVE  TypeOK'
<1>1. Undisturbed \in Since
  BY PublicReadsAssumption DEF Undisturbed, Since
<1>2. /\ NoScroll \in Scroll /\ NoSitemap \in Sitemap
      /\ Cardinality(NoSitemap.rows) <= SITEMAP_MAX_ROWS
  BY FS_EmptySet, PublicReadsAssumption DEF NoScroll, Scroll, NoSitemap, Sitemap
<1>3. CASE StartScroll
  <2>1. scroll' \in Scroll
    <3>1. PICK size \in PageSizes :
            scroll' = [pc |-> "rows", page |-> Clamp(1, 1, MAX_LIST_PAGE), per_page |-> size,
                       total |-> CountPublished, start |-> Public, pages |-> <<>>]
      BY <1>3 DEF StartScroll
    <3>2. Clamp(1, 1, MAX_LIST_PAGE) \in Nat \ {0}
      BY ClampedPage
    <3> QED
      BY <3>1, <3>2, Counting DEF Scroll
  <2> QED
    BY <1>1, <1>2, <1>3, <2>1 DEF StartScroll, TypeOK
<1>4. CASE ShowPage
  <2> DEFINE s    == scroll
             rows == Rows(published, s.per_page, Offset(s.page, s.per_page))
  <2>1. rows \in SUBSET Ids
    BY Counting DEF Rows, Public
  <2>2. scroll' = [s EXCEPT !.pages = Append(@, rows),
                            !.pc    = IF HasMore(s.page, s.per_page, s.total)
                                        THEN "count" ELSE "done"]
    BY <1>4 DEF ShowPage
  <2> HIDE DEF rows
  <2>3. /\ s.page \in Nat \ {0} /\ s.per_page \in PageSizes /\ s.total \in Nat
        /\ s.start \in SUBSET Ids /\ s.pages \in Seq(SUBSET Ids)
        /\ s = [pc |-> s.pc, page |-> s.page, per_page |-> s.per_page,
                total |-> s.total, start |-> s.start, pages |-> s.pages]
    BY DEF TypeOK, Scroll
  <2>4. Append(s.pages, rows) \in Seq(SUBSET Ids)
    BY <2>1, <2>3
  <2>5. scroll' = [pc       |-> IF HasMore(s.page, s.per_page, s.total)
                                  THEN "count" ELSE "done",
                   page     |-> s.page, per_page |-> s.per_page, total |-> s.total,
                   start    |-> s.start, pages |-> Append(s.pages, rows)]
    BY <2>2, <2>3
  <2>6. scroll' \in Scroll
    BY <2>3, <2>4, <2>5 DEF Scroll
  <2> QED
    BY <1>4, <2>6 DEF ShowPage, TypeOK
<1>5. CASE NextPage
  <2>1. Clamp(scroll.page + 1, 1, MAX_LIST_PAGE) \in Nat \ {0}
    BY ClampedPage DEF TypeOK, Scroll
  <2>2. scroll' \in Scroll
    BY <1>5, <2>1, Counting DEF NextPage, TypeOK, Scroll
  <2>3. since' \in Since
    BY <1>5 DEF NextPage, TypeOK, Since
  <2> QED
    BY <1>5, <2>2, <2>3 DEF NextPage, TypeOK
<1>6. CASE StartSitemap
  <2>1. SitemapRows \subseteq Ids /\ Cardinality(SitemapRows) <= SITEMAP_MAX_ROWS
    BY RowsAreFew, Counting, PublicReadsAssumption DEF SitemapRows, TypeOK, Public
  <2>2. sitemap' \in Sitemap /\ sitemap'.rows = SitemapRows
    BY <1>6, <2>1 DEF StartSitemap, Sitemap
  <2> QED
    BY <1>1, <1>2, <1>6, <2>1, <2>2 DEF StartSitemap, TypeOK
<1>7. CASE CountForSitemap
  <2>1. sitemap' \in Sitemap /\ sitemap'.rows = sitemap.rows
    BY <1>7, Counting DEF CountForSitemap, TypeOK, Sitemap
  <2> QED
    BY <1>7, <2>1 DEF CountForSitemap, TypeOK
<1>8. CASE Publish \/ Withdraw \/ Redate
  BY <1>8, WritesAreNoted DEF TypeOK
<1>9. CASE UNCHANGED vars
  BY <1>9 DEF vars, TypeOK
<1> QED
  BY <1>3, <1>4, <1>5, <1>6, <1>7, <1>8, <1>9 DEF Next

\* The sitemap keeps to its cap, and the state is well typed, whatever the staff
\* do (articles.list_for_sitemap).
THEOREM TypeCorrect == Spec => []TypeOK
BY InitIsTyped, StepIsTyped, PTL DEF Spec

-----------------------------------------------------------------------------
(* The sitemap *)

\* Until something leaves, the rows are public; the total is the count of that
\* moment, and nothing changes after it: a scroll begins with no sitemap asked.
SitemapInv ==
  /\ scroll.pc # "done" => sitemap.pc = "none"
  /\ sitemap.pc \in {"count", "done"} /\ ~ since.left => sitemap.rows \subseteq Public
  /\ TruncatedTellsIt

\* The sitemap says that it is truncated exactly when it misses an article, if
\* nothing leaves between its two statements (public.sitemap): there are more
\* public articles than rows just when the rows are not all of them.
THEOREM TruncatedIsTrue == Spec => []TruncatedTellsIt
<1>1. Init => SitemapInv
  BY DEF Init, SitemapInv, TruncatedTellsIt, NoSitemap
<1>2. TypeOK /\ SitemapInv /\ [Next]_vars => SitemapInv'
  <2> SUFFICES ASSUME TypeOK, SitemapInv, [Next]_vars PROVE SitemapInv'
    OBVIOUS
  <2>1. CASE StartScroll
    BY <2>1 DEF StartScroll, NoSitemap, SitemapInv, TruncatedTellsIt
  <2>2. CASE ShowPage \/ NextPage
    <3>1. /\ UNCHANGED <<published, sitemap>> /\ since'.left = since.left
          /\ scroll.pc # "done"
      BY <2>2 DEF ShowPage, NextPage, TypeOK, Since
    <3> QED
      BY <3>1 DEF SitemapInv, TruncatedTellsIt, Truncated, Public
  <2>3. CASE StartSitemap
    <3>1. SitemapRows \subseteq Public
      BY DEF SitemapRows, Rows, Public
    <3> QED
      BY <2>3, <3>1 DEF StartSitemap, NoScroll, SitemapInv, TruncatedTellsIt, Public
  <2>4. CASE CountForSitemap
    <3>1. /\ sitemap.pc = "count" /\ sitemap'.pc = "done" /\ sitemap'.rows = sitemap.rows
          /\ sitemap'.total = Cardinality(Public) /\ Public' = Public /\ since' = since
          /\ scroll' = scroll /\ scroll.pc = "done"
      BY <2>4 DEF SitemapInv, CountForSitemap, CountPublished, TypeOK, Sitemap, Public
    <3>2. ASSUME ~ since.left
          PROVE  Cardinality(Public) > Cardinality(sitemap.rows)
                   <=> ~ (Public \subseteq sitemap.rows)
      <4>1. sitemap.rows \in SUBSET Public /\ IsFiniteSet(Public)
        BY <3>1, <3>2, Counting DEF SitemapInv
      <4>2. /\ Cardinality(sitemap.rows) \in Nat /\ Cardinality(Public) \in Nat
            /\ Cardinality(sitemap.rows) <= Cardinality(Public)
            /\ Cardinality(Public) = Cardinality(sitemap.rows) => Public = sitemap.rows
        BY <4>1, FS_Subset, FS_CardinalityType
      <4>3. CASE Public \subseteq sitemap.rows
        <5>1. Public = sitemap.rows
          BY <4>1, <4>3
        <5> QED
          BY <4>2, <4>3, <5>1
      <4>4. CASE ~ (Public \subseteq sitemap.rows)
        BY <4>2, <4>4
      <4> QED
        BY <4>3, <4>4
    <3>3. TruncatedTellsIt'
      BY <3>1, <3>2 DEF TruncatedTellsIt, Truncated
    <3> QED
      BY <3>1, <3>3 DEF SitemapInv
  <2>5. CASE Publish \/ Withdraw \/ Redate
    <3>1. /\ UNCHANGED <<scroll, sitemap>>
          /\ ~ since'.left => ~ since.left /\ Public \subseteq Public'
      BY <2>5, WritesAreNoted
    <3>2. sitemap.pc # "done"
      BY <2>5 DEF SitemapInv, Publish, Withdraw, Redate, Write, Idle
    <3> QED
      BY <3>1, <3>2 DEF SitemapInv, TruncatedTellsIt
  <2>6. CASE UNCHANGED vars
    BY <2>6 DEF vars, SitemapInv, TruncatedTellsIt, Truncated, Public
  <2> QED
    BY <2>1, <2>2, <2>3, <2>4, <2>5, <2>6 DEF Next
<1>3. SitemapInv => TruncatedTellsIt
  BY DEF SitemapInv
<1> QED
  BY <1>1, <1>2, <1>3, TypeCorrect, PTL DEF Spec

-----------------------------------------------------------------------------
(* The scroll *)

\* The list is never longer than the pages a client can reach.
ListFits == Cardinality(Ids) <= MAX_LIST_PAGE

\* The page asked for is the one after those shown, and is not clamped.
PagesInOrder ==
  /\ scroll.total <= Cardinality(Ids)
  /\ scroll.pc = "rows"  => scroll.page = Len(scroll.pages) + 1
  /\ scroll.pc = "count" => scroll.page = Len(scroll.pages) /\ scroll.page < MAX_LIST_PAGE

\* While nothing has left: a page that was promised begins inside the list ...
MoreIsPublic ==
  ~ since.left =>
    /\ scroll.pc = "count" => scroll.page * scroll.per_page < Cardinality(Public)
    /\ scroll.pc = "rows" /\ scroll.page > 1
         => (scroll.page - 1) * scroll.per_page < Cardinality(Public)

\* ... and the count is not too high, nor too low unless something has slipped in.
CountIsOfRows ==
  scroll.pc = "rows" /\ ~ since.left =>
    /\ scroll.total <= Cardinality(Public)
    /\ ~ since.slipped => scroll.total = Cardinality(Public)

\* While nothing has come, what was shown on a page is still on it or above.
ShownIsAbove ==
  ~ since.came =>
    \A n \in DOMAIN scroll.pages : \A i \in scroll.pages[n] :
      i \in Public => Position(published, i) < n * scroll.per_page

\* While nothing has left, what was not shown is below the pages shown.
UnshownIsBelow ==
  ~ since.left =>
    /\ scroll.start \subseteq Public
    /\ \A i \in scroll.start :
         (\A n \in DOMAIN scroll.pages : i \notin scroll.pages[n])
           => Len(scroll.pages) * scroll.per_page <= Position(published, i)

ScrollInv ==
  /\ PagesInOrder
  /\ MoreIsPublic
  /\ CountIsOfRows
  /\ ShownIsAbove
  /\ UnshownIsBelow
  /\ NothingSkipped
  /\ NothingRepeated
  /\ MorePromisesMore

\* The types of what a scroll computes with.
LEMMA ScrollTypes ==
  ASSUME TypeOK
  PROVE  /\ scroll.pc \in {"rows", "count", "done"}
         /\ scroll.page \in Nat \ {0} /\ scroll.per_page \in Nat \ {0} /\ scroll.total \in Nat
         /\ scroll.start \subseteq Ids /\ scroll.pages \in Seq(SUBSET Ids)
         /\ Len(scroll.pages) \in Nat /\ DOMAIN scroll.pages = 1 .. Len(scroll.pages)
         /\ Cardinality(Public) \in Nat /\ published \in Lists
BY ListsAreFinite, PublicReadsAssumption DEF TypeOK, Scroll, Public

\* The answer to the request for page k is what is at the positions of page k.
LEMMA PageShown ==
  ASSUME TypeOK, PagesInOrder, ShowPage, NEW k, k = Len(scroll.pages) + 1
  PROVE  /\ UNCHANGED <<published, sitemap, since>>
         /\ scroll'.page = scroll.page /\ scroll'.per_page = scroll.per_page
         /\ scroll'.total = scroll.total /\ scroll'.start = scroll.start
         /\ scroll.pc = "rows" /\ scroll.page = k /\ k \in Nat \ {0}
         /\ scroll'.pc = IF HasMore(k, scroll.per_page, scroll.total)
                           THEN "count" ELSE "done"
         /\ Len(scroll'.pages) = k /\ DOMAIN scroll'.pages = 1 .. k
         /\ \A n \in DOMAIN scroll.pages : scroll'.pages[n] = scroll.pages[n]
         /\ \A i : i \in scroll'.pages[k] <=>
              /\ i \in Public
              /\ (k - 1) * scroll.per_page <= Position(published, i)
              /\ Position(published, i) < k * scroll.per_page
<1> DEFINE rows == Rows(published, scroll.per_page, Offset(scroll.page, scroll.per_page))
           size == scroll.per_page
<1>1. /\ scroll.pc = "rows" /\ UNCHANGED <<published, sitemap, since>>
      /\ scroll' = [scroll EXCEPT !.pages = Append(@, rows),
                                  !.pc    = IF HasMore(scroll.page, size, scroll.total)
                                              THEN "count" ELSE "done"]
  BY DEF ShowPage
<1>2. scroll.page = k /\ k \in Nat \ {0} /\ size \in Nat \ {0}
  BY <1>1, ScrollTypes DEF PagesInOrder
<1>3. rows \in SUBSET Ids
  BY Counting DEF Rows, Public
<1>4. \A i \in Public : Position(published, i) \in Nat
  BY PositionInList, ScrollTypes DEF Public
<1>5. Offset(k, size) = (k - 1) * size /\ (k - 1) * size + size = k * size
  BY <1>2 DEF Offset
<1>6. \A i : i \in rows <=> /\ i \in Public
                            /\ (k - 1) * size <= Position(published, i)
                            /\ Position(published, i) < k * size
  <2>1. \A i : i \in rows <=> /\ i \in Public
                              /\ Position(published, i) >= (k - 1) * size
                              /\ Position(published, i) < (k - 1) * size + size
    BY <1>2, <1>5 DEF Rows, Public
  <2>2. (k - 1) * size \in Nat /\ k * size \in Nat
    BY <1>2
  <2> HIDE DEF rows
  <2> QED
    BY <1>4, <1>5, <2>1, <2>2
<1> HIDE DEF rows
<1>7. scroll'.pages = Append(scroll.pages, rows)
  BY <1>1, ScrollTypes DEF TypeOK, Scroll
<1>8. /\ scroll'.page = scroll.page /\ scroll'.per_page = size
      /\ scroll'.total = scroll.total /\ scroll'.start = scroll.start
      /\ scroll'.pc = IF HasMore(scroll.page, size, scroll.total) THEN "count" ELSE "done"
  BY <1>1 DEF TypeOK, Scroll
<1>9. /\ Len(scroll'.pages) = k /\ DOMAIN scroll'.pages = 1 .. k
      /\ \A n \in DOMAIN scroll.pages : scroll'.pages[n] = scroll.pages[n]
      /\ scroll'.pages[k] = rows
  BY <1>3, <1>7, ScrollTypes
<1> QED
  BY <1>1, <1>2, <1>6, <1>8, <1>9

LEMMA ShowPageKeeps ==
  ASSUME TypeOK, ScrollInv, ShowPage, ListFits
  PROVE  ScrollInv'
<1> DEFINE k    == Len(scroll.pages) + 1
           size == scroll.per_page
<1>1. PagesInOrder
  BY DEF ScrollInv
<1>2. /\ UNCHANGED <<published, sitemap, since>>
      /\ scroll'.page = scroll.page /\ scroll'.per_page = size
      /\ scroll'.total = scroll.total /\ scroll'.start = scroll.start
      /\ scroll.pc = "rows" /\ scroll.page = k /\ k \in Nat \ {0}
      /\ scroll'.pc = IF HasMore(k, size, scroll.total) THEN "count" ELSE "done"
      /\ Len(scroll'.pages) = k /\ DOMAIN scroll'.pages = 1 .. k
      /\ \A n \in DOMAIN scroll.pages : scroll'.pages[n] = scroll.pages[n]
  BY <1>1, PageShown
<1>3. \A i : i \in scroll'.pages[k] <=> /\ i \in Public
                                        /\ (k - 1) * size <= Position(published, i)
                                        /\ Position(published, i) < k * size
  BY <1>1, PageShown
<1>4. /\ size \in Nat \ {0} /\ scroll.total \in Nat /\ Cardinality(Public) \in Nat
      /\ DOMAIN scroll.pages = 1 .. k - 1
      /\ published \in Lists /\ Public' = Public
      /\ scroll.total <= Cardinality(Ids) /\ Cardinality(Ids) \in Nat
  BY <1>1, <1>2, ScrollTypes, FS_CardinalityType, PublicReadsAssumption
     DEF PagesInOrder, Public
<1>5. \A i \in Public : Position(published, i) \in Nat
  BY <1>4, PositionInList DEF Public
<1>6. (k - 1) * size \in Nat /\ k * size \in Nat
  BY <1>2, <1>4
<1>7. k - 1 = Len(scroll.pages) /\ k - 1 \in Nat
  BY ScrollTypes
<1>8. \A n \in DOMAIN scroll'.pages : n = k \/ n \in DOMAIN scroll.pages
  BY <1>2, <1>4
<1>9. /\ since' = since /\ published' = published
  BY <1>2
<1> HIDE DEF k, size
<1>10. PagesInOrder'
  <2>1. scroll'.pc = "count" => k < MAX_LIST_PAGE
    <3>1. HasMore(k, size, scroll.total) => k < scroll.total
      BY <1>2, <1>4, MoreIsThere
    <3> QED
      BY <1>2, <1>4, <3>1, PublicReadsAssumption DEF ListFits
  <2> QED
    BY <1>2, <1>4, <2>1 DEF PagesInOrder
<1>11. MoreIsPublic'
  <2>1. CountIsOfRows
    BY DEF ScrollInv
  <2>2. HasMore(k, size, scroll.total) => k * size < scroll.total
    BY <1>2, <1>4, MoreIsThere
  <2> QED
    BY <1>2, <1>4, <1>6, <2>1, <2>2 DEF MoreIsPublic, CountIsOfRows
<1>12. CountIsOfRows'
  BY <1>2 DEF CountIsOfRows
<1>13. ShownIsAbove'
  <2> SUFFICES ASSUME ~ since.came, NEW n \in DOMAIN scroll'.pages,
                      NEW i \in scroll'.pages[n], i \in Public
               PROVE  Position(published, i) < n * size
    BY <1>2, <1>4, <1>9 DEF ShownIsAbove
  <2>1. CASE n = k
    BY <1>3, <2>1
  <2>2. CASE n \in DOMAIN scroll.pages
    BY <1>2, <2>2 DEF ScrollInv, ShownIsAbove, size
  <2> QED
    BY <1>8, <2>1, <2>2
<1>14. UnshownIsBelow'
  <2> SUFFICES ASSUME ~ since.left
               PROVE  /\ scroll.start \subseteq Public
                      /\ \A i \in scroll.start :
                           (\A n \in DOMAIN scroll'.pages : i \notin scroll'.pages[n])
                             => k * size <= Position(published, i)
    BY <1>2, <1>4, <1>9 DEF UnshownIsBelow
  <2>1. scroll.start \subseteq Public
    BY DEF ScrollInv, UnshownIsBelow
  <2>2. ASSUME NEW i \in scroll.start,
               \A n \in DOMAIN scroll'.pages : i \notin scroll'.pages[n]
        PROVE  k * size <= Position(published, i)
    <3>1. \A n \in DOMAIN scroll.pages : i \notin scroll.pages[n]
      BY <1>2, <1>4, <2>2
    <3>2. (k - 1) * size <= Position(published, i)
      BY <1>7, <3>1 DEF ScrollInv, UnshownIsBelow, size
    <3>3. i \notin scroll'.pages[k]
      BY <1>2, <2>2
    <3>4. ~ (Position(published, i) < k * size)
      BY <1>3, <2>1, <3>2, <3>3
    <3>5. Position(published, i) \in Nat
      BY <1>5, <2>1
    <3> QED
      BY <1>6, <3>4, <3>5
  <2> QED
    BY <2>1, <2>2
<1>15. NothingSkipped'
  <2> SUFFICES ASSUME scroll'.pc = "done", ~ since.left, ~ since.slipped,
                      NEW i \in scroll.start,
                      \A n \in DOMAIN scroll'.pages : i \notin scroll'.pages[n]
               PROVE  FALSE
    BY <1>2, <1>9 DEF NothingSkipped
  <2>1. scroll.total = Cardinality(Public)
    BY <1>2 DEF ScrollInv, CountIsOfRows
  <2>2. scroll.total <= k * size
    BY <1>2, <1>4, NothingIsMissing
  <2>3. i \in Public /\ k * size <= Position(published, i)
    BY <1>2, <1>4, <1>9, <1>14 DEF UnshownIsBelow
  <2>4. Position(published, i) < Cardinality(Public)
    BY <1>4, <2>3, PositionInList DEF Public
  <2> QED
    BY <1>4, <1>5, <1>6, <2>1, <2>2, <2>3, <2>4
<1>16. NothingRepeated'
  <2> SUFFICES ASSUME ~ since.came,
                      NEW m \in DOMAIN scroll'.pages, NEW n \in DOMAIN scroll'.pages, m < n,
                      NEW i \in scroll'.pages[m], i \in scroll'.pages[n]
               PROVE  FALSE
    <3>1. \A m, n \in DOMAIN scroll'.pages : m # n => m < n \/ n < m
      BY <1>2
    <3> QED
      BY <1>9, <3>1 DEF NothingRepeated
  <2>1. m \in DOMAIN scroll.pages /\ m \in Nat /\ m <= k - 1
    BY <1>2, <1>4
  <2>2. CASE n = k
    <3>1. i \in Public /\ (k - 1) * size <= Position(published, i)
      BY <1>3, <2>2
    <3>2. i \in scroll.pages[m]
      BY <1>2, <2>1
    <3>3. Position(published, i) < m * size
      BY <2>1, <3>1, <3>2 DEF ScrollInv, ShownIsAbove, size
    <3>4. m * size <= (k - 1) * size /\ m * size \in Nat
      BY <1>4, <1>7, <2>1
    <3> QED
      BY <1>5, <1>6, <3>1, <3>3, <3>4
  <2>3. CASE n \in DOMAIN scroll.pages
    <3>1. i \in scroll.pages[m] /\ i \in scroll.pages[n]
      BY <1>2, <2>1, <2>3
    <3>2. m # n
      BY <1>2
    <3> QED
      BY <2>1, <2>3, <3>1, <3>2 DEF ScrollInv, NothingRepeated
  <2> QED
    BY <1>8, <2>2, <2>3
<1>17. MorePromisesMore'
  <2> SUFFICES ASSUME ~ since.left, NEW n \in DOMAIN scroll'.pages, n > 1
               PROVE  scroll'.pages[n] # {}
    BY <1>9 DEF MorePromisesMore
  <2>1. CASE n = k
    <3>1. (k - 1) * size < Cardinality(Public)
      BY <1>2, <2>1 DEF ScrollInv, MoreIsPublic, size
    <3>2. PICK i \in Public : Position(published, i) = (k - 1) * size
      BY <1>4, <1>6, <3>1, PositionsAreFilled DEF Public
    <3>3. (k - 1) * size < k * size
      BY <1>2, <1>4
    <3> QED
      BY <1>3, <1>6, <2>1, <3>2, <3>3
  <2>2. CASE n \in DOMAIN scroll.pages
    BY <1>2, <2>2 DEF ScrollInv, MorePromisesMore
  <2> QED
    BY <1>8, <2>1, <2>2
<1> QED
  BY <1>10, <1>11, <1>12, <1>13, <1>14, <1>15, <1>16, <1>17 DEF ScrollInv

\* A scroll that is over, or has not begun, promises nothing and has no pages.
LEMMA NoScrollIsFine ==
  scroll = NoScroll => ScrollInv
<1> SUFFICES ASSUME scroll = NoScroll PROVE ScrollInv
  OBVIOUS
<1>1. /\ scroll.pc = "done" /\ scroll.total = 0 /\ scroll.start = {} /\ scroll.pages = <<>>
      /\ DOMAIN scroll.pages = {}
  BY DEF NoScroll
<1>2. Cardinality(Ids) \in Nat
  BY FS_CardinalityType, PublicReadsAssumption
<1>3. PagesInOrder
  BY <1>1, <1>2 DEF PagesInOrder
<1> QED
  BY <1>1, <1>3
     DEF ScrollInv, MoreIsPublic, CountIsOfRows, ShownIsAbove, UnshownIsBelow,
         NothingSkipped, NothingRepeated, MorePromisesMore

LEMMA StartScrollKeeps ==
  ASSUME TypeOK, StartScroll
  PROVE  ScrollInv'
<1>1. PICK size \in PageSizes :
        scroll' = [pc |-> "rows", page |-> Clamp(1, 1, MAX_LIST_PAGE), per_page |-> size,
                   total |-> CountPublished, start |-> Public, pages |-> <<>>]
  BY DEF StartScroll
<1>2. /\ scroll'.pc = "rows" /\ scroll'.page = 1 /\ scroll'.per_page = size
      /\ scroll'.total = Cardinality(Public) /\ scroll'.start = Public
      /\ scroll'.pages = <<>> /\ DOMAIN scroll'.pages = {} /\ Len(scroll'.pages) = 0
  BY <1>1, ClampedPage, PublicReadsAssumption DEF CountPublished
<1>3. published' = published /\ Public' = Public
  BY DEF StartScroll, Public
<1>4. /\ Cardinality(Public) \in Nat /\ Cardinality(Public) <= Cardinality(Ids)
      /\ size \in Nat
  BY Counting, PublicReadsAssumption DEF CountPublished
<1>5. PagesInOrder'
  BY <1>2, <1>4 DEF PagesInOrder
<1>6. MoreIsPublic' /\ CountIsOfRows'
  BY <1>2, <1>3, <1>4 DEF MoreIsPublic, CountIsOfRows
<1>7. UnshownIsBelow'
  <2>1. \A i \in Public : Position(published, i) \in Nat
    BY PositionInList DEF TypeOK, Public
  <2>2. 0 * size = 0
    BY <1>4
  <2> QED
    BY <1>2, <1>3, <2>1, <2>2 DEF UnshownIsBelow
<1>8. ShownIsAbove' /\ NothingSkipped' /\ NothingRepeated' /\ MorePromisesMore'
  BY <1>2 DEF ShownIsAbove, NothingSkipped, NothingRepeated, MorePromisesMore
<1> QED
  BY <1>5, <1>6, <1>7, <1>8 DEF ScrollInv

LEMMA NextPageKeeps ==
  ASSUME TypeOK, ScrollInv, NextPage
  PROVE  ScrollInv'
<1>1. scroll.pc = "count" /\ scroll.page = Len(scroll.pages) /\ scroll.page < MAX_LIST_PAGE
  BY DEF NextPage, ScrollInv, PagesInOrder
<1>2. /\ scroll.page \in Nat \ {0} /\ MAX_LIST_PAGE \in Nat
      /\ scroll.per_page \in Nat /\ Cardinality(Public) \in Nat
  BY ScrollTypes, PublicReadsAssumption
<1>3. Clamp(scroll.page + 1, 1, MAX_LIST_PAGE) = scroll.page + 1
  BY <1>1, <1>2, ClampedPage
<1>4. /\ scroll'.pc = "rows" /\ scroll'.page = scroll.page + 1
      /\ scroll'.per_page = scroll.per_page /\ scroll'.total = Cardinality(Public)
      /\ scroll'.start = scroll.start /\ scroll'.pages = scroll.pages
  BY <1>3 DEF NextPage, TypeOK, Scroll, CountPublished
<1>5. /\ published' = published /\ Public' = Public
      /\ since'.left = since.left /\ since'.came = since.came
  BY DEF NextPage, Public, TypeOK, Since
<1>6. PagesInOrder'
  BY <1>1, <1>4, Counting DEF PagesInOrder, CountPublished
<1>7. MoreIsPublic'
  <2>1. (scroll.page + 1) - 1 = scroll.page
    BY <1>2
  <2> QED
    BY <1>1, <1>4, <1>5, <2>1 DEF ScrollInv, MoreIsPublic
<1>8. CountIsOfRows'
  BY <1>2, <1>4, <1>5 DEF CountIsOfRows
<1>9. ShownIsAbove'
  BY <1>4, <1>5 DEF ScrollInv, ShownIsAbove
<1>10. UnshownIsBelow'
  BY <1>4, <1>5 DEF ScrollInv, UnshownIsBelow
<1>11. NothingSkipped'
  BY <1>4 DEF NothingSkipped
<1>12. NothingRepeated' /\ MorePromisesMore'
  BY <1>4, <1>5 DEF ScrollInv, NothingRepeated, MorePromisesMore
<1> QED
  BY <1>6, <1>7, <1>8, <1>9, <1>10, <1>11, <1>12 DEF ScrollInv

\* What comes pushes the others down, so what is below stays below; what leaves
\* lets them up, so what is above stays above.
LEMMA WritesKeep ==
  ASSUME TypeOK, ScrollInv, Publish \/ Withdraw \/ Redate
  PROVE  ScrollInv'
<1>1. /\ published' \in Lists /\ since' \in Since /\ scroll' = scroll
      /\ ~ since'.left => /\ ~ since.left /\ Public \subseteq Public'
                          /\ \A j \in Public : published[j] = published'[j]
      /\ ~ since'.came => /\ ~ since.came /\ Public' \subseteq Public
                          /\ \A j \in Public' : published'[j] = published[j]
      /\ scroll.pc = "rows" => since'.left \/ since'.slipped
      /\ ~ since'.slipped => ~ since.slipped
  BY WritesAreNoted
<1>2. published \in Lists
  BY DEF TypeOK
<1>3. /\ \A i \in Public : Position(published, i) \in Nat
      /\ \A i \in Public' : Position(published', i) \in Nat
  BY <1>1, <1>2, PositionInList DEF Public
<1>4. ~ since'.left => Cardinality(Public) <= Cardinality(Public')
  BY <1>1, ListsAreFinite, FS_Subset DEF Public
<1>5. /\ Cardinality(Public) \in Nat /\ Cardinality(Public') \in Nat
      /\ scroll.per_page \in Nat /\ scroll.page \in Nat /\ scroll.total \in Nat
      /\ DOMAIN scroll.pages = 1 .. Len(scroll.pages) /\ Len(scroll.pages) \in Nat
  BY <1>1, ListsAreFinite, ScrollTypes DEF Public
<1>6. PagesInOrder'
  BY <1>1 DEF ScrollInv, PagesInOrder
<1>7. MoreIsPublic'
  <2>1. scroll.page * scroll.per_page \in Nat /\ (scroll.page - 1) * scroll.per_page \in Int
    BY <1>5
  <2> QED
    BY <1>1, <1>4, <1>5, <2>1 DEF ScrollInv, MoreIsPublic
<1>8. CountIsOfRows'
  BY <1>1, <1>4, <1>5 DEF ScrollInv, CountIsOfRows
<1>9. ShownIsAbove'
  <2> SUFFICES ASSUME ~ since'.came, NEW n \in DOMAIN scroll.pages,
                      NEW i \in scroll.pages[n], i \in Public'
               PROVE  Position(published', i) < n * scroll.per_page
    BY <1>1 DEF ShownIsAbove
  <2>1. i \in Public /\ Position(published, i) < n * scroll.per_page
    BY <1>1 DEF ScrollInv, ShownIsAbove
  <2>2. Position(published', i) <= Position(published, i)
    BY <1>1, <1>2, LongerListsPushDown DEF Public
  <2>3. n * scroll.per_page \in Nat
    BY <1>5
  <2> QED
    BY <1>3, <2>1, <2>2, <2>3
<1>10. UnshownIsBelow'
  <2> SUFFICES ASSUME ~ since'.left
               PROVE  /\ scroll.start \subseteq Public'
                      /\ \A i \in scroll.start :
                           (\A n \in DOMAIN scroll.pages : i \notin scroll.pages[n])
                             => Len(scroll.pages) * scroll.per_page <= Position(published', i)
    BY <1>1 DEF UnshownIsBelow
  <2>1. scroll.start \subseteq Public /\ scroll.start \subseteq Public'
    BY <1>1 DEF ScrollInv, UnshownIsBelow
  <2>2. ASSUME NEW i \in scroll.start,
               \A n \in DOMAIN scroll.pages : i \notin scroll.pages[n]
        PROVE  Len(scroll.pages) * scroll.per_page <= Position(published', i)
    <3>1. Len(scroll.pages) * scroll.per_page <= Position(published, i)
      BY <1>1, <2>2 DEF ScrollInv, UnshownIsBelow
    <3>2. Position(published, i) <= Position(published', i)
      BY <1>1, <1>2, <2>1, LongerListsPushDown DEF Public
    <3>3. Len(scroll.pages) * scroll.per_page \in Nat
      BY <1>5
    <3> QED
      BY <1>3, <2>1, <3>1, <3>2, <3>3
  <2> QED
    BY <2>1, <2>2
<1>11. NothingSkipped'
  BY <1>1 DEF ScrollInv, NothingSkipped
<1>12. NothingRepeated' /\ MorePromisesMore'
  BY <1>1 DEF ScrollInv, NothingRepeated, MorePromisesMore
<1> QED
  BY <1>6, <1>7, <1>8, <1>9, <1>10, <1>11, <1>12 DEF ScrollInv

LEMMA ScrollInvHolds == ASSUME ListFits PROVE Spec => []ScrollInv
<1>1. Init => ScrollInv
  BY NoScrollIsFine DEF Init
<1>2. TypeOK /\ ScrollInv /\ [Next]_vars => ScrollInv'
  <2> SUFFICES ASSUME TypeOK, ScrollInv, [Next]_vars PROVE ScrollInv'
    OBVIOUS
  <2>1. CASE StartScroll
    BY <2>1, StartScrollKeeps
  <2>2. CASE ShowPage
    BY <2>2, ShowPageKeeps
  <2>3. CASE NextPage
    BY <2>3, NextPageKeeps
  <2>4. CASE StartSitemap
    <3>1. (scroll = NoScroll)'
      BY <2>4 DEF StartSitemap, NoScroll
    <3> QED
      BY <3>1, NoScrollIsFine, PTL
  <2>5. CASE CountForSitemap \/ UNCHANGED vars
    <3>1. UNCHANGED <<published, scroll, since>>
      BY <2>5 DEF CountForSitemap, vars
    <3> QED
      BY <3>1 DEF ScrollInv, PagesInOrder, MoreIsPublic, CountIsOfRows, ShownIsAbove,
                  UnshownIsBelow, NothingSkipped, NothingRepeated, MorePromisesMore, Public
  <2>6. CASE Publish \/ Withdraw \/ Redate
    BY <2>6, WritesKeep
  <2> QED
    BY <2>1, <2>2, <2>3, <2>4, <2>5, <2>6 DEF Next
<1> QED
  BY <1>1, <1>2, TypeCorrect, PTL DEF Spec

\* An infinite scroll misses nothing that was public all the while, unless
\* something leaves the list or slips in under its last count
\* (articles.find_category_page): what was not shown stays below the pages shown,
\* and when has_more is false there is nothing below.
THEOREM NothingIsSkipped == ASSUME ListFits PROVE Spec => []NothingSkipped
<1>1. ScrollInv => NothingSkipped
  BY DEF ScrollInv
<1> QED
  BY <1>1, ScrollInvHolds, PTL

\* Unless something comes into the list, nothing is shown on two pages
\* (articles.find_category_page): what was shown stays above the pages to come,
\* for no two articles have one position.
THEOREM NothingIsRepeated == ASSUME ListFits PROVE Spec => []NothingRepeated
<1>1. ScrollInv => NothingRepeated
  BY DEF ScrollInv
<1> QED
  BY <1>1, ScrollInvHolds, PTL

\* Unless something leaves, a page that has_more promised is not empty
\* (schemas/pagination.py): it begins inside the list, and every position of the
\* list is filled.
THEOREM MoreIsKept == ASSUME ListFits PROVE Spec => []MorePromisesMore
<1>1. ScrollInv => MorePromisesMore
  BY DEF ScrollInv
<1> QED
  BY <1>1, ScrollInvHolds, PTL
=============================================================================
