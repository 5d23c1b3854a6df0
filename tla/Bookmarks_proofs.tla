-------------------------- MODULE Bookmarks_proofs ---------------------------
(***************************************************************************)
(* Theorems about Bookmarks, for any readers, requests and article writes. *)
(***************************************************************************)
EXTENDS Bookmarks, TLAPS

-----------------------------------------------------------------------------
(* What the staff's requests do to the article ids *)

ArticleIds == nextId \in Nat \ {0} /\ A!Live \subseteq 1 .. nextId - 1

LEMMA ArticleWrites ==
  ASSUME ArticleIds, NEW w \in Workers, A!Step(w)
  PROVE  \/ nextId' = nextId /\ A!Live' \subseteq A!Live
         \/ nextId' = nextId + 1 /\ A!Live' \subseteq A!Live \cup {nextId}
<1>1. CASE A!Insert(w)
  BY <1>1 DEF A!Insert, A!Live
<1>2. CASE A!CommitUpdate(w)
  BY <1>2 DEF A!CommitUpdate, A!Live
<1>3. CASE A!CommitDelete(w)
  BY <1>3 DEF A!CommitDelete, A!Live
<1>4. CASE A!CreatePost(w) \/ A!PublishArticle(w)
  BY <1>4 DEF A!CreatePost, A!PublishArticle, A!StartInsert, A!Live
<1>5. CASE A!UpdatePost(w) \/ A!SetStatus(w) \/ A!DeletePost(w)
  BY ZenonT(60), <1>5 DEF A!UpdatePost, A!SetStatus, A!DeletePost, A!NotFound, A!Found, A!Live
<1>6. CASE A!CheckSlug(w) \/ A!Refresh(w)
  BY <1>6 DEF A!CheckSlug, A!Refresh, A!Live
<1> QED
  BY <1>1, <1>2, <1>3, <1>4, <1>5, <1>6 DEF A!Step

\* An article id that is in the past stays so, and once its article is gone it
\* stays gone.
LEMMA ArticleIdsKept ==
  ASSUME ArticleIds, [Next]_vars
  PROVE  /\ ArticleIds'
         /\ nextId <= nextId'
         /\ \A i \in Nat : i < nextId /\ i \notin A!Live => i \notin A!Live'
<1>1. \/ nextId' = nextId /\ A!Live' \subseteq A!Live
      \/ nextId' = nextId + 1 /\ A!Live' \subseteq A!Live \cup {nextId}
  <2>1. CASE StaffStep
    BY <2>1, ArticleWrites DEF StaffStep, A!Tick, A!Live
  <2>2. CASE UNCHANGED articleVars
    BY <2>2 DEF articleVars, A!Live
  <2>3. ASSUME NEW w \in Workers, ReaderStep(w)
        PROVE  UNCHANGED articleVars
    BY <2>3 DEF ReaderStep, ToggleBookmark, Look, Remove, Add
  <2> QED
    BY <2>1, <2>2, <2>3 DEF Next, vars, articleVars
<1>2. nextId' \in Nat \ {0} /\ nextId <= nextId'
  BY <1>1 DEF ArticleIds
<1>3. A!Live' \subseteq 1 .. nextId' - 1
  <2>1. CASE nextId' = nextId /\ A!Live' \subseteq A!Live
    BY <2>1 DEF ArticleIds
  <2>2. CASE nextId' = nextId + 1 /\ A!Live' \subseteq A!Live \cup {nextId}
    BY <2>2 DEF ArticleIds
  <2> QED
    BY <1>1, <2>1, <2>2
<1>4. \A i \in Nat : i < nextId /\ i \notin A!Live => i \notin A!Live'
  BY <1>1 DEF ArticleIds
<1> QED
  BY <1>2, <1>3, <1>4 DEF ArticleIds

-----------------------------------------------------------------------------
(* Types *)

\* The row a toggle is about to delete is that of its reader and article, if it
\* is there.
OwnRow(t) == t.pc = "delete" /\ t.bookmark \in Kept =>
               /\ bookmarks[t.bookmark].user_id = t.user_id
               /\ bookmarks[t.bookmark].article_id = t.article_id

TogglesOwn == \A w \in Workers : OwnRow(toggles[w])

\* What TypeOK says of one toggle
Typed(t) ==
  /\ t \in Toggling
  /\ t.pc # "idle" => t.user_id \in Readers /\ t.article_id \in 1 .. nextId - 1
  /\ t.pc = "delete" => t.bookmark \in 1 .. nextBookmarkId - 1

Inv == ArticleIds /\ TypeOK /\ TogglesOwn

LEMMA AnsweredTyped ==
  ASSUME NEW code \in {200, 404, 500}
  PROVE  /\ Answered(code) \in Toggling /\ Answered(code).pc = "idle"
         /\ Typed(Answered(code)) /\ OwnRow(Answered(code))
<1>1. Answered(code) \in Toggling /\ Answered(code).pc = "idle"
  BY DEF Answered, Toggling
<1> QED
  BY <1>1 DEF Typed, OwnRow

LEMMA InvInit == Init => Inv
<1> SUFFICES ASSUME Init
             PROVE  Inv
  OBVIOUS
<1>1. ArticleIds /\ nextId = 1
  BY DEF Init, A!Init, ArticleIds, A!Live
<1>2. Kept = {} /\ nextBookmarkId = 1 /\ bookmarks \in [Kept -> Row]
  BY DEF Init, Kept
<1>3. toggles = [w \in Workers |-> Answered(200)]
  BY DEF Init
<1> QED
  BY <1>1, <1>2, <1>3, AnsweredTyped DEF Inv, TypeOK, TogglesOwn, Typed

\* A step that writes no bookmark leaves one toggle as t.
LEMMA ToggleStep ==
  ASSUME Inv, NEW w \in Workers, NEW t, Typed(t), OwnRow(t),
         toggles' = [toggles EXCEPT ![w] = t],
         UNCHANGED <<articleVars, bookmarks, nextBookmarkId>>
  PROVE  Inv'
<1>1. Kept' = Kept /\ nextId' = nextId /\ ArticleIds'
  BY DEF Kept, articleVars, Inv, ArticleIds, A!Live
<1>2. toggles' \in [Workers -> Toggling]
  BY DEF Inv, TypeOK, Typed
<1>3. \A v \in Workers : toggles'[v] = IF v = w THEN t ELSE toggles[v]
  BY DEF Inv, TypeOK
<1>4. TypeOK'
  BY <1>1, <1>2, <1>3 DEF Inv, TypeOK, Typed
<1>5. TogglesOwn'
  BY <1>1, <1>3 DEF Inv, TogglesOwn, OwnRow
<1> QED
  BY <1>1, <1>4, <1>5 DEF Inv

LEMMA InvStep ==
  ASSUME Inv, [Next]_vars
  PROVE  Inv'
<1>1. CASE StaffStep \/ UNCHANGED vars
  <2>1. UNCHANGED <<bookmarks, nextBookmarkId, toggles>>
    BY <1>1 DEF StaffStep, vars
  <2>2. nextId \in Nat /\ nextId' \in Nat /\ nextId <= nextId'
    BY ArticleIdsKept DEF Inv, ArticleIds
  <2>3. \A b \in Kept : bookmarks[b].article_id < nextId'
    <3>1. \A b \in Kept : bookmarks[b].article_id \in Nat
      BY DEF Inv, TypeOK, Row
    <3> QED
      BY <2>2, <3>1 DEF Inv, TypeOK
  <2>4. \A w \in Workers : toggles[w].pc # "idle" =>
          toggles[w].article_id \in 1 .. nextId' - 1
    <3> SUFFICES ASSUME NEW w \in Workers, toggles[w].pc # "idle"
                 PROVE  toggles[w].article_id \in 1 .. nextId' - 1
      OBVIOUS
    <3>1. toggles[w].article_id \in 1 .. nextId - 1
      BY DEF Inv, TypeOK
    <3> QED
      BY <2>2, <3>1
  <2>5. TypeOK'
    BY <2>1, <2>3, <2>4 DEF Inv, TypeOK, Kept
  <2>6. TogglesOwn'
    BY <2>1 DEF Inv, TogglesOwn, OwnRow, Kept
  <2> QED
    BY ArticleIdsKept, <2>5, <2>6 DEF Inv
<1>2. ASSUME NEW w \in Workers, ToggleBookmark(w)
      PROVE  Inv'
  <2>1. PICK user \in Readers, slug \in Slugs :
          \/ Answer(w, 404)
          \/ \E i \in PublishedBySlug(slug) :
               toggles' = [toggles EXCEPT ![w] =
                 [Answered(200) EXCEPT !.pc = "look", !.user_id = user, !.article_id = i]]
    BY ZenonT(60), <1>2 DEF ToggleBookmark
  <2>2. UNCHANGED <<articleVars, bookmarks, nextBookmarkId>>
    BY <1>2 DEF ToggleBookmark
  <2>3. CASE Answer(w, 404)
    <3>1. PICK t : t = Answered(404)
      OBVIOUS
    <3>2. Typed(t) /\ OwnRow(t)
      BY <3>1, AnsweredTyped
    <3>3. toggles' = [toggles EXCEPT ![w] = t]
      BY <2>3, <3>1 DEF Answer
    <3> QED
      BY <2>2, <3>2, <3>3, ToggleStep
  <2>4. ASSUME NEW i \in PublishedBySlug(slug),
               toggles' = [toggles EXCEPT ![w] =
                 [Answered(200) EXCEPT !.pc = "look", !.user_id = user, !.article_id = i]]
        PROVE  Inv'
    <3> DEFINE t == [Answered(200) EXCEPT !.pc = "look", !.user_id = user, !.article_id = i]
    <3>1. i \in 1 .. nextId - 1 /\ i \in Nat
      BY DEF PublishedBySlug, A!BySlug, Inv, ArticleIds
    <3>2. t \in Toggling
      BY <3>1 DEF Answered, Toggling
    <3>3. t.pc = "look" /\ t.user_id = user /\ t.article_id = i
      BY DEF Answered
    <3> HIDE DEF t
    <3>4. Typed(t) /\ OwnRow(t)
      BY <3>1, <3>2, <3>3 DEF Typed, OwnRow
    <3>5. toggles' = [toggles EXCEPT ![w] = t]
      BY <2>4 DEF t
    <3> QED
      BY <2>2, <3>4, <3>5, ToggleStep
  <2> QED
    BY <2>1, <2>3, <2>4
<1>3. ASSUME NEW w \in Workers, Look(w)
      PROVE  Inv'
  <2>1. /\ toggles[w].pc = "look" /\ toggles[w] \in Toggling
        /\ toggles[w].user_id \in Readers /\ toggles[w].article_id \in 1 .. nextId - 1
    BY <1>3 DEF Look, Inv, TypeOK
  <2>2. UNCHANGED <<articleVars, bookmarks, nextBookmarkId>>
    BY <1>3 DEF Look
  <2>3. CASE toggles' = [toggles EXCEPT ![w].pc = "insert"]
    <3>1. PICK t : t = [toggles[w] EXCEPT !.pc = "insert"]
      OBVIOUS
    <3>2. t \in Toggling /\ t.pc = "insert" /\ t.user_id = toggles[w].user_id
          /\ t.article_id = toggles[w].article_id
      BY <2>1, <3>1 DEF Toggling
    <3>3. Typed(t) /\ OwnRow(t)
      BY <2>1, <3>2 DEF Typed, OwnRow
    <3>4. toggles' = [toggles EXCEPT ![w] = t]
      BY <2>3, <3>1 DEF Inv, TypeOK
    <3> QED
      BY <2>2, <3>3, <3>4, ToggleStep
  <2>4. ASSUME NEW b \in Existing(toggles[w]),
               toggles' = [toggles EXCEPT ![w].pc = "delete", ![w].bookmark = b]
        PROVE  Inv'
    <3>1. PICK t : t = [toggles[w] EXCEPT !.pc = "delete", !.bookmark = b]
      OBVIOUS
    <3>2. /\ b \in Kept /\ b \in 1 .. nextBookmarkId - 1 /\ b \in Nat
          /\ bookmarks[b].user_id = toggles[w].user_id
          /\ bookmarks[b].article_id = toggles[w].article_id
      BY DEF Existing, OfPair, Inv, TypeOK
    <3>3. t \in Toggling /\ t.pc = "delete" /\ t.user_id = toggles[w].user_id
          /\ t.article_id = toggles[w].article_id /\ t.bookmark = b
      BY ZenonT(60), <2>1, <3>1, <3>2 DEF Toggling
    <3>4. Typed(t) /\ OwnRow(t)
      BY <2>1, <3>2, <3>3 DEF Typed, OwnRow
    <3>5. toggles' = [toggles EXCEPT ![w] = t]
      BY <2>4, <3>1 DEF Inv, TypeOK
    <3> QED
      BY <2>2, <3>4, <3>5, ToggleStep
  <2> QED
    BY <1>3, <2>3, <2>4 DEF Look
<1>4. ASSUME NEW w \in Workers, Remove(w) \/ Add(w)
      PROVE  Inv'
  <2>1. /\ UNCHANGED articleVars
        /\ \E code \in {200, 500} : toggles' = [toggles EXCEPT ![w] = Answered(code)]
    BY <1>4 DEF Remove, Add, Answer
  <2>2. /\ toggles' \in [Workers -> Toggling]
        /\ \A v \in Workers : toggles'[v].pc # "idle" => v # w /\ toggles'[v] = toggles[v]
    BY <2>1, AnsweredTyped DEF Inv, TypeOK
  <2>3. ArticleIds' /\ nextId' = nextId
    BY <2>1 DEF articleVars, Inv, ArticleIds, A!Live
  <2>4. /\ nextBookmarkId' \in Nat \ {0} /\ nextBookmarkId <= nextBookmarkId'
        /\ Kept' \subseteq 1 .. nextBookmarkId' - 1
        /\ bookmarks' \in [Kept' -> Row]
        /\ \A b \in Kept' : bookmarks'[b].article_id < nextId
        /\ \A b \in Kept' : b < nextBookmarkId => b \in Kept /\ bookmarks'[b] = bookmarks[b]
    <3>1. CASE Remove(w)
      BY <3>1 DEF Remove, Inv, TypeOK, Kept
    <3>2. CASE Add(w)
      <4> DEFINE row == NewBookmark(toggles[w])
      <4>1. row \in Row /\ row.article_id < nextId
        BY <3>2 DEF Add, NewBookmark, Row, Inv, TypeOK, ArticleIds
      <4>2. /\ nextBookmarkId' = nextBookmarkId + 1
            /\ \/ UNCHANGED bookmarks
               \/ bookmarks' = [b \in Kept \cup {nextBookmarkId} |->
                                  IF b = nextBookmarkId THEN row ELSE bookmarks[b]]
        BY <3>2 DEF Add
      <4> HIDE DEF row
      <4> QED
        BY <4>1, <4>2 DEF Inv, TypeOK, Kept
    <3> QED
      BY <1>4, <3>1, <3>2
  <2>5. TypeOK'
    <3>1. \A b \in Kept' : bookmarks'[b].article_id < nextId'
      BY <2>3, <2>4
    <3>2. \A v \in Workers : toggles'[v].pc # "idle" =>
            toggles'[v].user_id \in Readers /\ toggles'[v].article_id \in 1 .. nextId' - 1
      BY <2>2, <2>3 DEF Inv, TypeOK
    <3>3. \A v \in Workers : toggles'[v].pc = "delete" =>
            toggles'[v].bookmark \in 1 .. nextBookmarkId' - 1
      <4> SUFFICES ASSUME NEW v \in Workers, toggles'[v].pc = "delete"
                   PROVE  toggles'[v].bookmark \in 1 .. nextBookmarkId' - 1
        OBVIOUS
      <4>1. toggles'[v].bookmark \in 1 .. nextBookmarkId - 1
        BY <2>2 DEF Inv, TypeOK
      <4>2. nextBookmarkId \in Nat
        BY DEF Inv, TypeOK
      <4> QED
        BY <2>4, <4>1, <4>2
    <3> QED
      BY <2>2, <2>4, <3>1, <3>2, <3>3 DEF TypeOK
  <2>6. TogglesOwn'
    <3> SUFFICES ASSUME NEW v \in Workers, toggles'[v].pc = "delete",
                        toggles'[v].bookmark \in Kept'
                 PROVE  /\ bookmarks'[toggles'[v].bookmark].user_id = toggles'[v].user_id
                        /\ bookmarks'[toggles'[v].bookmark].article_id
                             = toggles'[v].article_id
      BY DEF TogglesOwn, OwnRow
    <3>1. toggles'[v] = toggles[v] /\ toggles[v].bookmark < nextBookmarkId
      BY <2>2 DEF Inv, TypeOK
    <3> QED
      BY ZenonT(60), <2>4, <3>1 DEF Inv, TogglesOwn, OwnRow
  <2> QED
    BY <2>3, <2>5, <2>6 DEF Inv
<1> QED
  BY <1>1, <1>2, <1>3, <1>4 DEF Next, ReaderStep

LEMMA InvHolds == Spec => []Inv
  BY InvInit, InvStep, PTL DEF Spec

\* Bookmarks and toggles are well typed and name articles there are or were.
THEOREM TypeCorrect == Spec => []TypeOK
  BY InvHolds, PTL DEF Inv

-----------------------------------------------------------------------------
(* The table *)

LEMMA TogglesWrite ==
  ASSUME [Next]_vars
  PROVE  UNCHANGED bookmarks \/ \E w \in Workers : Remove(w) \/ Add(w)
BY DEF Next, StaffStep, ReaderStep, ToggleBookmark, Look, vars

\* No reader holds an article twice, however many toggles saw no bookmark of it
\* (Bookmark_user_article_unique).
THEOREM NoSecondBookmark == Spec => []OneBookmark
<1>1. Init => OneBookmark
  BY DEF Init, OneBookmark, Kept
<1>2. OneBookmark /\ [Next]_vars => OneBookmark'
  <2> SUFFICES ASSUME OneBookmark, [Next]_vars
               PROVE  OneBookmark'
    OBVIOUS
  <2>1. CASE UNCHANGED bookmarks
    BY <2>1 DEF OneBookmark, Kept
  <2>2. ASSUME NEW w \in Workers, Remove(w)
        PROVE  OneBookmark'
    BY <2>2 DEF Remove, OneBookmark, Kept
  <2>3. ASSUME NEW w \in Workers, Add(w)
        PROVE  OneBookmark'
    BY <2>1, <2>3 DEF Add, UniqueRefuses, OfPair, OneBookmark, Kept
  <2> QED
    BY <2>1, <2>2, <2>3, TogglesWrite
<1> QED
  BY <1>1, <1>2, PTL DEF Spec

\* A toggle removes no other reader's bookmark, however late it comes: the row
\* it found is gone or is still its reader's own (bookmarks.toggle).
THEOREM TogglesRemoveTheirOwn == Spec => OwnBookmarkOnly
<1>1. Inv /\ [Next]_vars =>
        [\A b \in Kept \ Kept' : \E w \in Workers :
           toggles[w].pc = "delete" /\ toggles[w].user_id = bookmarks[b].user_id]_vars
  <2> SUFFICES ASSUME Inv, [Next]_vars, NEW b \in Kept \ Kept'
               PROVE  \E w \in Workers :
                        toggles[w].pc = "delete" /\ toggles[w].user_id = bookmarks[b].user_id
    OBVIOUS
  <2>1. \A w \in Workers : Add(w) => Kept \subseteq Kept'
    BY DEF Add, Kept
  <2>2. UNCHANGED bookmarks => Kept' = Kept
    BY DEF Kept
  <2>3. PICK w \in Workers : Remove(w)
    BY <2>1, <2>2, TogglesWrite
  <2>4. b = toggles[w].bookmark /\ toggles[w].pc = "delete"
    BY <2>3 DEF Remove, Kept
  <2> QED
    BY <2>4 DEF Inv, TogglesOwn, OwnRow
<1> QED
  BY <1>1, InvHolds, PTL DEF Spec, OwnBookmarkOnly

\* A bookmark whose article was deleted shows no article ever after, for no
\* article gets a used id (services/bookmarks.py:3-5).
THEOREM DeletedArticlesStayNull == Spec => DeletedStaysNull
<1>1. Inv /\ [Next]_vars =>
        [\A b \in Kept \cap Kept' :
           bookmarks[b].article_id \notin A!Live =>
             bookmarks'[b].article_id \notin A!Live']_vars
  <2> SUFFICES ASSUME Inv, [Next]_vars, NEW b \in Kept \cap Kept',
                      bookmarks[b].article_id \notin A!Live
               PROVE  bookmarks'[b].article_id \notin A!Live'
    OBVIOUS
  <2>1. bookmarks'[b] = bookmarks[b]
    <3>1. b # nextBookmarkId
      BY DEF Inv, TypeOK
    <3> QED
      BY <3>1, TogglesWrite DEF Remove, Add, Kept
  <2>2. bookmarks[b].article_id < nextId /\ bookmarks[b].article_id \in Nat
    BY DEF Inv, TypeOK, Row
  <2> QED
    BY <2>1, <2>2, ArticleIdsKept DEF Inv
<1> QED
  BY <1>1, InvHolds, PTL DEF Spec, DeletedStaysNull

-----------------------------------------------------------------------------
(* The answers *)

\* A toggle that is about to write is left alone until it writes.
LEMMA OwnStep ==
  ASSUME Inv, [Next]_vars, NEW w \in Workers, toggles[w].pc \in {"insert", "delete"},
         toggles'[w] = Answered(200)
  PROVE  \/ toggles[w].pc = "insert" /\ Add(w)
         \/ toggles[w].pc = "delete" /\ Remove(w)
<1>1. toggles'[w].pc = "idle"
  BY DEF Answered
<1>2. toggles' # toggles
  BY <1>1
<1>3. PICK v \in Workers : ReaderStep(v)
  BY <1>2 DEF Next, StaffStep, vars
<1>4. \A u \in Workers : u # v => toggles'[u] = toggles[u]
  BY ZenonT(60), <1>3 DEF ReaderStep, ToggleBookmark, Look, Remove, Add, Answer, Inv, TypeOK
<1>5. v = w
  BY <1>1, <1>4
<1>6. ~ ToggleBookmark(v) /\ ~ Look(v)
  BY <1>5 DEF ToggleBookmark, Ready, Look
<1>7. CASE Add(v)
  <2>1. Add(w)
    BY <1>5, <1>7 DEF Add, Answer, UniqueRefuses, OfPair, NewBookmark
  <2> QED
    BY <2>1 DEF Add
<1>8. CASE Remove(v)
  <2>1. Remove(w)
    BY <1>5, <1>8 DEF Remove, Answer
  <2> QED
    BY <2>1 DEF Remove
<1> QED
  BY <1>3, <1>6, <1>7, <1>8 DEF ReaderStep

\* A toggle that wrote its row answers what is so (bookmarks.toggle).  A toggle
\* whose row was gone may not.
THEOREM WrittenAnswersHold == Spec => AnswerHolds
<1>1. Inv /\ OneBookmark /\ [Next]_vars =>
        [\A w \in Workers :
           LET t       == toggles[w]
               present == \E b \in Kept' : /\ bookmarks'[b].user_id = t.user_id
                                           /\ bookmarks'[b].article_id = t.article_id
           IN  toggles'[w] = Answered(200) =>
                 /\ t.pc = "insert" => present
                 /\ t.pc = "delete" /\ t.bookmark \in Kept => ~ present]_vars
  <2> SUFFICES ASSUME Inv, OneBookmark, [Next]_vars, vars' # vars, NEW w \in Workers,
                      toggles'[w] = Answered(200)
               PROVE  /\ toggles[w].pc = "insert" =>
                           \E b \in Kept' : /\ bookmarks'[b].user_id = toggles[w].user_id
                                            /\ bookmarks'[b].article_id = toggles[w].article_id
                      /\ toggles[w].pc = "delete" /\ toggles[w].bookmark \in Kept =>
                           ~ \E b \in Kept' : /\ bookmarks'[b].user_id = toggles[w].user_id
                                              /\ bookmarks'[b].article_id = toggles[w].article_id
    OBVIOUS
  <2>1. CASE toggles[w].pc = "insert"
    <3>1. Add(w)
      BY <2>1, OwnStep
    <3>2. ~ UniqueRefuses(NewBookmark(toggles[w]))
      BY <3>1 DEF Add, Answer, Answered, Inv, TypeOK
    <3>3. /\ nextBookmarkId \in Kept'
          /\ bookmarks'[nextBookmarkId] = NewBookmark(toggles[w])
      BY <3>1, <3>2 DEF Add, Kept
    <3> QED
      BY <2>1, <3>3 DEF NewBookmark
  <2>2. CASE toggles[w].pc = "delete" /\ toggles[w].bookmark \in Kept
    <3>1. Remove(w)
      BY <2>2, OwnStep
    <3>2. /\ Kept' = Kept \ {toggles[w].bookmark}
          /\ \A b \in Kept' : bookmarks'[b] = bookmarks[b]
      BY <3>1 DEF Remove, Kept
    <3>3. /\ bookmarks[toggles[w].bookmark].user_id = toggles[w].user_id
          /\ bookmarks[toggles[w].bookmark].article_id = toggles[w].article_id
      BY <2>2 DEF Inv, TogglesOwn, OwnRow
    <3>4. \A b \in Kept : bookmarks[b] \in Row
      BY DEF Inv, TypeOK
    <3>5. \A b \in Kept : /\ bookmarks[b].user_id = toggles[w].user_id
                         /\ bookmarks[b].article_id = toggles[w].article_id
                         => b = toggles[w].bookmark
      BY <2>2, <3>3, <3>4 DEF OneBookmark, Row
    <3> QED
      BY <2>2, <3>2, <3>5
  <2> QED
    BY <2>1, <2>2
<1> QED
  BY <1>1, InvHolds, NoSecondBookmark, PTL DEF Spec, AnswerHolds

-----------------------------------------------------------------------------
(* The composition *)

\* Readers leave staff alone: seen through the article variables, every
\* behaviour with readers is one of Articles, so what is proved there of slugs,
\* dates and edits holds while bookmarks are toggled (services/bookmarks.py
\* writes "Bookmark" only).
THEOREM ReadersDisturbNoArticle == Spec => A!Spec
<1>1. Init => A!Init
  BY DEF Init
<1>2. [Next]_vars => [A!Next]_A!vars
  <2> SUFFICES ASSUME [Next]_vars PROVE A!Next \/ UNCHANGED A!vars
    OBVIOUS
  <2>1. CASE StaffStep
    BY <2>1 DEF StaffStep, A!Next
  <2>2. ASSUME NEW w \in Workers, ReaderStep(w)
        PROVE  UNCHANGED A!vars
    BY <2>2 DEF ReaderStep, ToggleBookmark, Look, Remove, Add, articleVars, A!vars
  <2>3. CASE UNCHANGED vars
    BY <2>3 DEF vars, A!vars
  <2> QED
    BY <2>1, <2>2, <2>3 DEF Next
<1> QED
  BY <1>1, <1>2, PTL DEF Spec, A!Spec
=============================================================================
