----------------------------- MODULE Bookmarks ------------------------------
(***************************************************************************)
(* Readers' bookmarks (routers/v1/account.py, services/bookmarks.py) over  *)
(* the article table, while staff write articles (Articles).  "Bookmark"   *)
(* has no foreign keys: nothing but the code relates its rows to articles. *)
(*                                                                         *)
(* A worker serves a staff request, modelled by Articles, or a toggle.     *)
(***************************************************************************)
EXTENDS Integers, FiniteSets

CONSTANTS
  Workers, Slugs, Contents, Clean, Authors, CreateBodies, UpdateBodies,
  PublishBodies, Null, Unset, MaxId, MaxTime,   \* of Articles
  Readers,       \* ids of the users who keep bookmarks
  MaxBookmarkId  \* bound: no toggle is sent once this id has been handed out

VARIABLES
  articles, nextId, now, req,   \* of Articles
  bookmarks,       \* the "Bookmark" table: a row for each id in use
  nextBookmarkId,  \* its id sequence
  toggles          \* the toggle each worker is serving

articleVars == <<articles, nextId, now, req>>
vars == <<articles, nextId, now, req, bookmarks, nextBookmarkId, toggles>>

A == INSTANCE Articles

ASSUME BookmarksAssumption ==
  /\ Readers \subseteq Nat \ {0}
  /\ MaxBookmarkId \in Nat

Row == [user_id : Readers, article_id : Nat \ {0}]

\* bookmark: the id of the existing row, when the toggle found one.
Toggling == [pc : {"idle", "look", "delete", "insert"}, code : {200, 404, 500},
             user_id : Readers \cup {0}, article_id : Nat, bookmark : Nat]

Answered(code) == [pc |-> "idle", code |-> code, user_id |-> 0, article_id |-> 0,
                   bookmark |-> 0]

Kept == DOMAIN bookmarks

OfPair(user, article) ==
  {b \in Kept : bookmarks[b].user_id = user /\ bookmarks[b].article_id = article}

-----------------------------------------------------------------------------
Init ==
  /\ A!Init
  /\ bookmarks = [b \in {} |-> 0]
  /\ nextBookmarkId = 1
  /\ toggles = [w \in Workers |-> Answered(200)]

Ready(w) == toggles[w].pc = "idle" /\ A!Ready(w)

Answer(w, code) == toggles' = [toggles EXCEPT ![w] = Answered(code)]

\* find_published_article_by_slug
PublishedBySlug(slug) ==
  {i \in A!BySlug(slug) : articles[i].article_status = "published"}

\* POST /account/bookmarks/toggle, to the look at the article
ToggleBookmark(w) ==
  /\ Ready(w)
  /\ nextBookmarkId <= MaxBookmarkId   \* bound
  /\ \E user \in Readers, slug \in Slugs :
       \/ PublishedBySlug(slug) = {} /\ Answer(w, 404)
       \/ \E i \in PublishedBySlug(slug) :
            toggles' = [toggles EXCEPT ![w] =
              [Answered(200) EXCEPT !.pc = "look", !.user_id = user, !.article_id = i]]
  /\ UNCHANGED <<articleVars, bookmarks, nextBookmarkId>>

\* toggle: what its SELECT finds
Existing(toggle) == OfPair(toggle.user_id, toggle.article_id)

\* toggle: is there a bookmark?
Look(w) ==
  /\ toggles[w].pc = "look"
  /\ \/ /\ Existing(toggles[w]) = {}
        /\ toggles' = [toggles EXCEPT ![w].pc = "insert"]
     \/ \E b \in Existing(toggles[w]) :
          toggles' = [toggles EXCEPT ![w].pc = "delete", ![w].bookmark = b]
  /\ UNCHANGED <<articleVars, bookmarks, nextBookmarkId>>

\* Mutant of Remove: the session is closed without a commit.
RemoveUncommitted(w) ==
  /\ toggles[w].pc = "delete"
  /\ Answer(w, 200)
  /\ UNCHANGED <<articleVars, bookmarks, nextBookmarkId>>

\* toggle: DELETE and COMMIT, and the answer "not bookmarked".  A row that is
\* gone already only logs a warning.
Remove(w) ==
  /\ toggles[w].pc = "delete"
  /\ bookmarks' = [b \in Kept \ {toggles[w].bookmark} |-> bookmarks[b]]
  /\ Answer(w, 200)
  /\ UNCHANGED <<articleVars, nextBookmarkId>>

\* Mutant of NewBookmark: the ids change places.
NewBookmarkSwapped(toggle) ==
  [user_id |-> toggle.article_id, article_id |-> toggle.user_id]

NewBookmark(toggle) == [user_id |-> toggle.user_id, article_id |-> toggle.article_id]

\* Bookmark_user_article_unique
UniqueRefuses(row) == OfPair(row.user_id, row.article_id) # {}

\* toggle: INSERT and COMMIT, and the answer "bookmarked".  Nothing handles
\* the IntegrityError: 500.
Add(w) ==
  LET row == NewBookmark(toggles[w])
  IN  /\ toggles[w].pc = "insert"
      /\ nextBookmarkId' = nextBookmarkId + 1
      /\ IF UniqueRefuses(row)
           THEN Answer(w, 500) /\ UNCHANGED bookmarks
           ELSE /\ bookmarks' = [b \in Kept \cup {nextBookmarkId} |->
                                   IF b = nextBookmarkId THEN row ELSE bookmarks[b]]
                /\ Answer(w, 200)
      /\ UNCHANGED articleVars

\* A step of a staff request, or of the clock.  Deleting an article leaves its
\* bookmarks: delete_for_article has no caller.
StaffStep ==
  /\ (\E w \in Workers : toggles[w].pc = "idle" /\ A!Step(w)) \/ A!Tick
  /\ UNCHANGED <<bookmarks, nextBookmarkId, toggles>>

ReaderStep(w) ==
  \/ ToggleBookmark(w)
  \/ Look(w)
  \/ Remove(w)
  \/ Add(w)

Next == StaffStep \/ \E w \in Workers : ReaderStep(w)

Spec == Init /\ [][Next]_vars

-----------------------------------------------------------------------------
(* Properties *)

\* A bookmark names an article there is or was; a toggle about to write found
\* its article, and a toggle about to delete found its row.
TypeOK ==
  /\ nextBookmarkId \in Nat \ {0}
  /\ Kept \subseteq 1 .. nextBookmarkId - 1
  /\ bookmarks \in [Kept -> Row]
  /\ toggles \in [Workers -> Toggling]
  /\ \A b \in Kept : bookmarks[b].article_id < nextId
  /\ \A w \in Workers :
       /\ toggles[w].pc # "idle" => /\ toggles[w].user_id \in Readers
                                    /\ toggles[w].article_id \in 1 .. nextId - 1
       /\ toggles[w].pc = "delete" => toggles[w].bookmark \in 1 .. nextBookmarkId - 1

\* No reader holds two bookmarks of one article, whatever the toggles that saw
\* none (Bookmark_user_article_unique).
OneBookmark == \A b, c \in Kept : bookmarks[b] = bookmarks[c] => b = c

\* A toggle deletes no one else's bookmark, however late it is: ids are not
\* used again (bookmarks.toggle).
OwnBookmarkOnly ==
  [][\A b \in Kept \ Kept' : \E w \in Workers :
       toggles[w].pc = "delete" /\ toggles[w].user_id = bookmarks[b].user_id]_vars

\* A bookmark whose article was deleted never comes to show another one: the
\* catalogue gives no id out twice (services/bookmarks.py: "a row may reference
\* an article that no longer exists").
DeletedStaysNull ==
  [][\A b \in Kept \cap Kept' :
       bookmarks[b].article_id \notin A!Live => bookmarks'[b].article_id \notin A!Live']_vars

\* The answer of a toggle is true when it is given ("Returns True if it is now
\* bookmarked"), unless the row it found was gone by its DELETE: there is no
\* other row that could keep the article bookmarked.
AnswerHolds ==
  [][\A w \in Workers :
       LET t       == toggles[w]
           present == \E b \in Kept' : /\ bookmarks'[b].user_id = t.user_id
                                       /\ bookmarks'[b].article_id = t.article_id
       IN  toggles'[w] = Answered(200) =>
             /\ t.pc = "insert" => present
             /\ t.pc = "delete" /\ t.bookmark \in Kept => ~ present]_vars
=============================================================================
