------------------------- MODULE Migrations_proofs -------------------------
(***************************************************************************)
(* Theorems about Migrations: rows stay well typed, no tag is lost, and    *)
(* running the chain again is harmless, for every database it may start    *)
(* from, any number of interruptions and any writes of the service.        *)
(***************************************************************************)
EXTENDS Migrations, TLAPS

-----------------------------------------------------------------------------
(* What is so while the run is at each of its steps *)

\* What a run that has come this far has made of the schema.  "job" goes after
\* the rename, so that whoever finds the categories aligned finds the covers
\* renamed.
SchemaInv ==
  /\ schema \subseteq Names
  /\ at \notin {"idle", "0000", "0001"} => Has("editor")
  /\ at \notin {"idle", "0000", "0001", "0002"} => Has("api_key_hash")
  /\ at \in {"0004", "0005a", "0005b", "0006", "0007", "0008"} => ~ Has("cover_instagram_url")
  /\ at \in {"0005a", "0005b", "0006", "0007", "0008"} => ~ Has("saved")
  /\ at \in {"0005b", "0006", "0007", "0008"} => ~ Has("job")
  /\ at \in {"0006", "0007", "0008"} => ~ Has("views")
  /\ at \in {"0001", "0002", "0003"} /\ Has("cover_instagram_url") => ~ Has("cover_image_url")
  /\ Has("cover_instagram_url") \/ Has("cover_image_url")
  /\ ~ Has("job") => ~ Has("cover_instagram_url")
  /\ Has("saved") => Has("views")

\* A run that has been completed leaves nothing to the schema and no secret.
PassedInv ==
  passes > 0 => schema = NewSchema /\ \A p \in DOMAIN users : ~ users[p].api_key

Linked(tags, url) == url # Null => \E tag \in tags : tag.url = url

\* The links wait in their column until 0000 has copied them, and 0003 comes
\* only then.
TagsInv ==
  \A i \in DOMAIN articles \ edited :
    /\ OncePerUrl(articles[i].instagram_post_url)
    /\ Has("cover_instagram_url") =>
         articles[i].cover_instagram_url = origin[i].cover_instagram_url
    /\ ~ Has("cover_instagram_url") \/ at \in {"0001", "0002", "0003"} =>
         Linked(articles[i].instagram_post_url, origin[i].cover_instagram_url)

NoInstagramCover == \A i \in DOMAIN articles : articles[i].cover_image_url \notin Instagram

NoOrphan == \A b \in bookmarks : b[1] \in DOMAIN users /\ b[2] \in DOMAIN articles

NoInert == \A p \in DOMAIN users : ~ Inert(p)

\* What runs that nothing disturbed have made of the rows.
QuietInv ==
  /\ quiet > 1 \/ (quiet > 0 /\ at = "idle") => passes > 0
  /\ quiet > 1 \/ (quiet > 0 /\ at \in {"0007", "0008", "idle"}) => NoInstagramCover
  /\ quiet > 1 \/ (quiet > 0 /\ at = "idle") => NoOrphan
  /\ quiet > 2 \/ (quiet > 1 /\ at \in {"0008", "idle"}) => NoInert

Inv == TypeOK /\ SchemaInv /\ PassedInv /\ TagsInv /\ QuietInv

-----------------------------------------------------------------------------
(* What each file makes of a row *)

\* The copy of a link keeps the list a list of tags, each URL once, and puts
\* the link on it (0000).
LEMMA CopiedTags ==
  ASSUME NEW a \in ArticleRow
  PROVE  /\ Copied(a) \in SUBSET Tag
         /\ OncePerUrl(a.instagram_post_url) => OncePerUrl(Copied(a))
         /\ a.instagram_post_url \subseteq Copied(a)
         /\ Linked(Copied(a), a.cover_instagram_url)
<1>1. a.instagram_post_url \in SUBSET Tag /\ a.cover_instagram_url \in Links \cup {Null}
  BY DEF ArticleRow
<1>2. CASE \/ a.cover_instagram_url = Null
           \/ \E tag \in a.instagram_post_url : tag.url = a.cover_instagram_url
  <2>1. Copied(a) = a.instagram_post_url
    BY <1>2 DEF Copied
  <2> QED
    BY <1>1, <1>2, <2>1 DEF Linked
<1>3. CASE /\ a.cover_instagram_url # Null
           /\ ~ \E tag \in a.instagram_post_url : tag.url = a.cover_instagram_url
  <2> DEFINE new == [url |-> a.cover_instagram_url, title |-> "Instagram"]
  <2>1. Copied(a) = a.instagram_post_url \cup {new}
    BY <1>3 DEF Copied
  <2>2. new \in Tag /\ new.url = a.cover_instagram_url
    BY <1>1, <1>3, ConstantsAssumption DEF Tag
  <2>3. OncePerUrl(a.instagram_post_url) => OncePerUrl(a.instagram_post_url \cup {new})
    BY <1>3, <2>2 DEF OncePerUrl
  <2> HIDE DEF new
  <2> QED
    BY <1>1, <2>1, <2>2, <2>3 DEF Linked
<1> QED
  BY <1>2, <1>3

\* The files keep rows well typed and their authors, and touch nothing else
\* than they are for.
LEMMA PreservedRow ==
  ASSUME NEW a \in ArticleRow
  PROVE  /\ Preserved(a) \in ArticleRow
         /\ Preserved(a).instagram_post_url = Copied(a)
         /\ Preserved(a).cover_instagram_url = a.cover_instagram_url
         /\ Preserved(a).author_id = a.author_id
<1>1. Copied(a) \in SUBSET Tag
  BY CopiedTags
<1> QED
  BY <1>1 DEF Preserved, ArticleRow

LEMMA RenamedRow ==
  ASSUME NEW a \in ArticleRow
  PROVE  /\ Renamed(a) \in ArticleRow
         /\ Renamed(a).instagram_post_url = a.instagram_post_url
         /\ Renamed(a).author_id = a.author_id
BY DEF Renamed, ArticleRow

LEMMA UnsavedRow ==
  ASSUME NEW a \in ArticleRow
  PROVE  /\ Unsaved(a) \in ArticleRow
         /\ Unsaved(a).instagram_post_url = a.instagram_post_url
         /\ Unsaved(a).cover_instagram_url = a.cover_instagram_url
         /\ Unsaved(a).author_id = a.author_id
BY DEF Unsaved, ArticleRow

LEMMA RecategorisedRow ==
  ASSUME NEW a \in ArticleRow
  PROVE  /\ Recategorised(a) \in ArticleRow
         /\ Recategorised(a).instagram_post_url = a.instagram_post_url
         /\ Recategorised(a).cover_instagram_url = a.cover_instagram_url
         /\ Recategorised(a).author_id = a.author_id
<1>1. Rehomed(a) \in Categories \cup Legacy
  <2>1. a.category \in Categories \cup Legacy
    BY DEF ArticleRow
  <2> QED
    BY <2>1 DEF Rehomed, Categories, Signals, Legacy
<1> QED
  BY <1>1 DEF Recategorised, ArticleRow

LEMMA ClearedRow ==
  ASSUME NEW a \in ArticleRow
  PROVE  /\ Cleared(a) \in ArticleRow
         /\ Cleared(a).instagram_post_url = a.instagram_post_url
         /\ Cleared(a).cover_instagram_url = a.cover_instagram_url
         /\ Cleared(a).author_id = a.author_id
         /\ Cleared(a).cover_image_url \notin Instagram
         /\ a.cover_image_url \notin Instagram => Cleared(a) = a
         /\ a.cover_image_url \in Instagram => Cleared(a) = [a EXCEPT !.cover_image_url = Null]
<1>1. Null \notin Instagram
  BY ConstantsAssumption
<1>2. CASE a.cover_image_url \in Instagram
  <2>1. Cleared(a) = [a EXCEPT !.cover_image_url = Null]
    BY <1>2 DEF Cleared
  <2> QED
    BY <1>1, <1>2, <2>1 DEF ArticleRow
<1>3. CASE a.cover_image_url \notin Instagram
  <2>1. Cleared(a) = [a EXCEPT !.cover_image_url = a.cover_image_url]
    BY <1>3 DEF Cleared
  <2>2. Cleared(a) = a
    BY <2>1 DEF ArticleRow
  <2> QED
    BY <1>3, <2>2 DEF ArticleRow
<1> QED
  BY <1>2, <1>3

-----------------------------------------------------------------------------
(* What each step makes of the tables *)

\* A step of the run rewrites the articles as one file says, or not at all.
LEMMA ArticlesMigrated ==
  ASSUME Migrate
  PROVE  \/ articles' = articles
         \/ /\ at = "0000" /\ Has("cover_instagram_url")
            /\ articles' = [i \in DOMAIN articles |-> Preserved(articles[i])]
         \/ /\ at = "0003" /\ Has("cover_instagram_url")
            /\ articles' = [i \in DOMAIN articles |-> Renamed(articles[i])]
         \/ /\ at = "0004" /\ Has("saved")
            /\ articles' = [i \in DOMAIN articles |-> Unsaved(articles[i])]
         \/ /\ at = "0005a" /\ Has("job")
            /\ articles' = [i \in DOMAIN articles |-> Recategorised(articles[i])]
         \/ /\ at = "0006"
            /\ articles' = [i \in DOMAIN articles |-> Cleared(articles[i])]
BY DEF Migrate, PreserveTags, AddEditor, AddKeyColumns, RenameCover, RemoveSaved, Recategorise,
       DropUnused, ClearCovers, RetireSubscriptions, ClearOrphans, Go, Fail, data

\* Accounts and bookmarks are left to the last two files.
LEMMA AccountsMigrated ==
  ASSUME Migrate
  PROVE  \/ users' = users /\ bookmarks' = bookmarks
         \/ /\ at = "0007" /\ bookmarks' = bookmarks
            /\ users' = [p \in {q \in DOMAIN users : ~ Inert(q)} |-> users[p]]
         \/ /\ at = "0008"
            /\ users' = [p \in DOMAIN users |-> [users[p] EXCEPT !.api_key = FALSE]]
            /\ bookmarks' = {b \in bookmarks : b[1] \in DOMAIN users /\ b[2] \in DOMAIN articles}
BY DEF Migrate, PreserveTags, AddEditor, AddKeyColumns, RenameCover, RemoveSaved, Recategorise,
       DropUnused, ClearCovers, RetireSubscriptions, ClearOrphans, Go, Fail, data

\* How far the run comes with a step, and what it has made of the schema.  A
\* step that fails ends it.
LEMMA RunMoved ==
  ASSUME Migrate
  PROVE  \/ at = "0000" /\ at' = "0001" /\ (Has("cover_instagram_url") \/ schema' = schema)
               /\ (Has("cover_instagram_url") => schema' = schema \ {"cover_image_url"})
         \/ at = "0001" /\ at' = "0002" /\ schema' = schema \cup {"editor"}
         \/ at = "0002" /\ at' = "0003" /\ schema' = schema \cup {"api_key_hash"}
         \/ at = "0003" /\ at' = "idle" /\ Has("cover_instagram_url") /\ Has("cover_image_url")
         \/ at = "0003" /\ at' = "0004" /\ Has("cover_instagram_url")
               /\ schema' = (schema \ {"cover_instagram_url"}) \cup {"cover_image_url"}
         \/ at = "0003" /\ at' = "0004" /\ ~ Has("cover_instagram_url") /\ schema' = schema
         \/ at = "0004" /\ at' = "idle" /\ Has("saved") /\ ~ Has("views")
         \/ at = "0004" /\ at' = "0005a" /\ (schema' = schema \ {"saved"} \/ (schema' = schema /\ ~ Has("saved")))
         \/ at = "0005a" /\ at' = "0005b" /\ (schema' = schema \ {"job"} \/ (schema' = schema /\ ~ Has("job")))
         \/ at = "0005b" /\ at' = "0006" /\ schema' = schema \ {"views"}
         \/ at = "0006" /\ at' = "idle" /\ ~ Has("cover_image_url")
         \/ at = "0006" /\ at' = "0007" /\ schema' = schema
         \/ at = "0007" /\ at' = "idle" /\ ~ Has("api_key_hash")
         \/ at = "0007" /\ at' = "0008" /\ schema' = schema
         \/ at = "0008" /\ at' = "idle" /\ schema' = schema
BY DEF Migrate, PreserveTags, AddEditor, AddKeyColumns, RenameCover, RemoveSaved, Recategorise,
       DropUnused, ClearCovers, RetireSubscriptions, ClearOrphans, Go, Fail, data

\* The columns of the account that 0008 and a sign-in do not touch
LEMMA ForgottenRow ==
  ASSUME NEW u \in UserRow
  PROVE  /\ [u EXCEPT !.api_key = FALSE] \in UserRow
         /\ ~ [u EXCEPT !.api_key = FALSE].api_key
         /\ ~ u.api_key => [u EXCEPT !.api_key = FALSE] = u
         /\ \A c \in {"auth_provider", "google_id", "last_login_at", "api_key_hash", "role"} :
              [u EXCEPT !.api_key = FALSE][c] = u[c]
<1>1. u.api_key \in BOOLEAN
  BY DEF UserRow
<1>2. ~ u.api_key => u.api_key = FALSE
  BY <1>1
<1> QED
  BY <1>2, ZenonT(60) DEF UserRow

LEMMA SignedInRow ==
  ASSUME NEW u \in UserRow
  PROVE  LET v == [u EXCEPT !.google_id = TRUE, !.last_login_at = TRUE, !.auth_provider = "google"]
         IN  v \in UserRow /\ v.api_key = u.api_key
BY DEF UserRow

\* The service writes well typed rows, of articles there are, and neither the
\* columns nor the links that the files are about.
LEMMA ServiceArticles ==
  ASSUME TypeOK, Service
  PROVE  /\ DOMAIN articles' \subseteq DOMAIN articles
         /\ articles' \in [DOMAIN articles' -> ArticleRow]
         /\ edited \subseteq edited' /\ edited' \subseteq edited \cup DOMAIN articles
         /\ \A i \in DOMAIN articles' :
              /\ articles'[i].cover_instagram_url = articles[i].cover_instagram_url
              /\ \/ i \in edited'
                 \/ articles'[i].instagram_post_url = articles[i].instagram_post_url
<1>0. articles \in [DOMAIN articles -> ArticleRow]
  BY DEF TypeOK
<1>1. CASE articles' = articles /\ edited' = edited
  BY <1>0, <1>1
<1>2. ASSUME NEW i \in DOMAIN articles, StoreCover(i)
      PROVE  /\ DOMAIN articles' = DOMAIN articles
             /\ articles' \in [DOMAIN articles' -> ArticleRow]
             /\ edited' = edited
             /\ \A j \in DOMAIN articles' :
                  /\ articles'[j].cover_instagram_url = articles[j].cover_instagram_url
                  /\ articles'[j].instagram_post_url = articles[j].instagram_post_url
  <2>1. PICK url \in Covers :
          articles' = [articles EXCEPT ![i] = [articles[i] EXCEPT !.cover_image_url = url]]
    BY <1>2 DEF StoreCover
  <2>2. PICK a \in ArticleRow : a = articles[i]
    BY <1>0
  <2>3. url \in Links \cup {Null}
    BY <2>1, ConstantsAssumption
  <2>4. PICK b : b = [a EXCEPT !.cover_image_url = url]
    OBVIOUS
  <2>5. /\ b \in ArticleRow /\ b.cover_instagram_url = a.cover_instagram_url
        /\ b.instagram_post_url = a.instagram_post_url
    BY <2>2, <2>3, <2>4 DEF ArticleRow
  <2>6. articles' = [articles EXCEPT ![i] = b]
    BY <2>1, <2>2, <2>4
  <2>7. edited' = edited
    BY <1>2 DEF StoreCover
  <2> QED
    BY <1>0, <2>2, <2>5, <2>6, <2>7
<1>3. ASSUME NEW i \in DOMAIN articles, StoreTags(i)
      PROVE  /\ DOMAIN articles' = DOMAIN articles
             /\ articles' \in [DOMAIN articles' -> ArticleRow]
             /\ edited' = edited \cup {i}
             /\ \A j \in DOMAIN articles' :
                  /\ articles'[j].cover_instagram_url = articles[j].cover_instagram_url
                  /\ j # i => articles'[j].instagram_post_url = articles[j].instagram_post_url
  <2>1. PICK tags \in TagLists :
          articles' = [articles EXCEPT ![i] = [articles[i] EXCEPT !.instagram_post_url = tags]]
    BY <1>3 DEF StoreTags
  <2>2. PICK a \in ArticleRow : a = articles[i]
    BY <1>0
  <2>3. tags \in SUBSET Tag
    BY <2>1, ConstantsAssumption
  <2>4. PICK b : b = [a EXCEPT !.instagram_post_url = tags]
    OBVIOUS
  <2>5. b \in ArticleRow /\ b.cover_instagram_url = a.cover_instagram_url
    BY <2>2, <2>3, <2>4 DEF ArticleRow
  <2>6. articles' = [articles EXCEPT ![i] = b]
    BY <2>1, <2>2, <2>4
  <2>7. edited' = edited \cup {i}
    BY <1>3 DEF StoreTags
  <2> QED
    BY <1>0, <2>2, <2>5, <2>6, <2>7
<1>4. ASSUME NEW i \in DOMAIN articles, DeletePost(i)
      PROVE  /\ DOMAIN articles' = DOMAIN articles \ {i}
             /\ edited' = edited
             /\ \A j \in DOMAIN articles' : articles'[j] = articles[j]
             /\ articles' \in [DOMAIN articles' -> ArticleRow]
  BY <1>0, <1>4 DEF DeletePost
<1>5. ASSUME NEW p, SignIn(p)
      PROVE  articles' = articles /\ edited' = edited
  BY <1>5 DEF SignIn
<1>6. ASSUME NEW p, NEW i, ToggleBookmark(p, i)
      PROVE  articles' = articles /\ edited' = edited
  BY <1>6 DEF ToggleBookmark
<1>7. CASE \E i \in DOMAIN articles : StoreCover(i)
  BY <1>2, <1>7
<1>8. CASE \E i \in DOMAIN articles : StoreTags(i)
  BY <1>3, <1>8
<1>9. CASE \E i \in DOMAIN articles : DeletePost(i)
  BY <1>4, <1>9
<1> QED
  BY <1>1, <1>5, <1>6, <1>7, <1>8, <1>9 DEF Service

LEMMA ServiceAccounts ==
  ASSUME TypeOK, Service
  PROVE  /\ DOMAIN users' = DOMAIN users
         /\ users' \in [DOMAIN users' -> UserRow]
         /\ bookmarks' \subseteq bookmarks \cup ((DOMAIN users) \X (DOMAIN articles))
         /\ \A p \in DOMAIN users' : users'[p].api_key = users[p].api_key
<1>0. users \in [DOMAIN users -> UserRow]
  BY DEF TypeOK
<1>1. CASE users' = users /\ bookmarks' = bookmarks
  BY <1>0, <1>1
<1>2. ASSUME NEW p \in DOMAIN users, SignIn(p)
      PROVE  /\ DOMAIN users' = DOMAIN users
             /\ users' \in [DOMAIN users' -> UserRow]
             /\ bookmarks' = bookmarks
             /\ \A q \in DOMAIN users' : users'[q].api_key = users[q].api_key
  <2>1. PICK u \in UserRow : u = users[p]
    BY <1>0
  <2>2. PICK v : v = [u EXCEPT !.google_id = TRUE, !.last_login_at = TRUE,
                               !.auth_provider = "google"]
    OBVIOUS
  <2>3. v \in UserRow /\ v.api_key = u.api_key
    BY <2>1, <2>2, SignedInRow
  <2>4. users' = [users EXCEPT ![p] = v] /\ bookmarks' = bookmarks
    BY <1>2, <2>1, <2>2 DEF SignIn
  <2> QED
    BY <1>0, <2>1, <2>3, <2>4
<1>3. ASSUME NEW p \in DOMAIN users, NEW i \in DOMAIN articles, ToggleBookmark(p, i)
      PROVE  /\ users' = users
             /\ bookmarks' \subseteq bookmarks \cup ((DOMAIN users) \X (DOMAIN articles))
  BY <1>3 DEF ToggleBookmark
<1>4. ASSUME NEW i, StoreCover(i) \/ StoreTags(i) \/ DeletePost(i)
      PROVE  users' = users /\ bookmarks' = bookmarks
  BY <1>4 DEF StoreCover, StoreTags, DeletePost
<1>5. CASE \E p \in DOMAIN users : SignIn(p)
  BY <1>2, <1>5
<1>6. CASE \E p \in DOMAIN users, i \in DOMAIN articles : ToggleBookmark(p, i)
  BY <1>0, <1>3, <1>6
<1> QED
  BY <1>1, <1>4, <1>5, <1>6 DEF Service

\* The rest of what the service leaves alone
LEMMA ServiceQuiet ==
  ASSUME Service
  PROVE  /\ quiet' = 0
         /\ UNCHANGED <<schema, at, passes, crashes, origin>>
BY DEF Service, StoreCover, StoreTags, DeletePost, SignIn, ToggleBookmark, Serve

-----------------------------------------------------------------------------
(* Types *)

\* The files keep the tables well typed and give no row to nobody.
LEMMA ArticlesStayTyped ==
  ASSUME TypeOK, Migrate
  PROVE  /\ DOMAIN articles' = DOMAIN articles
         /\ articles' \in [DOMAIN articles' -> ArticleRow]
         /\ \A i \in DOMAIN articles : articles'[i].author_id = articles[i].author_id
<1>0. articles \in [DOMAIN articles -> ArticleRow]
  BY DEF TypeOK
<1>1. CASE articles' = articles
  BY <1>0, <1>1
<1>2. CASE articles' = [i \in DOMAIN articles |-> Preserved(articles[i])]
  BY <1>0, <1>2, PreservedRow
<1>3. CASE articles' = [i \in DOMAIN articles |-> Renamed(articles[i])]
  BY <1>0, <1>3, RenamedRow
<1>4. CASE articles' = [i \in DOMAIN articles |-> Unsaved(articles[i])]
  BY <1>0, <1>4, UnsavedRow
<1>5. CASE articles' = [i \in DOMAIN articles |-> Recategorised(articles[i])]
  BY <1>0, <1>5, RecategorisedRow
<1>6. CASE articles' = [i \in DOMAIN articles |-> Cleared(articles[i])]
  BY <1>0, <1>6, ClearedRow
<1> QED
  BY <1>1, <1>2, <1>3, <1>4, <1>5, <1>6, ArticlesMigrated

LEMMA AccountsStayTyped ==
  ASSUME TypeOK, Migrate
  PROVE  /\ DOMAIN users' \subseteq DOMAIN users
         /\ users' \in [DOMAIN users' -> UserRow]
         /\ bookmarks' \subseteq bookmarks
         /\ \A p \in DOMAIN users' : ~ users[p].api_key => users'[p] = users[p]
         /\ \A p \in DOMAIN users' :
              \A c \in {"auth_provider", "google_id", "last_login_at", "api_key_hash", "role"} :
                users'[p][c] = users[p][c]
<1>0. users \in [DOMAIN users -> UserRow]
  BY DEF TypeOK
<1>1. CASE users' = users /\ bookmarks' = bookmarks
  BY <1>0, <1>1
<1>2. CASE /\ bookmarks' = bookmarks
           /\ users' = [p \in {q \in DOMAIN users : ~ Inert(q)} |-> users[p]]
  <2>1. DOMAIN users' = {q \in DOMAIN users : ~ Inert(q)}
    BY <1>2
  <2>2. \A p \in DOMAIN users' : p \in DOMAIN users /\ users'[p] = users[p]
    BY <1>2, <2>1
  <2>3. users' \in [DOMAIN users' -> UserRow]
    BY <1>0, <1>2, <2>1, <2>2
  <2> QED
    BY <1>2, <2>2, <2>3
<1>3. CASE /\ users' = [p \in DOMAIN users |-> [users[p] EXCEPT !.api_key = FALSE]]
           /\ bookmarks' = {b \in bookmarks : b[1] \in DOMAIN users /\ b[2] \in DOMAIN articles}
  <2>1. DOMAIN users' = DOMAIN users /\ bookmarks' \subseteq bookmarks
    BY <1>3
  <2>2. ASSUME NEW p \in DOMAIN users
        PROVE  /\ users'[p] \in UserRow
               /\ ~ users[p].api_key => users'[p] = users[p]
               /\ \A c \in {"auth_provider", "google_id", "last_login_at", "api_key_hash", "role"} :
                    users'[p][c] = users[p][c]
    <3>1. PICK u \in UserRow : u = users[p]
      BY <1>0
    <3>2. users'[p] = [u EXCEPT !.api_key = FALSE]
      BY <1>3, <3>1
    <3> QED
      BY <3>1, <3>2, ForgottenRow
  <2>3. users' \in [DOMAIN users' -> UserRow]
    BY <1>3, <2>1, <2>2
  <2> QED
    BY <2>1, <2>2, <2>3
<1> QED
  BY <1>1, <1>2, <1>3, AccountsMigrated

\* A step of the run adds no name but those of the new schema, and leaves what
\* is not its own.
LEMMA RunStaysTyped ==
  ASSUME TypeOK, Migrate
  PROVE  /\ schema' \subseteq Names
         /\ at' \in Steps \cup {"idle"}
         /\ passes' \in Nat /\ crashes' = crashes /\ quiet' \in {0, quiet}
         /\ UNCHANGED <<origin, edited>>
<1>1. schema \subseteq Names /\ passes \in Nat
  BY DEF TypeOK
<1>2. {"cover_image_url", "editor", "api_key_hash"} \subseteq Names
  BY DEF Names, NewSchema
<1>3. /\ passes' \in Nat /\ crashes' = crashes /\ quiet' \in {0, quiet}
      /\ UNCHANGED <<origin, edited>>
  BY <1>1 DEF Migrate, PreserveTags, AddEditor, AddKeyColumns, RenameCover, RemoveSaved,
       Recategorise, DropUnused, ClearCovers, RetireSubscriptions, ClearOrphans, Go, Fail, data
<1>4. schema' \subseteq Names
  <2>1. \/ schema' = schema \/ schema' \subseteq schema \cup {"cover_image_url", "editor", "api_key_hash"}
    BY DEF Migrate, PreserveTags, AddEditor, AddKeyColumns, RenameCover, RemoveSaved,
         Recategorise, DropUnused, ClearCovers, RetireSubscriptions, ClearOrphans, Go, Fail, data
  <2> QED
    BY <1>1, <1>2, <2>1
<1>5. at' \in Steps \cup {"idle"}
  BY RunMoved DEF Steps
<1> QED
  BY <1>3, <1>4, <1>5

LEMMA TypeInit == Init => TypeOK
<1> SUFFICES ASSUME Init PROVE TypeOK
  OBVIOUS
<1>1. schema \subseteq Names /\ at \in Steps \cup {"idle"}
  BY DEF Init, Names, OldSchema, NewSchema
<1>2. PICK ids \in SUBSET Ids : articles \in [ids -> OldArticles]
  BY DEF Init
<1>3. OldArticles \subseteq ArticleRow /\ OldUsers \subseteq UserRow
  BY ConstantsAssumption
<1>4. /\ DOMAIN articles = ids /\ articles \in [DOMAIN articles -> ArticleRow]
      /\ origin = articles
  BY <1>2, <1>3 DEF Init
<1>5. PICK ps \in SUBSET People : users \in [ps -> OldUsers]
  BY DEF Init
<1>6. DOMAIN users \subseteq People /\ users \in [DOMAIN users -> UserRow]
  BY <1>3, <1>5
<1>7. passes = 0 /\ crashes = 0 /\ quiet = 0 /\ edited = {} /\ bookmarks \subseteq People \X Ids
  BY DEF Init
<1> QED
  BY <1>1, <1>2, <1>4, <1>6, <1>7 DEF TypeOK

LEMMA TypeStep == TypeOK /\ [Next]_vars => TypeOK'
<1> SUFFICES ASSUME TypeOK, [Next]_vars PROVE TypeOK'
  OBVIOUS
<1>1. CASE Start
  <2>1. quiet' \in 0 .. 3 /\ at' \in Steps \cup {"idle"}
    BY <1>1 DEF Start, Steps, TypeOK
  <2> QED
    BY <1>1, <2>1 DEF Start, TypeOK, data
<1>2. CASE Migrate
  <2>1. /\ quiet' \in 0 .. 3 /\ crashes' \in Nat
        /\ schema' \subseteq Names /\ at' \in Steps \cup {"idle"} /\ passes' \in Nat
        /\ origin' = origin /\ edited' = edited
    BY <1>2, RunStaysTyped DEF TypeOK
  <2>2. /\ DOMAIN articles' = DOMAIN articles /\ articles' \in [DOMAIN articles' -> ArticleRow]
    BY <1>2, ArticlesStayTyped
  <2>3. /\ DOMAIN users' \subseteq DOMAIN users /\ users' \in [DOMAIN users' -> UserRow]
        /\ bookmarks' \subseteq bookmarks
    BY <1>2, AccountsStayTyped
  <2> QED
    BY <2>1, <2>2, <2>3 DEF TypeOK
<1>3. CASE Crash
  BY <1>3 DEF Crash, TypeOK, data
<1>4. CASE Service
  <2>1. /\ UNCHANGED <<schema, at, passes, crashes, origin>> /\ quiet' = 0
    BY <1>4, ServiceQuiet
  <2>2. /\ DOMAIN articles' \subseteq DOMAIN articles
        /\ articles' \in [DOMAIN articles' -> ArticleRow]
        /\ edited' \subseteq edited \cup DOMAIN articles
    BY <1>4, ServiceArticles
  <2>3. /\ DOMAIN users' = DOMAIN users /\ users' \in [DOMAIN users' -> UserRow]
        /\ bookmarks' \subseteq bookmarks \cup ((DOMAIN users) \X (DOMAIN articles))
    BY <1>4, ServiceAccounts
  <2>4. bookmarks' \subseteq People \X Ids
    <3>1. /\ DOMAIN users \subseteq People /\ DOMAIN articles \subseteq Ids
          /\ bookmarks \subseteq People \X Ids
      BY DEF TypeOK
    <3> QED
      BY <2>3, <3>1
  <2> QED
    BY <2>1, <2>2, <2>3, <2>4 DEF TypeOK
<1>5. CASE UNCHANGED vars
  BY <1>5 DEF vars, data, TypeOK
<1> QED
  BY <1>1, <1>2, <1>3, <1>4, <1>5 DEF Next

\* Rows, schema and history are well typed, whatever a run has been broken off
\* at and whatever is written beside it (migrations/*.sql).
THEOREM TypeCorrect == Spec => []TypeOK
<1>1. Init => TypeOK
  BY TypeInit
<1>2. TypeOK /\ [Next]_vars => TypeOK'
  BY TypeStep
<1> QED
  BY <1>1, <1>2, PTL DEF Spec

-----------------------------------------------------------------------------
(* The schema *)

LEMMA SchemaInit == Init => SchemaInv /\ PassedInv
BY DEF Init, SchemaInv, PassedInv, Has, OldSchema, NewSchema, Names

LEMMA SchemaStep == TypeOK /\ SchemaInv /\ [Next]_vars => SchemaInv'
<1> SUFFICES ASSUME TypeOK, SchemaInv, [Next]_vars PROVE SchemaInv'
  OBVIOUS
<1>1. CASE Start
  BY <1>1 DEF Start, SchemaInv, Has, data
<1>2. CASE Migrate
  <2>1. schema' \subseteq Names
    BY <1>2, RunStaysTyped
  <2>2. at' = "idle" /\ ~ (at = "0008" /\ schema' = schema) => FALSE
    BY <1>2, RunMoved DEF SchemaInv, Has
  <2> QED
    BY <1>2, <2>1, <2>2, RunMoved DEF SchemaInv, Has
<1>3. CASE Crash
  BY <1>3 DEF Crash, SchemaInv, Has, data
<1>4. CASE Service
  BY <1>4, ServiceQuiet DEF SchemaInv, Has
<1>5. CASE UNCHANGED vars
  BY <1>5 DEF vars, data, SchemaInv, Has
<1> QED
  BY <1>1, <1>2, <1>3, <1>4, <1>5 DEF Next

\* No file fails on what earlier runs, whole or broken off, have left of the
\* schema.
LEMMA NothingFails ==
  ASSUME SchemaInv, Migrate
  PROVE  /\ at' = "idle" => at = "0008"
         /\ UNCHANGED <<crashes, quiet, origin, edited>>
         /\ passes' = IF at = "0008" THEN passes + 1 ELSE passes
<1>1. at # "0003" \/ ~ (Has("cover_instagram_url") /\ Has("cover_image_url"))
  BY DEF SchemaInv
<1>2. at # "0006" \/ Has("cover_image_url")
  BY DEF SchemaInv
<1>3. ~ (Has("saved") /\ ~ Has("views"))
  BY DEF SchemaInv
<1>4. at # "0007" \/ Has("api_key_hash")
  BY DEF SchemaInv
<1> QED
  BY <1>1, <1>2, <1>3, <1>4 DEF Migrate, PreserveTags, AddEditor, AddKeyColumns, RenameCover, RemoveSaved,
       Recategorise, DropUnused, ClearCovers, RetireSubscriptions, ClearOrphans, Go, Fail

\* A run that comes to its end has left the new schema.
LEMMA SchemaAtEnd == SchemaInv /\ at = "0008" => schema = NewSchema
BY DEF SchemaInv, Has, Names, OldSchema, NewSchema

\* On the new schema a run leaves schema and articles as they are, but for the
\* covers that 0006 clears.
LEMMA NewSchemaStays ==
  ASSUME SchemaInv, schema = NewSchema, Migrate
  PROVE  /\ schema' = schema
         /\ \/ articles' = articles
            \/ /\ at = "0006"
               /\ articles' = [i \in DOMAIN articles |-> Cleared(articles[i])]
<1>1. /\ ~ Has("cover_instagram_url") /\ ~ Has("saved") /\ ~ Has("job") /\ ~ Has("views")
      /\ Has("editor") /\ Has("api_key_hash") /\ Has("cover_image_url")
  BY DEF Has, NewSchema
<1>2. schema' = schema
  <2>1. at' = "idle" => at = "0008"
    BY NothingFails
  <2> QED
    BY <1>1, <2>1, RunMoved DEF Has
<1> QED
  BY <1>1, <1>2, ArticlesMigrated

LEMMA PassedStep == TypeOK /\ SchemaInv /\ PassedInv /\ [Next]_vars => PassedInv'
<1> SUFFICES ASSUME TypeOK, SchemaInv, PassedInv, [Next]_vars PROVE PassedInv'
  OBVIOUS
<1>1. CASE Start \/ Crash \/ UNCHANGED vars
  BY <1>1 DEF Start, Crash, vars, data, PassedInv
<1>2. CASE Migrate /\ at # "0008"
  <2>1. SUFFICES ASSUME passes > 0
                 PROVE  schema' = NewSchema /\ \A p \in DOMAIN users' : ~ users'[p].api_key
    BY <1>2, NothingFails DEF PassedInv
  <2>2. schema = NewSchema /\ \A p \in DOMAIN users : ~ users[p].api_key
    BY <2>1 DEF PassedInv
  <2>3. schema' = schema
    BY <1>2, <2>2, NewSchemaStays
  <2>4. /\ DOMAIN users' \subseteq DOMAIN users
        /\ \A p \in DOMAIN users' : ~ users[p].api_key => users'[p] = users[p]
    BY <1>2, AccountsStayTyped
  <2> QED
    BY <2>2, <2>3, <2>4
<1>3. CASE Migrate /\ at = "0008"
  <2>1. schema' = NewSchema
    BY <1>3, SchemaAtEnd, RunMoved
  <2>2. users' = [p \in DOMAIN users |-> [users[p] EXCEPT !.api_key = FALSE]]
    BY <1>3 DEF Migrate, PreserveTags, AddEditor, AddKeyColumns, RenameCover, RemoveSaved,
         Recategorise, DropUnused, ClearCovers, RetireSubscriptions, ClearOrphans, Go, Fail
  <2>3. ASSUME NEW p \in DOMAIN users'
        PROVE  ~ users'[p].api_key
    <3>1. PICK u \in UserRow : u = users[p]
      BY <2>2 DEF TypeOK
    <3>2. users'[p] = [u EXCEPT !.api_key = FALSE]
      BY <2>2, <3>1
    <3> QED
      BY <3>1, <3>2, ForgottenRow
  <2> QED
    BY <2>1, <2>3 DEF PassedInv
<1>4. CASE Service
  BY <1>4, ServiceQuiet, ServiceAccounts DEF PassedInv
<1> QED
  BY <1>1, <1>2, <1>3, <1>4 DEF Next

-----------------------------------------------------------------------------
(* The tags *)

LEMMA TagsInit == Init => TagsInv
<1> SUFFICES ASSUME Init PROVE TagsInv
  OBVIOUS
<1>1. PICK ids \in SUBSET Ids : articles \in [ids -> OldArticles]
  BY DEF Init
<1>2. \A a \in OldArticles : OncePerUrl(a.instagram_post_url)
  BY ConstantsAssumption
<1>3. Has("cover_instagram_url") /\ at = "idle" /\ origin = articles
  BY DEF Init, Has, OldSchema
<1> QED
  BY <1>1, <1>2, <1>3 DEF TagsInv

LEMMA TagsStep == TypeOK /\ SchemaInv /\ TagsInv /\ [Next]_vars => TagsInv'
<1> SUFFICES ASSUME TypeOK, SchemaInv, TagsInv, [Next]_vars PROVE TagsInv'
  OBVIOUS
<1>0. articles \in [DOMAIN articles -> ArticleRow]
  BY DEF TypeOK
<1>1. CASE Start \/ Crash \/ UNCHANGED vars
  BY <1>1 DEF Start, Crash, vars, data, TagsInv, Has
<1>2. CASE Migrate
  <2>1. origin' = origin /\ edited' = edited /\ DOMAIN articles' = DOMAIN articles
    BY <1>2, RunStaysTyped, ArticlesStayTyped
  <2>2. SUFFICES ASSUME NEW i \in DOMAIN articles \ edited
        PROVE  /\ OncePerUrl(articles'[i].instagram_post_url)
               /\ Has("cover_instagram_url")' =>
                    articles'[i].cover_instagram_url = origin[i].cover_instagram_url
               /\ ~ Has("cover_instagram_url")' \/ at' \in {"0001", "0002", "0003"} =>
                    Linked(articles'[i].instagram_post_url, origin[i].cover_instagram_url)
    BY <2>1 DEF TagsInv
  <2>3. PICK a \in ArticleRow : a = articles[i]
    BY <1>0
  <2>4. /\ OncePerUrl(a.instagram_post_url)
        /\ Has("cover_instagram_url") => a.cover_instagram_url = origin[i].cover_instagram_url
        /\ ~ Has("cover_instagram_url") \/ at \in {"0001", "0002", "0003"} =>
             Linked(a.instagram_post_url, origin[i].cover_instagram_url)
    BY <2>3 DEF TagsInv
  <2>5. /\ ~ Has("cover_instagram_url") => ~ Has("cover_instagram_url")'
        /\ Has("cover_instagram_url") /\ ~ Has("cover_instagram_url")' => at = "0003"
        /\ at' \in {"0001", "0002", "0003"} => at \in {"0000", "0001", "0002"}
    BY <1>2, RunMoved, NothingFails DEF Has
  <2>6. CASE at = "0000"
    <3>1. CASE /\ Has("cover_instagram_url")
               /\ articles' = [j \in DOMAIN articles |-> Preserved(articles[j])]
      <4>1. articles'[i] = Preserved(a)
        BY <2>3, <3>1
      <4> QED
        BY <2>3, <2>4, <2>5, <2>6, <3>1, <4>1, PreservedRow, CopiedTags
    <3>2. CASE articles' = articles /\ ~ Has("cover_instagram_url")
      BY <2>3, <2>4, <2>5, <3>2
    <3> QED
      BY <1>2, <2>6, <3>1, <3>2 DEF Migrate, PreserveTags, AddEditor, AddKeyColumns, RenameCover,
        RemoveSaved, Recategorise, DropUnused, ClearCovers, RetireSubscriptions, ClearOrphans, Go, Fail
  <2>7. CASE at = "0003"
    <3>1. articles'[i] = a \/ articles'[i] = Renamed(a)
      BY <1>2, <2>3, <2>7, ArticlesMigrated
    <3>2. articles'[i].instagram_post_url = a.instagram_post_url
      BY <2>3, <3>1, RenamedRow
    <3>3. at' = "0004" /\ ~ Has("cover_instagram_url")'
      BY <1>2, <2>7, RunMoved, NothingFails DEF Has
    <3> QED
      BY <2>4, <2>7, <3>2, <3>3
  <2>8. CASE at \notin {"0000", "0003"}
    <3>1. \/ articles'[i] = a \/ articles'[i] = Unsaved(a) \/ articles'[i] = Recategorised(a)
          \/ articles'[i] = Cleared(a)
      BY <1>2, <2>3, <2>8, ArticlesMigrated
    <3>2. /\ articles'[i].instagram_post_url = a.instagram_post_url
          /\ articles'[i].cover_instagram_url = a.cover_instagram_url
      BY <2>3, <3>1, UnsavedRow, RecategorisedRow, ClearedRow
    <3> QED
      BY <2>4, <2>5, <2>8, <3>2
  <2> QED
    BY <2>6, <2>7, <2>8
<1>3. CASE Service
  <2>1. schema' = schema /\ at' = at /\ origin' = origin
    BY <1>3, ServiceQuiet
  <2>2. /\ DOMAIN articles' \subseteq DOMAIN articles /\ edited \subseteq edited'
        /\ \A i \in DOMAIN articles' :
             /\ articles'[i].cover_instagram_url = articles[i].cover_instagram_url
             /\ \/ i \in edited'
                \/ articles'[i].instagram_post_url = articles[i].instagram_post_url
    BY <1>3, ServiceArticles
  <2>3. Has("cover_instagram_url")' = Has("cover_instagram_url")
    BY <2>1 DEF Has
  <2> QED
    BY <2>1, <2>2, <2>3 DEF TagsInv
<1> QED
  BY <1>1, <1>2, <1>3 DEF Next

-----------------------------------------------------------------------------
(* What quiet runs leave to do *)

LEMMA QuietInit == Init => QuietInv
BY DEF Init, QuietInv

\* Whether an account is inert does not depend on what 0006 and 0008 change.
LEMMA InertKept ==
  ASSUME TypeOK, Migrate, bookmarks' = bookmarks, NEW p \in DOMAIN users', Inert(p)'
  PROVE  Inert(p)
<1>1. /\ users'[p].auth_provider = users[p].auth_provider
      /\ users'[p].google_id = users[p].google_id
      /\ users'[p].last_login_at = users[p].last_login_at
      /\ users'[p].api_key_hash = users[p].api_key_hash
      /\ users'[p].role = users[p].role
  <2>1. PICK u \in UserRow, v \in UserRow : u = users[p] /\ v = users'[p]
    BY AccountsStayTyped DEF TypeOK
  <2>2. \A c \in {"auth_provider", "google_id", "last_login_at", "api_key_hash", "role"} : v[c] = u[c]
    BY <2>1, AccountsStayTyped
  <2> QED
    BY <2>1, <2>2
<1>2. /\ DOMAIN articles' = DOMAIN articles
      /\ \A i \in DOMAIN articles : articles'[i].author_id = articles[i].author_id
  BY ArticlesStayTyped
<1> QED
  BY <1>1, <1>2 DEF Inert

LEMMA QuietStep == Inv /\ [Next]_vars => QuietInv'
<1> SUFFICES ASSUME Inv, [Next]_vars PROVE QuietInv'
  OBVIOUS
<1>0. TypeOK /\ SchemaInv /\ PassedInv /\ QuietInv /\ quiet \in 0 .. 3 /\ passes \in Nat
  BY DEF Inv, TypeOK
<1>1. CASE Start
  BY <1>0, <1>1 DEF Start, data, QuietInv, NoInstagramCover, NoOrphan, NoInert, Inert
<1>2. CASE Crash \/ UNCHANGED vars
  BY <1>0, <1>2 DEF Crash, vars, data, QuietInv, NoInstagramCover, NoOrphan, NoInert, Inert
<1>3. CASE Service
  BY <1>3, ServiceQuiet DEF QuietInv
<1>4. CASE Migrate
  <2>1. /\ quiet' = quiet
        /\ at' = "idle" => at = "0008"
        /\ passes' = IF at = "0008" THEN passes + 1 ELSE passes
    BY <1>0, <1>4, NothingFails
  <2>2. quiet > 1 => schema = NewSchema
    BY <1>0 DEF QuietInv, PassedInv
  <2>3. quiet > 1 \/ (quiet > 0 /\ at' = "idle") => passes' > 0
    BY <1>0, <2>1 DEF QuietInv
  <2>4. quiet > 1 \/ (quiet > 0 /\ at' \in {"0007", "0008", "idle"}) => NoInstagramCover'
    <3>1. articles \in [DOMAIN articles -> ArticleRow]
      BY <1>0 DEF TypeOK
    <3>2. CASE articles' = articles /\ at # "0006"
      <4>1. at' \in {"0007", "0008", "idle"} => at \in {"0007", "0008"}
        BY <1>4, <2>1, <3>2, RunMoved
      <4> QED
        BY <1>0, <3>2, <4>1 DEF QuietInv, NoInstagramCover
    <3>3. CASE articles' = [i \in DOMAIN articles |-> Cleared(articles[i])]
      BY <3>1, <3>3, ClearedRow DEF NoInstagramCover
    <3>4. CASE articles' # articles /\ at # "0006"
      <4>1. ~ quiet > 1
        BY <1>0, <1>4, <2>2, <3>4, NewSchemaStays
      <4>2. at' \notin {"0007", "0008", "idle"}
        BY <1>4, <2>1, <3>4, RunMoved, ArticlesMigrated
      <4> QED
        BY <4>1, <4>2
    <3>5. at = "0006" => articles' = [i \in DOMAIN articles |-> Cleared(articles[i])]
      BY <1>0, <1>4, <2>1 DEF Migrate, PreserveTags, AddEditor, AddKeyColumns, RenameCover,
        RemoveSaved, Recategorise, DropUnused, ClearCovers, RetireSubscriptions, ClearOrphans,
        Go, Fail, SchemaInv
    <3> QED
      BY <3>2, <3>3, <3>4, <3>5
  <2>5. quiet > 1 \/ (quiet > 0 /\ at' = "idle") => NoOrphan'
    <3>1. DOMAIN articles' = DOMAIN articles
      BY <1>0, <1>4, ArticlesStayTyped
    <3>2. CASE users' = users /\ bookmarks' = bookmarks /\ at # "0008"
      BY <1>0, <2>1, <3>1, <3>2 DEF QuietInv, NoOrphan
    <3>3. CASE /\ at = "0007" /\ bookmarks' = bookmarks
               /\ users' = [p \in {q \in DOMAIN users : ~ Inert(q)} |-> users[p]]
      <4>1. DOMAIN users' = {q \in DOMAIN users : ~ Inert(q)}
        BY <3>3
      <4>2. \A b \in bookmarks : ~ Inert(b[1])
        BY DEF Inert
      <4> QED
        BY <1>0, <2>1, <3>1, <3>3, <4>1, <4>2 DEF QuietInv, NoOrphan
    <3>4. CASE at = "0008"
      <4>1. /\ users' = [p \in DOMAIN users |-> [users[p] EXCEPT !.api_key = FALSE]]
            /\ bookmarks' = {b \in bookmarks : b[1] \in DOMAIN users /\ b[2] \in DOMAIN articles}
        BY <1>4, <3>4 DEF Migrate, PreserveTags, AddEditor, AddKeyColumns, RenameCover,
          RemoveSaved, Recategorise, DropUnused, ClearCovers, RetireSubscriptions, ClearOrphans,
          Go, Fail
      <4>2. DOMAIN users' = DOMAIN users
        BY <4>1
      <4> QED
        BY <3>1, <4>1, <4>2 DEF NoOrphan
    <3> QED
      BY <1>4, <3>2, <3>3, <3>4, AccountsMigrated
  <2>6. quiet > 2 \/ (quiet > 1 /\ at' \in {"0008", "idle"}) => NoInert'
    <3>1. CASE at = "0007"
      <4>1. /\ users' = [p \in {q \in DOMAIN users : ~ Inert(q)} |-> users[p]]
            /\ bookmarks' = bookmarks
        <5>1. Has("api_key_hash")
          BY <1>0, <3>1 DEF SchemaInv
        <5> QED
          BY <1>4, <3>1, <5>1 DEF Migrate, PreserveTags, AddEditor, AddKeyColumns, RenameCover,
            RemoveSaved, Recategorise, DropUnused, ClearCovers, RetireSubscriptions,
            ClearOrphans, Go, Fail
      <4>2. \A p \in DOMAIN users' : ~ Inert(p)
        BY <4>1
      <4> QED
        BY <1>0, <1>4, <4>1, <4>2, InertKept DEF NoInert
    <3>2. CASE at # "0007"
      <4> SUFFICES ASSUME quiet > 2 \/ (quiet > 1 /\ at' \in {"0008", "idle"})
                   PROVE  NoInert'
        OBVIOUS
      <4>1. at' \in {"0008", "idle"} => at = "0008"
        BY <1>4, <2>1, <3>2, RunMoved
      <4>2. quiet > 1 /\ NoOrphan /\ NoInert
        BY <1>0, <4>1 DEF QuietInv
      <4>3. bookmarks' = bookmarks
        BY <1>4, <4>2, AccountsMigrated DEF NoOrphan
      <4>4. DOMAIN users' \subseteq DOMAIN users
        BY <1>0, <1>4, AccountsStayTyped
      <4> QED
        BY <1>0, <1>4, <4>2, <4>3, <4>4, InertKept DEF NoInert
    <3> QED
      BY <3>1, <3>2
  <2> QED
    BY <2>1, <2>3, <2>4, <2>5, <2>6 DEF QuietInv
<1> QED
  BY <1>1, <1>2, <1>3, <1>4 DEF Next

\* The inductive invariant
LEMMA Invariant == Spec => []Inv
<1>1. Init => Inv
  BY TypeInit, SchemaInit, TagsInit, QuietInit DEF Inv
<1>2. Inv /\ [Next]_vars => Inv'
  <2>1. Inv => TypeOK /\ SchemaInv /\ PassedInv /\ TagsInv /\ QuietInv
    BY DEF Inv
  <2>2. TypeOK' /\ SchemaInv' /\ PassedInv' /\ TagsInv' /\ QuietInv' => Inv'
    BY DEF Inv
  <2> QED
    BY <2>1, <2>2, TypeStep, SchemaStep, PassedStep, TagsStep, QuietStep
<1> QED
  BY <1>1, <1>2, PTL DEF Spec

-----------------------------------------------------------------------------
\* No run, whole or broken off, repeated or not, loses a link that was kept as
\* an article's cover, or lists one twice (0000).
THEOREM NoTagIsLost == Spec => []TagsKept
<1>1. Inv => TagsKept
  BY DEF Inv, TagsInv, TagsKept, Linked
<1> QED
  BY <1>1, Invariant, PTL

\* A completed run may be repeated: the schema stays, of what was written since
\* only Instagram covers, orphans and accounts never signed in to are touched,
\* without writes the second run finds at most such accounts and the third
\* nothing (migrations/README.md).
THEOREM RepeatingIsHarmless == Spec => RerunIsHarmless
<1> DEFINE Harmless ==
      passes > 0 /\ at # "idle" /\ at' # at =>
       /\ schema' = schema
       /\ \A i \in DOMAIN articles :
            /\ i \in DOMAIN articles'
            /\ \/ articles'[i] = articles[i]
               \/ /\ articles[i].cover_image_url \in Instagram
                  /\ articles'[i] = [articles[i] EXCEPT !.cover_image_url = Null]
       /\ \A b \in bookmarks \ bookmarks' : b[1] \notin DOMAIN users \/ b[2] \notin DOMAIN articles
       /\ \A p \in DOMAIN users :
            \/ p \in DOMAIN users' /\ users'[p] = users[p]
            \/ p \notin DOMAIN users' /\ ~ users[p].last_login_at
       /\ quiet > 1 => articles' = articles /\ bookmarks' = bookmarks
       /\ quiet > 2 => UNCHANGED data
<1>1. Inv /\ [Next]_vars => [Harmless]_vars
  <2> SUFFICES ASSUME Inv, Next, passes > 0, at # "idle", at' # at PROVE Harmless
    BY DEF vars
  <2>0. TypeOK /\ SchemaInv /\ PassedInv /\ QuietInv
    BY DEF Inv
  <2>1. CASE Crash
    BY <2>1 DEF Crash, data
  <2>2. CASE Migrate
    <3>1. schema = NewSchema /\ \A p \in DOMAIN users : ~ users[p].api_key
      BY <2>0 DEF PassedInv
    <3>2. /\ schema' = schema
          /\ \/ articles' = articles
             \/ articles' = [i \in DOMAIN articles |-> Cleared(articles[i])]
      BY <2>0, <2>2, <3>1, NewSchemaStays
    <3>3. articles \in [DOMAIN articles -> ArticleRow] /\ users \in [DOMAIN users -> UserRow]
      BY <2>0 DEF TypeOK
    <3>4. \A i \in DOMAIN articles :
            /\ i \in DOMAIN articles'
            /\ \/ articles'[i] = articles[i]
               \/ /\ articles[i].cover_image_url \in Instagram
                  /\ articles'[i] = [articles[i] EXCEPT !.cover_image_url = Null]
      BY <3>2, <3>3, ClearedRow
    <3>5. \A b \in bookmarks \ bookmarks' : b[1] \notin DOMAIN users \/ b[2] \notin DOMAIN articles
      BY <2>2, AccountsMigrated
    <3>6. \A p \in DOMAIN users :
            \/ p \in DOMAIN users' /\ users'[p] = users[p]
            \/ p \notin DOMAIN users' /\ Inert(p)
      <4>1. \A p \in DOMAIN users' : p \in DOMAIN users /\ users'[p] = users[p]
        BY <2>0, <2>2, <3>1, AccountsStayTyped
      <4>2. \A p \in DOMAIN users : p \in DOMAIN users' \/ Inert(p)
        BY <2>2, AccountsMigrated
      <4> QED
        BY <4>1, <4>2
    <3>7. quiet > 1 => articles' = articles
      <4>1. SUFFICES ASSUME quiet > 1 PROVE articles' = articles
        OBVIOUS
      <4>2. NoInstagramCover
        BY <2>0, <4>1 DEF QuietInv
      <4>3. \A i \in DOMAIN articles : Cleared(articles[i]) = articles[i]
        BY <3>3, <4>2, ClearedRow DEF NoInstagramCover
      <4> QED
        BY <3>2, <3>3, <4>3
    <3>8. quiet > 1 => bookmarks' = bookmarks
      <4>1. quiet > 1 => NoOrphan
        BY <2>0 DEF QuietInv
      <4> QED
        BY <2>2, <4>1, AccountsMigrated DEF NoOrphan
    <3>9. quiet > 2 => UNCHANGED data
      <4>1. SUFFICES ASSUME quiet > 2 PROVE UNCHANGED data
        OBVIOUS
      <4>2. quiet > 1 /\ NoInert
        BY <2>0, <4>1 DEF QuietInv, TypeOK
      <4>3. \A p \in DOMAIN users : p \in DOMAIN users' /\ users'[p] = users[p]
        BY <3>6, <4>2 DEF NoInert
      <4>4. DOMAIN users' = DOMAIN users /\ users' \in [DOMAIN users' -> UserRow]
        BY <2>0, <2>2, <4>3, AccountsStayTyped
      <4>5. users' = users
        BY <3>3, <4>3, <4>4
      <4> QED
        BY <3>2, <3>7, <3>8, <4>2, <4>5 DEF data
    <3>10. \A p \in DOMAIN users : Inert(p) => ~ users[p].last_login_at
      BY DEF Inert
    <3> QED
      BY <3>2, <3>4, <3>5, <3>6, <3>7, <3>8, <3>9, <3>10
  <2>3. ~ Start
    BY DEF Start
  <2>4. ~ Service
    BY ServiceQuiet
  <2> QED
    BY <2>1, <2>2, <2>3, <2>4 DEF Next
<1>2. RerunIsHarmless <=> [][Harmless]_vars
  BY DEF RerunIsHarmless
<1> HIDE DEF Harmless
<1> QED
  BY <1>1, <1>2, Invariant, PTL DEF Spec

\* A run ends complete or by an interruption: no file fails on what an earlier
\* run, whole or broken off at any file, or the service has left behind (the
\* part of EveryRunEnds that is not about fairness).
OnlyCrashesEndARun ==
  [][at # "idle" /\ at' = "idle" =>
       \/ at = "0008" /\ passes' = passes + 1 /\ schema' = NewSchema
       \/ crashes' = crashes + 1]_vars

\* The chain can always be run to its end (deploy/migrate-prod.sh,
\* migrations/README.md "re-running the whole directory is a no-op").
THEOREM NoFileFails == Spec => OnlyCrashesEndARun
<1> DEFINE Ends ==
      at # "idle" /\ at' = "idle" =>
       \/ at = "0008" /\ passes' = passes + 1 /\ schema' = NewSchema
       \/ crashes' = crashes + 1
<1>1. Inv /\ [Next]_vars => [Ends]_vars
  <2> SUFFICES ASSUME Inv, Next, at # "idle", at' = "idle"
               PROVE  Ends
    BY DEF vars
  <2>1. SchemaInv
    BY DEF Inv
  <2>2. CASE Migrate
    <3>1. at = "0008" /\ passes' = passes + 1
      BY <2>1, <2>2, NothingFails
    <3>2. schema = NewSchema
      BY <2>1, <3>1, SchemaAtEnd
    <3> QED
      BY <2>1, <2>2, <3>1, <3>2, NewSchemaStays
  <2>3. CASE Crash
    BY <2>3 DEF Crash
  <2>4. ~ Start
    BY DEF Start
  <2>5. ~ Service
    BY ServiceQuiet
  <2> QED
    BY <2>2, <2>3, <2>4, <2>5 DEF Next
<1> QED
  BY <1>1, Invariant, PTL DEF Spec, OnlyCrashesEndARun

\* Once a run has been completed the schema is the one this service maps and no
\* account holds a key in clear, whatever is interrupted or repeated afterwards
\* (0008).
THEOREM NoSecretIsLeft == Spec => []PassedInv
<1>1. Inv => PassedInv
  BY DEF Inv
<1> QED
  BY <1>1, Invariant, PTL
=============================================================================
