------------------------------ MODULE Payload ------------------------------
(***************************************************************************)
(* What a request body becomes before it is stored: the two validation     *)
(* layers of an article write (schemas/article.py, then                    *)
(* services/article_writes.py over utils/article_payload.py, utils/html.py *)
(* and utils/urls.py), and the round trip of an editor who loads what was  *)
(* stored and saves it again untouched.                                    *)
(*                                                                         *)
(* A text is a sequence of characters of the kinds the code tells apart: a *)
(* letter in lower ("h") and in upper case ("H"), a blank, and the slash   *)
(* and the three marks at which urlparse splits a URL.  A URL is a text    *)
(* whose first character is its scheme with "://", "h" for http(s) in      *)
(* either case; the host follows.  A body of HTML is a sequence of         *)
(* elements.  Articles takes the outcome of all this as the constant       *)
(* Clean.                                                                  *)
(***************************************************************************)
EXTENDS Integers, Sequences, FiniteSets, SequencesExt

CONSTANTS
  Limits,       \* the caps of constants/article.py
  Inputs,       \* for each field, what clients send for it
  Markdowns,    \* bodies of the publishing API
  View,         \* the text "View"
  None          \* JSON null

VARIABLES
  content,      \* the content columns of the article
  sent,         \* the edit that was made, for the properties
  echoes        \* untouched saves since then

payloadVars == <<content, sent, echoes>>

PlainFields    == {"title", "description"}
MetaFields     == {"meta_title", "meta_description"}
UrlTitleFields == {"instagram_post_url", "youtube_video_url"}

Fields ==
  PlainFields \cup MetaFields \cup UrlTitleFields
    \cup {"category", "html_content", "search_keyword", "links", "faq", "cover_image_url"}

Categories == {"latest_job", "blog"}

Caps ==
  PlainFields \cup MetaFields
    \cup {"html_content", "faq_items", "faq_question", "faq_answer", "links", "link_cta",
          "link_url", "url_title_list", "url_title_title", "cover_image_url",
          "search_keyword_items", "search_keyword_item"}

Char == {"h", "H", " ", "/", ";", "?", "#"}

Blank == " "
Semicolon == ";"

\* "script" stands for any that is not allowed
Tags == {"p", "h1", "h2", "a", "script"}

Text == Seq(Char)

\* An element of a body: how long it is, how long nh3 writes it, and how often
\* the attributes this service forces are on it.
Node == [tag : Tags, size : Nat, written : Nat, forced : Nat]

Element(tag, size) == [tag |-> tag, size |-> size, written |-> size, forced |-> 0]

\* How the markdown library renders each construct, longer by its tags
Rendered ==
  [text |-> Element("p", 2), heading |-> Element("h1", 2), link |-> Element("a", 2),
   inline_script |-> Element("script", 2)]

\* The types of the schema
Typed ==
  [field \in Fields |->
     CASE field \in PlainFields \cup MetaFields \cup {"cover_image_url"} -> Text
       [] field \in UrlTitleFields -> Seq([title : Text, url : Text])
       [] field = "category"       -> [word : STRING, spelling : STRING]
       [] field = "html_content"   -> Seq(Node)
       [] field = "search_keyword" -> Seq(Text)
       [] field = "links"          -> Seq([cta : {None} \cup Text, url : Text])
       [] field = "faq"            -> Seq([question : Text, answer : Text])]

\* What it takes for a field: every field may be null.
Sendable == [field \in Fields |-> {None} \cup Typed[field]]

ASSUME PayloadAssumption ==
  /\ Limits \in [Caps -> Nat \ {0}]
  /\ DOMAIN Inputs = Fields
  /\ \A field \in Fields : Inputs[field] \subseteq Sendable[field]
  /\ Markdowns \subseteq Seq(DOMAIN Rendered)
  /\ Limits.cover_image_url > 1   \* room for a scheme and a host
  /\ None \notin Categories /\ \A field \in Fields : None \notin Typed[field]
  /\ View \in Text \ {<<>>} /\ Len(View) <= Limits.link_cta
  /\ Head(View) # Blank /\ Last(View) # Blank

-----------------------------------------------------------------------------
(* Texts *)

Lower(text) == [i \in DOMAIN text |-> IF text[i] = "H" THEN "h" ELSE text[i]]

\* str.strip()
Strip(text) ==
  LET ink == {i \in DOMAIN text : text[i] # Blank}
  IN  IF ink = {} THEN <<>> ELSE SubSeq(text, Min(ink), Max(ink))

\* seq[:n]
Cap(seq, n) == SubSeq(seq, 1, Min({n, Len(seq)}))

\* The elements of seq at these positions, in their order
Pick(seq, positions) ==
  LET upto[i \in 0 .. Len(seq)] ==
        IF i = 0 THEN <<>>
        ELSE IF i \in positions THEN Append(upto[i - 1], seq[i])
                                ELSE upto[i - 1]
  IN  upto[Len(seq)]

\* Of a run of blanks the first one stays.
Collapse(value) ==
  IF value = None THEN <<>>
  ELSE Strip(Pick(value, {i \in DOMAIN value :
                            value[i] # Blank \/ i = 1 \/ value[i - 1] # Blank}))

\* text without the mark at one of these positions, if there is any
Drop(text, positions) ==
  IF positions = {} THEN text ELSE RemoveAt(text, CHOOSE i \in positions : TRUE)

\* The first of these marks, if what it opens is empty: nothing follows, or one
\* of the marks that end it
Hollow(text, mark, ends) ==
  {i \in DOMAIN text :
     /\ text[i] = mark
     /\ i < Len(text) => text[i + 1] \in ends
     /\ \A j \in 1 .. i - 1 : text[j] \notin ends \cup {mark}}

\* The first ";" of the last segment of the path, if nothing follows
HollowParams(text) ==
  {i \in DOMAIN text :
     /\ text[i] = Semicolon
     /\ i < Len(text) => text[i + 1] \in {"?", "#"}
     /\ \A j \in 1 .. i - 1 : text[j] \notin {"?", "#"}
     /\ \E j \in 1 .. i - 1 : /\ text[j] = "/"
                             /\ \A k \in j + 1 .. i - 1 : text[k] # Semicolon}

\* urlunparse(urlparse(text)): the fragment, the query and the params are split
\* off in this order, and an empty one leaves no mark.
Canonical(text) ==
  LET bare  == Drop(text, Hollow(text, "#", {}))
      plain == Drop(bare, Hollow(bare, "?", {"#"}))
  IN  Drop(plain, HollowParams(plain))

\* The canonical URL, if the scheme is http(s) and there is a host
valid_http_url(value) ==
  LET text == IF value = None THEN <<>> ELSE Strip(value)
  IN  IF Len(text) < 2 \/ text[1] \notin {"h", "H"} \/ text[2] \in {"/", "?", "#"}
        THEN None
        ELSE Canonical(<<"h">> \o Tail(text))

-----------------------------------------------------------------------------
(* utils/article_payload.py *)

Each(F(_), seq) == [i \in DOMAIN seq |-> F(seq[i])]

Items(value) == IF value = None THEN <<>> ELSE value

Usable(items) ==
  Pick(items, {i \in DOMAIN items : valid_http_url(items[i].url) # None})

\* An item that is a plain string stands as one with an empty title.
StoredUrlTitle(item) == [url   |-> valid_http_url(item.url),
                         title |-> Cap(Strip(item.title), Limits.url_title_title)]

normalise_url_title_list(value) ==
  Cap(Each(StoredUrlTitle, Usable(Items(value))), Limits.url_title_list)

normalise_cover_image_url(value) ==
  LET safe == valid_http_url(value)
  IN  IF safe = None THEN None ELSE Cap(safe, Limits.cover_image_url)

StoredFaq(item) == [question |-> Cap(Collapse(item.question), Limits.faq_question),
                    answer   |-> Cap(Strip(item.answer), Limits.faq_answer)]

\* Mutant of normalise_faq_list: half an entry is kept.
FaqHalves(value) ==
  LET stored == Each(StoredFaq, Items(value))
      useful == {i \in DOMAIN stored : stored[i].question # <<>> \/ stored[i].answer # <<>>}
  IN  Cap(Pick(stored, useful), Limits.faq_items)

normalise_faq_list(value) ==
  LET stored == Each(StoredFaq, Items(value))
      whole  == {i \in DOMAIN stored : stored[i].question # <<>> /\ stored[i].answer # <<>>}
  IN  Cap(Pick(stored, whole), Limits.faq_items)

normalise_meta(field, value) ==
  IF Collapse(value) = <<>> THEN None ELSE Cap(Collapse(value), Limits[field])

\* Mutant of Keyword: the cap is forgotten.
KeywordUncut(item) == Lower(Collapse(item))

\* How one keyword is stored
Keyword(item) == Cap(Lower(Collapse(item)), Limits.search_keyword_item)

\* Mutant of AddKeyword: duplicates are looked for before the cap.
AddUnlessSeenWhole(out, item) ==
  IF \/ Len(out) >= Limits.search_keyword_items
     \/ Keyword(item) = <<>>
     \/ Contains(out, Lower(Collapse(item)))
  THEN out
  ELSE Append(out, Keyword(item))

\* One round of the loop of normalise_search_keyword
AddKeyword(out, item) ==
  IF \/ Len(out) >= Limits.search_keyword_items
     \/ Keyword(item) = <<>>
     \/ Contains(out, Keyword(item))
  THEN out
  ELSE Append(out, Keyword(item))

Keywords(items) ==
  LET out[i \in 0 .. Len(items)] ==
        IF i = 0 THEN <<>> ELSE AddKeyword(out[i - 1], items[i])
  IN  out[Len(items)]

\* A string stands for the list it is when split at its commas.
normalise_search_keyword(value) == Keywords(Items(value))

StoredCta(cta) ==
  LET cut == IF cta = None THEN <<>> ELSE Cap(Strip(cta), Limits.link_cta)
  IN  IF cut = <<>> THEN View ELSE cut

StoredLink(item) == [cta |-> StoredCta(item.cta),
                     url |-> Cap(valid_http_url(item.url), Limits.link_url)]

normalise_article_links(value) ==
  Cap(Each(StoredLink, Usable(Items(value))), Limits.links)

-----------------------------------------------------------------------------
(* utils/html.py *)

Allowed == {"p", "h2", "a"}

Downgrade(node) == IF node.tag = "h1" THEN [node EXCEPT !.tag = "h2"] ELSE node

\* Mutant of CleanHtml: a target that was sent survives.
CleanTagsOnly(nodes) == Pick(nodes, {i \in DOMAIN nodes : nodes[i].tag \in Allowed})

\* nh3.clean: only allowed tags stay, and neither target nor rel.  What stays is
\* written out again, shorter or longer: other attributes go, a bare "&" becomes
\* an entity, a tag left open is closed.
CleanHtml(nodes) ==
  LET kept == Pick(nodes, {i \in DOMAIN nodes : nodes[i].tag \in Allowed})
  IN  [i \in DOMAIN kept |-> [kept[i] EXCEPT !.size = kept[i].written, !.forced = 0]]

\* rel and target="_blank", on every anchor
ForceTarget(node) == IF node.tag = "a" THEN [node EXCEPT !.forced = @ + 1] ELSE node

sanitize_article_html(value) ==
  Each(ForceTarget, CleanHtml(Each(Downgrade, Items(value))))

render_markdown(markdown) ==
  sanitize_article_html([i \in DOMAIN markdown |-> Rendered[markdown[i]]])

\* len(html): what is forced on an element counts one each time.
Length(nodes) == FoldSeq(LAMBDA node, sum : sum + node.size + node.forced, 0, nodes)

-----------------------------------------------------------------------------
(* Categories: a word in some spelling (hyphens, underscores, capitals)    *)

category_slug_to_enum(slug) == IF slug.word \in Categories THEN slug.word ELSE None

category_enum_to_slug(category) == [word |-> category, spelling |-> "hyphens"]

-----------------------------------------------------------------------------
(* The two layers *)

\* ArticleUpdate accepts this value for this field.
Accepts(field, value) ==
  IF value = None THEN TRUE
  ELSE CASE field = "title"        -> Len(value) <= Limits.title
         [] field = "description"  -> Len(value) <= Limits.description
         [] field = "html_content" -> Length(value) <= Limits.html_content
         [] field = "faq" ->
              \A i \in DOMAIN value :
                /\ Len(value[i].question) \in 1 .. Limits.faq_question
                /\ Len(value[i].answer) \in 1 .. Limits.faq_answer
         [] field = "links" ->
              \A i \in DOMAIN value :
                /\ value[i].cta # None => Len(value[i].cta) <= Limits.link_cta
                /\ Len(value[i].url) <= Limits.link_url
         [] OTHER -> TRUE

\* build_article_data, for one key of the body
Built(field, value) ==
  CASE field \in PlainFields    -> IF value = None THEN <<>> ELSE Strip(value)
    [] field \in MetaFields     -> normalise_meta(field, value)
    [] field \in UrlTitleFields -> normalise_url_title_list(value)
    [] field = "html_content"   -> sanitize_article_html(value)
    [] field = "search_keyword" -> normalise_search_keyword(value)
    [] field = "links"          -> normalise_article_links(value)
    [] field = "faq"            -> normalise_faq_list(value)
    [] field = "cover_image_url" -> normalise_cover_image_url(value)
    [] field = "category" ->
         IF category_slug_to_enum(value) = None THEN "blog"
                                                ELSE category_slug_to_enum(value)

\* The body is accepted as a whole, and then every key of it is stored, but
\* for a category that is null.
Merge(body) ==
  LET kept == {field \in DOMAIN body : field # "category" \/ body[field] # None}
  IN  [field \in Fields |-> IF field \in kept THEN Built(field, body[field]) ELSE content[field]]

\* The form an editor gets from AdminArticle, and would send back
Form ==
  [field \in Fields |-> IF field = "category" THEN category_enum_to_slug(content.category)
                                              ELSE content[field]]

Refused == {field \in Fields : ~ Accepts(field, Form[field])}

-----------------------------------------------------------------------------
NoEdit == [field |-> "none", value |-> None]

\* The column defaults
PayloadInit ==
  /\ content = [field \in Fields |->
              IF field \in MetaFields \cup {"cover_image_url"} THEN None
              ELSE IF field = "category" THEN "blog"
              ELSE <<>>]
  /\ sent = NoEdit
  /\ echoes = 0

\* PUT of one key.  Bound: an article is edited once; what a key becomes does
\* not depend on the other keys nor on what was stored before.
Save ==
  /\ sent = NoEdit
  /\ \E field \in Fields : \E value \in Inputs[field] :
       /\ Accepts(field, value)
       /\ content' = Merge([f \in {field} |-> value])
       /\ sent' = [field |-> field, value |-> value]
  /\ UNCHANGED echoes

\* POST /publish/articles: the body of a new draft comes as markdown.
Publish ==
  /\ sent = NoEdit
  /\ \E markdown \in Markdowns :
       /\ Len(markdown) <= Limits.html_content
       /\ content' = [content EXCEPT !.html_content = render_markdown(markdown)]
       /\ sent' = [field |-> "content", value |-> markdown]
  /\ UNCHANGED echoes

\* PUT of the whole form as it was loaded.  A form that is refused (422)
\* changes nothing.  Bound: echoes counts to 4.
Resave ==
  /\ sent # NoEdit
  /\ content' = IF Refused = {} THEN Merge(Form) ELSE content
  /\ echoes' = Min({echoes + 1, 4})
  /\ UNCHANGED sent

PayloadNext == Save \/ Publish \/ Resave

PayloadSpec == PayloadInit /\ [][PayloadNext]_payloadVars

-----------------------------------------------------------------------------
(* Properties *)

Within(seq, max) == Len(seq) <= max

\* Whatever was sent, what is stored keeps the limits that /admin/meta
\* publishes and the widths of the columns: meta_title is String(60).
WithinLimits ==
  /\ \A f \in MetaFields : content[f] # None => Len(content[f]) \in 1 .. Limits[f]
  /\ content.cover_image_url # None => Within(content.cover_image_url, Limits.cover_image_url)
  /\ \A f \in PlainFields : Within(content[f], Limits[f])
  /\ content.category \in Categories
  /\ Within(content.search_keyword, Limits.search_keyword_items)
  /\ \A k \in ToSet(content.search_keyword) : Len(k) \in 1 .. Limits.search_keyword_item
  /\ Within(content.faq, Limits.faq_items)
  /\ \A item \in ToSet(content.faq) :
       /\ Len(item.question) \in 1 .. Limits.faq_question
       /\ Len(item.answer) \in 1 .. Limits.faq_answer
  /\ Within(content.links, Limits.links)
  /\ \A item \in ToSet(content.links) :
       Within(item.cta, Limits.link_cta) /\ Within(item.url, Limits.link_url)
  /\ \A f \in UrlTitleFields :
       /\ Within(content[f], Limits.url_title_list)
       /\ \A item \in ToSet(content[f]) : Within(item.title, Limits.url_title_title)
  /\ \A node \in ToSet(content.html_content) :
       /\ node.tag \in Allowed /\ node.size = node.written
       /\ node.forced = IF node.tag = "a" THEN 1 ELSE 0

\* Keywords are stored once each, and the places go to those sent first: no
\* duplicate and no empty entry takes a place from a keyword that follows it
\* (normalise_search_keyword).
KeywordsFirst ==
  sent.field = "search_keyword" /\ echoes = 0 =>
    LET items  == Items(sent.value)
        wanted == {Keyword(items[i]) : i \in DOMAIN items} \ {<<>>}
        First(k) == Min({i \in DOMAIN items : Keyword(items[i]) = k})
        Earlier(k) == {k2 \in wanted : First(k2) < First(k)}
    IN  /\ ToSet(content.search_keyword) =
             {k \in wanted : Cardinality(Earlier(k)) < Limits.search_keyword_items}
        /\ \A k \in ToSet(content.search_keyword) :
             content.search_keyword[Cardinality(Earlier(k)) + 1] = k

\* Whatever the API stored it accepts again, so that an article can always be
\* edited: but for a body, which the schema has measured before it was rendered,
\* escaped and given its forced attributes.  And that shows at once: a form that
\* was accepted is accepted ever after, for no save makes the body longer again.
StoredIsAccepted ==
  /\ [](Refused \subseteq {"html_content"})
  /\ [][sent # NoEdit /\ Refused = {} => Refused' = {}]_payloadVars

\* Ends that the next save will trim: a blank where a text was cut, a blank or
\* the mark of an empty part at the end of a URL.  Questions, answers and labels
\* have none: the schema has refused what their caps would cut.
Frayed ==
  LET Ends(text, chars) == text # None /\ text # <<>> /\ Last(text) \in chars
  IN  \/ \E f \in MetaFields : Ends(content[f], {Blank})
      \/ \E k \in ToSet(content.search_keyword) : Ends(k, {Blank})
      \/ \E f \in UrlTitleFields : \E item \in ToSet(content[f]) : Ends(item.title, {Blank})
      \/ \E url \in {content.cover_image_url}
              \cup {item.url : item \in UNION {ToSet(content[f]) : f \in UrlTitleFields \cup {"links"}}} :
            Ends(url, {Blank, Semicolon, "?", "#"})

\* "Opening the editor and pressing Save without touching anything leaves the
\* date alone" (articles.update): an untouched save changes the row only to
\* trim a frayed end, and after four there is nothing left to change.
UntouchedSaveIsQuiet ==
  [][sent # NoEdit /\ content' # content => Frayed /\ echoes < 4]_payloadVars
=============================================================================
