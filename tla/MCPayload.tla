----------------------------- MODULE MCPayload -----------------------------
(* Instances of Payload for TLC. *)
EXTENDS Payload

MCLimits ==
  [title |-> 3, description |-> 3, meta_title |-> 2, meta_description |-> 3,
   html_content |-> 4, faq_items |-> 2, faq_question |-> 2, faq_answer |-> 2,
   links |-> 2, link_cta |-> 2, link_url |-> 9, url_title_list |-> 2,
   url_title_title |-> 2, cover_image_url |-> 9, search_keyword_items |-> 2,
   search_keyword_item |-> 2]

MCView == <<"h">>

Texts(n) == BoundedSeq({"h", "H", "#", " "}, n)
Words(n) == BoundedSeq({"h", "H", " "}, n)

\* A path behind "http://h/"
Page(path) == <<"h", "h", "/">> \o path

Marks == {";", "?", "#"}

\* Paths of a few characters, and one longer than the cap that has a mark at
\* every second place
Covers ==
  BoundedSeq(Char, 3)
    \cup {Page(path) : path \in BoundedSeq(Char \ {"H"}, 4)}
    \cup {Page(<<" ", a, " ", b, " ", c, "h">>) : a \in Marks, b \in Marks, c \in Marks}

\* A scheme that is not http, a host that is missing or blank, an empty query
\* behind a blank and before a fragment, and all three marks
Urls == {<<>>, <<"?", "h">>, <<"h", "?">>, <<" ", "H", "h">>, <<"h", " ", "#">>,
         <<"h", "h", " ", "?">>, <<"h", "h", "?", "#", "h">>, <<"h", "h", " ", "?", "h">>,
         Page(<<" ", ";", " ", "?", " ", "#">>)}

\* Elements that are written as they came, longer, and shorter
Nodes ==
  {Element(tag, 1) : tag \in {"p", "a", "h1", "script"}}
    \cup {[Element("p", 1) EXCEPT !.written = 2], [Element("p", 2) EXCEPT !.written = 1],
          [Element("a", 1) EXCEPT !.forced = 1]}

MCInputs ==
  [field \in Fields |->
     CASE field = "category" ->
            [word : Categories \cup {"cricket"}, spelling : {"hyphens", "capitals"}] \cup {None}
       [] field \in PlainFields -> Texts(4)
       [] field \in MetaFields -> Texts(5) \cup {None}
       [] field = "cover_image_url" -> Covers \cup {None}
       [] field = "search_keyword" -> BoundedSeq(Words(3), 3)
       [] field = "html_content" -> BoundedSeq(Nodes, 4)
       [] field = "faq" -> BoundedSeq([question : Words(2), answer : Words(2) \ {<<>>}], 2)
            \cup BoundedSeq([question : {<<"h">>, <<" ">>}, answer : {<<"h">>}], 4)
       [] field = "links" -> BoundedSeq([cta : {None, <<" ">>, <<"H", " ">>}, url : Urls], 3)
       [] OTHER -> BoundedSeq([title : {<<>>, <<" ", "h">>, <<"h", "h", " ">>, <<"h", " ", "h">>}, url : Urls], 2)
            \cup BoundedSeq([title : {<<>>}, url : Urls], 3)]

MCMarkdowns == BoundedSeq(DOMAIN Rendered, 4)
=============================================================================
