----------------------------- MODULE MCArticles -----------------------------
(* Instances of Articles for TLC. *)
EXTENDS Articles, TLC

CONSTANTS w1, w2, s1, s2, ann, bob

\* Two ways to send the content "x": sanitising makes them the same.
MCClean == [raw_x |-> "x", untidy_x |-> "x", raw_y |-> "y"]
MCContents == {"x", "y"}

NoKeys == [slug |-> Unset, article_status |-> Unset, published_at |-> Unset,
           content |-> Unset]

MCCreate ==
  {[NoKeys EXCEPT !.slug = s, !.article_status = st, !.content = "raw_x"] :
     s \in Slugs, st \in {Unset, "published"}}

MCPublish ==
  {[NoKeys EXCEPT !.slug = s, !.content = "raw_y"] : s \in Slugs}

\* One key at a time, a rename that also publishes, and the whole form the
\* editor of the console sends back.
MCUpdateUndated ==
  {[NoKeys EXCEPT !.content = c] : c \in {"untidy_x", "raw_y"}}
    \cup {[NoKeys EXCEPT !.slug = s, !.article_status = st, !.content = "raw_x"] :
            s \in Slugs, st \in {"draft", "published"}}

\* New content, and the form of an undated draft, renamed and published: the
\* console sends the empty date field as null.
MCUpdateFew ==
  {[NoKeys EXCEPT !.content = "raw_y"]}
    \cup {[NoKeys EXCEPT !.slug = s, !.article_status = "published",
                          !.published_at = Null] : s \in Slugs}

\* For runs that are not about new articles
MCCreateDraft == {[NoKeys EXCEPT !.slug = s, !.content = "raw_x"] : s \in Slugs}

Symmetric == Permutations(Workers) \cup Permutations(Slugs)
=============================================================================
