----------------------------- MODULE MCBookmarks ----------------------------
(* Instances of Bookmarks for TLC. *)
EXTENDS Bookmarks, TLC

CONSTANTS w1, w2, s1, ann

MCClean == [raw_x |-> "x"]
MCContents == {"x"}

NoKeys == [slug |-> Unset, article_status |-> Unset, published_at |-> Unset,
           content |-> Unset]

\* Articles are created published, archived, published again and deleted.
MCCreate ==
  {[NoKeys EXCEPT !.slug = s, !.article_status = "published", !.content = "raw_x"] :
     s \in Slugs}

MCUpdate == {[NoKeys EXCEPT !.article_status = "archived"]}

Symmetric == Permutations(Workers)
=============================================================================
