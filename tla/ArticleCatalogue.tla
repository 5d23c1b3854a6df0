-------------------------- MODULE ArticleCatalogue --------------------------
(***************************************************************************)
(* What the article table promises to whoever links to an article: every   *)
(* entry has an id that was never another entry's and a slug that no other *)
(* entry has, and one write changes one entry.  Nothing here says how many *)
(* statements a request needs, or that two requests may be at work.        *)
(***************************************************************************)
EXTENDS Naturals

CONSTANT Slugs
VARIABLES entries,   \* slug of each live article, by id
          next       \* ids from here on have not been given out

Free(slug) == \A i \in DOMAIN entries : entries[i] # slug

CatalogueInit == entries = [i \in {} |-> {}] /\ next = 1

Add == \E slug \in Slugs :
  /\ Free(slug)
  /\ entries' = [i \in DOMAIN entries \cup {next} |->
                   IF i = next THEN slug ELSE entries[i]]
  /\ next' = next + 1

\* An id is spent on an article that could not be added.
Refuse == next' = next + 1 /\ UNCHANGED entries

Rename == \E i \in DOMAIN entries, slug \in Slugs :
  /\ Free(slug)
  /\ entries' = [entries EXCEPT ![i] = slug]
  /\ UNCHANGED next

Remove == \E i \in DOMAIN entries :
  /\ entries' = [j \in DOMAIN entries \ {i} |-> entries[j]]
  /\ UNCHANGED next

CatalogueNext == Add \/ Refuse \/ Rename \/ Remove

CatalogueSpec == CatalogueInit /\ [][CatalogueNext]_<<entries, next>>
=============================================================================
