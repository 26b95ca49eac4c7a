----------------------------- MODULE PageStore -----------------------------
(***************************************************************************)
(* What the pager and the log of the B-tree promise the tree: a store of   *)
(* pages and the number of the root page.  A page is written by replacing  *)
(* it with a newer version, one page at a time; it never goes back to an   *)
(* older one; the root is a page that is stored.  Evictions, flushes,      *)
(* checkpoints, crashes and recoveries are not seen here.                  *)
(***************************************************************************)
EXTENDS Naturals

CONSTANT PageIDs

VARIABLES pages,            \* the version of each page, 0: not stored
          root
vars == <<pages, root>>

Init ==
    /\ pages \in [PageIDs -> {0, 1}]
    /\ root \in {id \in PageIDs : pages[id] > 0}

Write(id) ==
    /\ pages'[id] > pages[id]
    /\ pages' = [pages EXCEPT ![id] = pages'[id]]
    /\ UNCHANGED root

\* A page the tree has given up; what was stored of it does not matter any more.
Free(id) ==
    /\ id # root
    /\ pages' = [pages EXCEPT ![id] = 0] /\ UNCHANGED root

SetRoot(id) ==
    /\ pages[id] > 0
    /\ root' = id /\ UNCHANGED pages

Next == \E id \in PageIDs : Write(id) \/ Free(id) \/ SetRoot(id)

Spec == Init /\ [][Next]_vars
=============================================================================
