------------------------------ MODULE MCRepoWiki ------------------------------
(***************************************************************************)
(* RepoWiki with two pages that may be made from two contents each.  To    *)
(* exchange the pages, or the contents of a page, makes a behaviour of a   *)
(* behaviour; of the starts that differ by no more than that, one is kept. *)
(***************************************************************************)
EXTENDS RepoWiki

CONSTANTS
    FirstPage,    \* the page that is on disk if any is
    FirstContent  \* what every page would be made from at the first commit

FirstInit ==
    /\ Init
    /\ src = [s \in Slugs |-> FirstContent]
    /\ \A s \in Listed(base) :
          /\ base[FirstPage] # None
          /\ base[s].content = FirstContent => base[FirstPage].content = FirstContent
FirstSpec == FirstInit /\ [][Next]_vars
FirstFairSpec == FirstSpec /\ WF_vars(Generator)
=============================================================================
