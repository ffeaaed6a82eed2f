----------------------------- MODULE MCCatalog -----------------------------
(***************************************************************************)
(* Catalog on a small instance.  Its properties are about single states    *)
(* and single steps and no definition tells courses, rounds, terms or      *)
(* transactions apart, so exchanging them changes nothing.                 *)
(***************************************************************************)
EXTENDS Catalog, TLC

Symmetry ==
    Permutations(Courses) \cup Permutations(Rounds) \cup Permutations(Terms)
    \cup Permutations(Transactions)
=============================================================================
