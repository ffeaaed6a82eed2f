-------------------------- MODULE MCCountProjection --------------------------
(***************************************************************************)
(* Small instances of CountProjection: one class whose seats are used      *)
(* again and again, so that the guard is at its limits all the time.       *)
(***************************************************************************)
EXTENDS CountProjection

CONSTANTS Seats

MCCapacity == [c \in Classes |-> Seats]
=============================================================================
