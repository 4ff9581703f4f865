--------------------------- MODULE MCGDavMethods ---------------------------
(***************************************************************************)
(* Small instances of GDavMethods: the calls are interchangeable, and so   *)
(* are the threads.                                                        *)
(***************************************************************************)
EXTENDS GDavMethods, TLC

CallSymmetry == Permutations(Call)

Symmetry == CallSymmetry \cup Permutations(Thread)
=============================================================================
