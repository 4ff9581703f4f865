------------------------ MODULE MCMultiStatusParser ------------------------
(***************************************************************************)
(* Small instances of MultiStatusParser; the property types are            *)
(* interchangeable.                                                        *)
(***************************************************************************)
EXTENDS MultiStatusParser, TLC

Symmetry == Permutations(PropertyType)
=============================================================================
