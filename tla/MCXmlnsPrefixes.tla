-------------------------- MODULE MCXmlnsPrefixes --------------------------
(***************************************************************************)
(* Small instances of XmlnsPrefixes; the threads are interchangeable.      *)
(***************************************************************************)
EXTENDS XmlnsPrefixes, TLC

Symmetry == Permutations(Thread)
=============================================================================
