------------------------------ MODULE MCPairing ------------------------------
(***************************************************************************)
(* Small instances of Pairing for TLC.                                     *)
(***************************************************************************)
EXTENDS Pairing, TLC

\* Phones, codes and session identifiers are interchangeable.
Symmetry == Permutations(Phones) \cup Permutations(Codes) \cup Permutations(Sessions)
=============================================================================
