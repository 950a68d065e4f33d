---------------------------- MODULE MCDescriptors ----------------------------
(***************************************************************************)
(* Instances of Descriptors.                                               *)
(***************************************************************************)
EXTENDS Descriptors, TLC

Symmetry == Permutations(Clients)

\* A file and a terminal are enough for the assertion.
FileOrTerminal == {"file", "terminal"}
=============================================================================
