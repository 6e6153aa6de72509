----------------------------- MODULE MCBackend -----------------------------
(***************************************************************************)
(* The symmetry of an instance of Backend for TLC: saved objects, versions *)
(* but the first one, passwords and invocations are interchangeable.       *)
(***************************************************************************)
EXTENDS Backend, TLC

Symmetry ==
  Permutations(Version \ {FirstVersion}) \cup Permutations(Password)
    \cup Permutations(Worker) \cup Permutations(SavedObjects)
=============================================================================
