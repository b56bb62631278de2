--------------------------- MODULE MCOrchestrator ---------------------------
(* Orchestrator on small instances.                                           *)
EXTENDS Orchestrator, TLC

\* Callers and sessions are interchangeable: no action and no safety property
\* tells one from another.
Symmetry == Permutations(Callers) \cup Permutations(Sessions)
=============================================================================
