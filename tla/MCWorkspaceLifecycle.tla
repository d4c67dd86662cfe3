-------------------------- MODULE MCWorkspaceLifecycle --------------------------
(* Symmetry for model checking WorkspaceLifecycle: plans and holds are only  *)
(* identities.                                                               *)
EXTENDS WorkspaceLifecycle, TLC

Identities == Permutations(Plans) \cup Permutations(Holds)
================================================================================
