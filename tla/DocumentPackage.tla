------------------------------ MODULE DocumentPackage ------------------------------
(***************************************************************************)
(* What a package of executive documents promises: it is formed with all   *)
(* its documents open, then its documents change one at a time; a document *)
(* is finalized only as the candidate that was drafted, and nothing takes  *)
(* it back but a newer draft of the same document or a new formation.      *)
(***************************************************************************)
CONSTANTS Members, Drafts, None

VARIABLES
  draft,    \* draft that stands for each document of the package, None while it is open
  finalized \* documents that are finalized

vars == <<draft, finalized>>

Init ==
  /\ draft = [m \in Members |-> None]
  /\ finalized = {}

Form ==
  /\ draft' = [m \in Members |-> None]
  /\ finalized' = {}

Draft(m, d) ==
  /\ draft[m] # d
  /\ draft' = [draft EXCEPT ![m] = d]
  /\ finalized' = finalized \ {m}

Finalize(m) ==
  /\ draft[m] # None /\ m \notin finalized
  /\ finalized' = finalized \cup {m}
  /\ UNCHANGED draft

Next ==
  \/ Form
  \/ \E m \in Members : Finalize(m) \/ \E d \in Drafts : Draft(m, d)

Spec == Init /\ [][Next]_vars
================================================================================
