---------------------------- MODULE WorkspaceCustody ----------------------------
(***************************************************************************)
(* What the lifecycle promises about the material of a workspace, whatever *)
(* its operators do: material is admitted only while the workspace is      *)
(* open, nothing is removed before the workspace is condemned, a condemned *)
(* workspace is never opened again, and when it is declared destroyed      *)
(* nothing is left but what landed behind the fence.                       *)
(***************************************************************************)
CONSTANT Items

VARIABLES
  phase,   \* open, sealed, condemned or destroyed
  content, \* material of the workspace
  writing, \* material admitted that has not landed yet
  stray    \* material that landed while the workspace was not open

vars == <<phase, content, writing, stray>>

Admit(i) ==
  /\ phase = "open"
  /\ writing' = writing \cup {i}
  /\ UNCHANGED <<phase, content, stray>>

Land(i) ==
  /\ i \in writing
  /\ writing' = writing \ {i}
  /\ content' = content \cup {i}
  /\ stray' = IF phase = "open" THEN stray ELSE stray \cup {i}
  /\ phase' = phase

Remove(i) ==
  /\ phase \in {"condemned", "destroyed"}
  /\ content' = content \ {i}
  /\ UNCHANGED <<phase, writing, stray>>

Seal == phase = "open" /\ phase' = "sealed" /\ UNCHANGED <<content, writing, stray>>

\* What landed late is ordinary material of the next revision.
Reopen == phase = "sealed" /\ phase' = "open" /\ stray' = {} /\ UNCHANGED <<content, writing>>

Condemn == phase = "sealed" /\ phase' = "condemned" /\ UNCHANGED <<content, writing, stray>>

Destroy ==
  /\ phase = "condemned"
  /\ content \subseteq stray
  /\ phase' = "destroyed"
  /\ UNCHANGED <<content, writing, stray>>

Init ==
  /\ phase = "open"
  /\ content = {}
  /\ writing = {}
  /\ stray = {}

Next ==
  \/ \E i \in Items : Admit(i) \/ Land(i) \/ Remove(i)
  \/ Seal \/ Reopen \/ Condemn \/ Destroy

Spec == Init /\ [][Next]_vars
================================================================================
