------------------------------ MODULE JobLifecycle ------------------------------
(***************************************************************************)
(* What the durable queue promises about each job, whatever workers,       *)
(* owners and crashes do: a job moves only along the edges of the          *)
(* documented state machine, begins an attempt only while it has one left  *)
(* and its prerequisites have succeeded, and never leaves a terminal state.*)
(* Several jobs may move in one step, but at most one of them begins.      *)
(***************************************************************************)
EXTENDS Naturals

CONSTANTS Jobs, Enqueued, DependsOn, MaxAttempts

VARIABLES state, attempts

vars == <<state, attempts>>

Settled == {"succeeded", "failed", "cancelled", "reconciliation_required"}

\* A stale lease is taken back and given out again in one transaction, hence the
\* edges from a held state to "leased".
Edges ==
  {<<"absent", "queued">>, <<"queued", "paused">>, <<"paused", "queued">>,
   <<"queued", "leased">>, <<"leased", "leased">>, <<"running", "leased">>,
   <<"leased", "running">>, <<"leased", "queued">>, <<"running", "queued">>,
   <<"paused", "cancelled">>}
  \cup {"queued", "leased"} \X {"cancelled", "reconciliation_required"}
  \cup {"running"} \X Settled

Prerequisites(j) == IF j \in Enqueued THEN DependsOn[j] ELSE {}

Begins(j) == attempts'[j] # attempts[j]

Move(j) ==
  /\ <<state[j], state'[j]>> \in Edges
  /\ Begins(j) <=> state'[j] = "leased"
  /\ Begins(j) => /\ attempts'[j] = attempts[j] + 1
                  /\ attempts'[j] <= MaxAttempts
                  /\ \A p \in Prerequisites(j) : state[p] = "succeeded"

Stay(j) == state'[j] = state[j] /\ attempts'[j] = attempts[j]

Init ==
  /\ state = [j \in Jobs |-> IF j \in Enqueued THEN "queued" ELSE "absent"]
  /\ attempts = [j \in Jobs |-> 0]

Next ==
  /\ \A j \in Jobs : Move(j) \/ Stay(j)
  /\ \A j, k \in Jobs : Begins(j) /\ Begins(k) => j = k

Spec == Init /\ [][Next]_vars
================================================================================
