--------------------------- MODULE DurableJobs_proofs ---------------------------
(***************************************************************************)
(* Theorems about DurableJobs, for every set of jobs and workers, every    *)
(* dependency relation and every bound.                                    *)
(***************************************************************************)
EXTENDS DurableJobs, TLAPS

USE JobsAssumption, BoundsAssumption

\* Every outcome code settles a job in a terminal state.
LEMMA VerdictIsTerminal ==
  ASSUME NEW c \in Codes
  PROVE  Verdict(c) \in TerminalStates
BY DEF Codes, Verdict, TerminalStates, FailureStates, CancelCodes, ReviewCodes

\* The reconciler only uses outcome codes.
LEMMA ReconcileCodeType ==
  ASSUME NEW j \in Jobs
  PROVE  ReconcileCode(j) \in Codes
BY DEF ReconcileCode, Codes, CancelCodes, ReviewCodes

--------------------------------------------------------------------------------
(* Types *)

\* Settling a set of rows keeps the columns it writes in their domains.
LEMMA SettleRowsType ==
  ASSUME TypeOK, NEW J \in SUBSET Jobs, NEW verdict \in [J -> Codes],
         SettleRows(J, verdict)
  PROVE  /\ state' \in [Jobs -> JobStates]
         /\ owner' \in [Jobs -> Workers \cup {None}]
         /\ lapsed' \in [Jobs -> BOOLEAN]
         /\ UNCHANGED <<attempts, generation, backoff, decisions>>
<1>1. \A j \in J : Verdict(verdict[j]) \in JobStates
  BY VerdictIsTerminal DEF JobStates
<1>2. QED
  BY <1>1 DEF SettleRows, TypeOK

LEMMA InitTypeOK == Init => TypeOK
BY DEF Init, TypeOK, JobStates, CancelStates, Stages

\* Leaving run_once, normally or by an exception, keeps the types of the worker.
LEMMA LeaveType ==
  ASSUME TypeOK, NEW w \in Workers, WorkerDown(w) \/ RunOnceReturns(w)
  PROVE  /\ pc' \in [Workers -> Stages]
         /\ claim' \in [Workers -> Jobs \cup {None}]
         /\ token' \in [Workers -> Nat]
         /\ page' \in [Workers -> 1 .. Pages + 1]
         /\ code' \in [Workers -> Codes \cup {None}]
<1>1. 1 \in 1 .. Pages + 1
  OBVIOUS
<1>2. {"down", "idle"} \subseteq Stages
  BY DEF Stages
<1>3. CASE WorkerDown(w)
  BY <1>1, <1>2, <1>3 DEF TypeOK, WorkerDown
<1>4. CASE RunOnceReturns(w)
  BY <1>1, <1>2, <1>4 DEF TypeOK, RunOnceReturns
<1> QED
  BY <1>3, <1>4

\* Choosing a code and going on to another stage keep the types.
LEMMA ChoiceType ==
  ASSUME TypeOK, NEW w \in Workers
  PROVE  /\ \A c \in Codes : SettleWith(w, c) => TypeOK'
         /\ \A s \in Stages : GoOn(w, s) => TypeOK'
<1>1. ASSUME NEW c \in Codes, SettleWith(w, c)
      PROVE  TypeOK'
  <2>1. pc' \in [Workers -> Stages] /\ code' \in [Workers -> Codes \cup {None}]
    BY <1>1 DEF SettleWith, TypeOK, Stages
  <2>2. QED
    BY <1>1, <2>1 DEF SettleWith, TypeOK, columns, ledger, budgets
<1>2. ASSUME NEW s \in Stages, GoOn(w, s)
      PROVE  TypeOK'
  <2>1. pc' \in [Workers -> Stages]
    BY <1>2 DEF GoOn, TypeOK
  <2>2. QED
    BY <1>2, <2>1 DEF GoOn, TypeOK, columns, ledger, budgets
<1>3. QED
  BY <1>1, <1>2

\* Worker steps keep the types; the claim of an executing worker names a job.
LEMMA WorkerTypeOK ==
  ASSUME TypeOK, NEW w \in Workers, ExecutionShape(w), WorkerStep(w)
  PROVE  TypeOK'
<1> USE DEF TypeOK
<1>a. Active(w) => claim[w] \in Jobs
  BY DEF ExecutionShape
<1>b. pc[w] = "settling" => code[w] \in Codes
  BY DEF ExecutionShape
<1>1. CASE Reconcile(w)
  <2>1. [j \in Unclaimable |-> ReconcileCode(j)] \in [Unclaimable -> Codes]
    BY ReconcileCodeType DEF Unclaimable
  <2>2. Unclaimable \in SUBSET Jobs
    BY DEF Unclaimable
  <2>3. receipts' \subseteq Receipts
    BY <1>1, <2>2, ReconcileCodeType DEF Reconcile, Receipts, Receipt
  <2>4. cancel' \in [Jobs -> CancelStates]
    BY <1>1 DEF Reconcile, CancelStates
  <2>5. QED
    BY <1>1, <2>1, <2>2, <2>3, <2>4, SettleRowsType
    DEF Reconcile, workerVars, budgets
<1>2. CASE ReconcileDone(w)
  BY <1>2 DEF ReconcileDone, columns, ledger, budgets, Stages
<1>3. ASSUME NEW j \in Jobs, Claim(w, j)
      PROVE  TypeOK'
  <2>1. state' \in [Jobs -> JobStates]
    BY <1>3 DEF Claim, Recovered, JobStates, HeldStates
  <2>2. owner' \in [Jobs -> Workers \cup {None}] /\ lapsed' \in [Jobs -> BOOLEAN]
    BY <1>3 DEF Claim
  <2>3. /\ attempts' \in [Jobs -> Nat] /\ generation' \in [Jobs -> Nat]
        /\ token' \in [Workers -> Nat]
    BY <1>3 DEF Claim, NextGeneration
  <2>4. QED
    BY <1>3, <2>1, <2>2, <2>3 DEF Claim, ledger, budgets, Stages
<1>4. CASE ClaimNothing(w)
  BY <1>4 DEF ClaimNothing, Recovered, JobStates, HeldStates, ledger, budgets, Stages
<1>5. CASE MarkRunning(w)
  <2>1. state' \in [Jobs -> JobStates]
    BY <1>5 DEF MarkRunning, JobStates, HeldStates
  <2>2. CASE WorkerDown(w)
    BY <1>5, <2>1, <2>2, LeaveType DEF MarkRunning, ledger, budgets
  <2>3. CASE ~WorkerDown(w)
    <3>1. pc' = [pc EXCEPT ![w] = "marked"] /\ UNCHANGED <<claim, token, page, code>>
      BY <1>5, <2>3 DEF MarkRunning
    <3>2. pc' \in [Workers -> Stages]
      BY <3>1 DEF Stages
    <3>3. QED
      BY <1>5, <2>1, <3>1, <3>2 DEF MarkRunning, ledger, budgets
  <2>4. QED
    BY <2>2, <2>3
<1>6. CASE CheckBeforeEffect(w)
  <2>1. CASE SettleWith(w, "job_cancelled_before_effect")
    BY <2>1, ChoiceType DEF Codes, CancelCodes
  <2>2. CASE GoOn(w, "opening")
    BY <2>2, ChoiceType DEF Stages
  <2>3. CASE WorkerDown(w) /\ UNCHANGED <<columns, ledger, pages, budgets>>
    BY <2>3, LeaveType DEF columns, ledger, budgets
  <2>4. QED
    BY <1>6, <2>1, <2>2, <2>3 DEF CheckBeforeEffect
<1>7. CASE OpenSource(w)
  <2>1. {"deterministic_failure", "worker_io_unavailable"} \subseteq Codes
    BY DEF Codes, ReviewCodes
  <2>2. {"checkpoint", "retrying"} \subseteq Stages
    BY DEF Stages
  <2>3. QED
    BY <1>7, <2>1, <2>2, ChoiceType DEF OpenSource
<1>8. CASE Checkpoint(w)
  <2>1. /\ "job_succeeded" \in Codes /\ "worker_io_unavailable" \in Codes
        /\ "job_cancelled_at_safe_checkpoint" \in Codes /\ "extracting" \in Stages
    BY DEF Codes, CancelCodes, ReviewCodes, Stages
  <2>2. \/ SettleWith(w, "job_succeeded") \/ SettleWith(w, "worker_io_unavailable")
        \/ SettleWith(w, "job_cancelled_at_safe_checkpoint") \/ GoOn(w, "extracting")
    BY <1>8 DEF Checkpoint
  <2>3. QED
    BY <2>1, <2>2, ChoiceType
<1>9. CASE RecordPage(w)
  <2>1. page[w] \in 1 .. Pages
    BY <1>9 DEF RecordPage, ExecutionShape
  <2>2. QED
    BY <1>9, <2>1 DEF RecordPage, columns, ledger, budgets, Stages
<1>10. CASE ExtractionFails(w)
  BY <1>10 DEF ExtractionFails, SettleWith, Codes, ReviewCodes,
               columns, ledger, budgets, Stages
<1>11. CASE Heartbeat(w)
  <2>1. page[w] \in 1 .. Pages
    BY <1>11 DEF Heartbeat, ExecutionShape
  <2>2. page[w] + 1 \in 1 .. Pages + 1
    BY <2>1
  <2>3. CASE SettleWith(w, "worker_io_unavailable")
    BY <1>11, <2>3 DEF SettleWith, Codes, ReviewCodes, columns, ledger, budgets, Stages
  <2>4. CASE ~SettleWith(w, "worker_io_unavailable")
    <3>1. /\ lapsed' = [lapsed EXCEPT ![claim[w]] = FALSE]
          /\ page' = [page EXCEPT ![w] = page[w] + 1]
          /\ pc' = [pc EXCEPT ![w] = "checkpoint"]
          /\ UNCHANGED <<state, attempts, generation, owner, backoff, cancel, ledger, pages,
                         claim, token, code, budgets>>
      BY <1>11, <2>4 DEF Heartbeat
    <3>2. QED
      BY <2>2, <3>1 DEF ledger, budgets, Stages
  <2>5. QED
    BY <2>3, <2>4
<1>12. CASE RetryJob(w)
  <2>1. CASE WorkerDown(w) /\ UNCHANGED <<columns, ledger, pages, budgets>>
    BY <2>1, LeaveType DEF columns, ledger, budgets
  <2>2. CASE SettleWith(w, "retry_exhausted")
    BY <1>12, <2>2 DEF SettleWith, Codes, ReviewCodes, columns, ledger, budgets, Stages
  <2>3. CASE /\ state' = [state EXCEPT ![claim[w]] = "queued"]
             /\ owner' = [owner EXCEPT ![claim[w]] = None]
             /\ lapsed' = [lapsed EXCEPT ![claim[w]] = FALSE]
             /\ backoff' = [backoff EXCEPT ![claim[w]] = TRUE]
             /\ RunOnceReturns(w)
             /\ UNCHANGED <<attempts, generation, cancel, ledger, pages, budgets>>
    <3>1. /\ pc' \in [Workers -> Stages] /\ claim' \in [Workers -> Jobs \cup {None}]
          /\ token' \in [Workers -> Nat] /\ page' \in [Workers -> 1 .. Pages + 1]
          /\ code' \in [Workers -> Codes \cup {None}]
      BY <2>3, LeaveType
    <3>2. state' \in [Jobs -> JobStates]
      BY <2>3 DEF JobStates
    <3>3. QED
      BY <2>3, <3>1, <3>2 DEF ledger, budgets
  <2>4. QED
    BY <1>12, <2>1, <2>2, <2>3 DEF RetryJob
<1>13. CASE FinishJob(w)
  <2> DEFINE j == claim[w]
  <2>1. j \in Jobs /\ code[w] \in Codes
    BY <1>13, <1>a, <1>b DEF FinishJob, Active
  <2>2. pc' \in [Workers -> Stages] /\ claim' \in [Workers -> Jobs \cup {None}]
        /\ token' \in [Workers -> Nat] /\ page' \in [Workers -> 1 .. Pages + 1]
        /\ code' \in [Workers -> Codes \cup {None}]
    <3>1. WorkerDown(w) \/ RunOnceReturns(w)
      BY <1>13 DEF FinishJob
    <3>2. QED
      BY <3>1, LeaveType
  <2>3. CASE UNCHANGED <<columns, ledger>>
    BY <1>13, <2>2, <2>3 DEF FinishJob, columns, ledger, budgets
  <2>4. CASE /\ SettleRows({j}, [k \in {j} |-> code[w]])
             /\ receipts' = receipts \cup {Receipt(j, code[w])}
             /\ cancel' = [cancel EXCEPT ![j] = IF code[w] \in CancelCodes
                                                  THEN "acknowledged" ELSE @]
    <3>1. {j} \in SUBSET Jobs /\ [k \in {j} |-> code[w]] \in [{j} -> Codes]
      BY <2>1
    <3>2. /\ state' \in [Jobs -> JobStates]
          /\ owner' \in [Jobs -> Workers \cup {None}]
          /\ lapsed' \in [Jobs -> BOOLEAN]
          /\ UNCHANGED <<attempts, generation, backoff, decisions>>
      BY <2>4, <3>1, SettleRowsType
    <3>3. receipts' \subseteq Receipts
      BY <2>1, <2>4 DEF Receipt, Receipts
    <3>4. cancel' \in [Jobs -> CancelStates]
      BY <2>4 DEF CancelStates
    <3>5. QED
      BY <1>13, <2>2, <3>2, <3>3, <3>4 DEF FinishJob, budgets
  <2>5. QED
    BY <1>13, <2>3, <2>4 DEF FinishJob
<1> QED
  BY <1>1, <1>2, <1>3, <1>4, <1>5, <1>6, <1>7, <1>8, <1>9, <1>10, <1>11, <1>12, <1>13
  DEF WorkerStep

\* So do restarts, owner commands, the reset fence, time and crashes.
LEMMA OtherTypeOK ==
  ASSUME TypeOK, \/ \E w \in Workers : Restart(w)
                 \/ OwnerStep
                 \/ Environment
  PROVE  TypeOK'
<1> USE DEF TypeOK
<1>1. ASSUME NEW w \in Workers, Restart(w)
      PROVE  TypeOK'
  BY <1>1 DEF Restart, columns, ledger, budgets, Stages
<1>2. ASSUME NEW j \in Jobs, RequestCancellation(j)
      PROVE  TypeOK'
  <2>1. CASE state[j] \in HeldStates
    BY <1>2, <2>1 DEF RequestCancellation, Command, CancelStates, ledger, workerVars, HeldStates
  <2>2. CASE state[j] \in {"queued", "paused"}
    <3>1. /\ SettleRows({j}, [k \in {j} |-> "job_cancelled_before_effect"])
          /\ receipts' = receipts \cup {Receipt(j, "job_cancelled_before_effect")}
          /\ cancel' = [cancel EXCEPT ![j] = "acknowledged"]
          /\ Command
      BY <1>2, <2>2 DEF RequestCancellation, HeldStates
    <3>2. {j} \in SUBSET Jobs
          /\ [k \in {j} |-> "job_cancelled_before_effect"] \in [{j} -> Codes]
      BY DEF Codes, CancelCodes
    <3>3. /\ state' \in [Jobs -> JobStates]
          /\ owner' \in [Jobs -> Workers \cup {None}]
          /\ lapsed' \in [Jobs -> BOOLEAN]
          /\ UNCHANGED <<attempts, generation, backoff, decisions>>
      BY <3>1, <3>2, SettleRowsType
    <3>4. receipts' \subseteq Receipts
      BY <3>1 DEF Receipt, Receipts, Codes, CancelCodes
    <3>5. cancel' \in [Jobs -> CancelStates] /\ commands' \in 0 .. MaxCommands
      BY <3>1 DEF Command, CancelStates
    <3>6. UNCHANGED <<pages, pc, claim, token, page, code, crashes>>
      BY <3>1 DEF Command, workerVars
    <3>7. QED
      BY <3>3, <3>4, <3>5, <3>6
  <2>3. QED
    BY <1>2, <2>1, <2>2 DEF RequestCancellation
<1>3. ASSUME NEW j \in Jobs, PauseJob(j) \/ ResumeJob(j)
      PROVE  TypeOK'
  <2>1. PICK action \in {"pause", "resume"}, target \in {"queued", "paused"} :
          /\ Command
          /\ state' = [state EXCEPT ![j] = target]
          /\ backoff' = [backoff EXCEPT ![j] = FALSE]
          /\ decisions' = decisions \cup {ControlDecision(j, action)}
          /\ UNCHANGED <<attempts, generation, owner, lapsed, cancel, receipts>>
    BY <1>3 DEF PauseJob, ResumeJob, ChangeControlState
  <2>2. decisions' \subseteq [job : Jobs, action : Actions]
    BY <2>1 DEF ControlDecision, Actions
  <2>3. state' \in [Jobs -> JobStates]
    BY <2>1 DEF JobStates
  <2>4. /\ commands' \in 0 .. MaxCommands
        /\ UNCHANGED <<pages, pc, claim, token, page, code, crashes>>
    BY <2>1 DEF Command, workerVars
  <2>5. QED
    BY <2>1, <2>2, <2>3, <2>4
<1>4. ASSUME NEW j \in Jobs, NEW d \in Jobs, ManuallyRetryJob(j, d)
      PROVE  TypeOK'
  BY <1>4 DEF ManuallyRetryJob, ControlDecision, Command, Actions, JobStates, workerVars
<1>5. CASE CancelJobsForReset
  <2> DEFINE J == {j \in Jobs : Open(j)}
  <2>1. [j \in J |-> "workspace_reset_fence"] \in [J -> Codes] /\ J \in SUBSET Jobs
    BY DEF Codes, CancelCodes
  <2>2. SettleRows(J, [j \in J |-> "workspace_reset_fence"])
    BY <1>5 DEF CancelJobsForReset
  <2>3. /\ state' \in [Jobs -> JobStates]
        /\ owner' \in [Jobs -> Workers \cup {None}]
        /\ lapsed' \in [Jobs -> BOOLEAN]
        /\ UNCHANGED <<attempts, generation, backoff, decisions>>
    BY <2>1, <2>2, SettleRowsType
  <2>4. receipts' \subseteq Receipts
    BY <1>5 DEF CancelJobsForReset, Receipt, Receipts, Codes, CancelCodes
  <2>5. cancel' \in [Jobs -> CancelStates]
    BY <1>5 DEF CancelJobsForReset, CancelStates
  <2>6. QED
    BY <1>5, <2>3, <2>4, <2>5 DEF CancelJobsForReset, Command, workerVars
<1>6. ASSUME NEW j \in Jobs, LeaseLapses(j) \/ BackoffElapses(j)
      PROVE  TypeOK'
  BY <1>6 DEF LeaseLapses, BackoffElapses, ledger, workerVars, budgets
<1>7. ASSUME NEW w \in Workers, Crash(w)
      PROVE  TypeOK'
  BY <1>7 DEF Crash, WorkerDown, columns, ledger, Stages
<1> QED
  BY <1>1, <1>2, <1>3, <1>4, <1>5, <1>6, <1>7 DEF OwnerStep, Environment

\* A transition of the queue, or a step that changes none of its variables, keeps
\* the types.
LEMMA NextTypeOK ==
  ASSUME TypeOK, \A w \in Workers : ExecutionShape(w), [Next]_vars
  PROVE  TypeOK'
<1>1. CASE UNCHANGED vars
  BY <1>1 DEF vars, columns, ledger, workerVars, budgets, TypeOK
<1>2. CASE Next
  BY <1>2, WorkerTypeOK, OtherTypeOK DEF Next
<1> QED
  BY <1>1, <1>2

--------------------------------------------------------------------------------
(* Rows: leases, receipts, prerequisites and attempts *)

\* The part of the invariant that speaks of rows and receipts only.
RowsInv ==
  /\ LeaseShape
  /\ ReceiptSettles
  /\ PrerequisitesMet
  /\ WaitingHasAttempts
  /\ \A j \in Jobs : state[j] = "absent" => attempts[j] = 0

\* Only the success code settles a job as succeeded.
LEMMA VerdictSucceeded ==
  ASSUME NEW c \in Codes, Verdict(c) = "succeeded"
  PROVE  c = "job_succeeded"
BY DEF Codes, Verdict, CancelCodes, ReviewCodes

\* The receipts of a job, said without a set.
LEMMA ReceiptSettlesFlat ==
  ReceiptSettles <=>
    \A j \in Jobs :
      /\ Terminal(j) <=> \E r \in receipts : r.job = j
      /\ \A r \in receipts : r.job = j => Verdict(r.code) = state[j]
      /\ \A r, q \in receipts : r.job = j /\ q.job = j => r = q
BY DEF ReceiptSettles

\* A step that leaves states, attempts, owners and receipts alone, and lets only held
\* leases lapse, keeps RowsInv.
RowsKept ==
  /\ UNCHANGED <<state, attempts, owner, receipts>>
  /\ \A j \in Jobs : lapsed'[j] => lapsed[j] \/ state[j] \in HeldStates

LEMMA KeptRowsInv ==
  ASSUME RowsInv, RowsKept
  PROVE  RowsInv'
BY DEF RowsInv, RowsKept, LeaseShape, ReceiptSettles, Terminal, PrerequisitesMet,
       WaitingHasAttempts

\* A transaction that settles a set of open jobs, each with one receipt, and settles as
\* succeeded only jobs that were held, keeps RowsInv.
RowsSettled(J, verdict) ==
  /\ \A j \in J : Open(j)
  /\ \A j \in J : verdict[j] = "job_succeeded" => state[j] \in HeldStates
  /\ SettleRows(J, verdict)
  /\ receipts' = receipts \cup {Receipt(j, verdict[j]) : j \in J}

LEMMA SettledRowsInv ==
  ASSUME TypeOK, RowsInv, NEW J \in SUBSET Jobs, NEW verdict \in [J -> Codes],
         RowsSettled(J, verdict)
  PROVE  RowsInv'
<1> USE DEF RowsSettled
<1>1. \A j \in J : /\ state'[j] = Verdict(verdict[j])
                   /\ state'[j] \in TerminalStates
                   /\ owner'[j] = None /\ ~lapsed'[j]
  BY VerdictIsTerminal DEF SettleRows
<1>2. \A j \in Jobs \ J : /\ state'[j] = state[j]
                          /\ owner'[j] = owner[j] /\ lapsed'[j] = lapsed[j]
  BY DEF SettleRows
<1>3. attempts' = attempts
  BY DEF SettleRows
<1>4. LeaseShape'
  BY <1>1, <1>2 DEF RowsInv, LeaseShape, HeldStates, TerminalStates, FailureStates
<1>5. ReceiptSettles'
  <2>1. \A j \in J : ~\E r \in receipts : r.job = j
    BY ReceiptSettlesFlat DEF RowsInv, Open
  <2>2. \A j \in J : Receipt(j, verdict[j]).job = j /\ Receipt(j, verdict[j]).code = verdict[j]
    BY DEF Receipt
  <2>3. ASSUME NEW j \in J
        PROVE  \A r \in receipts' : r.job = j => r = Receipt(j, verdict[j])
    BY <2>1, <2>2
  <2>4. ASSUME NEW j \in Jobs \ J
        PROVE  \A r \in receipts' : r.job = j => r \in receipts
    BY <2>2
  <2>5. ASSUME NEW j \in Jobs
        PROVE  /\ Terminal(j)' <=> \E r \in receipts' : r.job = j
               /\ \A r \in receipts' : r.job = j => Verdict(r.code) = state'[j]
               /\ \A r, q \in receipts' : r.job = j /\ q.job = j => r = q
    <3>1. CASE j \in J
      <4>1. Terminal(j)'
        BY <1>1, <3>1 DEF Terminal
      <4>2. Receipt(j, verdict[j]) \in receipts' /\ Receipt(j, verdict[j]).job = j
        BY <2>2, <3>1
      <4>3. QED
        BY <1>1, <2>2, <2>3, <3>1, <4>1, <4>2
    <3>2. CASE j \notin J
      <4>1. receipts \subseteq receipts' /\ state'[j] = state[j]
        BY <1>2, <3>2
      <4>2. QED
        BY <2>4, <3>2, <4>1, ReceiptSettlesFlat DEF RowsInv, Terminal
    <3>3. QED
      BY <3>1, <3>2
  <2>6. QED
    BY <2>5 DEF ReceiptSettles
<1>6. PrerequisitesMet'
  <2>1. ASSUME NEW j \in Jobs, state'[j] \in HeldStates \cup {"succeeded"},
               NEW p \in Prerequisites(j)
        PROVE  state'[p] = "succeeded"
    <3>1. state[j] \in HeldStates \cup {"succeeded"}
      BY <1>1, <1>2, <2>1, VerdictSucceeded DEF HeldStates, TerminalStates, FailureStates
    <3>2. p \in Jobs /\ state[p] = "succeeded"
      BY <3>1, JobsAssumption DEF RowsInv, PrerequisitesMet, Prerequisites
    <3>3. p \notin J
      BY <3>2 DEF Open, Terminal, TerminalStates
    <3>4. QED
      BY <1>2, <3>2, <3>3
  <2>2. QED
    BY <2>1 DEF PrerequisitesMet, Prerequisites
<1>7. /\ WaitingHasAttempts'
      /\ \A j \in Jobs : state'[j] = "absent" => attempts'[j] = 0
  BY <1>1, <1>2, <1>3 DEF RowsInv, WaitingHasAttempts, TerminalStates, FailureStates
<1> QED
  BY <1>4, <1>5, <1>6, <1>7 DEF RowsInv

\* A step that moves the rows of some jobs between the open states, writing no receipt
\* and releasing or taking leases with the state, keeps RowsInv.
RowsMoved(J) ==
  /\ receipts' = receipts
  /\ \A j \in J : Open(j)' /\ ~Terminal(j)
  /\ \A j \in J : owner'[j] # None <=> state'[j] \in HeldStates
  /\ \A j \in J : lapsed'[j] => state'[j] \in HeldStates
  /\ \A j \in J : state'[j] \in HeldStates =>
       \A p \in Prerequisites(j) : state[p] = "succeeded"
  /\ \A j \in J : attempts'[j] <= MaxAttempts
  /\ \A j \in J : state'[j] \in {"queued", "paused"} => attempts'[j] < MaxAttempts
  /\ \A j \in Jobs \ J : /\ state'[j] = state[j] /\ attempts'[j] = attempts[j]
                         /\ owner'[j] = owner[j] /\ lapsed'[j] = lapsed[j]

LEMMA MovedRowsInv ==
  ASSUME TypeOK, RowsInv, NEW J \in SUBSET Jobs, RowsMoved(J)
  PROVE  RowsInv'
<1> USE DEF RowsMoved
<1>1. LeaseShape'
  BY DEF RowsInv, LeaseShape
<1>2. ReceiptSettles'
  <2>1. \A j \in J : ~\E r \in receipts : r.job = j
    BY ReceiptSettlesFlat DEF RowsInv
  <2>2. ASSUME NEW j \in Jobs
        PROVE  /\ Terminal(j)' <=> \E r \in receipts' : r.job = j
               /\ \A r \in receipts' : r.job = j => Verdict(r.code) = state'[j]
               /\ \A r, q \in receipts' : r.job = j /\ q.job = j => r = q
    <3>1. CASE j \in J
      BY <2>1, <3>1 DEF Open
    <3>2. CASE j \notin J
      BY <3>2, ReceiptSettlesFlat DEF RowsInv, Terminal
    <3>3. QED
      BY <3>1, <3>2
  <2>3. QED
    BY <2>2 DEF ReceiptSettles
<1>3. PrerequisitesMet'
  <2>1. ASSUME NEW j \in Jobs, state'[j] \in HeldStates \cup {"succeeded"},
               NEW p \in Prerequisites(j)
        PROVE  state'[p] = "succeeded"
    <3>1. state[p] = "succeeded" /\ p \in Jobs
      BY <2>1, JobsAssumption
      DEF RowsInv, PrerequisitesMet, Prerequisites, Open, Terminal, TerminalStates
    <3>2. p \notin J
      BY <3>1 DEF Terminal, TerminalStates
    <3>3. QED
      BY <3>1, <3>2
  <2>2. QED
    BY <2>1 DEF PrerequisitesMet, Prerequisites
<1>4. WaitingHasAttempts'
  BY DEF RowsInv, WaitingHasAttempts
<1>5. \A j \in Jobs : state'[j] = "absent" => attempts'[j] = 0
  BY DEF RowsInv, Open, Present
<1> QED
  BY <1>1, <1>2, <1>3, <1>4, <1>5 DEF RowsInv

LEMMA InitRowsInv == Init => RowsInv
BY DEF Init, RowsInv, LeaseShape, ReceiptSettles, Terminal, PrerequisitesMet,
       WaitingHasAttempts, TerminalStates, FailureStates, HeldStates

\* Worker steps keep RowsInv. What a worker settles or requeues is running: its stage
\* says so whenever it passes the fence.
LEMMA WorkerRowsInv ==
  ASSUME TypeOK, RowsInv, NEW w \in Workers, ExecutionShape(w), WorkerStep(w)
  PROVE  RowsInv'
<1>a. ASSUME Active(w), Fenced(w), pc[w] # "claimed"
      PROVE  claim[w] \in Jobs /\ state[claim[w]] = "running"
  BY <1>a DEF ExecutionShape
<1>b. HeldStates \cap TerminalStates = {} /\ HeldStates \cap {"absent", "queued", "paused"} = {}
  BY DEF HeldStates, TerminalStates, FailureStates
<1>1. CASE Reconcile(w)
  <2> DEFINE verdict == [j \in Unclaimable |-> ReconcileCode(j)]
  <2>1. Unclaimable \in SUBSET Jobs /\ verdict \in [Unclaimable -> Codes]
    BY ReconcileCodeType DEF Unclaimable
  <2>2. \A j \in Unclaimable : Open(j)
    BY DEF Unclaimable, OutOfReach, Open, Present, Terminal, TerminalStates, FailureStates,
           HeldStates
  <2>3. \A j \in Unclaimable : verdict[j] # "job_succeeded"
    <3>1. \A j \in Jobs : ReconcileCode(j) # "job_succeeded"
      BY DEF ReconcileCode
    <3>2. QED
      BY <2>1, <3>1
  <2>4. receipts' = receipts \cup {Receipt(j, verdict[j]) : j \in Unclaimable}
    <3>1. \A j \in Unclaimable : \A r \in receipts : r.job # j
      BY <2>1, <2>2, ReceiptSettlesFlat DEF RowsInv, Open
    <3>2. {j \in Unclaimable : \A r \in receipts : r.job # j} = Unclaimable
      BY <3>1
    <3>3. receipts' = receipts \cup {Receipt(j, ReconcileCode(j)) :
                        j \in {k \in Unclaimable : \A r \in receipts : r.job # k}}
      BY <1>1 DEF Reconcile
    <3>4. QED
      BY <3>2, <3>3
  <2>5. QED
    BY <1>1, <2>1, <2>2, <2>3, <2>4, SettledRowsInv DEF Reconcile, RowsSettled
<1>2. CASE ReconcileDone(w)
  BY <1>2, KeptRowsInv DEF ReconcileDone, RowsKept, columns, ledger
<1>3. ASSUME NEW j \in Jobs, Claim(w, j)
      PROVE  RowsInv'
  <2> DEFINE J == {j} \cup {k \in Jobs : Stale(k)}
  <2>1. J \in SUBSET Jobs
    OBVIOUS
  <2>2. \A k \in J : ~Terminal(k)
    BY <1>3, <1>b DEF Claim, Claimable, Stale, Terminal, TerminalStates, FailureStates
  <2>3. state'[j] = "leased" /\ owner'[j] = w /\ lapsed'[j] = FALSE
        /\ attempts'[j] = attempts[j] + 1 /\ attempts[j] < MaxAttempts
        /\ \A p \in Prerequisites(j) : state[p] = "succeeded"
    BY <1>3 DEF Claim, Claimable, TypeOK
  <2>4. \A k \in J \ {j} : /\ state'[k] = "queued" /\ owner'[k] = None /\ lapsed'[k] = FALSE
                           /\ attempts'[k] = attempts[k] /\ attempts[k] < MaxAttempts
    BY <1>3 DEF Claim, Stale, Recovered, TypeOK
  <2>5. \A k \in Jobs \ J : /\ state'[k] = state[k] /\ owner'[k] = owner[k]
                            /\ lapsed'[k] = lapsed[k] /\ attempts'[k] = attempts[k]
    BY <1>3 DEF Claim, Recovered, TypeOK
  <2>6. w # None
    BY JobsAssumption
  <2>7. attempts[j] \in Nat /\ MaxAttempts \in Nat /\ \A k \in J : attempts[k] \in Nat
    BY DEF TypeOK
  <2>8. receipts' = receipts
    BY <1>3 DEF Claim, ledger
  <2>9. \A k \in J : Open(k)'
    BY <2>3, <2>4 DEF Open, Present, Terminal, TerminalStates, FailureStates
  <2>10. RowsMoved(J)
    <3> HIDE DEF J
    <3>1. \A k \in J : k = j \/ k \in J \ {j}
      OBVIOUS
    <3>2. "leased" \in HeldStates /\ "queued" \notin HeldStates
      BY DEF HeldStates
    <3>3. QED
      BY <2>2, <2>3, <2>4, <2>5, <2>6, <2>7, <2>8, <2>9, <3>1, <3>2 DEF RowsMoved
  <2>11. QED
    BY <2>1, <2>10, MovedRowsInv
<1>4. CASE ClaimNothing(w)
  <2> DEFINE J == {k \in Jobs : Stale(k)}
  <2>1. \A k \in J : /\ state'[k] = "queued" /\ owner'[k] = None /\ lapsed'[k] = FALSE
                     /\ attempts'[k] = attempts[k] /\ attempts[k] < MaxAttempts
                     /\ ~Terminal(k)
    BY <1>4, <1>b DEF ClaimNothing, Stale, Recovered, TypeOK, Terminal
  <2>2. \A k \in Jobs \ J : /\ state'[k] = state[k] /\ owner'[k] = owner[k]
                            /\ lapsed'[k] = lapsed[k] /\ attempts'[k] = attempts[k]
    BY <1>4 DEF ClaimNothing, Recovered, TypeOK
  <2>3. receipts' = receipts /\ \A k \in J : attempts[k] \in Nat
    BY <1>4 DEF ClaimNothing, ledger, TypeOK
  <2>4. RowsMoved(J)
    BY <2>1, <2>2, <2>3, <1>b
    DEF RowsMoved, Open, Present, Terminal, TerminalStates, FailureStates, HeldStates
  <2>5. QED
    BY <2>4, MovedRowsInv
<1>5. CASE MarkRunning(w)
  <2>1. CASE UNCHANGED state
    BY <1>5, <2>1, KeptRowsInv DEF MarkRunning, RowsKept, ledger
  <2>2. CASE ~UNCHANGED state
    <3> DEFINE j == claim[w]
    <3>1. /\ state[j] = "leased" /\ state' = [state EXCEPT ![j] = "running"]
          /\ UNCHANGED <<attempts, owner, lapsed, receipts>>
      BY <1>5, <2>2 DEF MarkRunning, ledger
    <3>2. j \in Jobs
      BY <1>5 DEF MarkRunning, ExecutionShape, Active
    <3>3. RowsMoved({j})
      BY <3>1, <3>2 DEF RowsMoved, RowsInv, LeaseShape, PrerequisitesMet, WaitingHasAttempts,
        TypeOK, Open, Present, Terminal, TerminalStates, FailureStates, HeldStates
    <3>4. QED
      BY <3>2, <3>3, MovedRowsInv
  <2>3. QED
    BY <2>1, <2>2
<1>6. CASE CheckBeforeEffect(w)
  BY <1>6, KeptRowsInv
  DEF CheckBeforeEffect, SettleWith, GoOn, RowsKept, columns, ledger
<1>7. CASE OpenSource(w)
  BY <1>7, KeptRowsInv DEF OpenSource, SettleWith, GoOn, RowsKept, columns, ledger
<1>8. CASE Checkpoint(w)
  BY <1>8, KeptRowsInv DEF Checkpoint, SettleWith, GoOn, RowsKept, columns, ledger
<1>9. CASE RecordPage(w)
  BY <1>9, KeptRowsInv DEF RecordPage, RowsKept, columns, ledger
<1>10. CASE ExtractionFails(w)
  BY <1>10, KeptRowsInv DEF ExtractionFails, SettleWith, RowsKept, columns, ledger
<1>11. CASE Heartbeat(w)
  <2>1. CASE SettleWith(w, "worker_io_unavailable")
    BY <2>1, KeptRowsInv DEF SettleWith, RowsKept, columns, ledger
  <2>2. CASE ~SettleWith(w, "worker_io_unavailable")
    <3>1. /\ lapsed' = [lapsed EXCEPT ![claim[w]] = FALSE]
          /\ UNCHANGED <<state, attempts, owner, receipts>>
      BY <1>11, <2>2 DEF Heartbeat, ledger
    <3>2. QED
      BY <3>1, KeptRowsInv DEF RowsKept, TypeOK
  <2>3. QED
    BY <2>1, <2>2
<1>12. CASE RetryJob(w)
  <2> DEFINE j == claim[w]
  <2>1. CASE UNCHANGED <<state, attempts, owner, lapsed, receipts>>
    BY <2>1, KeptRowsInv DEF RowsKept
  <2>2. CASE ~UNCHANGED <<state, attempts, owner, lapsed, receipts>>
    <3>1. /\ Fenced(w) /\ attempts[j] < MaxAttempts
          /\ state' = [state EXCEPT ![j] = "queued"]
          /\ owner' = [owner EXCEPT ![j] = None]
          /\ lapsed' = [lapsed EXCEPT ![j] = FALSE]
          /\ UNCHANGED <<attempts, receipts>>
      BY <1>12, <2>2 DEF RetryJob, SettleWith, columns, ledger
    <3>2. j \in Jobs /\ state[j] = "running"
      BY <1>12, <1>a, <3>1 DEF RetryJob, Active
    <3>3. RowsMoved({j})
      BY <3>1, <3>2 DEF RowsMoved, RowsInv, WaitingHasAttempts, TypeOK, Open, Present, Terminal,
        TerminalStates, FailureStates, HeldStates
    <3>4. QED
      BY <3>2, <3>3, MovedRowsInv
  <2>3. QED
    BY <2>1, <2>2
<1>13. CASE FinishJob(w)
  <2> DEFINE j == claim[w]
             verdict == [k \in {j} |-> code[w]]
  <2>1. CASE UNCHANGED <<columns, ledger>>
    BY <2>1, KeptRowsInv DEF RowsKept, columns, ledger
  <2>2. CASE ~UNCHANGED <<columns, ledger>>
    <3>1. /\ ~Terminal(j) /\ Fenced(w)
          /\ SettleRows({j}, verdict)
          /\ receipts' = receipts \cup {Receipt(j, code[w])}
      BY <1>13, <2>2 DEF FinishJob
    <3>2. j \in Jobs /\ state[j] = "running" /\ code[w] \in Codes
      BY <1>13, <1>a, <3>1 DEF FinishJob, Active, ExecutionShape
    <3>3. {Receipt(k, verdict[k]) : k \in {j}} = {Receipt(j, code[w])}
      OBVIOUS
    <3>4. RowsSettled({j}, verdict)
      <4>1. Open(j)
        BY <3>1, <3>2 DEF Open, Present
      <4>2. state[j] \in HeldStates
        BY <3>2 DEF HeldStates
      <4>3. QED
        BY <3>1, <3>3, <4>1, <4>2 DEF RowsSettled
    <3>5. verdict \in [{j} -> Codes] /\ {j} \in SUBSET Jobs
      BY <3>2
    <3>6. QED
      BY <3>4, <3>5, SettledRowsInv
  <2>3. QED
    BY <2>1, <2>2
<1> QED
  BY <1>1, <1>2, <1>3, <1>4, <1>5, <1>6, <1>7, <1>8, <1>9, <1>10, <1>11, <1>12, <1>13
  DEF WorkerStep

\* So do restarts, owner commands, the reset fence, time and crashes.
LEMMA OtherRowsInv ==
  ASSUME TypeOK, RowsInv, \/ \E w \in Workers : Restart(w)
                          \/ OwnerStep
                          \/ Environment
  PROVE  RowsInv'
<1>1. ASSUME NEW w \in Workers, Restart(w) \/ Crash(w)
      PROVE  RowsInv'
  BY <1>1, KeptRowsInv DEF Restart, Crash, RowsKept, columns, ledger
<1>2. ASSUME NEW j \in Jobs, RequestCancellation(j)
      PROVE  RowsInv'
  <2> DEFINE verdict == [k \in {j} |-> "job_cancelled_before_effect"]
  <2>1. CASE state[j] \in HeldStates
    BY <1>2, <2>1, KeptRowsInv DEF RequestCancellation, RowsKept, HeldStates, ledger
  <2>2. CASE state[j] \in {"queued", "paused"}
    <3>1. /\ SettleRows({j}, verdict)
          /\ receipts' = receipts \cup {Receipt(j, "job_cancelled_before_effect")}
      BY <1>2, <2>2 DEF RequestCancellation, HeldStates
    <3>2. {Receipt(k, verdict[k]) : k \in {j}} = {Receipt(j, "job_cancelled_before_effect")}
      OBVIOUS
    <3>3. verdict \in [{j} -> Codes]
      BY DEF Codes, CancelCodes
    <3>4. Open(j)
      BY <2>2 DEF Open, Present, Terminal, TerminalStates, FailureStates
    <3>5. RowsSettled({j}, verdict)
      BY <3>1, <3>2, <3>4 DEF RowsSettled
    <3>6. QED
      BY <3>3, <3>5, SettledRowsInv
  <2>3. QED
    BY <1>2, <2>1, <2>2 DEF RequestCancellation
<1>3. ASSUME NEW j \in Jobs, PauseJob(j) \/ ResumeJob(j)
      PROVE  RowsInv'
  <2>1. /\ state[j] \in {"queued", "paused"}
        /\ \E target \in {"queued", "paused"} : state' = [state EXCEPT ![j] = target]
        /\ UNCHANGED <<attempts, owner, lapsed, receipts>>
    BY <1>3 DEF PauseJob, ResumeJob, ChangeControlState
  <2>2. RowsMoved({j})
    BY <2>1 DEF RowsMoved, RowsInv, LeaseShape, WaitingHasAttempts, TypeOK, Open, Present,
      Terminal, TerminalStates, FailureStates, HeldStates
  <2>3. QED
    BY <2>2, MovedRowsInv
<1>4. ASSUME NEW j \in Jobs, NEW d \in Jobs, ManuallyRetryJob(j, d)
      PROVE  RowsInv'
  <2>1. /\ state[d] = "absent" /\ state' = [state EXCEPT ![d] = "queued"]
        /\ UNCHANGED <<attempts, owner, lapsed, receipts>>
    BY <1>4 DEF ManuallyRetryJob
  <2>2. RowsMoved({d})
    BY <2>1 DEF RowsMoved, RowsInv, LeaseShape, TypeOK, Open, Present,
      Terminal, TerminalStates, FailureStates, HeldStates
  <2>3. QED
    BY <2>2, MovedRowsInv
<1>5. CASE CancelJobsForReset
  <2> DEFINE J == {j \in Jobs : Open(j)}
             verdict == [j \in J |-> "workspace_reset_fence"]
  <2>1. J \in SUBSET Jobs /\ verdict \in [J -> Codes]
    BY DEF Codes, CancelCodes
  <2>2. /\ SettleRows(J, verdict)
        /\ receipts' = receipts \cup {Receipt(j, "workspace_reset_fence") : j \in J}
    BY <1>5 DEF CancelJobsForReset
  <2>3. \A j \in J : Open(j)
    OBVIOUS
  <2>4. \A j \in J : verdict[j] = "workspace_reset_fence"
    OBVIOUS
  <2>5. RowsSettled(J, verdict)
    <3> HIDE DEF J
    <3>1. {Receipt(j, verdict[j]) : j \in J} = {Receipt(j, "workspace_reset_fence") : j \in J}
      OBVIOUS
    <3>2. QED
      BY <2>2, <2>3, <3>1 DEF RowsSettled
  <2>6. QED
    BY <2>1, <2>5, SettledRowsInv
<1>6. ASSUME NEW j \in Jobs, LeaseLapses(j) \/ BackoffElapses(j)
      PROVE  RowsInv'
  <2>1. RowsKept
    BY <1>6 DEF LeaseLapses, BackoffElapses, RowsKept, ledger, TypeOK
  <2>2. QED
    BY <2>1, KeptRowsInv
<1> QED
  BY <1>1, <1>2, <1>3, <1>4, <1>5, <1>6 DEF OwnerStep, Environment

--------------------------------------------------------------------------------
(* Executions: what a step may do to the rows another worker relies on *)

\* Generations and pages only grow, a lease of the same generation is not handed over,
\* and while it lasts a running job keeps running.
RowsAdvance ==
  \A j \in Jobs :
    /\ generation'[j] >= generation[j]
    /\ pages[j] \subseteq pages'[j]
    /\ generation'[j] = generation[j] /\ owner'[j] # None =>
         /\ owner'[j] = owner[j]
         /\ state[j] = "running" => state'[j] = "running"

\* A worker the step does not touch keeps its shape.
LEMMA UntouchedShape ==
  ASSUME TypeOK, TypeOK', RowsAdvance, NEW v \in Workers, ExecutionShape(v),
         UNCHANGED <<pc[v], claim[v], token[v], page[v], code[v]>>
  PROVE  ExecutionShape(v)'
<1>1. Active(v)' <=> Active(v)
  BY DEF Active
<1>2. CASE ~Active(v)
  BY <1>1, <1>2 DEF ExecutionShape, Active
<1>3. CASE Active(v)
  <2> DEFINE j == claim[v]
  <2>1. j \in Jobs /\ token[v] \in 1 .. generation[j]
    BY <1>3 DEF ExecutionShape
  <2>2. token'[v] \in 1 .. generation'[j]
    BY <2>1 DEF RowsAdvance, TypeOK
  <2>3. pages[j] \subseteq pages'[j]
    BY <2>1 DEF RowsAdvance
  <2>4. ASSUME pc[v] # "claimed", Fenced(v)'
        PROVE  state'[j] = "running"
    <3>1. owner'[j] = v /\ generation'[j] = token[v]
      BY <2>4 DEF Fenced
    <3>2. generation'[j] = generation[j] /\ v # None
      <4>1. generation[j] \in Nat /\ generation'[j] \in Nat /\ token[v] \in Nat
        BY <2>1 DEF TypeOK
      <4>2. generation'[j] >= generation[j]
        BY <2>1 DEF RowsAdvance
      <4>3. token[v] <= generation[j]
        BY <2>1, <4>1
      <4>4. QED
        BY <3>1, <4>1, <4>2, <4>3, JobsAssumption
    <3>3. owner[j] = v /\ (state[j] = "running" => state'[j] = "running")
      BY <2>1, <3>1, <3>2 DEF RowsAdvance
    <3>4. Fenced(v)
      BY <3>1, <3>2, <3>3 DEF Fenced
    <3>5. QED
      BY <1>3, <2>4, <3>3, <3>4 DEF ExecutionShape
  <2>5. QED
    BY <1>1, <2>1, <2>2, <2>3, <2>4 DEF ExecutionShape
<1> QED
  BY <1>2, <1>3

\* Settling rows, whatever the set, only ends leases.
LEMMA SettleAdvances ==
  ASSUME TypeOK, NEW J \in SUBSET Jobs, NEW verdict, SettleRows(J, verdict), UNCHANGED pages
  PROVE  RowsAdvance
BY DEF RowsAdvance, SettleRows, TypeOK

\* A worker step advances the rows and touches no other worker.
LEMMA WorkerStepFrame ==
  ASSUME TypeOK, NEW w \in Workers, ExecutionShape(w), WorkerStep(w)
  PROVE  /\ RowsAdvance
         /\ \A v \in Workers \ {w} : UNCHANGED <<pc[v], claim[v], token[v], page[v], code[v]>>
<1> DEFINE Frame == \A v \in Workers \ {w} :
                      UNCHANGED <<pc[v], claim[v], token[v], page[v], code[v]>>
<1>a. Active(w) => claim[w] \in Jobs
  BY DEF ExecutionShape
<1>b. ASSUME UNCHANGED <<state, generation, owner, pages>>
      PROVE  RowsAdvance
  BY <1>b DEF RowsAdvance, TypeOK
<1>c. ASSUME WorkerDown(w) \/ RunOnceReturns(w)
      PROVE  Frame
  BY <1>c DEF WorkerDown, RunOnceReturns, TypeOK
<1>d. ASSUME NEW c, SettleWith(w, c)
      PROVE  Frame /\ RowsAdvance
  BY <1>d, <1>b DEF SettleWith, columns, TypeOK
<1>e. ASSUME NEW next, GoOn(w, next)
      PROVE  Frame /\ RowsAdvance
  BY <1>e, <1>b DEF GoOn, columns, TypeOK
<1> SUFFICES Frame /\ RowsAdvance
  OBVIOUS
<1> HIDE DEF Frame
<1>1. CASE Reconcile(w)
  <2>1. Frame /\ UNCHANGED pages
    BY <1>1 DEF Reconcile, workerVars, Frame
  <2>2. Unclaimable \in SUBSET Jobs
    BY DEF Unclaimable
  <2>3. QED
    BY <1>1, <2>1, <2>2, SettleAdvances DEF Reconcile, Frame
<1>2. CASE ReconcileDone(w)
  BY <1>2, <1>b DEF ReconcileDone, columns, Frame, TypeOK
<1>3. ASSUME NEW j \in Jobs, Claim(w, j)
      PROVE  Frame /\ RowsAdvance
  <2>1. Frame
    BY <1>3 DEF Claim, Frame, TypeOK
  <2>2. pages' = pages /\ \A k \in Jobs : generation[k] \in Nat
    BY <1>3 DEF Claim, TypeOK
  <2>3. generation'[j] = generation[j] + 1
    BY <1>3 DEF Claim, NextGeneration, TypeOK
  <2>4. ASSUME NEW k \in Jobs \ {j}
        PROVE  /\ generation'[k] = generation[k]
               /\ owner'[k] # None => owner'[k] = owner[k] /\ state'[k] = state[k]
    BY <1>3, <2>4 DEF Claim, Recovered, TypeOK
  <2>5. QED
    BY <2>1, <2>2, <2>3, <2>4 DEF RowsAdvance
<1>4. CASE ClaimNothing(w)
  <2>1. Frame
    BY <1>4 DEF ClaimNothing, Frame, TypeOK
  <2>2. pages' = pages /\ generation' = generation /\ \A k \in Jobs : generation[k] \in Nat
    BY <1>4 DEF ClaimNothing, TypeOK
  <2>3. ASSUME NEW k \in Jobs
        PROVE  owner'[k] # None => owner'[k] = owner[k] /\ state'[k] = state[k]
    BY <1>4, <2>3 DEF ClaimNothing, Recovered, TypeOK
  <2>4. QED
    BY <2>1, <2>2, <2>3 DEF RowsAdvance
<1>5. CASE MarkRunning(w)
  <2>1. Frame
    BY <1>5, <1>c DEF MarkRunning, Frame, TypeOK
  <2>2. RowsAdvance
    BY <1>5 DEF MarkRunning, RowsAdvance, TypeOK
  <2>3. QED
    BY <2>1, <2>2
<1>6. CASE CheckBeforeEffect(w)
  BY <1>6, <1>b, <1>c, <1>d, <1>e DEF CheckBeforeEffect, columns
<1>7. CASE OpenSource(w)
  BY <1>7, <1>d, <1>e DEF OpenSource
<1>8. CASE Checkpoint(w)
  BY <1>8, <1>d, <1>e DEF Checkpoint
<1>9. CASE RecordPage(w)
  BY <1>9 DEF RecordPage, columns, Frame, TypeOK, RowsAdvance
<1>10. CASE ExtractionFails(w)
  BY <1>10, <1>d DEF ExtractionFails
<1>11. CASE Heartbeat(w)
  <2>1. CASE SettleWith(w, "worker_io_unavailable")
    BY <2>1, <1>d
  <2>2. CASE ~SettleWith(w, "worker_io_unavailable")
    <3>1. /\ page' = [page EXCEPT ![w] = page[w] + 1]
          /\ pc' = [pc EXCEPT ![w] = "checkpoint"]
          /\ UNCHANGED <<state, generation, owner, pages, claim, token, code>>
      BY <1>11, <2>2 DEF Heartbeat
    <3>2. QED
      BY <3>1, <1>b DEF Frame, TypeOK
  <2>3. QED
    BY <2>1, <2>2
<1>12. CASE RetryJob(w)
  <2>1. CASE SettleWith(w, "retry_exhausted")
    BY <2>1, <1>d
  <2>2. CASE ~SettleWith(w, "retry_exhausted")
    <3>1. Frame
      BY <1>12, <2>2, <1>c DEF RetryJob
    <3>2. CASE UNCHANGED <<columns, ledger, pages, budgets>>
      BY <3>1, <3>2, <1>b DEF columns
    <3>3. CASE ~UNCHANGED <<columns, ledger, pages, budgets>>
      <4>1. /\ state' = [state EXCEPT ![claim[w]] = "queued"]
            /\ owner' = [owner EXCEPT ![claim[w]] = None]
            /\ UNCHANGED <<generation, pages>>
        BY <1>12, <2>2, <3>3 DEF RetryJob
      <4>2. QED
        BY <3>1, <4>1 DEF RowsAdvance, TypeOK
    <3>4. QED
      BY <3>2, <3>3
  <2>3. QED
    BY <2>1, <2>2
<1>13. CASE FinishJob(w)
  <2>1. Frame /\ UNCHANGED pages
    BY <1>13, <1>c DEF FinishJob
  <2>2. CASE UNCHANGED <<columns, ledger>>
    BY <2>1, <2>2, <1>b DEF columns
  <2>3. CASE ~UNCHANGED <<columns, ledger>>
    <3>1. {claim[w]} \in SUBSET Jobs
      BY <1>13, <1>a DEF FinishJob, Active
    <3>2. \E verdict : SettleRows({claim[w]}, verdict)
      BY <1>13, <2>3 DEF FinishJob
    <3>3. QED
      BY <2>1, <3>1, <3>2, SettleAdvances
  <2>4. QED
    BY <2>2, <2>3
<1> QED
  BY <1>1, <1>2, <1>3, <1>4, <1>5, <1>6, <1>7, <1>8, <1>9, <1>10, <1>11, <1>12, <1>13
  DEF WorkerStep, Frame

\* The other steps advance the rows too, and touch at most the worker that crashes or
\* restarts.
LEMMA OtherStepFrame ==
  ASSUME TypeOK, \/ \E w \in Workers : Restart(w)
                 \/ OwnerStep
                 \/ Environment
  PROVE  /\ RowsAdvance
         /\ \A v \in Workers :
              \/ UNCHANGED <<pc[v], claim[v], token[v], page[v], code[v]>>
              \/ Restart(v)
              \/ Crash(v)
<1> DEFINE Frame == \A v \in Workers : \/ UNCHANGED <<pc[v], claim[v], token[v], page[v], code[v]>>
                                       \/ Restart(v)
                                       \/ Crash(v)
<1>b. ASSUME UNCHANGED <<state, generation, owner, pages>>
      PROVE  RowsAdvance
  BY <1>b DEF RowsAdvance, TypeOK
<1>c. ASSUME UNCHANGED workerVars
      PROVE  Frame
  BY <1>c DEF workerVars
<1>1. ASSUME NEW w \in Workers, Restart(w) \/ Crash(w)
      PROVE  Frame /\ RowsAdvance
  <2>1. RowsAdvance
    BY <1>1, <1>b DEF Restart, Crash, columns
  <2>2. Frame
    BY <1>1 DEF Restart, Crash, WorkerDown, TypeOK
  <2>3. QED
    BY <2>1, <2>2
<1> SUFFICES Frame /\ RowsAdvance
  OBVIOUS
<1> HIDE DEF Frame
<1>2. ASSUME NEW j \in Jobs, RequestCancellation(j)
      PROVE  Frame /\ RowsAdvance
  <2>1. Frame /\ UNCHANGED pages
    BY <1>2, <1>c DEF RequestCancellation, Command
  <2>2. CASE state[j] \in HeldStates
    BY <1>2, <1>b, <2>1, <2>2 DEF RequestCancellation, HeldStates
  <2>3. CASE state[j] \notin HeldStates
    BY <1>2, <2>1, <2>3, SettleAdvances DEF RequestCancellation
  <2>4. QED
    BY <2>2, <2>3
<1>3. ASSUME NEW j \in Jobs, PauseJob(j) \/ ResumeJob(j)
      PROVE  Frame /\ RowsAdvance
  <2>1. Frame /\ UNCHANGED <<pages, generation, owner>>
    BY <1>3, <1>c DEF PauseJob, ResumeJob, ChangeControlState, Command
  <2>2. \A k \in Jobs : state[k] = "running" => state'[k] = "running"
    BY <1>3 DEF PauseJob, ResumeJob, ChangeControlState, TypeOK
  <2>3. QED
    BY <2>1, <2>2 DEF RowsAdvance, TypeOK
<1>4. ASSUME NEW j \in Jobs, NEW d \in Jobs, ManuallyRetryJob(j, d)
      PROVE  Frame /\ RowsAdvance
  <2>1. Frame /\ UNCHANGED <<pages, generation, owner>>
    BY <1>4, <1>c DEF ManuallyRetryJob, Command
  <2>2. \A k \in Jobs : state[k] = "running" => state'[k] = "running"
    BY <1>4 DEF ManuallyRetryJob, TypeOK
  <2>3. QED
    BY <2>1, <2>2 DEF RowsAdvance, TypeOK
<1>5. CASE CancelJobsForReset
  <2>1. Frame /\ UNCHANGED pages
    BY <1>5, <1>c DEF CancelJobsForReset, Command
  <2>2. {j \in Jobs : Open(j)} \in SUBSET Jobs
    OBVIOUS
  <2>3. \E verdict : SettleRows({j \in Jobs : Open(j)}, verdict)
    BY <1>5 DEF CancelJobsForReset
  <2>4. QED
    BY <2>1, <2>2, <2>3, SettleAdvances
<1>6. ASSUME NEW j \in Jobs, LeaseLapses(j) \/ BackoffElapses(j)
      PROVE  Frame /\ RowsAdvance
  BY <1>6, <1>b, <1>c DEF LeaseLapses, BackoffElapses
<1> QED
  BY <1>1, <1>2, <1>3, <1>4, <1>5, <1>6 DEF OwnerStep, Environment, Frame

\* A worker that is not executing and stands at the first page has its shape.
LEMMA InactiveShape ==
  ASSUME NEW w \in Workers, pc[w] \in {"idle", "claiming", "down"}, page[w] = 1
  PROVE  ExecutionShape(w)
BY DEF ExecutionShape, Active

\* The worker that steps keeps its shape.
LEMMA ActorShape ==
  ASSUME TypeOK, TypeOK', RowsInv, NEW w \in Workers, ExecutionShape(w), WorkerStep(w)
  PROVE  ExecutionShape(w)'
<1> DEFINE j == claim[w]
<1>a. Active(w) => j \in Jobs /\ token[w] \in 1 .. generation[j]
  BY DEF ExecutionShape
<1>b. ASSUME WorkerDown(w) \/ RunOnceReturns(w)
      PROVE  ExecutionShape(w)'
  <2>1. pc'[w] \in {"idle", "claiming", "down"} /\ page'[w] = 1
    BY <1>b DEF WorkerDown, RunOnceReturns, TypeOK
  <2>2. QED
    BY <2>1 DEF ExecutionShape, Active
<1>c. ASSUME NEW c \in Codes, SettleWith(w, c), Active(w), pc[w] # "claimed",
             c = "job_succeeded" => 1 .. Pages \subseteq pages[j]
      PROVE  ExecutionShape(w)'
  <2>1. /\ pc'[w] = "settling" /\ code'[w] = c /\ claim'[w] = j /\ token'[w] = token[w]
        /\ UNCHANGED <<generation, owner, state, pages>>
    BY <1>c DEF SettleWith, columns, TypeOK
  <2>2. Fenced(w)' => state'[j] = "running"
    BY <1>c, <2>1 DEF Fenced, ExecutionShape
  <2>3. QED
    BY <1>a, <1>c, <2>1, <2>2 DEF ExecutionShape, Active
<1>d. ASSUME NEW next, GoOn(w, next), Active(w), pc[w] # "claimed",
             \/ next = "opening" /\ pc[w] = "marked"
             \/ next \in {"retrying", "checkpoint"} /\ pc[w] = "opening"
             \/ next = "extracting" /\ pc[w] = "checkpoint" /\ page[w] <= Pages
      PROVE  ExecutionShape(w)'
  <2>1. /\ pc'[w] = next /\ claim'[w] = j /\ token'[w] = token[w] /\ page'[w] = page[w]
        /\ UNCHANGED <<generation, owner, state, pages>>
    BY <1>d DEF GoOn, columns, TypeOK
  <2>2. Fenced(w)' => state'[j] = "running"
    BY <1>d, <2>1 DEF Fenced, ExecutionShape
  <2>3. pc[w] = "opening" => page[w] = 1
    BY DEF ExecutionShape
  <2>4. 1 .. 1 - 1 = {} /\ 1 <= Pages
    OBVIOUS
  <2>5. CASE next = "extracting"
    <3>1. 1 .. page[w] - 1 \subseteq pages[j] /\ page[w] <= Pages
      BY <1>d, <2>5 DEF ExecutionShape
    <3>2. QED
      BY <1>a, <1>d, <2>1, <2>2, <2>5, <3>1 DEF ExecutionShape, Active
  <2>6. CASE next = "opening"
    <3>1. page[w] = 1
      BY <1>d, <2>6 DEF ExecutionShape
    <3>2. QED
      BY <1>a, <1>d, <2>1, <2>2, <2>6, <3>1 DEF ExecutionShape, Active
  <2>7. CASE next \in {"retrying", "checkpoint"}
    <3>1. page[w] = 1 /\ 1 .. page[w] - 1 \subseteq pages[j]
      BY <1>d, <2>3, <2>4, <2>7
    <3>2. QED
      BY <1>a, <1>d, <2>1, <2>2, <2>7, <3>1 DEF ExecutionShape, Active
  <2>8. QED
    BY <1>d, <2>5, <2>6, <2>7
<1>1. CASE Reconcile(w)
  <2>1. UNCHANGED workerVars /\ pc[w] = "idle"
    BY <1>1 DEF Reconcile
  <2>2. page[w] = 1
    BY <2>1 DEF ExecutionShape
  <2>3. QED
    BY <2>1, <2>2 DEF workerVars, ExecutionShape, Active
<1>2. CASE ReconcileDone(w)
  BY <1>2 DEF ReconcileDone, TypeOK, ExecutionShape, Active
<1>3. ASSUME NEW k \in Jobs, Claim(w, k)
      PROVE  ExecutionShape(w)'
  <2>1. /\ pc'[w] = "claimed" /\ claim'[w] = k /\ token'[w] = generation[k] + 1
        /\ generation'[k] = generation[k] + 1 /\ page'[w] = page[w] /\ page[w] = 1
    BY <1>3 DEF Claim, NextGeneration, TypeOK, ExecutionShape
  <2>2. token'[w] \in 1 .. generation'[k]
    BY <2>1 DEF TypeOK
  <2>3. QED
    BY <2>1, <2>2 DEF ExecutionShape, Active
<1>4. CASE ClaimNothing(w)
  BY <1>4 DEF ClaimNothing, TypeOK, ExecutionShape, Active
<1>5. CASE MarkRunning(w)
  <2>1. CASE WorkerDown(w)
    BY <2>1, <1>b
  <2>2. CASE ~WorkerDown(w)
    <3>1. /\ state[j] = "leased" /\ state' = [state EXCEPT ![j] = "running"]
          /\ pc' = [pc EXCEPT ![w] = "marked"]
          /\ UNCHANGED <<claim, token, page, generation>>
      BY <1>5, <2>2 DEF MarkRunning
    <3>2. pc'[w] = "marked" /\ page[w] = 1 /\ Active(w)
      BY <1>5, <3>1 DEF MarkRunning, TypeOK, ExecutionShape, Active
    <3>3. state'[j] = "running"
      BY <1>a, <3>1, <3>2 DEF TypeOK
    <3>4. QED
      BY <1>a, <3>1, <3>2, <3>3 DEF ExecutionShape, Active
  <2>3. QED
    BY <2>1, <2>2
<1>6. CASE CheckBeforeEffect(w)
  <2>1. pc[w] = "marked" /\ Active(w)
    BY <1>6 DEF CheckBeforeEffect, Active
  <2>2. "job_cancelled_before_effect" \in Codes
    BY DEF Codes, CancelCodes
  <2>3. \/ SettleWith(w, "job_cancelled_before_effect")
        \/ GoOn(w, "opening")
        \/ WorkerDown(w)
    BY <1>6 DEF CheckBeforeEffect
  <2>4. QED
    BY <2>1, <2>2, <2>3, <1>b, <1>c, <1>d
<1>7. CASE OpenSource(w)
  <2>1. pc[w] = "opening" /\ Active(w)
    BY <1>7 DEF OpenSource, Active
  <2>2. {"deterministic_failure", "worker_io_unavailable"} \subseteq Codes
    BY DEF Codes, ReviewCodes
  <2>3. \/ \E next \in {"retrying", "checkpoint"} : GoOn(w, next)
        \/ \E c \in {"deterministic_failure", "worker_io_unavailable"} : SettleWith(w, c)
    BY <1>7 DEF OpenSource
  <2>4. CASE \E next \in {"retrying", "checkpoint"} : GoOn(w, next)
    BY <2>1, <2>4, <1>d
  <2>5. CASE \E c \in {"deterministic_failure", "worker_io_unavailable"} : SettleWith(w, c)
    BY <2>1, <2>2, <2>5, <1>c
  <2>6. QED
    BY <2>3, <2>4, <2>5
<1>8. CASE Checkpoint(w)
  <2>1. pc[w] = "checkpoint" /\ Active(w) /\ page[w] \in 1 .. Pages + 1
    BY <1>8 DEF Checkpoint, Active, TypeOK
  <2>2. {"job_succeeded", "worker_io_unavailable", "job_cancelled_at_safe_checkpoint"}
          \subseteq Codes
    BY DEF Codes, CancelCodes, ReviewCodes
  <2>3. CASE AllPagesDone(w) /\ SettleWith(w, "job_succeeded")
    <3>1. 1 .. page[w] - 1 \subseteq pages[j]
      BY <2>1 DEF ExecutionShape
    <3>2. 1 .. Pages \subseteq pages[j]
      BY <2>1, <2>3, <3>1 DEF AllPagesDone
    <3>3. QED
      BY <2>1, <2>2, <2>3, <3>2, <1>c
  <2>4. CASE \E c \in {"worker_io_unavailable", "job_cancelled_at_safe_checkpoint"} :
               SettleWith(w, c)
    BY <2>1, <2>2, <2>4, <1>c
  <2>5. CASE ~AllPagesDone(w) /\ GoOn(w, "extracting")
    <3>1. page[w] <= Pages
      BY <2>1, <2>5 DEF AllPagesDone
    <3>2. QED
      BY <2>1, <2>5, <3>1, <1>d
  <2>6. QED
    BY <1>8, <2>3, <2>4, <2>5 DEF Checkpoint
<1>9. CASE RecordPage(w)
  <2>1. pc[w] = "extracting" /\ Active(w) /\ page[w] \in 1 .. Pages
        /\ 1 .. page[w] - 1 \subseteq pages[j]
    BY <1>9 DEF RecordPage, Active, ExecutionShape, TypeOK
  <2>2. pages'[j] = pages[j] \cup {page[w]}
    BY <1>9, <1>a, <2>1 DEF RecordPage, TypeOK
  <2>3. 1 .. page[w] \subseteq pages'[j]
    BY <2>1, <2>2
  <2>4. /\ pc'[w] = "heartbeat"
        /\ UNCHANGED <<state, owner, generation, claim, token, page>>
    BY <1>9 DEF RecordPage, columns, TypeOK
  <2>5. Fenced(w)' => state'[j] = "running"
    BY <2>1, <2>4 DEF Fenced, ExecutionShape
  <2>6. QED
    BY <1>a, <2>1, <2>3, <2>4, <2>5 DEF ExecutionShape, Active
<1>10. CASE ExtractionFails(w)
  <2>1. pc[w] = "extracting" /\ Active(w)
    BY <1>10 DEF ExtractionFails, Active
  <2>2. {"deterministic_failure", "worker_io_unavailable"} \subseteq Codes
    BY DEF Codes, ReviewCodes
  <2>3. QED
    BY <1>10, <2>1, <2>2, <1>c DEF ExtractionFails
<1>11. CASE Heartbeat(w)
  <2>1. pc[w] = "heartbeat" /\ Active(w) /\ page[w] \in 1 .. Pages
        /\ 1 .. page[w] \subseteq pages[j]
    BY <1>11 DEF Heartbeat, Active, ExecutionShape, TypeOK
  <2>2. CASE SettleWith(w, "worker_io_unavailable")
    BY <2>1, <2>2, <1>c DEF Codes, ReviewCodes
  <2>3. CASE ~SettleWith(w, "worker_io_unavailable")
    <3>1. /\ page' = [page EXCEPT ![w] = page[w] + 1]
          /\ pc' = [pc EXCEPT ![w] = "checkpoint"]
          /\ UNCHANGED <<state, generation, owner, pages, claim, token, code>>
      BY <1>11, <2>3 DEF Heartbeat
    <3>2. page'[w] = page[w] + 1 /\ pc'[w] = "checkpoint"
      BY <3>1 DEF TypeOK
    <3>3. 1 .. page'[w] - 1 \subseteq pages[j]
      BY <2>1, <3>2
    <3>4. Fenced(w)' => state'[j] = "running"
      BY <2>1, <3>1 DEF Fenced, ExecutionShape
    <3>5. QED
      BY <1>a, <2>1, <3>1, <3>2, <3>3, <3>4 DEF ExecutionShape, Active
  <2>4. QED
    BY <2>2, <2>3
<1>12. CASE RetryJob(w)
  <2>1. pc[w] = "retrying" /\ Active(w)
    BY <1>12 DEF RetryJob, Active
  <2>2. CASE SettleWith(w, "retry_exhausted")
    BY <2>1, <2>2, <1>c DEF Codes, ReviewCodes
  <2>3. QED
    BY <1>12, <2>2, <1>b DEF RetryJob
<1>13. CASE FinishJob(w)
  BY <1>13, <1>b DEF FinishJob
<1> QED
  BY <1>1, <1>2, <1>3, <1>4, <1>5, <1>6, <1>7, <1>8, <1>9, <1>10, <1>11, <1>12, <1>13
  DEF WorkerStep

--------------------------------------------------------------------------------
(* The inductive invariant *)

\* Only a worker that claims becomes active, with a generation no other holds.
LEMMA FencingStep ==
  ASSUME TypeOK, TypeOK', ExecutionsAreFenced, \A w \in Workers : ExecutionShape(w), Next
  PROVE  ExecutionsAreFenced'
<1> DEFINE Keeps(v) == Active(v)' => Active(v) /\ claim'[v] = claim[v] /\ token'[v] = token[v]
<1>a. ASSUME NEW w \in Workers, WorkerStep(w) PROVE \A v \in Workers \ {w} : Keeps(v)
  BY <1>a, WorkerStepFrame DEF Active
<1>1. ASSUME \A v \in Workers : Keeps(v)
      PROVE  ExecutionsAreFenced'
  BY <1>1 DEF ExecutionsAreFenced
<1>2. ASSUME NEW w \in Workers, WorkerStep(w), ~\E j \in Jobs : Claim(w, j)
      PROVE  ExecutionsAreFenced'
  <2>1. Keeps(w)
    BY <1>2 DEF WorkerStep, Active, Reconcile, ReconcileDone, ClaimNothing, MarkRunning,
      CheckBeforeEffect, OpenSource, Checkpoint, RecordPage, ExtractionFails, Heartbeat,
      RetryJob, FinishJob, WorkerDown, RunOnceReturns, SettleWith, GoOn, workerVars, TypeOK
  <2>2. QED
    BY <1>1, <1>2, <1>a, <2>1
<1>3. ASSUME NEW w \in Workers, NEW j \in Jobs, Claim(w, j)
      PROVE  ExecutionsAreFenced'
  <2>1. WorkerStep(w)
    BY <1>3 DEF WorkerStep
  <2>2. claim'[w] = j /\ token'[w] = generation[j] + 1 /\ generation[j] \in Nat
    BY <1>3 DEF Claim, NextGeneration, TypeOK
  <2>3. ASSUME NEW v \in Workers \ {w}, Active(v)', claim'[v] = j
        PROVE  token'[v] # token'[w]
    <3>1. Active(v) /\ claim[v] = j /\ token'[v] = token[v]
      BY <1>a, <2>1, <2>3
    <3>2. token[v] \in 1 .. generation[j]
      BY <3>1 DEF ExecutionShape
    <3>3. QED
      BY <2>2, <3>1, <3>2
  <2>4. QED
    BY <1>a, <2>1, <2>2, <2>3 DEF ExecutionsAreFenced
<1>4. ASSUME \/ \E w \in Workers : Restart(w)
             \/ OwnerStep
             \/ Environment
      PROVE  ExecutionsAreFenced'
  <2>1. ASSUME NEW v \in Workers PROVE Keeps(v)
    <3>1. CASE UNCHANGED <<pc[v], claim[v], token[v], page[v], code[v]>>
      BY <3>1 DEF Active
    <3>2. CASE Restart(v) \/ Crash(v)
      BY <3>2 DEF Restart, Crash, WorkerDown, Active, TypeOK
    <3>3. QED
      BY <1>4, <3>1, <3>2, OtherStepFrame
  <2>2. QED
    BY <1>1, <2>1
<1> QED
  BY <1>2, <1>3, <1>4 DEF Next, WorkerStep

\* A success receipt is only written by an execution whose loop has passed every page.
LEMMA SuccessStep ==
  ASSUME TypeOK, TypeOK', RowsAdvance, SuccessIsComplete,
         \A w \in Workers : ExecutionShape(w), Next
  PROVE  SuccessIsComplete'
<1> DEFINE New == \A r \in receipts' : r.code = "job_succeeded" =>
                    \/ r \in receipts
                    \/ r.job \in Jobs /\ 1 .. Pages \subseteq pages[r.job]
<1>a. \A j, c : Receipt(j, c).job = j /\ Receipt(j, c).code = c
  BY DEF Receipt
<1>b. receipts' = receipts => New
  OBVIOUS
<1>1. New
  <2>1. ASSUME NEW w \in Workers, WorkerStep(w)
        PROVE  New
    <3>1. CASE Reconcile(w)
      <4>1. \A j \in Jobs : ReconcileCode(j) # "job_succeeded"
        BY DEF ReconcileCode
      <4>2. \A r \in receipts' : r \in receipts \/ \E j \in Jobs : r = Receipt(j, ReconcileCode(j))
        BY <3>1 DEF Reconcile, Unclaimable
      <4>3. QED
        BY <1>a, <4>1, <4>2
    <3>2. CASE FinishJob(w)
      <4>1. receipts' = receipts \/ receipts' = receipts \cup {Receipt(claim[w], code[w])}
        BY <3>2 DEF FinishJob, ledger
      <4>2. /\ claim[w] \in Jobs
            /\ code[w] = "job_succeeded" => 1 .. Pages \subseteq pages[claim[w]]
        BY <3>2 DEF FinishJob, ExecutionShape, Active
      <4>3. QED
        BY <1>a, <1>b, <4>1, <4>2
    <3>3. CASE ~Reconcile(w) /\ ~FinishJob(w)
      BY <1>b, <2>1, <3>3 DEF WorkerStep, ReconcileDone, Claim, ClaimNothing, MarkRunning,
        CheckBeforeEffect, OpenSource, Checkpoint, RecordPage, ExtractionFails, Heartbeat,
        RetryJob, SettleWith, GoOn, ledger
    <3>4. QED
      BY <3>1, <3>2, <3>3
  <2>2. ASSUME \/ \E w \in Workers : Restart(w)
               \/ OwnerStep
               \/ Environment
        PROVE  New
    <3>1. CASE CancelJobsForReset
      BY <1>a, <3>1 DEF CancelJobsForReset
    <3>2. ASSUME NEW j \in Jobs, RequestCancellation(j)
          PROVE  New
      BY <1>a, <3>2 DEF RequestCancellation, ledger
    <3>3. CASE UNCHANGED receipts
      BY <1>b, <3>3
    <3>4. \/ UNCHANGED receipts
          \/ CancelJobsForReset
          \/ \E j \in Jobs : RequestCancellation(j)
      BY <2>2 DEF OwnerStep, Environment, Restart, PauseJob, ResumeJob,
        ChangeControlState, ManuallyRetryJob, LeaseLapses, BackoffElapses, Crash, ledger
    <3>5. QED
      BY <3>1, <3>2, <3>3, <3>4
  <2>3. QED
    BY <2>1, <2>2 DEF Next
<1>2. \A r \in receipts : r.job \in Jobs
  BY DEF TypeOK, Receipts
<1>3. \A j \in Jobs : pages[j] \subseteq pages'[j] /\ pages'[j] \subseteq 1 .. Pages
  BY DEF RowsAdvance, TypeOK
<1>4. QED
  BY <1>1, <1>2, <1>3 DEF SuccessIsComplete

LEMMA InvariantInit == Init => IInv
<1> SUFFICES ASSUME Init PROVE IInv
  OBVIOUS
<1>1. TypeOK /\ RowsInv
  BY InitTypeOK, InitRowsInv
<1>2. \A w \in Workers : pc[w] = "idle" /\ page[w] = 1 /\ ~Active(w)
  BY DEF Init, Active
<1>3. \A w \in Workers : ExecutionShape(w)
  BY <1>2, InactiveShape
<1>4. ExecutionsAreFenced /\ SuccessIsComplete
  BY <1>2 DEF Init, ExecutionsAreFenced, SuccessIsComplete
<1> QED
  BY <1>1, <1>3, <1>4 DEF IInv, RowsInv

LEMMA InvariantStep == IInv /\ [Next]_vars => IInv'
<1> SUFFICES ASSUME IInv, [Next]_vars PROVE IInv'
  OBVIOUS
<1>1. TypeOK /\ RowsInv /\ ExecutionsAreFenced /\ SuccessIsComplete
      /\ \A w \in Workers : ExecutionShape(w)
  BY DEF IInv, RowsInv
<1>2. TypeOK'
  BY <1>1, NextTypeOK
<1>3. CASE UNCHANGED vars
  <2>1. RowsInv'
    BY <1>1, <1>3, KeptRowsInv DEF RowsKept, vars, columns, ledger
  <2>2. RowsAdvance
    BY <1>1, <1>3 DEF RowsAdvance, vars, columns, TypeOK
  <2>3. \A w \in Workers : ExecutionShape(w)'
    BY <1>1, <1>2, <1>3, <2>2, UntouchedShape DEF vars, workerVars
  <2>4. ExecutionsAreFenced' /\ SuccessIsComplete'
    BY <1>1, <1>3
    DEF vars, workerVars, ledger, ExecutionsAreFenced, SuccessIsComplete, Active
  <2>5. QED
    BY <1>2, <2>1, <2>3, <2>4 DEF IInv, RowsInv
<1>4. CASE Next
  <2>1. RowsInv' /\ RowsAdvance
    BY <1>1, <1>4, WorkerRowsInv, OtherRowsInv, WorkerStepFrame, OtherStepFrame DEF Next
  <2>2. ASSUME NEW v \in Workers
        PROVE  ExecutionShape(v)'
    <3>1. CASE WorkerStep(v)
      BY <1>1, <1>2, <3>1, ActorShape
    <3>2. CASE UNCHANGED <<pc[v], claim[v], token[v], page[v], code[v]>>
      BY <1>1, <1>2, <2>1, <3>2, UntouchedShape
    <3>3. CASE Restart(v) \/ Crash(v)
      <4>1. pc'[v] \in {"idle", "claiming", "down"} /\ page'[v] = 1
        BY <1>1, <3>3 DEF Restart, Crash, WorkerDown, TypeOK, ExecutionShape
      <4>2. QED
        BY <4>1 DEF ExecutionShape, Active
    <3>4. QED
      BY <1>1, <1>4, <3>1, <3>2, <3>3, WorkerStepFrame, OtherStepFrame DEF Next
  <2>3. ExecutionsAreFenced' /\ SuccessIsComplete'
    BY <1>1, <1>2, <1>4, <2>1, FencingStep, SuccessStep
  <2>4. QED
    BY <1>2, <2>1, <2>2, <2>3 DEF IInv, RowsInv
<1> QED
  BY <1>3, <1>4

\* The invariant holds in every reachable state.
THEOREM Invariance == Spec => []IInv
<1>1. Init => IInv
  BY InvariantInit
<1>2. IInv /\ [Next]_vars => IInv'
  BY InvariantStep
<1> QED
  BY <1>1, <1>2, PTL DEF Spec

\* Every variable of the queue, its receipts and its workers stays in its domain.
THEOREM TypeCorrect == Spec => []TypeOK
<1>1. IInv => TypeOK
  BY DEF IInv
<1> QED
  BY <1>1, Invariance, PTL

\* Owners are recorded exactly on leased and running rows, whoever writes them.
THEOREM LeasesAreShaped == Spec => []LeaseShape
<1>1. IInv => LeaseShape
  BY DEF IInv
<1> QED
  BY <1>1, Invariance, PTL

\* Terminal rows and receipts correspond one to one and agree on the outcome.
THEOREM ReceiptsSettle == Spec => []ReceiptSettles
<1>1. IInv => ReceiptSettles
  BY DEF IInv
<1> QED
  BY <1>1, Invariance, PTL

\* No job is held, or has succeeded, before all of its prerequisites have succeeded.
THEOREM PrerequisitesAreMet == Spec => []PrerequisitesMet
<1>1. IInv => PrerequisitesMet
  BY DEF IInv
<1> QED
  BY <1>1, Invariance, PTL

\* Attempts never exceed the budget and a waiting job has one left.
THEOREM AttemptsAreBounded == Spec => []WaitingHasAttempts
<1>1. IInv => WaitingHasAttempts
  BY DEF IInv
<1> QED
  BY <1>1, Invariance, PTL

\* Of the executions of one job, however many overlap, at most one passes the fence.
THEOREM FencingIsExclusive == Spec => []ExecutionsAreFenced
<1>1. IInv => ExecutionsAreFenced
  BY DEF IInv
<1> QED
  BY <1>1, Invariance, PTL

\* Partial output is never converted into success.
THEOREM SuccessMeansComplete == Spec => []SuccessIsComplete
<1>1. IInv => SuccessIsComplete
  BY DEF IInv
<1> QED
  BY <1>1, Invariance, PTL

--------------------------------------------------------------------------------
(* What a step may never do *)

\* Rows settled in a terminal state are left alone, and receipts are only added.
LEMMA TerminalStep ==
  ASSUME IInv, Next
  PROVE  /\ \A j \in Jobs : Terminal(j) => state'[j] = state[j]
         /\ receipts \subseteq receipts'
<1> DEFINE Kept == \A j \in Jobs : Terminal(j) => state'[j] = state[j]
           Grown == receipts \subseteq receipts'
<1> SUFFICES Kept /\ Grown
  OBVIOUS
<1>a. TypeOK /\ \A w \in Workers : ExecutionShape(w)
  BY DEF IInv
<1>b. TerminalStates \cap (HeldStates \cup {"absent", "queued", "paused"}) = {}
  BY DEF TerminalStates, FailureStates, HeldStates
<1>c. ASSUME NEW J \in SUBSET Jobs, NEW verdict, SettleRows(J, verdict), \A j \in J : Open(j)
      PROVE  Kept
  BY <1>c DEF SettleRows, Open
<1>d. UNCHANGED state => Kept
  OBVIOUS
<1>1. ASSUME NEW w \in Workers, WorkerStep(w)
      PROVE  Kept /\ Grown
  <2>1. Grown
    BY <1>1 DEF WorkerStep, Reconcile, ReconcileDone, Claim, ClaimNothing, MarkRunning,
      CheckBeforeEffect, OpenSource, Checkpoint, RecordPage, ExtractionFails, Heartbeat,
      RetryJob, FinishJob, SettleWith, GoOn, ledger
  <2>2. CASE Reconcile(w)
    <3>1. Unclaimable \in SUBSET Jobs /\ \A j \in Unclaimable : Open(j)
      BY <1>b DEF Unclaimable, OutOfReach, Open, Present, Terminal, HeldStates
    <3>2. QED
      BY <1>c, <2>1, <2>2, <3>1 DEF Reconcile
  <2>3. CASE ClaimNothing(w) \/ \E j \in Jobs : Claim(w, j)
    <3>1. \A j \in Jobs : Terminal(j) => ~Claimable(j) /\ Recovered(j) = state[j]
      BY <1>b DEF Terminal, Claimable, Recovered, Stale
    <3>2. QED
      BY <2>1, <2>3, <3>1 DEF Claim, ClaimNothing
  <2>4. CASE MarkRunning(w)
    BY <1>a, <1>b, <2>1, <2>4 DEF MarkRunning, Terminal, TypeOK, HeldStates
  <2>5. CASE RetryJob(w)
    <3>1. CASE UNCHANGED state
      BY <1>d, <2>1, <3>1
    <3>2. CASE ~UNCHANGED state
      <4>1. /\ state' = [state EXCEPT ![claim[w]] = "queued"]
            /\ Fenced(w) /\ pc[w] = "retrying"
        BY <2>5, <3>2 DEF RetryJob, SettleWith, columns
      <4>2. state[claim[w]] = "running"
        BY <1>a, <4>1 DEF ExecutionShape, Active
      <4>3. QED
        BY <1>a, <1>b, <2>1, <4>1, <4>2 DEF Terminal, TypeOK, HeldStates
    <3>3. QED
      BY <3>1, <3>2
  <2>6. CASE FinishJob(w)
    <3>1. CASE UNCHANGED <<columns, ledger>>
      BY <1>d, <2>1, <3>1 DEF columns
    <3>2. CASE ~UNCHANGED <<columns, ledger>>
      <4>1. SettleRows({claim[w]}, [k \in {claim[w]} |-> code[w]]) /\ ~Terminal(claim[w])
        BY <2>6, <3>2 DEF FinishJob
      <4>2. Kept
        BY <4>1 DEF SettleRows
      <4>3. QED
        BY <2>1, <4>2
    <3>3. QED
      BY <3>1, <3>2
  <2>7. CASE \/ ReconcileDone(w) \/ CheckBeforeEffect(w) \/ OpenSource(w) \/ Checkpoint(w)
             \/ RecordPage(w) \/ ExtractionFails(w) \/ Heartbeat(w)
    <3>1. UNCHANGED state
      BY <2>7 DEF ReconcileDone, CheckBeforeEffect, OpenSource, Checkpoint, RecordPage,
        ExtractionFails, Heartbeat, SettleWith, GoOn, columns
    <3>2. QED
      BY <1>d, <2>1, <3>1
  <2>8. QED
    BY <1>1, <2>2, <2>3, <2>4, <2>5, <2>6, <2>7 DEF WorkerStep
<1>2. CASE \/ \E w \in Workers : Restart(w) \/ Crash(w)
           \/ \E j \in Jobs : LeaseLapses(j) \/ BackoffElapses(j)
  BY <1>2 DEF Restart, Crash, LeaseLapses, BackoffElapses, columns, ledger
<1>3. CASE OwnerStep
  <2>1. Grown
    BY <1>3 DEF OwnerStep, RequestCancellation, PauseJob, ResumeJob, ChangeControlState,
      ManuallyRetryJob, CancelJobsForReset, ledger
  <2>2. ASSUME NEW j \in Jobs, RequestCancellation(j)
        PROVE  Kept
    BY <1>b, <2>2 DEF RequestCancellation, SettleRows, Terminal
  <2>3. ASSUME NEW j \in Jobs, NEW d \in Jobs,
               PauseJob(j) \/ ResumeJob(j) \/ ManuallyRetryJob(j, d)
        PROVE  Kept
    BY <1>a, <1>b, <2>3
    DEF PauseJob, ResumeJob, ChangeControlState, ManuallyRetryJob, Terminal, TypeOK
  <2>4. CASE CancelJobsForReset
    BY <2>4 DEF CancelJobsForReset, SettleRows, Open
  <2>5. QED
    BY <1>3, <2>1, <2>2, <2>3, <2>4 DEF OwnerStep
<1> QED
  BY <1>1, <1>2, <1>3 DEF Next, Environment

\* A terminal row never changes again and its receipt is never rewritten.
THEOREM TerminalIsFinal == Spec => SettledForever
<1> DEFINE Settled == \A j \in Jobs : Terminal(j) =>
                        /\ state'[j] = state[j]
                        /\ {r \in receipts' : r.job = j} = {r \in receipts : r.job = j}
<1>1. IInv /\ IInv' /\ [Next]_vars => [Settled]_vars
  <2> SUFFICES ASSUME IInv, IInv', Next PROVE Settled
    BY DEF vars
  <2>1. ASSUME NEW j \in Jobs, Terminal(j)
        PROVE  /\ state'[j] = state[j]
               /\ {r \in receipts' : r.job = j} = {r \in receipts : r.job = j}
    <3>1. state'[j] = state[j] /\ receipts \subseteq receipts'
      BY <2>1, TerminalStep
    <3>2. \E r \in receipts : r.job = j
      BY <2>1, ReceiptSettlesFlat DEF IInv
    <3>3. \A r, q \in receipts' : r.job = j /\ q.job = j => r = q
      BY DEF IInv, ReceiptSettles
    <3>4. QED
      BY <3>1, <3>2, <3>3
  <2>2. QED
    BY <2>1
<1> QED
  BY <1>1, Invariance, PTL DEF Spec, SettledForever

--------------------------------------------------------------------------------
(* The queue implements the documented job lifecycle *)

\* Settling open rows moves each along an edge, and begins no attempt.
LEMMA SettleFollows ==
  ASSUME TypeOK, NEW J \in SUBSET Jobs, NEW verdict \in [J -> Codes], SettleRows(J, verdict),
         \A j \in J : <<state[j], Verdict(verdict[j])>> \in Lifecycle!Edges
  PROVE  Lifecycle!Next
<1>1. attempts' = attempts
  BY DEF SettleRows
<1>2. ASSUME NEW j \in J
      PROVE  Lifecycle!Move(j)
  <2>1. state'[j] = Verdict(verdict[j]) /\ state'[j] # "leased"
    BY VerdictIsTerminal DEF SettleRows, TerminalStates, FailureStates
  <2>2. QED
    BY <1>1, <2>1 DEF Lifecycle!Move, Lifecycle!Begins
<1>3. \A j \in Jobs \ J : Lifecycle!Stay(j)
  BY <1>1 DEF SettleRows, Lifecycle!Stay
<1> QED
  BY <1>1, <1>2, <1>3 DEF Lifecycle!Next, Lifecycle!Begins

\* A step that moves one row along an edge that begins no attempt.
LEMMA MoveFollows ==
  ASSUME TypeOK, NEW j \in Jobs, NEW target, state' = [state EXCEPT ![j] = target],
         UNCHANGED attempts, <<state[j], target>> \in Lifecycle!Edges, target # "leased"
  PROVE  Lifecycle!Next
<1>1. Lifecycle!Move(j)
  BY DEF TypeOK, Lifecycle!Move, Lifecycle!Begins
<1>2. \A k \in Jobs \ {j} : Lifecycle!Stay(k)
  BY DEF TypeOK, Lifecycle!Stay
<1> QED
  BY <1>1, <1>2 DEF Lifecycle!Next, Lifecycle!Begins

\* A step that leaves states and attempts alone.
LEMMA StayFollows ==
  ASSUME UNCHANGED <<state, attempts>>
  PROVE  Lifecycle!Next
BY DEF Lifecycle!Next, Lifecycle!Stay, Lifecycle!Begins

\* Taking stale leases back, and beginning an attempt of at most one claimable job.
LEMMA ClaimFollows ==
  ASSUME IInv, NEW w \in Workers,
         ClaimNothing(w) \/ \E j \in Jobs : Claim(w, j)
  PROVE  Lifecycle!Next
<1>a. TypeOK
  BY DEF IInv
<1>1. \A k \in Jobs : Stale(k) => <<state[k], "queued">> \in Lifecycle!Edges
  BY DEF Stale, HeldStates, Lifecycle!Edges
<1>2. CASE ClaimNothing(w)
  <2>1. attempts' = attempts /\ \A k \in Jobs : state'[k] = Recovered(k)
    BY <1>2 DEF ClaimNothing
  <2>2. ASSUME NEW k \in Jobs
        PROVE  Lifecycle!Move(k) \/ Lifecycle!Stay(k)
    BY <1>1, <2>1 DEF Recovered, Lifecycle!Move, Lifecycle!Stay, Lifecycle!Begins
  <2>3. QED
    BY <2>1, <2>2 DEF Lifecycle!Next, Lifecycle!Begins
<1>3. ASSUME NEW j \in Jobs, Claim(w, j)
      PROVE  Lifecycle!Next
  <2>1. /\ state'[j] = "leased" /\ attempts'[j] = attempts[j] + 1
        /\ \A k \in Jobs \ {j} : state'[k] = Recovered(k) /\ attempts'[k] = attempts[k]
    BY <1>3, <1>a DEF Claim, TypeOK
  <2>2. /\ state[j] \in {"queued", "leased", "running"}
        /\ attempts[j] < MaxAttempts
        /\ \A p \in Prerequisites(j) : state[p] = "succeeded"
    BY <1>3 DEF Claim, Claimable, Stale, HeldStates
  <2>3. attempts[j] \in Nat /\ attempts'[j] # attempts[j] /\ attempts'[j] <= MaxAttempts
    BY <1>a, <2>1, <2>2 DEF TypeOK
  <2>4. Lifecycle!Move(j)
    <3>1. <<state[j], "leased">> \in Lifecycle!Edges
      BY <2>2 DEF Lifecycle!Edges
    <3>2. Lifecycle!Prerequisites(j) = Prerequisites(j)
      BY DEF Lifecycle!Prerequisites, Prerequisites
    <3>3. QED
      BY <2>1, <2>2, <2>3, <3>1, <3>2 DEF Lifecycle!Move, Lifecycle!Begins
  <2>5. ASSUME NEW k \in Jobs \ {j}
        PROVE  Lifecycle!Move(k) \/ Lifecycle!Stay(k)
    BY <1>1, <2>1 DEF Recovered, Lifecycle!Move, Lifecycle!Stay, Lifecycle!Begins
  <2>6. QED
    BY <2>1, <2>4, <2>5 DEF Lifecycle!Next, Lifecycle!Begins
<1> QED
  BY <1>2, <1>3

\* Every worker step is a step of the lifecycle.
LEMMA WorkerFollows ==
  ASSUME IInv, NEW w \in Workers, WorkerStep(w)
  PROVE  Lifecycle!Next
<1>a. TypeOK /\ ExecutionShape(w)
  BY DEF IInv
<1>1. CASE Reconcile(w)
  <2> DEFINE verdict == [j \in Unclaimable |-> ReconcileCode(j)]
  <2>1. Unclaimable \in SUBSET Jobs /\ verdict \in [Unclaimable -> Codes]
    BY ReconcileCodeType DEF Unclaimable
  <2>2. \A c \in {"job_cancelled_after_worker_loss", "retry_exhausted",
                  "dependency_terminal_failure"} :
           Verdict(c) \in {"cancelled", "reconciliation_required"}
    BY DEF Verdict, CancelCodes, ReviewCodes
  <2>3. ASSUME NEW j \in Unclaimable
        PROVE  <<state[j], Verdict(verdict[j])>> \in Lifecycle!Edges
    <3>1. state[j] \in {"queued", "leased", "running"}
      BY <2>3 DEF Unclaimable, OutOfReach, HeldStates
    <3>2. ReconcileCode(j) \in {"job_cancelled_after_worker_loss", "retry_exhausted",
                                "dependency_terminal_failure"}
      BY DEF ReconcileCode
    <3>3. Verdict(verdict[j]) \in {"cancelled", "reconciliation_required"}
      BY <2>2, <3>2
    <3>4. QED
      BY <3>1, <3>3 DEF Lifecycle!Edges, Lifecycle!Settled
  <2>4. QED
    BY <1>1, <1>a, <2>1, <2>3, SettleFollows DEF Reconcile
<1>2. CASE ClaimNothing(w) \/ \E j \in Jobs : Claim(w, j)
  BY <1>2, ClaimFollows
<1>3. CASE MarkRunning(w)
  <2>1. CASE UNCHANGED state
    BY <1>3, <2>1, StayFollows DEF MarkRunning
  <2>2. CASE ~UNCHANGED state
    <3>1. /\ state[claim[w]] = "leased" /\ state' = [state EXCEPT ![claim[w]] = "running"]
          /\ UNCHANGED attempts
      BY <1>3, <2>2 DEF MarkRunning
    <3>2. claim[w] \in Jobs
      BY <1>3, <1>a DEF MarkRunning, ExecutionShape, Active
    <3>3. QED
      BY <1>a, <3>1, <3>2, MoveFollows DEF Lifecycle!Edges
  <2>3. QED
    BY <2>1, <2>2
<1>4. CASE RetryJob(w)
  <2>1. CASE UNCHANGED <<state, attempts>>
    BY <2>1, StayFollows
  <2>2. CASE ~UNCHANGED <<state, attempts>>
    <3>1. /\ state' = [state EXCEPT ![claim[w]] = "queued"]
          /\ Fenced(w) /\ pc[w] = "retrying" /\ UNCHANGED attempts
      BY <1>4, <2>2 DEF RetryJob, SettleWith, columns
    <3>2. claim[w] \in Jobs /\ state[claim[w]] = "running"
      BY <1>a, <3>1 DEF ExecutionShape, Active
    <3>3. QED
      BY <1>a, <3>1, <3>2, MoveFollows DEF Lifecycle!Edges
  <2>3. QED
    BY <2>1, <2>2
<1>5. CASE FinishJob(w)
  <2> DEFINE verdict == [k \in {claim[w]} |-> code[w]]
  <2>1. CASE UNCHANGED <<columns, ledger>>
    BY <2>1, StayFollows DEF columns
  <2>2. CASE ~UNCHANGED <<columns, ledger>>
    <3>1. SettleRows({claim[w]}, verdict) /\ Fenced(w) /\ pc[w] = "settling"
      BY <1>5, <2>2 DEF FinishJob
    <3>2. claim[w] \in Jobs /\ code[w] \in Codes /\ state[claim[w]] = "running"
      BY <1>a, <3>1 DEF ExecutionShape, Active
    <3>3. <<state[claim[w]], Verdict(verdict[claim[w]])>> \in Lifecycle!Edges
      BY <3>2, VerdictIsTerminal
      DEF Lifecycle!Edges, Lifecycle!Settled, TerminalStates, FailureStates
    <3>4. {claim[w]} \in SUBSET Jobs /\ verdict \in [{claim[w]} -> Codes]
      BY <3>2
    <3>5. QED
      BY <1>a, <3>1, <3>3, <3>4, SettleFollows
  <2>3. QED
    BY <2>1, <2>2
<1>6. CASE \/ ReconcileDone(w) \/ CheckBeforeEffect(w) \/ OpenSource(w) \/ Checkpoint(w)
           \/ RecordPage(w) \/ ExtractionFails(w) \/ Heartbeat(w)
  <2>1. UNCHANGED <<state, attempts>>
    BY <1>6 DEF ReconcileDone, CheckBeforeEffect, OpenSource, Checkpoint, RecordPage,
      ExtractionFails, Heartbeat, SettleWith, GoOn, columns
  <2>2. QED
    BY <2>1, StayFollows
<1> QED
  BY <1>1, <1>2, <1>3, <1>4, <1>5, <1>6 DEF WorkerStep

\* So is every other step.
LEMMA OtherFollows ==
  ASSUME TypeOK, \/ \E w \in Workers : Restart(w)
                 \/ OwnerStep
                 \/ Environment
  PROVE  Lifecycle!Next
<1>a. \A c \in {"job_cancelled_before_effect", "workspace_reset_fence"} :
         c \in Codes /\ Verdict(c) = "cancelled"
  BY DEF Verdict, CancelCodes, ReviewCodes, Codes
<1>b. \A s \in {"queued", "paused", "leased", "running"} :
         <<s, "cancelled">> \in Lifecycle!Edges
  BY DEF Lifecycle!Edges, Lifecycle!Settled
<1>1. CASE \/ \E w \in Workers : Restart(w) \/ Crash(w)
           \/ \E j \in Jobs : LeaseLapses(j) \/ BackoffElapses(j)
  BY <1>1, StayFollows DEF Restart, Crash, LeaseLapses, BackoffElapses, columns
<1>2. ASSUME NEW j \in Jobs, RequestCancellation(j)
      PROVE  Lifecycle!Next
  <2> DEFINE verdict == [k \in {j} |-> "job_cancelled_before_effect"]
  <2>1. CASE state[j] \in HeldStates
    BY <1>2, <2>1, StayFollows DEF RequestCancellation, HeldStates
  <2>2. CASE state[j] \notin HeldStates
    <3>1. SettleRows({j}, verdict) /\ state[j] \in {"queued", "paused"}
      BY <1>2, <2>2 DEF RequestCancellation
    <3>2. verdict \in [{j} -> Codes] /\ {j} \in SUBSET Jobs
      BY <1>a
    <3>3. <<state[j], Verdict(verdict[j])>> \in Lifecycle!Edges
      BY <1>a, <1>b, <3>1
    <3>4. QED
      BY <3>1, <3>2, <3>3, SettleFollows
  <2>3. QED
    BY <2>1, <2>2
<1>3. ASSUME NEW j \in Jobs, PauseJob(j) \/ ResumeJob(j)
      PROVE  Lifecycle!Next
  <2>1. \E target \in {"queued", "paused"} :
          /\ state' = [state EXCEPT ![j] = target]
          /\ UNCHANGED attempts
          /\ <<state[j], target>> \in {<<"queued", "paused">>, <<"paused", "queued">>}
    BY <1>3 DEF PauseJob, ResumeJob, ChangeControlState
  <2>2. QED
    BY <2>1, MoveFollows DEF Lifecycle!Edges
<1>4. ASSUME NEW j \in Jobs, NEW d \in Jobs, ManuallyRetryJob(j, d)
      PROVE  Lifecycle!Next
  <2>1. /\ state[d] = "absent" /\ state' = [state EXCEPT ![d] = "queued"]
        /\ UNCHANGED attempts
    BY <1>4 DEF ManuallyRetryJob
  <2>2. QED
    BY <2>1, MoveFollows DEF Lifecycle!Edges
<1>5. CASE CancelJobsForReset
  <2> DEFINE J == {j \in Jobs : Open(j)}
             verdict == [j \in J |-> "workspace_reset_fence"]
  <2>1. SettleRows(J, verdict)
    BY <1>5 DEF CancelJobsForReset
  <2>2. J \in SUBSET Jobs /\ verdict \in [J -> Codes]
    BY <1>a
  <2>3. ASSUME NEW j \in J
        PROVE  <<state[j], Verdict(verdict[j])>> \in Lifecycle!Edges
    <3>1. state[j] \in {"queued", "paused", "leased", "running"}
      BY DEF TypeOK, JobStates, HeldStates, Open, Present, Terminal
    <3>2. QED
      BY <1>a, <1>b, <3>1
  <2>4. QED
    BY <2>1, <2>2, <2>3, SettleFollows
<1> QED
  BY <1>1, <1>2, <1>3, <1>4, <1>5 DEF OwnerStep, Environment

\* Whatever workers, owners, crashes and time do, each job moves only along the documented
\* edges, begins only within its attempt budget and after its prerequisites, and at most
\* one job begins in a step.
THEOREM ImplementsLifecycle == Spec => FollowsLifecycle
<1>1. Init => Lifecycle!Init
  BY DEF Init, Lifecycle!Init
<1>2. IInv /\ [Next]_vars => [Lifecycle!Next]_(Lifecycle!vars)
  <2> SUFFICES ASSUME IInv, [Next]_vars PROVE [Lifecycle!Next]_(Lifecycle!vars)
    OBVIOUS
  <2>1. CASE UNCHANGED vars
    BY <2>1 DEF vars, columns, Lifecycle!vars
  <2>2. CASE Next
    BY <2>2, WorkerFollows, OtherFollows DEF Next, IInv
  <2>3. QED
    BY <2>1, <2>2
<1> QED
  BY <1>1, <1>2, Invariance, PTL DEF Spec, FollowsLifecycle, Lifecycle!Spec

--------------------------------------------------------------------------------
(* Live leases *)

\* Only the end of the holder's own execution, or the reset fence, ends a live lease.
LEMMA LiveLeaseStep ==
  ASSUME IInv, Next, NEW j \in Jobs, state[j] \in HeldStates, ~lapsed[j],
         state'[j] \notin HeldStates \/ generation'[j] # generation[j]
  PROVE  \/ \E w \in Workers : /\ claim[w] = j /\ Fenced(w)
                               /\ pc[w] \in {"settling", "retrying"} /\ pc'[w] = "idle"
         \/ \E r \in receipts' : r.job = j /\ r.code = "workspace_reset_fence"
<1>a. TypeOK
  BY DEF IInv
<1>b. HeldStates \cap {"absent", "queued", "paused"} = {} /\ "running" \in HeldStates
  BY DEF HeldStates
<1>1. ASSUME NEW w \in Workers, WorkerStep(w)
      PROVE  claim[w] = j /\ Fenced(w) /\ pc[w] \in {"settling", "retrying"} /\ pc'[w] = "idle"
  <2>1. ~Reconcile(w)
    <3>1. j \notin Unclaimable
      BY <1>b DEF Unclaimable, OutOfReach
    <3>2. QED
      BY <3>1 DEF Reconcile, SettleRows
  <2>2. ~ClaimNothing(w) /\ \A k \in Jobs : ~Claim(w, k)
    <3>1. ~Stale(j) /\ ~Claimable(j)
      BY <1>b DEF Stale, Claimable
    <3>2. Recovered(j) = state[j]
      BY <3>1 DEF Recovered
    <3>3. ~ClaimNothing(w)
      BY <3>2 DEF ClaimNothing
    <3>4. ASSUME NEW k \in Jobs, Claim(w, k)
          PROVE  FALSE
      <4>1. k # j
        BY <3>1, <3>4 DEF Claim
      <4>2. state'[j] = state[j] /\ generation'[j] = generation[j]
        BY <1>a, <3>2, <3>4, <4>1 DEF Claim, TypeOK
      <4>3. QED
        BY <4>2
    <3>5. QED
      BY <3>3, <3>4
  <2>3. ~MarkRunning(w)
    BY <1>a, <1>b DEF MarkRunning, TypeOK
  <2>4. \/ RetryJob(w) /\ ~UNCHANGED columns
        \/ FinishJob(w) /\ ~UNCHANGED columns
    BY <1>1, <2>1, <2>2, <2>3 DEF WorkerStep, ReconcileDone, CheckBeforeEffect, OpenSource,
      Checkpoint, RecordPage, ExtractionFails, Heartbeat, SettleWith, GoOn, columns
  <2>5. CASE RetryJob(w) /\ ~UNCHANGED columns
    <3>1. /\ Fenced(w) /\ pc[w] = "retrying" /\ RunOnceReturns(w)
          /\ state' = [state EXCEPT ![claim[w]] = "queued"]
          /\ UNCHANGED generation
      BY <2>5 DEF RetryJob, SettleWith
    <3>2. claim[w] = j
      BY <1>a, <3>1 DEF TypeOK
    <3>3. QED
      BY <1>a, <3>1, <3>2 DEF RunOnceReturns, TypeOK
  <2>6. CASE FinishJob(w) /\ ~UNCHANGED columns
    <3>1. /\ Fenced(w) /\ pc[w] = "settling" /\ RunOnceReturns(w)
          /\ SettleRows({claim[w]}, [k \in {claim[w]} |-> code[w]])
      BY <2>6 DEF FinishJob
    <3>2. claim[w] = j
      BY <3>1 DEF SettleRows
    <3>3. QED
      BY <1>a, <3>1, <3>2 DEF RunOnceReturns, TypeOK
  <2>7. QED
    BY <2>4, <2>5, <2>6
<1>2. ASSUME \/ \E w \in Workers : Restart(w)
             \/ OwnerStep
             \/ Environment
      PROVE  \E r \in receipts' : r.job = j /\ r.code = "workspace_reset_fence"
  <2>1. \A w \in Workers : ~Restart(w) /\ ~Crash(w)
    BY DEF Restart, Crash, columns
  <2>2. \A k \in Jobs : ~LeaseLapses(k) /\ ~BackoffElapses(k)
    BY DEF LeaseLapses, BackoffElapses
  <2>3. \A k \in Jobs : ~RequestCancellation(k)
    BY <1>b DEF RequestCancellation, SettleRows
  <2>4. \A k, d \in Jobs : ~PauseJob(k) /\ ~ResumeJob(k) /\ ~ManuallyRetryJob(k, d)
    BY <1>a, <1>b DEF PauseJob, ResumeJob, ManuallyRetryJob, ChangeControlState, TypeOK
  <2>5. CancelJobsForReset
    BY <1>2, <2>1, <2>2, <2>3, <2>4 DEF OwnerStep, Environment
  <2>6. Open(j)
    BY DEF Open, Present, Terminal, HeldStates, TerminalStates, FailureStates
  <2>7. Receipt(j, "workspace_reset_fence") \in receipts'
    BY <2>5, <2>6 DEF CancelJobsForReset
  <2>8. QED
    BY <2>7 DEF Receipt
<1> QED
  BY <1>1, <1>2 DEF Next

\* While a lease is live nobody but its holder, or the reset fence, ends it.
THEOREM LiveLeasesAreRespected == Spec => LiveLeaseRespected
<1> DEFINE Respected ==
      \A j \in Jobs :
        /\ state[j] \in HeldStates /\ ~lapsed[j]
        /\ state'[j] \notin HeldStates \/ generation'[j] # generation[j]
        =>
          \/ \E w \in Workers :
               /\ claim[w] = j /\ Fenced(w)
               /\ pc[w] \in {"settling", "retrying"} /\ pc'[w] = "idle"
          \/ \E r \in receipts' : r.job = j /\ r.code = "workspace_reset_fence"
<1>1. IInv /\ [Next]_vars => [Respected]_vars
  BY LiveLeaseStep DEF vars
<1> QED
  BY <1>1, Invariance, PTL DEF Spec, LiveLeaseRespected
================================================================================
