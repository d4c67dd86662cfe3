------------------------------ MODULE DurableJobs ------------------------------
(***************************************************************************)
(* The durable job queue of the application spine: the durable_jobs table  *)
(* with its terminal receipts, the claim and reconcile functions of        *)
(* migration 0018, the repository methods that change a job, the worker    *)
(* process that executes one, and the owner commands that interfere.       *)
(*                                                                         *)
(* One action is one database transaction, or one step of a worker between *)
(* two transactions. Clocks are abstracted: `lapsed` stands for            *)
(* lease_expires_at < now and `backoff` for eligible_at > now; both are    *)
(* raised or cleared by the passage of time.                               *)
(***************************************************************************)
EXTENDS Naturals, FiniteSets

CONSTANTS
  Jobs,         \* job identities, those manual retries will draw included
  Enqueued,     \* the jobs registration has committed
  DependsOn,    \* success_required prerequisites of each enqueued job
  Workers,      \* document worker processes
  MaxAttempts,  \* durable_jobs.max_attempts
  Pages,        \* safe checkpoints of one execution
  MaxCommands,  \* bound on owner commands
  MaxCrashes,   \* bound on process losses
  None

ASSUME JobsAssumption ==
  /\ Enqueued \subseteq Jobs
  /\ DependsOn \in [Enqueued -> SUBSET Enqueued]
  /\ None \notin Jobs \cup Workers

ASSUME BoundsAssumption ==
  /\ MaxAttempts \in Nat \ {0}
  /\ Pages \in Nat \ {0}
  /\ MaxCommands \in Nat
  /\ MaxCrashes \in Nat

VARIABLES
  state,      \* durable_jobs.state, "absent" before the row exists
  attempts,   \* durable_jobs.attempt_count
  generation, \* durable_jobs.lease_generation
  owner,      \* durable_jobs.lease_owner
  lapsed,     \* lease_expires_at has passed
  backoff,    \* eligible_at has not been reached
  cancel,     \* durable_jobs.cancellation_state
  receipts,   \* rows of job_terminal_receipts
  decisions,  \* rows of job_control_decisions, by what their digest covers
  pages,      \* document pages each job has recorded
  pc,         \* where each worker is in run_once
  claim,      \* the job of its ClaimedJob
  token,      \* the lease_generation of its ClaimedJob
  page,       \* the page its extraction loop has reached
  code,       \* the outcome code it is about to settle with
  commands,   \* owner commands left
  crashes     \* process losses left

columns    == <<state, attempts, generation, owner, lapsed, backoff, cancel>>
ledger     == <<receipts, decisions>>
workerVars == <<pc, claim, token, page, code>>
budgets    == <<commands, crashes>>
vars       == <<columns, ledger, pages, workerVars, budgets>>

--------------------------------------------------------------------------------
(* States, outcome codes and the terminal state each code settles a job in *)

HeldStates     == {"leased", "running"}
FailureStates  == {"failed", "cancelled", "reconciliation_required"}
TerminalStates == FailureStates \cup {"succeeded"}
JobStates      == {"absent", "queued", "paused"} \cup HeldStates \cup TerminalStates
CancelStates   == {"none", "requested", "acknowledged"}

CancelCodes == {"job_cancelled_before_effect", "job_cancelled_at_safe_checkpoint",
                "job_cancelled_after_worker_loss", "workspace_reset_fence"}
ReviewCodes == {"retry_exhausted", "worker_io_unavailable", "dependency_terminal_failure"}
Codes == {"job_succeeded", "deterministic_failure"} \cup CancelCodes \cup ReviewCodes

Verdict(c) ==
  CASE c = "job_succeeded"         -> "succeeded"
    [] c = "deterministic_failure" -> "failed"
    [] c \in CancelCodes           -> "cancelled"
    [] c \in ReviewCodes           -> "reconciliation_required"

Prerequisites(j) == IF j \in Enqueued THEN DependsOn[j] ELSE {}

Present(j)  == state[j] # "absent"
Terminal(j) == state[j] \in TerminalStates
Open(j)     == Present(j) /\ ~Terminal(j)
Receipt(j, c) == [job |-> j, code |-> c, generation |-> generation[j]]

\* The write every settling transaction makes to the rows of J, with its receipts.
SettleRows(J, verdict) ==
  /\ state'  = [j \in Jobs |-> IF j \in J THEN Verdict(verdict[j]) ELSE state[j]]
  /\ owner'  = [j \in Jobs |-> IF j \in J THEN None ELSE owner[j]]
  /\ lapsed' = [j \in Jobs |-> IF j \in J THEN FALSE ELSE lapsed[j]]
  /\ UNCHANGED <<attempts, generation, backoff, decisions>>

--------------------------------------------------------------------------------
(* Worker: reconcile and claim *)

\* Mutated form of OutOfReach: failed prerequisites are forgotten.
OutOfReachForgettingPrerequisites(j) ==
  /\ state[j] \in HeldStates
  /\ lapsed[j]
  /\ attempts[j] >= MaxAttempts \/ cancel[j] = "requested"

OutOfReach(j) ==
  \/ /\ state[j] \in HeldStates
     /\ lapsed[j]
     /\ attempts[j] >= MaxAttempts \/ cancel[j] = "requested"
  \/ /\ state[j] = "queued"
     /\ \E p \in Prerequisites(j) : state[p] \in FailureStates

Unclaimable == {j \in Jobs : OutOfReach(j)}

ReconcileCode(j) ==
  CASE cancel[j] = "requested"  -> "job_cancelled_after_worker_loss"
    [] cancel[j] # "requested" /\ state[j] \in HeldStates -> "retry_exhausted"
    [] OTHER                    -> "dependency_terminal_failure"

Reconcile(w) ==
  /\ pc[w] = "idle"
  /\ Unclaimable # {}
  /\ SettleRows(Unclaimable, [j \in Unclaimable |-> ReconcileCode(j)])
  /\ receipts' = receipts \cup {Receipt(j, ReconcileCode(j)) :
                     j \in {k \in Unclaimable : \A r \in receipts : r.job # k}}
  /\ cancel' = [j \in Jobs |-> IF j \in Unclaimable /\ cancel[j] = "requested"
                                 THEN "acknowledged" ELSE cancel[j]]
  /\ UNCHANGED <<pages, workerVars, budgets>>

ReconcileDone(w) ==
  /\ pc[w] = "idle"
  /\ Unclaimable = {}
  /\ pc' = [pc EXCEPT ![w] = "claiming"]
  /\ UNCHANGED <<columns, ledger, pages, claim, token, page, code, budgets>>

\* Mutated form of Stale: the expiry is not tested.
StaleBeforeExpiry(j) ==
  state[j] \in HeldStates /\ attempts[j] < MaxAttempts /\ cancel[j] = "none"

\* The leases claim_next_durable_job takes back before it looks for work.
Stale(j) ==
  /\ state[j] \in HeldStates
  /\ lapsed[j]
  /\ attempts[j] < MaxAttempts
  /\ cancel[j] = "none"

ClaimableWhilePaused(j) ==
  /\ state[j] \in {"queued", "paused"} \/ Stale(j)
  /\ ~backoff[j] /\ cancel[j] = "none" /\ attempts[j] < MaxAttempts
  /\ \A p \in Prerequisites(j) : state[p] = "succeeded"

Claimable(j) ==
  /\ state[j] = "queued" \/ Stale(j)
  /\ ~backoff[j]
  /\ cancel[j] = "none"
  /\ attempts[j] < MaxAttempts
  /\ \A p \in Prerequisites(j) : state[p] = "succeeded"

\* Mutated form of NextGeneration: a reclaimed lease keeps its generation.
SameGeneration(j) == IF generation[j] = 0 THEN 1 ELSE generation[j]
NextGeneration(j) == generation[j] + 1

Recovered(j) == IF Stale(j) THEN "queued" ELSE state[j]

\* FOR UPDATE SKIP LOCKED passes over rows another transaction holds, so the
\* ordering is a preference and any claimable job may be the one returned.
Claim(w, j) ==
  /\ pc[w] = "claiming"
  /\ Claimable(j)
  /\ state' = [k \in Jobs |-> IF k = j THEN "leased" ELSE Recovered(k)]
  /\ owner' = [k \in Jobs |-> IF k = j THEN w ELSE IF Stale(k) THEN None ELSE owner[k]]
  /\ lapsed' = [k \in Jobs |-> IF k = j \/ Stale(k) THEN FALSE ELSE lapsed[k]]
  /\ attempts' = [attempts EXCEPT ![j] = @ + 1]
  /\ generation' = [generation EXCEPT ![j] = NextGeneration(j)]
  /\ pc' = [pc EXCEPT ![w] = "claimed"]
  /\ claim' = [claim EXCEPT ![w] = j]
  /\ token' = [token EXCEPT ![w] = NextGeneration(j)]
  /\ UNCHANGED <<backoff, cancel, ledger, pages, page, code, budgets>>

ClaimNothing(w) ==
  /\ pc[w] = "claiming"
  /\ \A j \in Jobs : ~Claimable(j)
  /\ state' = [k \in Jobs |-> Recovered(k)]
  /\ owner' = [k \in Jobs |-> IF Stale(k) THEN None ELSE owner[k]]
  /\ lapsed' = [k \in Jobs |-> IF Stale(k) THEN FALSE ELSE lapsed[k]]
  /\ pc' = [pc EXCEPT ![w] = "idle"]
  /\ UNCHANGED <<attempts, generation, backoff, cancel, ledger, pages,
                 claim, token, page, code, budgets>>

--------------------------------------------------------------------------------
(* Worker: one execution *)

\* The claim is still the row's lease: what finish_job and retry_job test.
Fenced(w) ==
  /\ owner[claim[w]] = w
  /\ generation[claim[w]] = token[w]

\* An exception outside _execute ends run_forever, hence the process.
WorkerDown(w) ==
  /\ pc' = [pc EXCEPT ![w] = "down"]
  /\ claim' = [claim EXCEPT ![w] = None]
  /\ token' = [token EXCEPT ![w] = 0]
  /\ page' = [page EXCEPT ![w] = 1]
  /\ code' = [code EXCEPT ![w] = None]

RunOnceReturns(w) ==
  /\ pc' = [pc EXCEPT ![w] = "idle"]
  /\ claim' = [claim EXCEPT ![w] = None]
  /\ token' = [token EXCEPT ![w] = 0]
  /\ page' = [page EXCEPT ![w] = 1]
  /\ code' = [code EXCEPT ![w] = None]

SettleWith(w, c) ==
  /\ pc' = [pc EXCEPT ![w] = "settling"]
  /\ code' = [code EXCEPT ![w] = c]
  /\ UNCHANGED <<columns, ledger, pages, claim, token, page, budgets>>

GoOn(w, next) ==
  /\ pc' = [pc EXCEPT ![w] = next]
  /\ UNCHANGED <<columns, ledger, pages, claim, token, page, code, budgets>>

MarkRunning(w) ==
  /\ pc[w] = "claimed"
  /\ \/ /\ Fenced(w)
        /\ state[claim[w]] = "leased"
        /\ state' = [state EXCEPT ![claim[w]] = "running"]
        /\ pc' = [pc EXCEPT ![w] = "marked"]
        /\ UNCHANGED <<claim, token, page, code>>
     \/ /\ ~Fenced(w) \/ state[claim[w]] # "leased"
        /\ WorkerDown(w)
        /\ UNCHANGED state
  /\ UNCHANGED <<attempts, generation, owner, lapsed, backoff, cancel, ledger, pages, budgets>>

CheckBeforeEffect(w) ==
  /\ pc[w] = "marked"
  /\ \/ /\ generation[claim[w]] = token[w]
        /\ IF cancel[claim[w]] = "requested"
             THEN SettleWith(w, "job_cancelled_before_effect")
             ELSE GoOn(w, "opening")
     \/ /\ generation[claim[w]] # token[w]
        /\ WorkerDown(w)
        /\ UNCHANGED <<columns, ledger, pages, budgets>>

\* _execute up to its first page: a missing object is the retryable failure, a
\* bad one or an unsupported kind the deterministic one, anything else I/O.
OpenSource(w) ==
  /\ pc[w] = "opening"
  /\ \/ GoOn(w, "checkpoint")
     \/ GoOn(w, "retrying")
     \/ \E c \in {"deterministic_failure", "worker_io_unavailable"} : SettleWith(w, c)

\* Mutated form of AllPagesDone: the loop ends a page early.
OnePageShort(w)   == page[w] >= Pages
AllPagesDone(w)   == page[w] > Pages

\* A rejected read of the cancellation state is raised inside _execute and is
\* settled as an I/O failure.
Checkpoint(w) ==
  /\ pc[w] = "checkpoint"
  /\ \/ /\ AllPagesDone(w)
        /\ SettleWith(w, "job_succeeded")
     \/ /\ ~AllPagesDone(w)
        /\ IF generation[claim[w]] # token[w]
             THEN SettleWith(w, "worker_io_unavailable")
             ELSE IF cancel[claim[w]] = "requested"
                    THEN SettleWith(w, "job_cancelled_at_safe_checkpoint")
                    ELSE GoOn(w, "extracting")

\* put_derived, record_document_page and report_progress: none of them reads
\* the lease, and a page already recorded is left as it is.
RecordPage(w) ==
  /\ pc[w] = "extracting"
  /\ pages' = [pages EXCEPT ![claim[w]] = @ \cup {page[w]}]
  /\ pc' = [pc EXCEPT ![w] = "heartbeat"]
  /\ UNCHANGED <<columns, ledger, claim, token, page, code, budgets>>

ExtractionFails(w) ==
  /\ pc[w] = "extracting"
  /\ \E c \in {"deterministic_failure", "worker_io_unavailable"} : SettleWith(w, c)

Heartbeat(w) ==
  /\ pc[w] = "heartbeat"
  /\ \/ /\ Fenced(w)
        /\ state[claim[w]] = "running"
        /\ lapsed' = [lapsed EXCEPT ![claim[w]] = FALSE]
        /\ page' = [page EXCEPT ![w] = @ + 1]
        /\ pc' = [pc EXCEPT ![w] = "checkpoint"]
        /\ UNCHANGED <<state, attempts, generation, owner, backoff, cancel, ledger, pages,
                       claim, token, code, budgets>>
     \/ /\ ~Fenced(w) \/ state[claim[w]] # "running"
        /\ SettleWith(w, "worker_io_unavailable")

RetryJob(w) ==
  /\ pc[w] = "retrying"
  /\ \/ /\ ~Fenced(w)
        /\ WorkerDown(w)
        /\ UNCHANGED <<columns, ledger, pages, budgets>>
     \/ /\ Fenced(w)
        /\ attempts[claim[w]] >= MaxAttempts
        /\ SettleWith(w, "retry_exhausted")
     \/ /\ Fenced(w)
        /\ attempts[claim[w]] < MaxAttempts
        /\ state' = [state EXCEPT ![claim[w]] = "queued"]
        /\ owner' = [owner EXCEPT ![claim[w]] = None]
        /\ lapsed' = [lapsed EXCEPT ![claim[w]] = FALSE]
        /\ backoff' = [backoff EXCEPT ![claim[w]] = TRUE]
        /\ RunOnceReturns(w)
        /\ UNCHANGED <<attempts, generation, cancel, ledger, pages, budgets>>

FinishJob(w) ==
  LET j == claim[w] IN
  /\ pc[w] = "settling"
  /\ \/ /\ Terminal(j)
        /\ RunOnceReturns(w)
        /\ UNCHANGED <<columns, ledger>>
     \/ /\ ~Terminal(j) /\ ~Fenced(w)
        /\ WorkerDown(w)
        /\ UNCHANGED <<columns, ledger>>
     \/ /\ ~Terminal(j) /\ Fenced(w)
        /\ SettleRows({j}, [k \in {j} |-> code[w]])
        /\ receipts' = receipts \cup {Receipt(j, code[w])}
        /\ cancel' = [cancel EXCEPT ![j] = IF code[w] \in CancelCodes
                                             THEN "acknowledged" ELSE @]
        /\ RunOnceReturns(w)
  /\ UNCHANGED <<pages, budgets>>

--------------------------------------------------------------------------------
(* Owner commands and the reset fence *)

Command ==
  /\ commands > 0
  /\ commands' = commands - 1
  /\ UNCHANGED <<pages, workerVars, crashes>>

\* A terminal job makes the command return without effect.
RequestCancellation(j) ==
  /\ Command
  /\ \/ /\ state[j] \in {"queued", "paused"}
        /\ SettleRows({j}, [k \in {j} |-> "job_cancelled_before_effect"])
        /\ receipts' = receipts \cup {Receipt(j, "job_cancelled_before_effect")}
        /\ cancel' = [cancel EXCEPT ![j] = "acknowledged"]
     \/ /\ state[j] \in HeldStates
        /\ cancel' = [cancel EXCEPT ![j] = "requested"]
        /\ UNCHANGED <<state, attempts, generation, owner, lapsed, backoff, ledger>>

\* The digest of a control decision covers the job, the action and the states:
\* a second decision with the same digest is dropped by ON CONFLICT DO NOTHING.
ControlDecision(j, action) == [job |-> j, action |-> action]

ChangeControlState(j, action, expected, target) ==
  /\ Command
  /\ state[j] = expected
  /\ state' = [state EXCEPT ![j] = target]
  /\ backoff' = [backoff EXCEPT ![j] = FALSE]
  /\ decisions' = decisions \cup {ControlDecision(j, action)}
  /\ UNCHANGED <<attempts, generation, owner, lapsed, cancel, receipts>>

PauseJob(j)  == ChangeControlState(j, "pause", "queued", "paused")
ResumeJob(j) == ChangeControlState(j, "resume", "paused", "queued")

\* The derived job gets a row of its own, and none of the dependencies of j.
ManuallyRetryJob(j, derived) ==
  /\ Command
  /\ state[j] \in FailureStates
  /\ state[derived] = "absent"
  /\ state' = [state EXCEPT ![derived] = "queued"]
  /\ decisions' = decisions \cup {ControlDecision(derived, "manual_retry")}
  /\ UNCHANGED <<attempts, generation, owner, lapsed, backoff, cancel, receipts>>

CancelJobsForReset ==
  LET remaining == {j \in Jobs : Open(j)} IN
  /\ Command
  /\ remaining # {}
  /\ SettleRows(remaining, [j \in remaining |-> "workspace_reset_fence"])
  /\ receipts' = receipts \cup {Receipt(j, "workspace_reset_fence") : j \in remaining}
  /\ cancel' = [j \in Jobs |-> IF j \in remaining THEN "acknowledged" ELSE cancel[j]]

--------------------------------------------------------------------------------
(* Time and process loss *)

LeaseLapses(j) ==
  /\ state[j] \in HeldStates
  /\ ~lapsed[j]
  /\ lapsed' = [lapsed EXCEPT ![j] = TRUE]
  /\ UNCHANGED <<state, attempts, generation, owner, backoff, cancel, ledger, pages,
                 workerVars, budgets>>

BackoffElapses(j) ==
  /\ backoff[j]
  /\ backoff' = [backoff EXCEPT ![j] = FALSE]
  /\ UNCHANGED <<state, attempts, generation, owner, lapsed, cancel, ledger, pages,
                 workerVars, budgets>>

Crash(w) ==
  /\ crashes > 0
  /\ pc[w] # "down"
  /\ crashes' = crashes - 1
  /\ WorkerDown(w)
  /\ UNCHANGED <<columns, ledger, pages, commands>>

Restart(w) ==
  /\ pc[w] = "down"
  /\ pc' = [pc EXCEPT ![w] = "idle"]
  /\ UNCHANGED <<columns, ledger, pages, claim, token, page, code, budgets>>

--------------------------------------------------------------------------------
Init ==
  /\ state = [j \in Jobs |-> IF j \in Enqueued THEN "queued" ELSE "absent"]
  /\ attempts = [j \in Jobs |-> 0]
  /\ generation = [j \in Jobs |-> 0]
  /\ owner = [j \in Jobs |-> None]
  /\ lapsed = [j \in Jobs |-> FALSE]
  /\ backoff = [j \in Jobs |-> FALSE]
  /\ cancel = [j \in Jobs |-> "none"]
  /\ receipts = {}
  /\ decisions = {}
  /\ pages = [j \in Jobs |-> {}]
  /\ pc = [w \in Workers |-> "idle"]
  /\ claim = [w \in Workers |-> None]
  /\ token = [w \in Workers |-> 0]
  /\ page = [w \in Workers |-> 1]
  /\ code = [w \in Workers |-> None]
  /\ commands = MaxCommands
  /\ crashes = MaxCrashes

WorkerStep(w) ==
  \/ Reconcile(w)
  \/ ReconcileDone(w)
  \/ \E j \in Jobs : Claim(w, j)
  \/ ClaimNothing(w)
  \/ MarkRunning(w)
  \/ CheckBeforeEffect(w)
  \/ OpenSource(w)
  \/ Checkpoint(w)
  \/ RecordPage(w)
  \/ ExtractionFails(w)
  \/ Heartbeat(w)
  \/ RetryJob(w)
  \/ FinishJob(w)

OwnerStep ==
  \/ \E j \in Jobs : RequestCancellation(j)
  \/ \E j \in Jobs : PauseJob(j)
  \/ \E j \in Jobs : ResumeJob(j)
  \/ \E j, d \in Jobs : ManuallyRetryJob(j, d)
  \/ CancelJobsForReset

Environment ==
  \/ \E j \in Jobs : LeaseLapses(j)
  \/ \E j \in Jobs : BackoffElapses(j)
  \/ \E w \in Workers : Crash(w)

Next ==
  \/ \E w \in Workers : WorkerStep(w)
  \/ \E w \in Workers : Restart(w)
  \/ OwnerStep
  \/ Environment

Spec == Init /\ [][Next]_vars

\* run_forever keeps calling run_once, the supervisor restarts a worker that
\* died, and time passes. Owners and crashes are not fair.
FairSpec ==
  /\ Spec
  /\ \A w \in Workers : WF_vars(WorkerStep(w)) /\ WF_vars(Restart(w))
  /\ \A j \in Jobs : WF_vars(LeaseLapses(j)) /\ WF_vars(BackoffElapses(j))

--------------------------------------------------------------------------------
Stages == {"idle", "claiming", "claimed", "marked", "opening", "checkpoint",
           "extracting", "heartbeat", "retrying", "settling", "down"}
Receipts == [job : Jobs, code : Codes, generation : Nat]
Actions == {"pause", "resume", "manual_retry"}

\* Every variable stays in its domain.
TypeOK ==
  /\ state \in [Jobs -> JobStates]
  /\ attempts \in [Jobs -> Nat]
  /\ generation \in [Jobs -> Nat]
  /\ owner \in [Jobs -> Workers \cup {None}]
  /\ lapsed \in [Jobs -> BOOLEAN]
  /\ backoff \in [Jobs -> BOOLEAN]
  /\ cancel \in [Jobs -> CancelStates]
  /\ receipts \subseteq Receipts
  /\ decisions \subseteq [job : Jobs, action : Actions]
  /\ pages \in [Jobs -> SUBSET (1 .. Pages)]
  /\ pc \in [Workers -> Stages]
  /\ claim \in [Workers -> Jobs \cup {None}]
  /\ token \in [Workers -> Nat]
  /\ page \in [Workers -> 1 .. Pages + 1]
  /\ code \in [Workers -> Codes \cup {None}]
  /\ commands \in 0 .. MaxCommands
  /\ crashes \in 0 .. MaxCrashes

Active(w) == pc[w] \notin {"idle", "claiming", "down"}

\* A lease owner is recorded exactly while the job is leased or running, and only
\* a held lease can have lapsed: no path that requeues or settles leaves one behind.
LeaseShape ==
  \A j \in Jobs :
    /\ owner[j] # None <=> state[j] \in HeldStates
    /\ lapsed[j] => state[j] \in HeldStates

\* A job is terminal exactly when its one receipt is written, and the receipt says
\* the state the row is in: the UNIQUE constraint and the receipt guard never bite.
ReceiptSettles ==
  \A j \in Jobs :
    LET mine == {r \in receipts : r.job = j} IN
    /\ Terminal(j) <=> mine # {}
    /\ \A r \in mine : Verdict(r.code) = state[j]
    /\ \A r, q \in mine : r = q

\* A job that was ever handed to a worker and is not back in the queue has all of its
\* prerequisites succeeded, however leases lapsed and were reclaimed meanwhile.
PrerequisitesMet ==
  \A j \in Jobs : state[j] \in HeldStates \cup {"succeeded"} =>
    \A p \in Prerequisites(j) : state[p] = "succeeded"

\* A job waiting in the queue always has an attempt left, so exhaustion can only be
\* met by a worker that holds it or by the reconciler, never by a silent row.
WaitingHasAttempts ==
  \A j \in Jobs :
    /\ attempts[j] <= MaxAttempts
    /\ state[j] \in {"queued", "paused"} => attempts[j] < MaxAttempts

\* Two workers that believe they execute the same job carry different generations,
\* so at most one of them passes the fence.
ExecutionsAreFenced ==
  \A v, w \in Workers :
    v # w /\ Active(v) /\ Active(w) /\ claim[v] = claim[w] => token[v] # token[w]

\* A success receipt means every page was recorded by some execution of the job:
\* a worker that lost its lease, crashed or was retried cannot turn partial output
\* into success.
SuccessIsComplete ==
  \A r \in receipts : r.code = "job_succeeded" => pages[r.job] = 1 .. Pages

\* What the stage of an executing worker says about its job: the claim names a job, the
\* token is one of its generations, passing the fence after mark_job_running means the
\* job is running, and every page before the one in hand is recorded.
ExecutionShape(w) ==
  /\ Active(w) => claim[w] \in Jobs /\ token[w] \in 1 .. generation[claim[w]]
  /\ Active(w) /\ pc[w] # "claimed" /\ Fenced(w) => state[claim[w]] = "running"
  /\ pc[w] \notin {"checkpoint", "extracting", "heartbeat", "settling"} => page[w] = 1
  /\ pc[w] \in {"checkpoint", "extracting"} => 1 .. page[w] - 1 \subseteq pages[claim[w]]
  /\ pc[w] = "heartbeat" => 1 .. page[w] \subseteq pages[claim[w]]
  /\ pc[w] \in {"extracting", "heartbeat"} => page[w] <= Pages
  /\ pc[w] = "settling" =>
       /\ code[w] \in Codes
       /\ code[w] = "job_succeeded" => 1 .. Pages \subseteq pages[claim[w]]

\* The inductive invariant behind the safety properties of the queue.
IInv ==
  /\ TypeOK
  /\ LeaseShape
  /\ ReceiptSettles
  /\ PrerequisitesMet
  /\ WaitingHasAttempts
  /\ ExecutionsAreFenced
  /\ SuccessIsComplete
  /\ \A w \in Workers : ExecutionShape(w)
  /\ \A j \in Jobs : state[j] = "absent" => attempts[j] = 0

\* A terminal row never changes again and its receipt is never rewritten.
SettledForever ==
  [][\A j \in Jobs : Terminal(j) =>
       /\ state'[j] = state[j]
       /\ {r \in receipts' : r.job = j} = {r \in receipts : r.job = j}]_vars

\* While a lease is live, only its holder, at the end of its own execution, or the
\* reset fence ends it: nobody else settles, requeues or reclaims the job.
LiveLeaseRespected ==
  [][\A j \in Jobs :
       /\ state[j] \in HeldStates /\ ~lapsed[j]
       /\ state'[j] \notin HeldStates \/ generation'[j] # generation[j]
       =>
         \/ \E w \in Workers :
              /\ claim[w] = j /\ Fenced(w)
              /\ pc[w] \in {"settling", "retrying"} /\ pc'[w] = "idle"
         \/ \E r \in receipts' : r.job = j /\ r.code = "workspace_reset_fence"]_vars

\* The jobs whose outcome j waits for, itself included.
Upstream(j) ==
  {k \in Jobs : \A S \in SUBSET Jobs :
     j \in S /\ (\A i \in S : Prerequisites(i) \subseteq S) => k \in S}

\* An owner's pause, or a cancellation request that a retry carried back into the
\* queue, keeps a job where no worker picks it up.
Withheld(j) ==
  \/ state[j] = "paused"
  \/ state[j] = "queued" /\ cancel[j] = "requested"

\* Every admitted job is settled unless it, or a job it waits for, is withheld:
\* crashes, lapsed leases, backoff and failed prerequisites never strand one.
JobsSettle ==
  \A j \in Jobs :
    Open(j) ~> (Terminal(j) \/ \E k \in Upstream(j) : Withheld(k))

\* Every job moves along the documented state machine.
Lifecycle == INSTANCE JobLifecycle
FollowsLifecycle == Lifecycle!Spec

--------------------------------------------------------------------------------
(* A statement of the repository that the code does not meet *)

\* "explicit pause/cancel/retry and terminal success/failure/reconciliation": a
\* requested cancellation leads to a terminal state.
CancellationSettles ==
  \A j \in Jobs : cancel[j] = "requested" ~> Terminal(j)
================================================================================
