-------------------------------- MODULE NtdRecovery --------------------------------
(***************************************************************************)
(* Recovery of scanned pages of public norms by a paid external provider.  *)
(* Runs of the batch tool (drivers) settle what earlier runs left behind,  *)
(* queue a job for every page without one, claim jobs one by one and start *)
(* a child process for each. The child writes page versions and receipts   *)
(* in transactions of its own and survives the loss of its driver. Every   *)
(* job is executed at most once. Heartbeats are left out: nothing reads    *)
(* them, and they do not extend the lease.                                 *)
(***************************************************************************)
EXTENDS Naturals, Sequences, FiniteSets

CONSTANTS Pages, Drivers, None,
          MaxVersion,                 \* page versions that a job may be queued for
          MaxInventories, MaxLosses   \* bounds of the model

ASSUME BoundsAssumption == MaxVersion \in Nat /\ MaxInventories \in Nat /\ MaxLosses \in Nat

Jobs == Pages \X (1..MaxVersion)   \* named by page and page version
ASSUME NoneAssumption == None \notin Jobs \cup Drivers

VARIABLES
  versions, \* each page: the outcomes of its representations, the latest one last
  receipts, \* provider receipts: page and page version
  paid,     \* external: executions of the provider for each page
  state, attempts, owner, \* rows of the jobs
  lapsed,   \* jobs whose lease has expired
  older,    \* <<j, k>>: job j was created before job k
  pc, rows, job, \* each driver: its step, the jobs to insert, the one it waits for
  step, seen, result, \* each job's child: its step, a page version it has read, its outcome
  inventories, losses

pages  == <<versions, receipts, paid>>
queue  == <<state, attempts, owner, lapsed, older>>
driver == <<pc, rows, job>>
child  == <<step, seen, result>>
bounds == <<inventories, losses>>
vars == <<pages, queue, driver, child, bounds>>

Terminal == {"succeeded", "failed", "cancelled", "reconciliation_required"}
States   == {"absent", "queued", "running"} \cup Terminal

Page(j)     == j[1]
Latest(p)   == versions[p][Len(versions[p])]
InQueue     == {j \in Jobs : state[j] # "absent"}
Received(p) == \E r \in receipts : r[1] = p

--------------------------------------------------------------------------------
(* The batch tool *)

\* Mutated form of Expired: as if no job were ever left in the state running.
ExpiredLeasedOnly == {j \in Jobs : state[j] = "leased" /\ lapsed[j]}

Expired == {j \in Jobs : state[j] \in {"leased", "running"} /\ lapsed[j]}

\* Mutated form of Settled: an expired job goes back to the queue.
SettledByRetry(s) == "queued"

Settled(s) == "reconciliation_required"

ReconcileExpired(d) ==
  /\ pc[d] = "idle"
  /\ state' = [j \in Jobs |-> IF j \in Expired THEN Settled(state[j]) ELSE state[j]]
  /\ owner' = [j \in Jobs |-> IF j \in Expired THEN None ELSE owner[j]]
  /\ lapsed' = [j \in Jobs |-> lapsed[j] /\ j \notin Expired]
  /\ pc' = [pc EXCEPT ![d] = "duplicates"]
  /\ UNCHANGED <<pages, attempts, older, rows, job, child, bounds>>

Duplicate(j) ==
  \E k \in InQueue \ {j} : Page(k) = Page(j) /\ (attempts[k] > 0 \/ <<k, j>> \in older)

ReconcileDuplicates(d) ==
  /\ pc[d] = "duplicates"
  /\ state' = [j \in Jobs |-> IF state[j] = "queued" /\ Duplicate(j)
                                THEN "reconciliation_required" ELSE state[j]]
  /\ pc' = [pc EXCEPT ![d] = "enqueue"]
  /\ UNCHANGED <<pages, attempts, owner, lapsed, older, rows, job, child, bounds>>

\* The other use of the tool: what was never attempted is cancelled.
CancelUnqualified(d) ==
  /\ pc[d] = "enqueue"
  /\ state' = [j \in Jobs |-> IF state[j] = "queued" /\ attempts[j] = 0
                                THEN "cancelled" ELSE state[j]]
  /\ pc' = [pc EXCEPT ![d] = "idle"]
  /\ UNCHANGED <<pages, attempts, owner, lapsed, older, rows, job, child, bounds>>

\* Mutated form of Pending: a page has a job only if its latest version has one.
PendingByVersion == {j \in Jobs : /\ j[2] = Len(versions[j[1]])
                                  /\ Latest(j[1]) # "complete" /\ j \notin InQueue}

Pending == {j \in Jobs : /\ j[2] = Len(versions[j[1]]) /\ Latest(j[1]) # "complete"
                         /\ \A k \in InQueue : Page(k) # Page(j)}

\* enqueue_pending_raster_pages reads the pages on one connection ...
ReadPages(d) ==
  /\ pc[d] = "enqueue"
  /\ rows' = [rows EXCEPT ![d] = Pending]
  /\ pc' = [pc EXCEPT ![d] = "insert"]
  /\ UNCHANGED <<pages, queue, job, child, bounds>>

\* ... and inserts them on another. The times of creation were taken before the reading.
\* A run that was asked to do no more than that ends here.
InsertJobs(d, next) ==
  /\ pc[d] = "insert"
  /\ LET new == {j \in rows[d] : state[j] = "absent"}
         twins == {jk \in InQueue \X new : Page(jk[1]) = Page(jk[2])}
     IN /\ state' = [j \in Jobs |-> IF j \in new THEN "queued" ELSE state[j]]
        /\ \E before \in SUBSET twins :
             older' = older \cup before \cup {<<jk[2], jk[1]>> : jk \in twins \ before}
  /\ rows' = [rows EXCEPT ![d] = {}]
  /\ pc' = [pc EXCEPT ![d] = next]
  /\ UNCHANGED <<pages, attempts, owner, lapsed, job, child, bounds>>

ClaimNext(d) ==
  /\ pc[d] = "claim"
  /\ \E j \in {k \in Jobs : state[k] = "queued"} :
       /\ state' = [state EXCEPT ![j] = "running"]
       /\ attempts' = [attempts EXCEPT ![j] = @ + 1]
       /\ owner' = [owner EXCEPT ![j] = d]
       /\ job' = [job EXCEPT ![d] = j]
       /\ step' = [step EXCEPT ![j] = "find"]
  /\ pc' = [pc EXCEPT ![d] = "wait"]
  /\ UNCHANGED <<pages, lapsed, older, rows, seen, result, bounds>>

ClaimNothing(d) ==
  /\ pc[d] = "claim" /\ \A j \in Jobs : state[j] # "queued"
  /\ pc' = [pc EXCEPT ![d] = "idle"]
  /\ UNCHANGED <<pages, queue, rows, job, child, bounds>>

Fenced(d) == state[job[d]] # "running" \/ owner[job[d]] # d

\* The child has ended; its result counts unless the job was settled meanwhile, which
\* ends the run. After a result the run goes on until it reaches its limit.
Terminalize(d) ==
  /\ pc[d] = "wait" /\ step[job[d]] = "exited"
  /\ IF Fenced(d)
       THEN pc' = [pc EXCEPT ![d] = "idle"] /\ UNCHANGED <<state, owner, lapsed>>
       ELSE /\ state' = [state EXCEPT ![job[d]] = result[job[d]]]
            /\ owner' = [owner EXCEPT ![job[d]] = None]
            /\ lapsed' = [lapsed EXCEPT ![job[d]] = FALSE]
            /\ \E next \in {"claim", "idle"} : pc' = [pc EXCEPT ![d] = next]
  /\ job' = [job EXCEPT ![d] = None]
  /\ UNCHANGED <<pages, attempts, older, rows, child, bounds>>

\* subprocess.run kills the child and raises, which ends the run.
ChildTimesOut(d) ==
  /\ pc[d] = "wait" /\ step[job[d]] # "exited"
  /\ step' = [step EXCEPT ![job[d]] = "exited"]
  /\ pc' = [pc EXCEPT ![d] = "idle"]
  /\ job' = [job EXCEPT ![d] = None]
  /\ UNCHANGED <<pages, queue, rows, seen, result, bounds>>

\* The driver is lost; its child goes on.
DriverLost(d) ==
  /\ pc[d] # "idle" /\ losses < MaxLosses
  /\ pc' = [pc EXCEPT ![d] = "idle"]
  /\ rows' = [rows EXCEPT ![d] = {}]
  /\ job' = [job EXCEPT ![d] = None]
  /\ losses' = losses + 1
  /\ UNCHANGED <<pages, queue, child, inventories>>

LeaseLapses(j) ==
  /\ state[j] = "running" /\ ~lapsed[j]
  /\ lapsed' = [lapsed EXCEPT ![j] = TRUE]
  /\ UNCHANGED <<pages, state, attempts, owner, older, driver, child, bounds>>

--------------------------------------------------------------------------------
(* The child process *)

Goto(j, s) == step' = [step EXCEPT ![j] = s] /\ UNCHANGED result

Exit(j, r) ==
  /\ step' = [step EXCEPT ![j] = "exited"]
  /\ result' = [result EXCEPT ![j] = r]

\* A candidate that is already paid for is used again; without a credential nothing is asked.
FindCandidate(j) ==
  /\ step[j] = "find"
  /\ IF Received(Page(j)) THEN Exit(j, "succeeded")
     ELSE Goto(j, "failed") \/ Exit(j, "failed")
  /\ UNCHANGED <<pages, queue, driver, seen, bounds>>

\* Recording an outcome reads the latest version, and is done if it says the same ...
Outcomes == {"failed", "complete"}
Writing(o) == IF o = "failed" THEN "write_failed" ELSE "write_complete"
Written(o) == IF o = "failed" THEN "latest" ELSE "done"

ReadPrior(j, o) ==
  /\ step[j] = o
  /\ seen' = [seen EXCEPT ![j] = Len(versions[Page(j)])]
  /\ Goto(j, IF Latest(Page(j)) = o THEN Written(o) ELSE Writing(o))
  /\ UNCHANGED <<pages, queue, driver, bounds>>

\* ... or inserts the next one, which the primary key refuses if somebody else has. The
\* error is not caught: the child ends without an output, which counts as a failure.
WriteVersion(j, o) ==
  /\ step[j] = Writing(o)
  /\ IF Len(versions[Page(j)]) = seen[j]
       THEN /\ versions' = [versions EXCEPT ![Page(j)] = Append(@, o)]
            /\ Goto(j, Written(o))
       ELSE Exit(j, "failed") /\ UNCHANGED versions
  /\ UNCHANGED <<receipts, paid, queue, driver, seen, bounds>>

LatestPageVersion(j) ==
  /\ step[j] = "latest"
  /\ seen' = [seen EXCEPT ![j] = Len(versions[Page(j)])]
  /\ Goto(j, "extract")
  /\ UNCHANGED <<pages, queue, driver, bounds>>

\* One request: it is not sent, or executed and then answered, refused or lost.
Extract(j) ==
  /\ step[j] = "extract"
  /\ \/ Exit(j, "failed") /\ UNCHANGED paid
     \/ /\ paid' = [paid EXCEPT ![Page(j)] = @ + 1]
        /\ Goto(j, "record") \/ Exit(j, "failed") \/ Exit(j, "reconciliation_required")
  /\ UNCHANGED <<versions, receipts, queue, driver, seen, bounds>>

\* Mutated form of RecordCandidate: the page is completed before its candidate is stored.
RecordCandidateLater(j) ==
  /\ step[j] \in {"record", "done"}
  /\ IF step[j] = "record" THEN Goto(j, "complete") /\ UNCHANGED receipts
     ELSE Exit(j, "succeeded") /\ receipts' = receipts \cup {<<Page(j), seen[j]>>}
  /\ UNCHANGED <<versions, paid, queue, driver, seen, bounds>>

RecordCandidate(j) ==
  /\ step[j] = "record"
  /\ receipts' = receipts \cup {<<Page(j), seen[j]>>}
  /\ Goto(j, "complete")
  /\ UNCHANGED <<versions, paid, queue, driver, seen, bounds>>

ReportCandidate(j) ==
  /\ step[j] = "done"
  /\ Exit(j, "succeeded")
  /\ UNCHANGED <<pages, queue, driver, seen, bounds>>

ChildStep(j) ==
  \/ FindCandidate(j) \/ LatestPageVersion(j) \/ Extract(j)
  \/ RecordCandidate(j) \/ ReportCandidate(j)
  \/ \E o \in Outcomes : ReadPrior(j, o) \/ WriteVersion(j, o)

\* The inventory of an artifact is taken again, by another tool.
Reinventory(p) ==
  /\ inventories < MaxInventories /\ Latest(p) # "inventoried"
  /\ versions' = [versions EXCEPT ![p] = Append(@, "inventoried")]
  /\ inventories' = inventories + 1
  /\ UNCHANGED <<receipts, paid, queue, driver, child, losses>>

--------------------------------------------------------------------------------
Init ==
  /\ versions = [p \in Pages |-> <<"inventoried">>]
  /\ receipts = {} /\ paid = [p \in Pages |-> 0]
  /\ state = [j \in Jobs |-> "absent"] /\ attempts = [j \in Jobs |-> 0]
  /\ owner = [j \in Jobs |-> None] /\ lapsed = [j \in Jobs |-> FALSE] /\ older = {}
  /\ pc = [d \in Drivers |-> "idle"] /\ rows = [d \in Drivers |-> {}]
  /\ job = [d \in Drivers |-> None]
  /\ step = [j \in Jobs |-> "none"] /\ seen = [j \in Jobs |-> 0]
  /\ result = [j \in Jobs |-> "failed"]
  /\ inventories = 0 /\ losses = 0

DriverStep(d) ==
  \/ ReconcileExpired(d) \/ ReconcileDuplicates(d) \/ ReadPages(d) \/ InsertJobs(d, "claim")
  \/ ClaimNext(d) \/ ClaimNothing(d) \/ Terminalize(d)

Next ==
  \/ \E d \in Drivers : \/ DriverStep(d) \/ InsertJobs(d, "idle") \/ CancelUnqualified(d)
                        \/ ChildTimesOut(d) \/ DriverLost(d)
  \/ \E j \in Jobs : ChildStep(j) \/ LeaseLapses(j)
  \/ \E p \in Pages : Reinventory(p)

Spec == Init /\ [][Next]_vars

\* The operator starts the tool again and again, now and then to process; processes go on
\* until they are lost, and time passes.
FairSpec ==
  /\ Spec
  /\ \A d \in Drivers : /\ WF_vars(DriverStep(d))
                        /\ SF_vars(ReadPages(d)) /\ SF_vars(InsertJobs(d, "claim"))
  /\ \A j \in Jobs : WF_vars(ChildStep(j)) /\ WF_vars(LeaseLapses(j))

--------------------------------------------------------------------------------
(* Properties *)

\* Every variable stays in its domain; in particular a row has a lease exactly while it runs
\* and has been attempted exactly when it has left the queue by a claim.
TypeOK ==
  /\ versions \in [Pages -> Seq({"inventoried"} \cup Outcomes)]
  /\ receipts \subseteq Pages \X Nat /\ paid \in [Pages -> Nat]
  /\ state \in [Jobs -> States] /\ attempts \in [Jobs -> 0..1]
  /\ owner \in [Jobs -> Drivers \cup {None}] /\ lapsed \in [Jobs -> BOOLEAN]
  /\ \A j \in Jobs : (owner[j] # None) = (state[j] = "running")
  /\ older \subseteq Jobs \X Jobs
  /\ pc \in [Drivers -> {"idle", "duplicates", "enqueue", "insert", "claim", "wait"}]
  /\ rows \in [Drivers -> SUBSET Jobs] /\ job \in [Drivers -> Jobs \cup {None}]
  /\ step \in [Jobs -> {"none", "find", "failed", "write_failed", "latest", "extract", "record",
                        "complete", "write_complete", "done", "exited"}]
  /\ seen \in [Jobs -> Nat] /\ result \in [Jobs -> Terminal]
  /\ inventories \in 0..MaxInventories /\ losses \in 0..MaxLosses

\* The provider is paid for a page at most once for each inventory of it, whatever runs
\* are started, lost or overtaken, and however its answers get lost ("a completed provider
\* execution could otherwise be paid for twice").
PaidOncePerInventory ==
  \A p \in Pages : paid[p] <= 1 + inventories

\* A job is only reported as succeeded, and a page only as complete, with the candidate
\* that was paid for in store.
SuccessHasCandidate ==
  /\ \A j \in Jobs : state[j] = "succeeded" => Received(Page(j))
  /\ \A p \in Pages : Latest(p) = "complete" => Received(p)

\* Every job that is queued is settled in the end, by its driver or by a later one.
JobsSettle ==
  \A j \in Jobs : j \in InQueue ~> state[j] \in Terminal
================================================================================
