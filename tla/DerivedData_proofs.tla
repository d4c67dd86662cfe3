------------------------- MODULE DerivedData_proofs ---------------------------
(***************************************************************************)
(* Theorems about the three components whose workers derive data from what *)
(* is stored, and may overlap: NtdRecovery, for every set of pages and     *)
(* drivers and any number of page versions, inventories and lost drivers;  *)
(* AssistantTurns, as the instance Chat, for every set of turns and        *)
(* workers and any number of deltas and crashes; ProjectUnderstanding, as  *)
(* the instance Model, for every set of documents and workers, any chain   *)
(* of jobs and any number of reviews, requests and crashes.                *)
(***************************************************************************)
EXTENDS NtdRecovery, FiniteSetTheorems, TLAPS

USE BoundsAssumption, NoneAssumption

--------------------------------------------------------------------------------
(* The inductive invariant *)

\* A job that was never claimed has no child.
UnclaimedHaveNoChild ==
  \A j \in Jobs : state[j] \in {"absent", "queued"} => attempts[j] = 0 /\ step[j] = "none"

\* A driver that waits has a job, which was claimed.
DriversWaitForJobs ==
  \A d \in Drivers :
    pc[d] = "wait" => job[d] \in Jobs /\ state[job[d]] \notin {"absent", "queued"}

\* Before its first job a page gets versions from inventories only, and jobs are queued for
\* such versions: what the children write to a page does not give it another job.
JobsAreOfInventories ==
  /\ \A p \in Pages :
       (\A j \in InQueue : Page(j) # p) => Len(versions[p]) <= 1 + inventories
  /\ \A j \in InQueue : j[2] <= 1 + inventories
  /\ \A d \in Drivers : \A j \in rows[d] : j[2] <= 1 + inventories

AfterRequest == {"record", "complete", "write_complete", "done", "exited"}

\* Jobs of a page whose children are not going to ask the provider any more.
Spent(p) == {j \in Jobs : Page(j) = p /\ step[j] \in AfterRequest}

\* Every payment was made by a child of its own.
PaidByChildren == \A p \in Pages : paid[p] <= Cardinality(Spent(p))

\* The children's way to success leads over a stored candidate.
ResultsHaveCandidates ==
  \A j \in Jobs :
    step[j] \in {"complete", "write_complete", "done"} \/ result[j] = "succeeded"
      => Received(Page(j))

IInv ==
  /\ TypeOK
  /\ UnclaimedHaveNoChild
  /\ DriversWaitForJobs
  /\ JobsAreOfInventories
  /\ PaidByChildren
  /\ ResultsHaveCandidates
  /\ SuccessHasCandidate

--------------------------------------------------------------------------------
(* Jobs and the sets of them that are counted *)

\* A job is a page and one of its versions.
LEMMA JobParts == \A j \in Jobs : j[1] \in Pages /\ j[2] \in 1..MaxVersion /\ j = <<j[1], j[2]>>
BY DEF Jobs

\* The spent jobs of a page are finitely many, and no more than the versions they are for.
LEMMA SpentAreVersions ==
  ASSUME NEW p \in Pages
  PROVE  /\ IsFiniteSet(Spent(p)) /\ Cardinality(Spent(p)) \in Nat
         /\ \A n \in Nat : (\A j \in Spent(p) : j[2] <= n) => Cardinality(Spent(p)) <= n
<1>1. ASSUME NEW n \in Nat, \A j \in Spent(p) : j[2] <= n
      PROVE  IsFiniteSet(Spent(p)) /\ Cardinality(Spent(p)) <= n
  <2> DEFINE f == [j \in Spent(p) |-> j[2]]
  <2>1. f \in Injection(Spent(p), 1..n)
    <3>1. f \in [Spent(p) -> 1..n]
      BY <1>1, JobParts DEF Spent
    <3>2. \A j, k \in Spent(p) : f[j] = f[k] => j = k
      BY JobParts DEF Spent, Page
    <3> QED
      BY <3>1, <3>2 DEF Injection, IsInjective
  <2>2. IsFiniteSet(1..n) /\ Cardinality(1..n) = n
    BY FS_Interval
  <2> QED
    BY <2>1, <2>2, FS_Injection
<1>2. \A j \in Spent(p) : j[2] <= MaxVersion
  BY JobParts DEF Spent
<1>3. IsFiniteSet(Spent(p)) /\ Cardinality(Spent(p)) \in Nat
  BY <1>1, <1>2, FS_CardinalityType
<1> QED
  BY <1>1, <1>3

--------------------------------------------------------------------------------
(* Types *)

\* The words a child's step may take while it records an outcome.
LEMMA WritingSteps ==
  /\ Writing("failed") = "write_failed" /\ Writing("complete") = "write_complete"
  /\ Written("failed") = "latest" /\ Written("complete") = "done"
  /\ Outcomes = {"failed", "complete"}
BY DEF Writing, Written, Outcomes

\* Steps of the drivers keep the types.
LEMMA DriverTypes ==
  ASSUME TypeOK, UnclaimedHaveNoChild, DriversWaitForJobs, NEW d \in Drivers,
         \/ DriverStep(d) \/ InsertJobs(d, "idle") \/ CancelUnqualified(d)
         \/ ChildTimesOut(d) \/ DriverLost(d)
  PROVE  TypeOK'
<1> USE DEF TypeOK, pages, queue, driver, child, bounds
<1>1. CASE ReconcileExpired(d)
  BY <1>1 DEF ReconcileExpired, Expired, Settled, States, Terminal
<1>2. CASE ReconcileDuplicates(d)
  BY <1>2 DEF ReconcileDuplicates, States, Terminal
<1>3. CASE CancelUnqualified(d)
  BY <1>3 DEF CancelUnqualified, States, Terminal
<1>4. CASE ReadPages(d)
  BY <1>4 DEF ReadPages, Pending
<1>5. ASSUME NEW next \in {"claim", "idle"}, InsertJobs(d, next)
      PROVE  TypeOK'
  <2> DEFINE new == {j \in rows[d] : state[j] = "absent"}
             twins == {jk \in InQueue \X new : Page(jk[1]) = Page(jk[2])}
  <2>1. twins \subseteq Jobs \X Jobs
    BY DEF InQueue
  <2>2. older' \subseteq Jobs \X Jobs
    <3>1. PICK before \in SUBSET twins :
            older' = older \cup before \cup {<<jk[2], jk[1]>> : jk \in twins \ before}
      BY <1>5 DEF InsertJobs
    <3>2. \A jk \in twins : <<jk[2], jk[1]>> \in Jobs \X Jobs
      BY <2>1
    <3> QED
      BY <2>1, <3>1, <3>2
  <2>3. /\ state' \in [Jobs -> States]
        /\ \A j \in Jobs : (state'[j] = "running") = (state[j] = "running")
    BY <1>5 DEF InsertJobs, States
  <2> QED
    BY <1>5, <2>2, <2>3 DEF InsertJobs
<1>6. CASE ClaimNext(d)
  <2>1. PICK j \in Jobs :
          /\ state[j] = "queued" /\ state' = [state EXCEPT ![j] = "running"]
          /\ attempts' = [attempts EXCEPT ![j] = @ + 1] /\ owner' = [owner EXCEPT ![j] = d]
          /\ job' = [job EXCEPT ![d] = j] /\ step' = [step EXCEPT ![j] = "find"]
    BY <1>6 DEF ClaimNext
  <2>2. attempts[j] = 0
    BY <2>1 DEF UnclaimedHaveNoChild
  <2> QED
    BY <1>6, <2>1, <2>2 DEF ClaimNext, States
<1>7. CASE ClaimNothing(d)
  BY <1>7 DEF ClaimNothing
<1>8. CASE Terminalize(d)
  <2>1. job[d] \in Jobs /\ result[job[d]] \in Terminal
    BY <1>8 DEF Terminalize, DriversWaitForJobs
  <2>2. "running" \notin Terminal /\ Terminal \subseteq States
    BY DEF Terminal, States
  <2>3. /\ state' \in [Jobs -> States] /\ owner' \in [Jobs -> Drivers \cup {None}]
        /\ lapsed' \in [Jobs -> BOOLEAN]
        /\ \A k \in Jobs : (owner'[k] # None) = (state'[k] = "running")
    <3>1. CASE Fenced(d)
      BY <1>8, <3>1 DEF Terminalize
    <3>2. CASE ~Fenced(d)
      <4>1. /\ state' = [state EXCEPT ![job[d]] = result[job[d]]]
            /\ owner' = [owner EXCEPT ![job[d]] = None]
            /\ lapsed' = [lapsed EXCEPT ![job[d]] = FALSE]
        BY <1>8, <3>2 DEF Terminalize
      <4> QED
        BY <2>1, <2>2, <4>1
    <3> QED
      BY <3>1, <3>2
  <2>4. pc' \in [Drivers -> {"idle", "duplicates", "enqueue", "insert", "claim", "wait"}]
    <3>1. \E next \in {"claim", "idle"} : pc' = [pc EXCEPT ![d] = next]
      BY <1>8 DEF Terminalize
    <3> QED
      BY <3>1
  <2> QED
    BY <1>8, <2>3, <2>4 DEF Terminalize
<1>9. CASE ChildTimesOut(d)
  BY <1>9 DEF ChildTimesOut
<1>10. CASE DriverLost(d)
  BY <1>10 DEF DriverLost
<1> QED
  BY <1>1, <1>2, <1>3, <1>4, <1>5, <1>6, <1>7, <1>8, <1>9, <1>10 DEF DriverStep

\* Steps of the children keep the types.
LEMMA ChildTypes ==
  ASSUME TypeOK, NEW j \in Jobs, ChildStep(j) \/ LeaseLapses(j)
  PROVE  TypeOK'
<1> USE DEF TypeOK, pages, queue, driver, child, bounds, Goto, Exit, Page, Terminal
<1>0. Page(j) \in Pages /\ Len(versions[Page(j)]) \in Nat
  BY JobParts
<1>1. CASE FindCandidate(j)
  BY <1>1 DEF FindCandidate
<1>2. ASSUME NEW o \in Outcomes, ReadPrior(j, o)
      PROVE  TypeOK'
  BY <1>0, <1>2, WritingSteps DEF ReadPrior
<1>3. ASSUME NEW o \in Outcomes, WriteVersion(j, o)
      PROVE  TypeOK'
  <2>1. Append(versions[Page(j)], o) \in Seq({"inventoried"} \cup Outcomes)
    BY <1>0
  <2>2. versions' \in [Pages -> Seq({"inventoried"} \cup Outcomes)]
    BY <1>0, <1>3, <2>1 DEF WriteVersion
  <2>3. step' \in [Jobs -> {"none", "find", "failed", "write_failed", "latest", "extract", "record",
                            "complete", "write_complete", "done", "exited"}]
        /\ result' \in [Jobs -> Terminal]
    <3>1. \E k \in {"latest", "done", "exited"} : step' = [step EXCEPT ![j] = k]
      BY <1>3, WritingSteps DEF WriteVersion
    <3>2. result' = result \/ result' = [result EXCEPT ![j] = "failed"]
      BY <1>3 DEF WriteVersion
    <3>3. step' \in [Jobs -> {"none", "find", "failed", "write_failed", "latest", "extract",
                              "record", "complete", "write_complete", "done", "exited"}]
      BY <3>1
    <3>4. result' \in [Jobs -> Terminal]
      BY <3>2
    <3>5. QED
      BY <3>3, <3>4
  <2> QED
    BY <1>3, <2>2, <2>3 DEF WriteVersion
<1>4. CASE LatestPageVersion(j)
  BY <1>0, <1>4 DEF LatestPageVersion
<1>5. CASE Extract(j)
  <2>1. paid' \in [Pages -> Nat]
    <3>1. paid' = paid \/ paid' = [paid EXCEPT ![Page(j)] = @ + 1]
      BY <1>5 DEF Extract
    <3> QED
      BY <1>0, <3>1
  <2>2. step' \in [Jobs -> {"none", "find", "failed", "write_failed", "latest", "extract", "record",
                            "complete", "write_complete", "done", "exited"}]
        /\ result' \in [Jobs -> Terminal]
    BY <1>5 DEF Extract
  <2> QED
    BY <1>5, <2>1, <2>2 DEF Extract
<1>6. CASE RecordCandidate(j)
  BY <1>0, <1>6 DEF RecordCandidate
<1>7. CASE ReportCandidate(j)
  BY <1>7 DEF ReportCandidate
<1>8. CASE LeaseLapses(j)
  BY <1>8 DEF LeaseLapses
<1> QED
  BY <1>1, <1>2, <1>3, <1>4, <1>5, <1>6, <1>7, <1>8 DEF ChildStep

\* So does another inventory.
LEMMA InventoryTypes ==
  ASSUME TypeOK, NEW p \in Pages, Reinventory(p)
  PROVE  TypeOK'
BY DEF Reinventory, TypeOK, pages, queue, driver, child, bounds

--------------------------------------------------------------------------------
(* Jobs and their children *)

\* A job leaves the queue by a claim or without ever getting a child.
LEMMA UnclaimedStep ==
  ASSUME TypeOK, UnclaimedHaveNoChild, DriversWaitForJobs, Next
  PROVE  UnclaimedHaveNoChild' /\ DriversWaitForJobs'
<1> USE DEF TypeOK, pages, queue, driver, child, bounds, UnclaimedHaveNoChild, DriversWaitForJobs
<1>1. ASSUME NEW d \in Drivers,
             \/ ReconcileExpired(d) \/ ReconcileDuplicates(d) \/ CancelUnqualified(d)
             \/ ReadPages(d) \/ InsertJobs(d, "claim") \/ InsertJobs(d, "idle")
      PROVE  UnclaimedHaveNoChild' /\ DriversWaitForJobs'
  BY <1>1 DEF ReconcileExpired, Expired, Settled, ReconcileDuplicates, CancelUnqualified,
              ReadPages, InsertJobs
<1>2. ASSUME NEW d \in Drivers, ClaimNext(d)
      PROVE  UnclaimedHaveNoChild' /\ DriversWaitForJobs'
  BY <1>2 DEF ClaimNext
<1>3. ASSUME NEW d \in Drivers, ClaimNothing(d) \/ DriverLost(d)
      PROVE  UnclaimedHaveNoChild' /\ DriversWaitForJobs'
  BY <1>3 DEF ClaimNothing, DriverLost
<1>4. ASSUME NEW d \in Drivers, Terminalize(d)
      PROVE  UnclaimedHaveNoChild' /\ DriversWaitForJobs'
  <2>1. result[job[d]] \notin {"absent", "queued"}
    BY <1>4 DEF Terminalize, Terminal
  <2> QED
    BY <1>4, <2>1 DEF Terminalize
<1>5. ASSUME NEW d \in Drivers, ChildTimesOut(d)
      PROVE  UnclaimedHaveNoChild' /\ DriversWaitForJobs'
  BY <1>5 DEF ChildTimesOut
<1>6. ASSUME NEW j \in Jobs, ChildStep(j)
      PROVE  UnclaimedHaveNoChild' /\ DriversWaitForJobs'
  <2>1. /\ UNCHANGED <<state, attempts, pc, job>> /\ step[j] # "none"
        /\ \A k \in Jobs \ {j} : step'[k] = step[k]
    BY <1>6, WritingSteps
    DEF ChildStep, FindCandidate, ReadPrior, WriteVersion, LatestPageVersion, Extract,
        RecordCandidate, ReportCandidate, Goto, Exit
  <2> QED
    BY <2>1
<1>7. ASSUME NEW j \in Jobs, LeaseLapses(j)
      PROVE  UnclaimedHaveNoChild' /\ DriversWaitForJobs'
  BY <1>7 DEF LeaseLapses
<1>8. ASSUME NEW p \in Pages, Reinventory(p)
      PROVE  UnclaimedHaveNoChild' /\ DriversWaitForJobs'
  BY <1>8 DEF Reinventory
<1> QED
  BY <1>1, <1>2, <1>3, <1>4, <1>5, <1>6, <1>7, <1>8 DEF Next, DriverStep

\* Jobs never leave the table, and new ones are those that a driver has read.
LEMMA QueueGrows ==
  ASSUME TypeOK, DriversWaitForJobs, NEW d \in Drivers,
         \/ DriverStep(d) \/ InsertJobs(d, "idle") \/ CancelUnqualified(d)
         \/ ChildTimesOut(d) \/ DriverLost(d)
  PROVE  /\ InQueue \subseteq InQueue' /\ InQueue' \subseteq InQueue \cup rows[d]
         /\ UNCHANGED <<versions, inventories>>
         /\ \A c \in Drivers : \/ rows'[c] \subseteq rows[c]
                               \/ rows'[c] = Pending
<1> USE DEF TypeOK, pages, queue, driver, child, bounds, InQueue
<1>1. CASE ReconcileExpired(d)
  BY <1>1 DEF ReconcileExpired, Expired, Settled
<1>5. CASE ReconcileDuplicates(d) \/ CancelUnqualified(d)
  BY <1>5 DEF ReconcileDuplicates, CancelUnqualified
<1>2. CASE ReadPages(d) \/ InsertJobs(d, "claim") \/ InsertJobs(d, "idle")
  BY <1>2 DEF ReadPages, InsertJobs
<1>3. CASE ClaimNext(d) \/ ClaimNothing(d) \/ ChildTimesOut(d) \/ DriverLost(d)
  BY <1>3 DEF ClaimNext, ClaimNothing, ChildTimesOut, DriverLost
<1>4. CASE Terminalize(d)
  <2>1. result[job[d]] # "absent" /\ job[d] \in Jobs
    BY <1>4 DEF Terminalize, Terminal, DriversWaitForJobs
  <2>2. state[job[d]] # "absent" \/ UNCHANGED state
    BY <1>4 DEF Terminalize, Fenced
  <2> QED
    BY <1>4, <2>1, <2>2 DEF Terminalize
<1> QED
  BY <1>1, <1>2, <1>3, <1>4, <1>5 DEF DriverStep

\* Only children of jobs in the queue write page versions.
LEMMA JobsAreOfInventoriesStep ==
  ASSUME TypeOK, UnclaimedHaveNoChild, DriversWaitForJobs, JobsAreOfInventories, Next
  PROVE  JobsAreOfInventories'
<1> USE DEF JobsAreOfInventories
<1>1. ASSUME NEW d \in Drivers,
             \/ DriverStep(d) \/ InsertJobs(d, "idle") \/ CancelUnqualified(d)
             \/ ChildTimesOut(d) \/ DriverLost(d)
      PROVE  JobsAreOfInventories'
  <2>1. \A j \in Pending : j[2] <= 1 + inventories
    BY JobParts DEF Pending, Page
  <2> QED
    BY <1>1, <2>1, QueueGrows
<1>2. ASSUME NEW j \in Jobs, ChildStep(j)
      PROVE  JobsAreOfInventories'
  <2>1. UNCHANGED <<queue, driver, bounds>> /\ step[j] # "none"
    BY <1>2, WritingSteps
    DEF ChildStep, FindCandidate, ReadPrior, WriteVersion, LatestPageVersion, Extract,
        RecordCandidate, ReportCandidate
  <2>2. j \in InQueue
    BY <2>1 DEF InQueue, UnclaimedHaveNoChild
  <2>3. \A p \in Pages : p # Page(j) => versions'[p] = versions[p]
    BY <1>2 DEF ChildStep, FindCandidate, ReadPrior, WriteVersion, LatestPageVersion, Extract,
                RecordCandidate, ReportCandidate, pages, TypeOK
  <2> QED
    BY <2>1, <2>2, <2>3 DEF queue, driver, bounds, InQueue
<1>3. ASSUME NEW j \in Jobs, LeaseLapses(j)
      PROVE  JobsAreOfInventories'
  BY <1>3 DEF LeaseLapses, pages, queue, driver, child, bounds, InQueue
<1>4. ASSUME NEW p \in Pages, Reinventory(p)
      PROVE  JobsAreOfInventories'
  <2>1. inventories \in Nat /\ inventories' = inventories + 1 /\ InQueue' = InQueue /\ rows' = rows
    BY <1>4 DEF Reinventory, TypeOK, queue, driver, InQueue
  <2>2. \A q \in Pages : Len(versions'[q]) <= Len(versions[q]) + 1 /\ Len(versions[q]) \in Nat
    BY <1>4 DEF Reinventory, TypeOK
  <2>3. \A j \in Jobs : j[2] <= 1 + inventories => j[2] <= 1 + inventories'
    BY <2>1, JobParts
  <2>4. InQueue \subseteq Jobs /\ \A d \in Drivers : rows[d] \subseteq Jobs
    BY DEF InQueue, TypeOK
  <2>5. \A q \in Pages :
          (\A j \in InQueue' : Page(j) # q) => Len(versions'[q]) <= 1 + inventories'
    <3> SUFFICES ASSUME NEW q \in Pages, \A j \in InQueue' : Page(j) # q
                 PROVE  Len(versions'[q]) <= 1 + inventories'
      OBVIOUS
    <3>1. Len(versions[q]) <= 1 + inventories
      BY <2>1
    <3>2. Len(versions'[q]) <= Len(versions[q]) + 1 /\ Len(versions[q]) \in Nat
          /\ Len(versions'[q]) \in Nat
      BY <1>4, <2>2 DEF Reinventory, TypeOK
    <3> QED
      BY <2>1, <3>1, <3>2
  <2> QED
    BY <2>1, <2>3, <2>4, <2>5
<1> QED
  BY <1>1, <1>2, <1>3, <1>4 DEF Next

--------------------------------------------------------------------------------
(* Payments *)

\* A child that will not ask any more does not begin anew: its job is never claimed again.
LEMMA SpentStaySpent ==
  ASSUME TypeOK, UnclaimedHaveNoChild, Next
  PROVE  \A p \in Pages : Spent(p) \subseteq Spent(p)'
<1> SUFFICES ASSUME NEW k \in Jobs, step[k] \in AfterRequest
             PROVE  step'[k] \in AfterRequest
  BY DEF Spent
<1> USE DEF TypeOK, AfterRequest
<1>1. ASSUME NEW d \in Drivers, ClaimNext(d)
      PROVE  step'[k] \in AfterRequest
  BY <1>1 DEF ClaimNext, UnclaimedHaveNoChild
<1>2. ASSUME NEW d \in Drivers, ChildTimesOut(d)
      PROVE  step'[k] \in AfterRequest
  BY <1>2 DEF ChildTimesOut
<1>3. ASSUME NEW d \in Drivers,
             \/ ReconcileExpired(d) \/ ReconcileDuplicates(d) \/ CancelUnqualified(d)
             \/ ReadPages(d) \/ InsertJobs(d, "claim") \/ InsertJobs(d, "idle")
             \/ ClaimNothing(d) \/ Terminalize(d) \/ DriverLost(d)
      PROVE  step'[k] \in AfterRequest
  BY <1>3 DEF ReconcileExpired, ReconcileDuplicates, CancelUnqualified, ReadPages, InsertJobs,
              ClaimNothing, Terminalize, DriverLost, child
<1>4. ASSUME NEW j \in Jobs, ChildStep(j)
      PROVE  step'[k] \in AfterRequest
  BY <1>4, WritingSteps
  DEF ChildStep, FindCandidate, ReadPrior, WriteVersion, LatestPageVersion, Extract,
      RecordCandidate, ReportCandidate, Goto, Exit
<1>5. ASSUME NEW j \in Jobs, LeaseLapses(j)
      PROVE  step'[k] \in AfterRequest
  BY <1>5 DEF LeaseLapses, child
<1>6. ASSUME NEW p \in Pages, Reinventory(p)
      PROVE  step'[k] \in AfterRequest
  BY <1>6 DEF Reinventory, child
<1> QED
  BY <1>1, <1>2, <1>3, <1>4, <1>5, <1>6 DEF Next, DriverStep

\* Only a request is paid for, and after it its job is spent.
LEMMA PaymentIsRequest ==
  ASSUME Next
  PROVE  paid' = paid \/ \E j \in Jobs : Extract(j)
BY DEF Next, DriverStep, ChildStep, ReconcileExpired, ReconcileDuplicates, CancelUnqualified,
       ReadPages, InsertJobs, ClaimNext, ClaimNothing, Terminalize, ChildTimesOut, DriverLost,
       FindCandidate, ReadPrior, WriteVersion, LatestPageVersion, RecordCandidate,
       ReportCandidate, LeaseLapses, Reinventory, pages

LEMMA PaidByChildrenStep ==
  ASSUME TypeOK, TypeOK', UnclaimedHaveNoChild, PaidByChildren, Next
  PROVE  PaidByChildren'
<1> SUFFICES ASSUME NEW p \in Pages
             PROVE  paid'[p] <= Cardinality(Spent(p)')
  BY DEF PaidByChildren
<1>1. /\ IsFiniteSet(Spent(p)') /\ Spent(p) \subseteq Spent(p)'
      /\ Cardinality(Spent(p)) \in Nat /\ Cardinality(Spent(p)') \in Nat
      /\ IsFiniteSet(Spent(p))
  <2>1. IsFiniteSet(Spent(p)')
    <3>1. Spent(p)' = {j \in Jobs : Page(j) = p /\ step'[j] \in AfterRequest}
      BY DEF Spent
    <3>2. Spent(p)' \subseteq {p} \X (1..MaxVersion)
      BY <3>1, JobParts DEF Page
    <3>3. IsFiniteSet({p} \X (1..MaxVersion))
      <4>1. IsFiniteSet({p})
        BY FS_Singleton, Zenon
      <4>2. IsFiniteSet(1..MaxVersion)
        BY FS_Interval
      <4> QED
        BY <4>1, <4>2, FS_Product
    <3> QED
      BY <3>2, <3>3, FS_Subset
  <2> QED
    BY <2>1, SpentStaySpent, SpentAreVersions, FS_CardinalityType
<1>2. CASE paid'[p] = paid[p]
  <2>1. Cardinality(Spent(p)) <= Cardinality(Spent(p)')
    BY <1>1, FS_Subset
  <2> QED
    BY <1>1, <1>2, <2>1 DEF PaidByChildren, TypeOK
<1>3. CASE paid'[p] # paid[p]
  <2>1. PICK j \in Jobs : Extract(j)
    BY <1>3, PaymentIsRequest
  <2>2. paid'[p] = paid[p] + 1 /\ Page(j) = p
    BY <1>3, <2>1 DEF Extract, TypeOK
  <2>3. j \notin Spent(p) /\ j \in Spent(p)'
    <3>1. step[j] = "extract" /\ step'[j] \in {"record", "exited"}
      BY <2>1 DEF Extract, Goto, Exit, TypeOK
    <3> QED
      BY <2>2, <3>1 DEF Spent, AfterRequest
  <2>4. Cardinality(Spent(p) \cup {j}) = Cardinality(Spent(p)) + 1
    BY <1>1, <2>3, FS_AddElement
  <2>5. Cardinality(Spent(p) \cup {j}) <= Cardinality(Spent(p)')
    BY <1>1, <2>3, FS_Subset
  <2> QED
    BY <1>1, <2>2, <2>4, <2>5 DEF PaidByChildren, TypeOK
<1> QED
  BY <1>2, <1>3

--------------------------------------------------------------------------------
(* Candidates *)

\* Receipts are kept.
LEMMA ReceiptsGrow ==
  ASSUME Next
  PROVE  receipts \subseteq receipts'
BY DEF Next, DriverStep, ChildStep, ReconcileExpired, ReconcileDuplicates, CancelUnqualified,
       ReadPages, InsertJobs, ClaimNext, ClaimNothing, Terminalize, ChildTimesOut, DriverLost,
       FindCandidate, ReadPrior, WriteVersion, LatestPageVersion, Extract, RecordCandidate,
       ReportCandidate, LeaseLapses, Reinventory, pages

\* A child reports success only behind a candidate, its own or an earlier one.
LEMMA ResultsStep ==
  ASSUME TypeOK, ResultsHaveCandidates, Next
  PROVE  ResultsHaveCandidates'
<1> USE DEF TypeOK
<1> DEFINE Behind(j) == \/ step[j] \in {"complete", "write_complete", "done"}
                         \/ result[j] = "succeeded"
<1> SUFFICES ASSUME NEW k \in Jobs, Behind(k)'
             PROVE  Received(Page(k))'
  BY DEF ResultsHaveCandidates
<1>1. Received(Page(k)) => Received(Page(k))'
  BY ReceiptsGrow DEF Received, Page
<1>2. Behind(k) => Received(Page(k))
  BY DEF ResultsHaveCandidates
<1>3. ASSUME NEW d \in Drivers, DriverStep(d) \/ InsertJobs(d, "idle") \/ CancelUnqualified(d)
                                \/ ChildTimesOut(d) \/ DriverLost(d)
      PROVE  Behind(k)
  BY <1>3 DEF DriverStep, ReconcileExpired, ReconcileDuplicates, CancelUnqualified, ReadPages,
              InsertJobs, ClaimNext, ClaimNothing, Terminalize, ChildTimesOut, DriverLost, child
<1>4. ASSUME NEW j \in Jobs, ChildStep(j)
      PROVE  Behind(k) \/ Received(Page(k)) \/ Received(Page(k))'
  <2>1. CASE RecordCandidate(j)
    <3>1. CASE k = j
      <4>1. <<Page(k), seen[k]>> \in receipts'
        BY <2>1, <3>1 DEF RecordCandidate
      <4> QED
        BY <4>1 DEF Received, Page
    <3>2. CASE k # j
      BY <2>1, <3>2 DEF RecordCandidate, Goto
    <3> QED
      BY <3>1, <3>2
  <2>2. CASE FindCandidate(j)
    BY <2>2 DEF FindCandidate, Goto, Exit
  <2>3. ASSUME NEW o \in Outcomes, ReadPrior(j, o) \/ WriteVersion(j, o)
        PROVE  Behind(k)
    BY <2>3, WritingSteps DEF ReadPrior, WriteVersion, Goto, Exit
  <2>4. CASE LatestPageVersion(j) \/ Extract(j) \/ ReportCandidate(j)
    BY <2>4 DEF LatestPageVersion, Extract, ReportCandidate, Goto, Exit
  <2> QED
    BY <1>4, <2>1, <2>2, <2>3, <2>4 DEF ChildStep
<1>5. ASSUME NEW j \in Jobs, LeaseLapses(j)
      PROVE  Behind(k)
  BY <1>5 DEF LeaseLapses, child
<1>6. ASSUME NEW p \in Pages, Reinventory(p)
      PROVE  Behind(k)
  BY <1>6 DEF Reinventory, child
<1> QED
  BY <1>1, <1>2, <1>3, <1>4, <1>5, <1>6 DEF Next

\* Rows succeed by the result of their child, pages are completed by a child that has a
\* candidate.
LEMMA SuccessStep ==
  ASSUME TypeOK, DriversWaitForJobs, ResultsHaveCandidates, SuccessHasCandidate, Next
  PROVE  SuccessHasCandidate'
<1> USE DEF TypeOK
<1>0. \A p \in Pages : Received(p) => Received(p)'
  BY ReceiptsGrow DEF Received
<1>1. ASSUME NEW j \in Jobs, state'[j] = "succeeded"
      PROVE  Received(Page(j))'
  <2>1. state[j] = "succeeded" \/ Received(Page(j))
    <3>1. ASSUME NEW d \in Drivers, Terminalize(d)
          PROVE  state[j] = "succeeded" \/ Received(Page(j))
      BY <1>1, <3>1 DEF Terminalize, ResultsHaveCandidates
    <3>2. ASSUME NEW d \in Drivers,
                 \/ ReconcileExpired(d) \/ ReconcileDuplicates(d) \/ CancelUnqualified(d)
                 \/ ReadPages(d) \/ InsertJobs(d, "claim") \/ InsertJobs(d, "idle")
                 \/ ClaimNext(d) \/ ClaimNothing(d) \/ ChildTimesOut(d) \/ DriverLost(d)
          PROVE  state[j] = "succeeded"
      BY <1>1, <3>2 DEF ReconcileExpired, Settled, ReconcileDuplicates, CancelUnqualified,
        ReadPages, InsertJobs, ClaimNext, ClaimNothing, ChildTimesOut, DriverLost, queue
    <3>3. ASSUME NEW i \in Jobs, ChildStep(i) \/ LeaseLapses(i)
          PROVE  state[j] = "succeeded"
      BY <1>1, <3>3 DEF ChildStep, FindCandidate, ReadPrior, WriteVersion, LatestPageVersion,
        Extract, RecordCandidate, ReportCandidate, LeaseLapses, queue
    <3>4. ASSUME NEW p \in Pages, Reinventory(p)
          PROVE  state[j] = "succeeded"
      BY <1>1, <3>4 DEF Reinventory, queue
    <3> QED
      BY <3>1, <3>2, <3>3, <3>4 DEF Next, DriverStep
  <2> QED
    BY <1>0, <2>1, JobParts DEF SuccessHasCandidate, Page
<1>2. ASSUME NEW p \in Pages, Latest(p)' = "complete"
      PROVE  Received(p)'
  <2>1. CASE versions'[p] = versions[p]
    BY <1>0, <1>2, <2>1 DEF SuccessHasCandidate, Latest
  <2>2. ASSUME NEW j \in Jobs, NEW o \in Outcomes, WriteVersion(j, o)
        PROVE  versions'[p] = versions[p] \/ Received(p)
    <3>1. CASE o = "failed" /\ versions'[p] # versions[p]
      BY <1>2, <2>2, <3>1 DEF WriteVersion, Latest
    <3>2. CASE o = "complete" /\ versions'[p] # versions[p]
      <4>1. Page(j) = p /\ step[j] = "write_complete"
        BY <2>2, <3>2, WritingSteps DEF WriteVersion
      <4> QED
        BY <4>1 DEF ResultsHaveCandidates
    <3> QED
      BY <3>1, <3>2, WritingSteps
  <2>3. ASSUME NEW q \in Pages, Reinventory(q)
        PROVE  versions'[p] = versions[p]
    BY <1>2, <2>3 DEF Reinventory, Latest
  <2>4. \/ versions' = versions
        \/ \E j \in Jobs, o \in Outcomes : WriteVersion(j, o)
        \/ \E q \in Pages : Reinventory(q)
    BY DEF Next, DriverStep, ChildStep, ReconcileExpired, ReconcileDuplicates,
      CancelUnqualified, ReadPages, InsertJobs, ClaimNext, ClaimNothing, Terminalize,
      ChildTimesOut, DriverLost, FindCandidate, ReadPrior, LatestPageVersion, Extract,
      RecordCandidate, ReportCandidate, LeaseLapses, pages
  <2> QED
    BY <1>0, <2>1, <2>2, <2>3, <2>4
<1> QED
  BY <1>1, <1>2 DEF SuccessHasCandidate

--------------------------------------------------------------------------------
(* Theorems *)

LEMMA InitInvariant == Init => IInv
<1> SUFFICES ASSUME Init PROVE IInv
  OBVIOUS
<1> USE DEF Init
<1>1. TypeOK
  BY DEF TypeOK, States, Terminal, Outcomes
<1>2. UnclaimedHaveNoChild /\ DriversWaitForJobs
  BY DEF UnclaimedHaveNoChild, DriversWaitForJobs
<1>3. JobsAreOfInventories
  BY DEF JobsAreOfInventories, InQueue
<1>4. PaidByChildren
  BY SpentAreVersions DEF PaidByChildren
<1>5. ResultsHaveCandidates /\ SuccessHasCandidate
  BY DEF ResultsHaveCandidates, SuccessHasCandidate, Latest
<1> QED
  BY <1>1, <1>2, <1>3, <1>4, <1>5 DEF IInv

LEMMA StepInvariant == IInv /\ [Next]_vars => IInv'
<1> SUFFICES ASSUME IInv, [Next]_vars PROVE IInv'
  OBVIOUS
<1>1. CASE Next
  <2>1. TypeOK'
    BY <1>1, DriverTypes, ChildTypes, InventoryTypes DEF IInv, Next
  <2> QED
    BY <1>1, <2>1, UnclaimedStep, JobsAreOfInventoriesStep, PaidByChildrenStep, ResultsStep,
       SuccessStep DEF IInv
<1>2. CASE UNCHANGED vars
  BY <1>2 DEF vars, pages, queue, driver, child, bounds, IInv, TypeOK, UnclaimedHaveNoChild,
    DriversWaitForJobs, JobsAreOfInventories, InQueue, PaidByChildren, Spent,
    ResultsHaveCandidates, SuccessHasCandidate, Received, Latest
<1> QED
  BY <1>1, <1>2

\* The invariant is inductive over the steps of drivers, children and inventories.
THEOREM Invariance == Spec => []IInv
BY InitInvariant, StepInvariant, PTL DEF Spec

\* Every variable of the recovery stays in its domain, a row has a lease exactly while it runs,
\* and no job is executed twice: attempts stay in 0..1 though claim_next counts without a limit.
THEOREM TypeCorrect == Spec => []TypeOK
<1>1. IInv => TypeOK
  BY DEF IInv
<1> QED
  BY <1>1, Invariance, PTL

\* A page is paid for at most once for each of its inventories, whatever drivers are started or
\* lost and however often enqueue_pending_raster_pages runs: its jobs are for different versions,
\* all of which inventories made.
THEOREM PaidOnce == Spec => []PaidOncePerInventory
<1>1. IInv => PaidOncePerInventory
  <2> SUFFICES ASSUME IInv, NEW p \in Pages
               PROVE  paid[p] <= 1 + inventories
    BY DEF PaidOncePerInventory
  <2>1. \A j \in Spent(p) : j[2] <= 1 + inventories
    BY DEF IInv, Spent, AfterRequest, UnclaimedHaveNoChild, JobsAreOfInventories, InQueue
  <2>2. 1 + inventories \in Nat /\ paid[p] \in Nat
    BY DEF IInv, TypeOK
  <2>3. Cardinality(Spent(p)) <= 1 + inventories /\ Cardinality(Spent(p)) \in Nat
    BY <2>1, <2>2, SpentAreVersions
  <2> QED
    BY <2>2, <2>3 DEF IInv, PaidByChildren
<1> QED
  BY <1>1, Invariance, PTL

\* terminalize never reports a success, nor record_representation_pages a complete page, whose
\* candidate is not in store, though a child may outlive its driver and another one its lease.
THEOREM SuccessIsStored == Spec => []SuccessHasCandidate
<1>1. IInv => SuccessHasCandidate
  BY DEF IInv
<1> QED
  BY <1>1, Invariance, PTL

--------------------------------------------------------------------------------
(* The assistant's conversation. Its assumptions are not needed: nothing depends on what None *)
(* is, nor on the bounds.                                                                      *)

CONSTANTS Turns, Workers, MaxDeltas, MaxCrashes

VARIABLES asking, turn_state, cancel, lease_lapsed, events, messages, \* the tables
          at, turn, target, ordinal, crashes                         \* the workers

Chat == INSTANCE AssistantTurns WITH state <- turn_state, lapsed <- lease_lapsed, pc <- at

Messages == [turn : Turns, role : {"user", "assistant"}]

ChatTypes ==
  /\ asking = [t \in Turns |-> asking[t]]
  /\ turn_state \in [Turns -> {"unasked", "queued"} \cup Chat!Held \cup Chat!Terminal]
  /\ events \in [Turns -> Seq(Chat!EventTypes)]
  /\ messages \in Seq(Messages)
  /\ at \in [Workers -> {"idle", "start", "generate", "beat", "last_beat", "complete",
                         "committing", "fail"}]
  /\ turn \in [Workers -> Turns \cup {None}]
  /\ target \in [Workers -> Chat!Terminal \cup {None}]
  /\ ordinal \in [Workers -> Nat]

\* Positions in the stream of a turn at which it tells an outcome.
Ends(t) == {i \in DOMAIN events[t] : Chat!Outcome(events[t][i]) \in Chat!Terminal}

\* A request works at a turn that is not yet there for anybody else.
AskedLater == \A t \in Turns : asking[t].stage # "none" => turn_state[t] = "unasked"

\* A busy worker has a turn, whose outcome nobody has told or stored before it does, except that
\* a claim may have closed it.
BusyHaveOpenTurns ==
  \A w \in Workers : at[w] # "idle" =>
    /\ turn[w] \in Turns /\ Ends(turn[w]) = {}
    /\ turn_state[turn[w]] \in {"reconciliation_required",
                                IF at[w] = "start" THEN "leased" ELSE "running"}
    /\ at[w] = "fail" => target[w] \in {"failed", "cancelled", "reconciliation_required"}

\* A turn is claimed once.
ClaimedOnce ==
  \A v, w \in Workers : at[v] # "idle" /\ at[w] # "idle" /\ turn[v] = turn[w] => v = w

\* The messages of a turn go with its state.
MessagesGoWithState ==
  \A t \in Turns :
    /\ turn_state[t] = "unasked" => Chat!Questions(t) = {}
    /\ turn_state[t] # "unasked" => \E i : Chat!Questions(t) = {i}
    /\ turn_state[t] # "succeeded" => Chat!Answers(t) = {}
    /\ turn_state[t] = "succeeded" => \E i : Chat!Answers(t) = {i}
    /\ \A q \in Chat!Questions(t), a \in Chat!Answers(t) : q < a

\* So do the outcomes that were told.
EndsGoWithState ==
  \A t \in Turns :
    \/ Ends(t) = {}
    \/ \E i : /\ Ends(t) = {i} /\ turn_state[t] = Chat!Outcome(events[t][i])
              /\ turn_state[t] \in Chat!Terminal

ChatInv == /\ ChatTypes /\ AskedLater /\ BusyHaveOpenTurns /\ ClaimedOnce
           /\ MessagesGoWithState /\ EndsGoWithState

LEMMA ChatInit == Chat!Init => ChatInv
<1> SUFFICES ASSUME Chat!Init PROVE ChatInv
  OBVIOUS
<1>1. ChatTypes
  BY DEF Chat!Init, ChatTypes, Chat!NoRequest
<1>2. AskedLater /\ BusyHaveOpenTurns /\ ClaimedOnce
  BY DEF Chat!Init, Chat!NoRequest, AskedLater, BusyHaveOpenTurns, ClaimedOnce
<1>3. \A t \in Turns : Ends(t) = {} /\ Chat!Questions(t) = {} /\ Chat!Answers(t) = {}
  BY DEF Chat!Init, Ends, Chat!Questions, Chat!Answers
<1>4. QED
  BY <1>1, <1>2, <1>3 DEF Chat!Init, ChatInv, MessagesGoWithState, EndsGoWithState

\* What a message changes.
LEMMA MessageAppended ==
  ASSUME messages \in Seq(Messages), NEW m \in Messages, messages' = Append(messages, m),
         NEW t \in Turns
  PROVE  /\ messages' \in Seq(Messages)
         /\ Chat!Questions(t)' =
              Chat!Questions(t) \cup
                (IF m.turn = t /\ m.role = "user" THEN {Len(messages) + 1} ELSE {})
         /\ Chat!Answers(t)' =
              Chat!Answers(t) \cup
                (IF m.turn = t /\ m.role = "assistant" THEN {Len(messages) + 1} ELSE {})
         /\ Len(messages) \in Nat
         /\ Chat!Questions(t) \subseteq 1..Len(messages)
         /\ Chat!Answers(t) \subseteq 1..Len(messages)
  BY DEF Chat!Questions, Chat!Answers, Messages

\* What an event changes.
LEMMA EventAppended ==
  ASSUME ChatTypes, NEW t \in Turns, NEW e \in Chat!EventTypes, Chat!Event(t, e)
  PROVE  /\ events' \in [Turns -> Seq(Chat!EventTypes)]
         /\ \A u \in Turns : u # t => events'[u] = events[u] /\ Ends(u)' = Ends(u)
         /\ Chat!Outcome(e) \notin Chat!Terminal => Ends(t)' = Ends(t)
         /\ Chat!Outcome(e) \in Chat!Terminal /\ Ends(t) = {} =>
              \E i : Ends(t)' = {i} /\ Chat!Outcome(events'[t][i]) = Chat!Outcome(e)
         /\ \A i \in Ends(t) : events'[t][i] = events[t][i]
<1>1. /\ events \in [Turns -> Seq(Chat!EventTypes)]
      /\ events' = [events EXCEPT ![t] = Append(@, e)]
  BY DEF ChatTypes, Chat!Event
<1>2. events' \in [Turns -> Seq(Chat!EventTypes)]
  BY <1>1
<1>3. \A u \in Turns : u # t => events'[u] = events[u]
  BY <1>1
<1>4. events'[t] = Append(events[t], e) /\ events[t] \in Seq(Chat!EventTypes)
  BY <1>1
<1>5. DOMAIN events'[t] = 1..Len(events[t]) + 1 /\ DOMAIN events[t] = 1..Len(events[t])
      /\ Len(events[t]) \in Nat
  BY <1>4
<1>6. /\ \A i \in 1..Len(events[t]) : events'[t][i] = events[t][i]
      /\ events'[t][Len(events[t]) + 1] = e
  BY <1>4
<1>7. Ends(t)' = Ends(t) \cup (IF Chat!Outcome(e) \in Chat!Terminal
                                 THEN {Len(events[t]) + 1} ELSE {})
  BY <1>5, <1>6 DEF Ends, Chat!Terminal
<1>8. \A u \in Turns : u # t => Ends(u)' = Ends(u)
  BY <1>3 DEF Ends, Chat!Terminal
<1>9. \A i \in Ends(t) : events'[t][i] = events[t][i]
  BY <1>5, <1>6 DEF Ends
<1>10. Chat!Outcome(e) \in Chat!Terminal /\ Ends(t) = {} =>
         Ends(t)' = {Len(events[t]) + 1}
  BY <1>7
<1>11. QED
  BY <1>2, <1>3, <1>6, <1>7, <1>8, <1>9, <1>10

\* What a step that leaves the tables alone keeps.
LEMMA TablesKept ==
  ASSUME ChatInv, UNCHANGED <<turn_state, events, messages>>
  PROVE  MessagesGoWithState' /\ EndsGoWithState' /\ \A t : Ends(t)' = Ends(t)
<1>1. \A t : Ends(t)' = Ends(t)
  BY DEF Ends
<1>2. EndsGoWithState'
  BY <1>1 DEF ChatInv, EndsGoWithState
<1>3. \A t : Chat!Questions(t)' = Chat!Questions(t) /\ Chat!Answers(t)' = Chat!Answers(t)
  BY DEF Chat!Questions, Chat!Answers
<1>4. MessagesGoWithState'
  BY <1>3 DEF ChatInv, MessagesGoWithState
<1>5. QED
  BY <1>1, <1>2, <1>4

Going == {"generate", "beat", "last_beat", "complete", "committing", "fail"}

\* A worker goes on with its turn.
LEMMA GoesOn ==
  ASSUME ChatInv, NEW w \in Workers, at[w] \in Going, NEW s \in Going,
         UNCHANGED <<asking, turn_state, events, messages, turn>>, Chat!Goto(w, s),
         \/ UNCHANGED target /\ s # "fail"
         \/ /\ target' = [target EXCEPT ![w] = target'[w]]
            /\ target'[w] \in {"failed", "cancelled", "reconciliation_required"},
         \/ UNCHANGED ordinal
         \/ ordinal' = [ordinal EXCEPT ![w] = Len(messages) + 1]
  PROVE  ChatInv'
<1> USE DEF Going
<1>1. at' = [at EXCEPT ![w] = s] /\ ChatTypes /\ Len(messages) \in Nat
  BY DEF Chat!Goto, ChatInv, ChatTypes
<1>2. target' \in [Workers -> Chat!Terminal \cup {None}]
  BY <1>1 DEF ChatTypes, Chat!Terminal
<1>3. ordinal' \in [Workers -> Nat]
  <2>1. ordinal \in [Workers -> Nat] /\ Len(messages) + 1 \in Nat
    BY <1>1 DEF ChatTypes
  <2>2. QED
    BY <2>1
<1>4. ChatTypes'
  BY <1>1, <1>2, <1>3 DEF ChatTypes
<1>5. at[w] # "idle" /\ at'[w] = s /\ \A v \in Workers : v # w => at'[v] = at[v]
  BY <1>1 DEF ChatTypes
<1>6. \A v \in Workers : v # w => target'[v] = target[v]
  BY <1>1 DEF ChatTypes
<1>7. s = "fail" => target'[w] \in {"failed", "cancelled", "reconciliation_required"}
  OBVIOUS
<1>8. BusyHaveOpenTurns'
  <2> SUFFICES ASSUME NEW v \in Workers, at'[v] # "idle"
               PROVE  /\ turn[v] \in Turns /\ Ends(turn[v]) = {}
                      /\ turn_state[turn[v]] \in {"reconciliation_required",
                                   IF at'[v] = "start" THEN "leased" ELSE "running"}
                      /\ at'[v] = "fail" =>
                           target'[v] \in {"failed", "cancelled", "reconciliation_required"}
    BY TablesKept DEF BusyHaveOpenTurns
  <2>1. CASE v = w
    BY <2>1, <1>5, <1>7 DEF ChatInv, BusyHaveOpenTurns
  <2>2. CASE v # w
    BY <2>2, <1>5, <1>6 DEF ChatInv, BusyHaveOpenTurns
  <2>3. QED
    BY <2>1, <2>2
<1>9. ClaimedOnce'
  BY <1>5 DEF ChatInv, ClaimedOnce
<1>10. AskedLater'
  BY DEF ChatInv, AskedLater
<1>11. QED
  BY <1>4, <1>8, <1>9, <1>10, TablesKept DEF ChatInv

\* A worker leaves its turn; the others go on with theirs.
LEMMA Leaves ==
  ASSUME ChatInv, NEW w \in Workers, Chat!Leave(w)
  PROVE  /\ at' \in [Workers -> Going \cup {"idle", "start"}]
         /\ turn' \in [Workers -> Turns \cup {None}]
         /\ target' \in [Workers -> Chat!Terminal \cup {None}]
         /\ ordinal' \in [Workers -> Nat]
         /\ at'[w] = "idle"
         /\ \A v \in Workers : v # w => /\ at'[v] = at[v] /\ turn'[v] = turn[v]
                                        /\ target'[v] = target[v]
         /\ ClaimedOnce'
<1>1. /\ at \in [Workers -> Going \cup {"idle", "start"}]
      /\ turn \in [Workers -> Turns \cup {None}]
      /\ target \in [Workers -> Chat!Terminal \cup {None}]
      /\ ordinal \in [Workers -> Nat]
  BY DEF ChatInv, ChatTypes, Going
<1>2. /\ at' = [at EXCEPT ![w] = "idle"]
      /\ turn' = [turn EXCEPT ![w] = None]
      /\ target' = [target EXCEPT ![w] = None]
      /\ ordinal' = [ordinal EXCEPT ![w] = 0]
  BY DEF Chat!Leave, Chat!Goto
<1>3. /\ at'[w] = "idle"
      /\ \A v \in Workers : v # w => /\ at'[v] = at[v] /\ turn'[v] = turn[v]
                                     /\ target'[v] = target[v]
  BY <1>1, <1>2
<1>4. ClaimedOnce'
  BY <1>3 DEF ChatInv, ClaimedOnce
<1>5. QED
  BY <1>1, <1>2, <1>3, <1>4

\* A worker gives a turn its outcome and tells it.
LEMMA TurnEnds ==
  ASSUME ChatInv, NEW w \in Workers, at[w] \in Going, Chat!Leave(w),
         NEW e \in {"completed", "failed", "cancelled", "reconciliation_required"},
         turn_state' = [turn_state EXCEPT ![turn[w]] = Chat!Outcome(e)],
         Chat!Event(turn[w], e),
         messages' = IF e = "completed"
                       THEN Append(messages, [turn |-> turn[w], role |-> "assistant"])
                       ELSE messages,
         UNCHANGED asking
  PROVE  ChatInv'
<1> DEFINE s == Chat!Outcome(e)
<1>1. /\ s \in Chat!Terminal /\ s # "unasked" /\ e \in Chat!EventTypes
      /\ s = "succeeded" <=> e = "completed"
  BY DEF Chat!Outcome, Chat!Terminal, Chat!EventTypes
<1>2. PICK t \in Turns : t = turn[w] /\ Ends(t) = {}
                        /\ turn_state[t] \in {"running", "reconciliation_required"}
  BY DEF ChatInv, BusyHaveOpenTurns, Going
<1>3. /\ turn_state \in [Turns -> {"unasked", "queued"} \cup Chat!Held \cup Chat!Terminal]
      /\ messages \in Seq(Messages) /\ ChatTypes
  BY DEF ChatInv, ChatTypes
<1>4. /\ turn_state' \in [Turns -> {"unasked", "queued"} \cup Chat!Held \cup Chat!Terminal]
      /\ turn_state'[t] = s /\ \A u \in Turns : u # t => turn_state'[u] = turn_state[u]
  BY <1>1, <1>2, <1>3
<1>5. /\ events' \in [Turns -> Seq(Chat!EventTypes)]
      /\ \A u \in Turns : u # t => events'[u] = events[u] /\ Ends(u)' = Ends(u)
      /\ \E i : Ends(t)' = {i} /\ Chat!Outcome(events'[t][i]) = s
  BY <1>1, <1>2, <1>3, EventAppended
<1>6. /\ messages' \in Seq(Messages)
      /\ \A u \in Turns :
           /\ Chat!Questions(u)' = Chat!Questions(u)
           /\ u # t \/ e # "completed" => Chat!Answers(u)' = Chat!Answers(u)
           /\ u = t /\ e = "completed" =>
                Chat!Answers(u)' = Chat!Answers(u) \cup {Len(messages) + 1}
           /\ Chat!Questions(u) \subseteq 1..Len(messages) /\ Len(messages) \in Nat
  <2>1. CASE e = "completed"
    <3>1. PICK m \in Messages : m = [turn |-> t, role |-> "assistant"]
      BY DEF Messages
    <3>2. messages' = Append(messages, m)
      BY <1>2, <2>1, <3>1
    <3>3. messages \in Seq(Messages)
      BY <1>3
    <3>4. /\ messages' \in Seq(Messages)
          /\ \A u \in Turns :
               /\ Chat!Questions(u)' =
                    Chat!Questions(u) \cup
                      (IF m.turn = u /\ m.role = "user" THEN {Len(messages) + 1} ELSE {})
               /\ Chat!Answers(u)' =
                    Chat!Answers(u) \cup
                      (IF m.turn = u /\ m.role = "assistant" THEN {Len(messages) + 1} ELSE {})
               /\ Chat!Questions(u) \subseteq 1..Len(messages) /\ Len(messages) \in Nat
      BY <3>2, <3>3, MessageAppended
    <3>5. m.turn = t /\ m.role = "assistant"
      BY <3>1
    <3>6. SUFFICES ASSUME NEW u \in Turns
                   PROVE  /\ Chat!Questions(u)' = Chat!Questions(u)
                          /\ u # t => Chat!Answers(u)' = Chat!Answers(u)
                          /\ u = t => Chat!Answers(u)' = Chat!Answers(u) \cup {Len(messages) + 1}
      BY <2>1, <3>4
    <3>7. Chat!Questions(u)' = Chat!Questions(u)
      BY <3>4, <3>5
    <3>8. CASE u = t
      BY <3>4, <3>5, <3>7, <3>8
    <3>9. CASE u # t
      <4>1. m.turn # u
        BY <3>5, <3>9
      <4>2. Chat!Answers(u)' = Chat!Answers(u)
        BY <3>4, <4>1
      <4>3. QED
        BY <3>7, <3>9, <4>2
    <3>10. QED
      BY <3>8, <3>9
  <2>2. CASE e # "completed"
    <3>1. messages' = messages
      BY <2>2
    <3>2. QED
      BY <1>3, <2>2, <3>1 DEF Chat!Questions, Chat!Answers
  <2>3. QED
    BY <2>1, <2>2
<1>7. ChatTypes'
  BY <1>3, <1>4, <1>5, <1>6, Leaves DEF ChatTypes, Going
<1>8. AskedLater'
  BY <1>2, <1>4 DEF ChatInv, AskedLater
<1>9. BusyHaveOpenTurns'
  <2>1. \A v \in Workers : v # w /\ at[v] # "idle" => turn[v] # t
    BY <1>2 DEF ChatInv, ClaimedOnce, Going
  <2> SUFFICES ASSUME NEW v \in Workers, at'[v] # "idle"
               PROVE  /\ turn'[v] \in Turns /\ Ends(turn[v])' = {}
                      /\ turn_state'[turn'[v]] \in {"reconciliation_required",
                                   IF at'[v] = "start" THEN "leased" ELSE "running"}
                      /\ at'[v] = "fail" =>
                           target'[v] \in {"failed", "cancelled", "reconciliation_required"}
    BY DEF BusyHaveOpenTurns
  <2>2. v # w /\ at'[v] = at[v] /\ turn'[v] = turn[v] /\ target'[v] = target[v]
    BY Leaves
  <2>3. PICK u \in Turns : u = turn[v] /\ u # t
    BY <2>1, <2>2 DEF ChatInv, BusyHaveOpenTurns
  <2>4. Ends(turn[v])' = Ends(u)'
    BY <2>2, <2>3 DEF Ends
  <2>5. /\ Ends(turn[v]) = {} /\ at[v] # "idle"
        /\ turn_state[turn[v]] \in {"reconciliation_required",
                                   IF at[v] = "start" THEN "leased" ELSE "running"}
        /\ at[v] = "fail" => target[v] \in {"failed", "cancelled", "reconciliation_required"}
    BY <2>2 DEF ChatInv, BusyHaveOpenTurns
  <2>6. Ends(u) = {}
    BY <2>3, <2>5
  <2>7. Ends(u)' = {}
    BY <1>5, <2>3, <2>6
  <2>8. QED
    BY <1>4, <2>2, <2>3, <2>4, <2>5, <2>7
<1>10. MessagesGoWithState'
  <2> SUFFICES ASSUME NEW u \in Turns
               PROVE  /\ turn_state'[u] = "unasked" => Chat!Questions(u)' = {}
                      /\ turn_state'[u] # "unasked" => \E i : Chat!Questions(u)' = {i}
                      /\ turn_state'[u] # "succeeded" => Chat!Answers(u)' = {}
                      /\ turn_state'[u] = "succeeded" => \E i : Chat!Answers(u)' = {i}
                      /\ \A q \in Chat!Questions(u)', a \in Chat!Answers(u)' : q < a
    BY DEF MessagesGoWithState
  <2>1. /\ turn_state[u] = "unasked" => Chat!Questions(u) = {}
        /\ turn_state[u] # "unasked" => \E i : Chat!Questions(u) = {i}
        /\ turn_state[u] # "succeeded" => Chat!Answers(u) = {}
        /\ turn_state[u] = "succeeded" => \E i : Chat!Answers(u) = {i}
        /\ \A q \in Chat!Questions(u), a \in Chat!Answers(u) : q < a
    BY DEF ChatInv, MessagesGoWithState
  <2>2. CASE u # t
    BY <1>4, <1>6, <2>1, <2>2
  <2>3. CASE u = t /\ e # "completed"
    BY <1>1, <1>2, <1>4, <1>6, <2>1, <2>3
  <2>4. CASE u = t /\ e = "completed"
    <3>1. Chat!Answers(u)' = {Len(messages) + 1} /\ turn_state[u] # "unasked"
      BY <1>2, <1>6, <2>1, <2>4
    <3>2. \A q \in Chat!Questions(u)' : q < Len(messages) + 1
      BY <1>6
    <3>3. QED
      BY <1>1, <1>4, <1>6, <2>1, <2>4, <3>1, <3>2
  <2>5. QED
    BY <2>2, <2>3, <2>4
<1>11. EndsGoWithState'
  <2> SUFFICES ASSUME NEW u \in Turns
               PROVE  \/ Ends(u)' = {}
                      \/ \E i : /\ Ends(u)' = {i}
                               /\ turn_state'[u] = Chat!Outcome(events'[u][i])
                               /\ turn_state'[u] \in Chat!Terminal
    BY DEF EndsGoWithState, Chat!Outcome, Chat!Terminal
  <2>1. CASE u = t
    BY <1>1, <1>4, <1>5, <2>1
  <2>2. CASE u # t
    <3>1. events'[u] = events[u] /\ Ends(u)' = Ends(u) /\ turn_state'[u] = turn_state[u]
      BY <1>4, <1>5, <2>2
    <3>2. QED
      BY <3>1 DEF ChatInv, EndsGoWithState
  <2>3. QED
    BY <2>1, <2>2
<1>12. QED
  BY <1>7, <1>8, <1>9, <1>10, <1>11, Leaves DEF ChatInv

\* A turn that is not worked at goes into a state without an outcome that was told.
LEMMA StatesChange ==
  ASSUME ChatInv, UNCHANGED <<events, messages>>,
         turn_state' \in [Turns -> {"unasked", "queued"} \cup Chat!Held \cup Chat!Terminal],
         \A t \in Turns : turn_state'[t] # turn_state[t] =>
           /\ turn_state[t] \in {"queued"} \cup Chat!Held
           /\ turn_state'[t] \notin {"unasked", "succeeded"}
  PROVE  MessagesGoWithState' /\ EndsGoWithState' /\ \A t : Ends(t)' = Ends(t)
<1>1. \A t : Ends(t)' = Ends(t)
  BY DEF Ends
<1>2. \A t : Chat!Questions(t)' = Chat!Questions(t) /\ Chat!Answers(t)' = Chat!Answers(t)
  BY DEF Chat!Questions, Chat!Answers
<1>3. EndsGoWithState'
  BY <1>1 DEF ChatInv, EndsGoWithState, Chat!Terminal, Chat!Held
<1>4. MessagesGoWithState'
  <2> SUFFICES ASSUME NEW u \in Turns
               PROVE  /\ turn_state'[u] = "unasked" => Chat!Questions(u) = {}
                      /\ turn_state'[u] # "unasked" => \E i : Chat!Questions(u) = {i}
                      /\ turn_state'[u] # "succeeded" => Chat!Answers(u) = {}
                      /\ turn_state'[u] = "succeeded" => \E i : Chat!Answers(u) = {i}
                      /\ \A q \in Chat!Questions(u), a \in Chat!Answers(u) : q < a
    BY <1>2 DEF MessagesGoWithState
  <2>1. /\ turn_state[u] = "unasked" => Chat!Questions(u) = {}
        /\ turn_state[u] # "unasked" => \E i : Chat!Questions(u) = {i}
        /\ turn_state[u] # "succeeded" => Chat!Answers(u) = {}
        /\ turn_state[u] = "succeeded" => \E i : Chat!Answers(u) = {i}
        /\ \A q \in Chat!Questions(u), a \in Chat!Answers(u) : q < a
    BY DEF ChatInv, MessagesGoWithState
  <2>2. CASE turn_state'[u] = turn_state[u]
    BY <2>1, <2>2
  <2>3. CASE turn_state'[u] # turn_state[u]
    BY <2>1, <2>3 DEF Chat!Held
  <2>4. QED
    BY <2>2, <2>3
<1>5. QED
  BY <1>1, <1>3, <1>4

\* Busy workers go on while the state of their turn does.
LEMMA BusyKept ==
  ASSUME ChatInv, UNCHANGED <<at, turn, target, ordinal>>,
         \A t \in Turns : turn_state[t] \in Chat!Held \cup {"reconciliation_required"} =>
                          turn_state'[t] \in {turn_state[t], "reconciliation_required"},
         \A t \in Turns : turn_state[t] # "unasked" => Ends(t)' = Ends(t)
                                                   \/ turn_state[t] = "queued"
  PROVE  BusyHaveOpenTurns' /\ ClaimedOnce'
<1>1. SUFFICES ASSUME NEW v \in Workers, at[v] # "idle"
               PROVE  /\ Ends(turn[v])' = {}
                      /\ turn_state'[turn[v]] \in {"reconciliation_required",
                                   IF at[v] = "start" THEN "leased" ELSE "running"}
  BY DEF ChatInv, BusyHaveOpenTurns, ClaimedOnce
<1>2. PICK t \in Turns : /\ t = turn[v] /\ Ends(t) = {}
                        /\ turn_state[t] \in {"reconciliation_required",
                                   IF at[v] = "start" THEN "leased" ELSE "running"}
  BY <1>1 DEF ChatInv, BusyHaveOpenTurns
<1>3. turn_state'[t] \in {turn_state[t], "reconciliation_required"} /\ Ends(t)' = {}
  BY <1>2 DEF Chat!Held
<1>4. Ends(turn[v])' = Ends(t)'
  BY <1>2 DEF Ends
<1>5. QED
  BY <1>2, <1>3, <1>4

\* What the invariant is about stays as it is.
LEMMA ChatStutters ==
  ASSUME ChatInv, UNCHANGED <<asking, turn_state, events, messages, at, turn, target, ordinal>>
  PROVE  ChatInv'
<1>1. ChatTypes' /\ AskedLater'
  BY DEF ChatInv, ChatTypes, AskedLater
<1>2. BusyHaveOpenTurns' /\ ClaimedOnce'
  <2>1. \A t \in Turns : turn_state'[t] = turn_state[t] /\ Ends(t)' = Ends(t)
    BY TablesKept
  <2>2. QED
    BY <2>1, BusyKept
<1>3. QED
  BY <1>1, <1>2, TablesKept DEF ChatInv

\* A worker is lost or finds its lease gone, and changes no table.
LEMMA AbandonKeeps ==
  ASSUME ChatInv, NEW w \in Workers, Chat!Leave(w),
         UNCHANGED <<asking, turn_state, events, messages>>
  PROVE  ChatInv'
<1>1. ChatTypes'
  BY Leaves DEF ChatInv, ChatTypes, Going
<1>2. AskedLater'
  BY DEF ChatInv, AskedLater
<1>3. BusyHaveOpenTurns'
  <2> SUFFICES ASSUME NEW v \in Workers, at'[v] # "idle"
               PROVE  /\ turn'[v] \in Turns /\ Ends(turn[v])' = {}
                      /\ turn_state[turn'[v]] \in {"reconciliation_required",
                                   IF at'[v] = "start" THEN "leased" ELSE "running"}
                      /\ at'[v] = "fail" =>
                           target'[v] \in {"failed", "cancelled", "reconciliation_required"}
    BY DEF BusyHaveOpenTurns
  <2>1. v # w /\ at'[v] = at[v] /\ turn'[v] = turn[v] /\ target'[v] = target[v]
    BY Leaves
  <2>2. Ends(turn[v])' = Ends(turn[v])
    BY <2>1 DEF Ends
  <2>3. QED
    BY <2>1, <2>2 DEF ChatInv, BusyHaveOpenTurns
<1>4. QED
  BY <1>1, <1>2, <1>3, Leaves, TablesKept DEF ChatInv

\* A worker gives up, whatever it is going to report.
LEMMA FailsWith ==
  ASSUME ChatInv, NEW w \in Workers, at[w] \in Going,
         UNCHANGED <<asking, turn_state, events, messages, turn>>,
         NEW s \in {"failed", "cancelled", "reconciliation_required"}, Chat!FailWith(w, s),
         \/ UNCHANGED ordinal
         \/ ordinal' = [ordinal EXCEPT ![w] = Len(messages) + 1]
  PROVE  ChatInv'
<1>1. target' = [target EXCEPT ![w] = s] /\ Chat!Goto(w, "fail")
  BY DEF Chat!FailWith
<1>2. target'[w] = s
  BY <1>1 DEF ChatInv, ChatTypes
<1>3. QED
  BY <1>1, <1>2, GoesOn DEF Going

--------------------------------------------------------------------------------
(* The owner *)

LEMMA BeginAskKeeps ==
  ASSUME ChatInv, NEW t \in Turns, Chat!BeginAsk(t) \/ Chat!InsertTurn(t)
  PROVE  ChatInv'
<1>1. /\ UNCHANGED <<turn_state, events, messages, at, turn, target, ordinal>>
      /\ ChatTypes
  BY DEF Chat!BeginAsk, Chat!InsertTurn, Chat!rows, Chat!log, Chat!worker, ChatInv
<1>2. PICK x : asking' = [asking EXCEPT ![t] = x]
  BY DEF Chat!BeginAsk, Chat!InsertTurn
<1>3. AskedLater'
  BY <1>1 DEF ChatInv, ChatTypes, AskedLater, Chat!BeginAsk, Chat!InsertTurn, Chat!NoRequest
<1>4. ChatTypes'
  BY <1>1, <1>2 DEF ChatTypes
<1>5. QED
  BY <1>1, <1>3, <1>4, TablesKept, BusyKept DEF ChatInv

LEMMA CommitAskKeeps ==
  ASSUME ChatInv, NEW t \in Turns, Chat!CommitAsk(t)
  PROVE  ChatInv'
<1>1. /\ UNCHANGED <<at, turn, target, ordinal>> /\ ChatTypes
      /\ asking' = [asking EXCEPT ![t] = Chat!NoRequest]
      /\ turn_state[t] = "unasked"
  BY DEF Chat!CommitAsk, Chat!worker, ChatInv, AskedLater
<1>2. \A u \in Turns : u # t => asking'[u] = asking[u]
  BY <1>1 DEF ChatTypes
<1>3. asking' = [u \in Turns |-> asking'[u]] /\ asking'[t].stage = "none"
  BY <1>1 DEF ChatTypes, Chat!NoRequest
<1>4. CASE UNCHANGED <<turn_state, events, messages>>
  <2>1. ChatTypes'
    BY <1>1, <1>3, <1>4 DEF ChatTypes
  <2>2. AskedLater'
    BY <1>2, <1>3, <1>4 DEF ChatInv, AskedLater
  <2>3. QED
    BY <1>1, <1>4, <2>1, <2>2, TablesKept, BusyKept DEF ChatInv
<1>5. CASE /\ turn_state' = [turn_state EXCEPT ![t] = "queued"]
           /\ Chat!Event(t, "queued")
           /\ messages' = Append(messages, [turn |-> t, role |-> "user"])
  <2>1. /\ turn_state' \in [Turns -> {"unasked", "queued"} \cup Chat!Held \cup Chat!Terminal]
        /\ turn_state'[t] = "queued"
        /\ \A u \in Turns : u # t => turn_state'[u] = turn_state[u]
    BY <1>1, <1>5 DEF ChatTypes
  <2>2. /\ "queued" \in Chat!EventTypes /\ Chat!Outcome("queued") \notin Chat!Terminal
        /\ ChatTypes
    BY <1>1 DEF Chat!EventTypes, Chat!Outcome, Chat!Terminal
  <2>3. /\ events' \in [Turns -> Seq(Chat!EventTypes)]
        /\ \A u \in Turns : u # t => events'[u] = events[u] /\ Ends(u)' = Ends(u)
        /\ Ends(t)' = Ends(t)
    BY <1>5, <2>2, EventAppended
  <2>4. Ends(t) = {}
    BY <1>1 DEF ChatInv, EndsGoWithState, Chat!Terminal
  <2>5. PICK m \in Messages : m = [turn |-> t, role |-> "user"]
    BY DEF Messages
  <2>6. messages \in Seq(Messages) /\ messages' = Append(messages, m)
    BY <1>1, <1>5, <2>5 DEF ChatTypes
  <2>7. m.turn = t /\ m.role = "user"
    BY <2>5
  <2>8. messages' \in Seq(Messages)
    BY <2>6, MessageAppended
  <2>9. ASSUME NEW u \in Turns, u # t
        PROVE  Chat!Questions(u)' = Chat!Questions(u) /\ Chat!Answers(u)' = Chat!Answers(u)
    <3>1. /\ Chat!Questions(u)' =
               Chat!Questions(u) \cup
                 (IF m.turn = u /\ m.role = "user" THEN {Len(messages) + 1} ELSE {})
          /\ Chat!Answers(u)' =
               Chat!Answers(u) \cup
                 (IF m.turn = u /\ m.role = "assistant" THEN {Len(messages) + 1} ELSE {})
      BY <2>6, MessageAppended
    <3>2. m.turn # u
      BY <2>7, <2>9
    <3>3. QED
      BY <3>1, <3>2
  <2>10. /\ Chat!Questions(t)' = Chat!Questions(t) \cup {Len(messages) + 1}
         /\ Chat!Answers(t)' = Chat!Answers(t)
    BY <2>6, <2>7, MessageAppended
  <2>11. ChatTypes'
    BY <1>1, <1>3, <2>1, <2>3, <2>8 DEF ChatTypes
  <2>12. AskedLater'
    BY <1>2, <1>3, <2>1 DEF ChatInv, AskedLater
  <2>13. MessagesGoWithState'
    <3> SUFFICES ASSUME NEW u \in Turns
                 PROVE  /\ turn_state'[u] = "unasked" => Chat!Questions(u)' = {}
                        /\ turn_state'[u] # "unasked" => \E i : Chat!Questions(u)' = {i}
                        /\ turn_state'[u] # "succeeded" => Chat!Answers(u)' = {}
                        /\ turn_state'[u] = "succeeded" => \E i : Chat!Answers(u)' = {i}
                        /\ \A q \in Chat!Questions(u)', a \in Chat!Answers(u)' : q < a
      BY DEF MessagesGoWithState
    <3>1. CASE u = t
      <4>1. Chat!Questions(t) = {} /\ Chat!Answers(t) = {}
        BY <1>1 DEF ChatInv, MessagesGoWithState
      <4>2. Chat!Questions(t)' = {Len(messages) + 1} /\ Chat!Answers(t)' = {}
        BY <2>10, <4>1
      <4>3. QED
        BY <2>1, <3>1, <4>2
    <3>2. CASE u # t
      <4>1. /\ Chat!Questions(u)' = Chat!Questions(u) /\ Chat!Answers(u)' = Chat!Answers(u)
            /\ turn_state'[u] = turn_state[u]
        BY <2>1, <2>9, <3>2
      <4>2. QED
        BY <4>1 DEF ChatInv, MessagesGoWithState
    <3>3. QED
      BY <3>1, <3>2
  <2>14. EndsGoWithState'
    <3>1. ASSUME NEW u \in Turns, u # t
          PROVE  /\ turn_state'[u] = turn_state[u] /\ Ends(u)' = Ends(u)
                 /\ events'[u] = events[u]
      BY <2>1, <2>3, <3>1
    <3>2. Ends(t)' = {}
      BY <2>3, <2>4
    <3>3. QED
      BY <3>1, <3>2 DEF ChatInv, EndsGoWithState, Chat!Outcome, Chat!Terminal
  <2>15. /\ \A u \in Turns : turn_state[u] # "unasked" => Ends(u)' = Ends(u)
         /\ \A u \in Turns : turn_state[u] \in Chat!Held \cup {"reconciliation_required"} =>
                             turn_state'[u] \in {turn_state[u], "reconciliation_required"}
    BY <1>1, <2>1, <2>3 DEF Chat!Held
  <2>16. QED
    BY <1>1, <2>11, <2>12, <2>13, <2>14, <2>15, BusyKept DEF ChatInv
<1>6. QED
  BY <1>4, <1>5 DEF Chat!CommitAsk, Chat!log

LEMMA CancelKeeps ==
  ASSUME ChatInv, NEW t \in Turns, Chat!Cancel(t)
  PROVE  ChatInv'
<1>1. /\ UNCHANGED <<asking, messages, at, turn, target, ordinal>> /\ ChatTypes
      /\ turn_state[t] \in {"queued"} \cup Chat!Held
  BY DEF Chat!Cancel, Chat!worker, Chat!request, ChatInv
<1>2. CASE UNCHANGED <<turn_state, events>>
  <2>1. ChatTypes' /\ AskedLater'
    BY <1>1, <1>2 DEF ChatInv, ChatTypes, AskedLater
  <2>2. QED
    BY <1>1, <1>2, <2>1, TablesKept, BusyKept DEF ChatInv
<1>3. CASE /\ turn_state[t] = "queued"
           /\ turn_state' = [turn_state EXCEPT ![t] = "cancelled"]
           /\ Chat!Event(t, "cancelled")
  <2>1. /\ turn_state' \in [Turns -> {"unasked", "queued"} \cup Chat!Held \cup Chat!Terminal]
        /\ turn_state'[t] = "cancelled"
        /\ \A u \in Turns : u # t => turn_state'[u] = turn_state[u]
    BY <1>1, <1>3 DEF ChatTypes, Chat!Terminal
  <2>2. /\ "cancelled" \in Chat!EventTypes /\ Chat!Outcome("cancelled") = "cancelled"
        /\ "cancelled" \in Chat!Terminal /\ ChatTypes
    BY <1>1 DEF Chat!EventTypes, Chat!Outcome, Chat!Terminal
  <2>3. Ends(t) = {}
    BY <1>3 DEF ChatInv, EndsGoWithState, Chat!Terminal
  <2>4. /\ events' \in [Turns -> Seq(Chat!EventTypes)]
        /\ \A u \in Turns : u # t => events'[u] = events[u] /\ Ends(u)' = Ends(u)
        /\ \E i : Ends(t)' = {i} /\ Chat!Outcome(events'[t][i]) = "cancelled"
    BY <1>3, <2>2, <2>3, EventAppended
  <2>5. \A u : Chat!Questions(u)' = Chat!Questions(u) /\ Chat!Answers(u)' = Chat!Answers(u)
    BY <1>1 DEF Chat!Questions, Chat!Answers
  <2>6. ChatTypes'
    BY <1>1, <2>1, <2>4 DEF ChatTypes
  <2>7. AskedLater'
    BY <1>1, <1>3, <2>1 DEF ChatInv, AskedLater
  <2>8. MessagesGoWithState'
    BY <1>3, <2>1, <2>5 DEF ChatInv, MessagesGoWithState
  <2>9. EndsGoWithState'
    <3>1. ASSUME NEW u \in Turns, u # t
          PROVE  /\ turn_state'[u] = turn_state[u] /\ Ends(u)' = Ends(u)
                 /\ events'[u] = events[u]
      BY <2>1, <2>4, <3>1
    <3>2. \E i : /\ Ends(t)' = {i} /\ turn_state'[t] = Chat!Outcome(events'[t][i])
                /\ turn_state'[t] \in Chat!Terminal
      BY <2>1, <2>2, <2>4
    <3>3. QED
      BY <3>1, <3>2 DEF ChatInv, EndsGoWithState, Chat!Outcome, Chat!Terminal
  <2>10. /\ \A u \in Turns : Ends(u)' = Ends(u) \/ turn_state[u] = "queued"
         /\ \A u \in Turns : turn_state[u] \in Chat!Held \cup {"reconciliation_required"} =>
                             turn_state'[u] \in {turn_state[u], "reconciliation_required"}
    BY <1>3, <2>1, <2>4 DEF Chat!Held
  <2>11. QED
    BY <1>1, <2>6, <2>7, <2>8, <2>9, <2>10, BusyKept DEF ChatInv
<1>4. QED
  BY <1>2, <1>3 DEF Chat!Cancel

--------------------------------------------------------------------------------
(* The workers *)

LEMMA ClaimKeeps ==
  ASSUME ChatInv, NEW w \in Workers, Chat!Claim(w)
  PROVE  ChatInv'
<1>1. /\ UNCHANGED <<asking, events, messages>> /\ ChatTypes /\ at[w] = "idle"
  BY DEF Chat!Claim, Chat!log, Chat!request, ChatInv
<1>2. /\ Chat!Closed \in [Turns -> {"unasked", "queued"} \cup Chat!Held \cup Chat!Terminal]
      /\ \A t \in Turns : Chat!Closed[t] # turn_state[t] =>
           turn_state[t] \in Chat!Held /\ Chat!Closed[t] = "reconciliation_required"
  BY <1>1 DEF ChatTypes, Chat!Closed, Chat!Expired, Chat!Terminal
<1>3. CASE turn_state' = Chat!Closed /\ UNCHANGED Chat!worker
  <2>1. UNCHANGED <<at, turn, target, ordinal>>
    BY <1>3 DEF Chat!worker
  <2>2. MessagesGoWithState' /\ EndsGoWithState' /\ \A t : Ends(t)' = Ends(t)
    BY <1>1, <1>2, <1>3, StatesChange DEF Chat!Held
  <2>3. \A t \in Turns : turn_state'[t] \in {turn_state[t], "reconciliation_required"}
    BY <1>2, <1>3
  <2>4. ChatTypes' /\ AskedLater'
    BY <1>1, <1>2, <1>3, <2>1 DEF ChatInv, ChatTypes, AskedLater, Chat!Held
  <2>5. QED
    BY <2>1, <2>2, <2>3, <2>4, BusyKept DEF ChatInv
<1>4. ASSUME NEW t \in Turns, turn_state[t] = "queued",
             turn_state' = [Chat!Closed EXCEPT ![t] = "leased"],
             at' = [at EXCEPT ![w] = "start"], turn' = [turn EXCEPT ![w] = t],
             UNCHANGED <<target, ordinal>>
      PROVE  ChatInv'
  <2>1. /\ turn_state' \in [Turns -> {"unasked", "queued"} \cup Chat!Held \cup Chat!Terminal]
        /\ turn_state'[t] = "leased"
        /\ \A u \in Turns : u # t => turn_state'[u] = Chat!Closed[u]
    BY <1>2, <1>4 DEF Chat!Held
  <2>2. \A u \in Turns : turn_state'[u] # turn_state[u] =>
          /\ turn_state[u] \in {"queued"} \cup Chat!Held
          /\ turn_state'[u] \in {"leased", "reconciliation_required"}
    BY <1>2, <1>4, <2>1
  <2>3. MessagesGoWithState' /\ EndsGoWithState' /\ \A u : Ends(u)' = Ends(u)
    BY <1>1, <2>1, <2>2, StatesChange
  <2>4. ChatTypes'
    BY <1>1, <1>4, <2>1 DEF ChatTypes
  <2>5. AskedLater'
    BY <1>1, <2>2 DEF ChatInv, AskedLater, Chat!Held
  <2>6. /\ at'[w] = "start" /\ turn'[w] = t
        /\ \A v \in Workers : v # w => at'[v] = at[v] /\ turn'[v] = turn[v]
    BY <1>1, <1>4 DEF ChatTypes
  <2>7. ASSUME NEW v \in Workers, v # w, at[v] # "idle"
        PROVE  turn[v] # t /\ turn[v] \in Turns
    BY <1>4, <2>7 DEF ChatInv, BusyHaveOpenTurns
  <2>8. ClaimedOnce'
    BY <2>6, <2>7 DEF ChatInv, ClaimedOnce
  <2>9. Ends(t) = {}
    BY <1>4 DEF ChatInv, EndsGoWithState, Chat!Terminal
  <2>10. BusyHaveOpenTurns'
    <3> SUFFICES ASSUME NEW v \in Workers, at'[v] # "idle"
                 PROVE  /\ turn'[v] \in Turns /\ Ends(turn[v])' = {}
                        /\ turn_state'[turn'[v]] \in {"reconciliation_required",
                                     IF at'[v] = "start" THEN "leased" ELSE "running"}
                        /\ at'[v] = "fail" =>
                             target[v] \in {"failed", "cancelled", "reconciliation_required"}
      BY <1>4 DEF BusyHaveOpenTurns
    <3>1. Ends(turn[v])' = Ends(turn'[v])
      BY <1>1 DEF Ends
    <3>2. CASE v = w
      BY <2>1, <2>6, <2>9, <3>1, <3>2
    <3>3. CASE v # w
      <4>1. at[v] # "idle" /\ at'[v] = at[v] /\ turn'[v] = turn[v]
        BY <2>6, <3>3
      <4>2. PICK u \in Turns : u = turn[v] /\ u # t
        BY <2>7, <3>3, <4>1
      <4>3. turn_state'[u] \in {turn_state[u], "reconciliation_required"}
        BY <1>2, <2>1, <4>2
      <4>4. QED
        BY <3>1, <4>1, <4>2, <4>3 DEF ChatInv, BusyHaveOpenTurns
    <3>4. QED
      BY <3>2, <3>3
  <2>11. QED
    BY <2>3, <2>4, <2>5, <2>8, <2>10 DEF ChatInv
<1>5. QED
  BY <1>3, <1>4 DEF Chat!Claim

LEMMA StartKeeps ==
  ASSUME ChatInv, NEW w \in Workers, Chat!Start(w)
  PROVE  ChatInv'
<1>1. /\ UNCHANGED <<asking, messages>> /\ ChatTypes /\ at[w] = "start"
  BY DEF Chat!Start, Chat!request, ChatInv
<1>2. PICK t \in Turns : /\ t = turn[w] /\ Ends(t) = {}
                        /\ turn_state[t] \in {"leased", "reconciliation_required"}
  BY <1>1 DEF ChatInv, BusyHaveOpenTurns
<1>3. CASE Chat!Leave(w) /\ UNCHANGED <<turn_state, events>>
  BY <1>1, <1>3, AbandonKeeps
<1>4. CASE /\ turn_state[t] = "leased"
           /\ turn_state' = [turn_state EXCEPT ![t] = "running"]
           /\ Chat!Event(t, "running")
           /\ Chat!Goto(w, "generate")
           /\ UNCHANGED <<turn, target, ordinal>>
  <2>1. /\ turn_state' \in [Turns -> {"unasked", "queued"} \cup Chat!Held \cup Chat!Terminal]
        /\ turn_state'[t] = "running"
        /\ \A u \in Turns : u # t => turn_state'[u] = turn_state[u]
    BY <1>1, <1>4 DEF ChatTypes, Chat!Held
  <2>2. "running" \in Chat!EventTypes /\ Chat!Outcome("running") \notin Chat!Terminal
    BY DEF Chat!EventTypes, Chat!Outcome, Chat!Terminal
  <2>3. /\ events' \in [Turns -> Seq(Chat!EventTypes)]
        /\ \A u \in Turns : Ends(u)' = Ends(u)
        /\ \A u \in Turns : \A i \in Ends(u) : events'[u][i] = events[u][i]
    BY <1>1, <1>4, <2>2, EventAppended
  <2>4. \A u : Chat!Questions(u)' = Chat!Questions(u) /\ Chat!Answers(u)' = Chat!Answers(u)
    BY <1>1 DEF Chat!Questions, Chat!Answers
  <2>5. /\ at' \in [Workers -> Going \cup {"idle", "start"}] /\ at'[w] = "generate"
        /\ \A v \in Workers : v # w => at'[v] = at[v]
    BY <1>1, <1>4 DEF ChatTypes, Chat!Goto, Going
  <2>6. ChatTypes'
    BY <1>1, <1>4, <2>1, <2>3, <2>5 DEF ChatTypes, Going
  <2>7. AskedLater'
    BY <1>1, <1>4, <2>1 DEF ChatInv, AskedLater
  <2>8. ClaimedOnce'
    BY <1>1, <1>4, <2>5 DEF ChatInv, ClaimedOnce
  <2>9. MessagesGoWithState'
    BY <1>4, <2>1, <2>4 DEF ChatInv, MessagesGoWithState
  <2>10. EndsGoWithState'
    <3>1. ASSUME NEW u \in Turns, u # t
          PROVE  \/ Ends(u)' = {}
                 \/ \E i : /\ Ends(u)' = {i} /\ turn_state'[u] = Chat!Outcome(events'[u][i])
                          /\ turn_state'[u] \in Chat!Terminal
      <4>1. turn_state'[u] = turn_state[u] /\ events'[u] = events[u]
        BY <1>1, <1>4, <2>1, <2>2, <3>1, EventAppended
      <4>2. QED
        BY <2>3, <4>1 DEF ChatInv, EndsGoWithState
    <3>2. Ends(t)' = {}
      BY <1>2, <2>3
    <3>3. QED
      BY <3>1, <3>2 DEF EndsGoWithState, Chat!Outcome, Chat!Terminal
  <2>11. BusyHaveOpenTurns'
    <3> SUFFICES ASSUME NEW v \in Workers, at'[v] # "idle"
                 PROVE  /\ turn[v] \in Turns /\ Ends(turn[v])' = {}
                        /\ turn_state'[turn[v]] \in {"reconciliation_required",
                                     IF at'[v] = "start" THEN "leased" ELSE "running"}
                        /\ at'[v] = "fail" =>
                             target[v] \in {"failed", "cancelled", "reconciliation_required"}
      BY <1>4 DEF BusyHaveOpenTurns
    <3>1. at[v] # "idle"
      BY <1>1, <2>5
    <3>2. PICK u \in Turns : u = turn[v] /\ Ends(u) = {} /\ (u = t => v = w)
      BY <1>1, <1>2, <3>1 DEF ChatInv, BusyHaveOpenTurns, ClaimedOnce
    <3>3. Ends(turn[v])' = Ends(u)'
      BY <1>4, <3>2 DEF Ends
    <3>4. Ends(u)' = {}
      BY <2>3, <3>2
    <3>5. CASE v = w
      BY <1>2, <2>1, <2>5, <3>2, <3>3, <3>4, <3>5
    <3>6. CASE v # w
      <4>1. at'[v] = at[v] /\ turn_state'[u] = turn_state[u]
        BY <2>1, <2>5, <3>2, <3>6
      <4>2. QED
        BY <3>1, <3>2, <3>3, <3>4, <4>1 DEF ChatInv, BusyHaveOpenTurns
    <3>7. QED
      BY <3>5, <3>6
  <2>12. QED
    BY <2>6, <2>7, <2>8, <2>9, <2>10, <2>11 DEF ChatInv
<1>5. QED
  BY <1>2, <1>3, <1>4 DEF Chat!Start

LEMMA AppendDeltaKeeps ==
  ASSUME ChatInv, NEW w \in Workers, Chat!AppendDelta(w)
  PROVE  ChatInv'
<1>1. /\ UNCHANGED <<asking, turn_state, messages, turn, target, ordinal>> /\ ChatTypes
      /\ at[w] = "generate" /\ Chat!Goto(w, "beat") /\ Chat!Event(turn[w], "delta")
  BY DEF Chat!AppendDelta, Chat!request, Chat!rows, ChatInv
<1>2. PICK t \in Turns : t = turn[w]
  BY <1>1 DEF ChatInv, BusyHaveOpenTurns
<1>3. "delta" \in Chat!EventTypes /\ Chat!Outcome("delta") \notin Chat!Terminal
  BY DEF Chat!EventTypes, Chat!Outcome, Chat!Terminal
<1>4. /\ events' \in [Turns -> Seq(Chat!EventTypes)]
      /\ \A u \in Turns : Ends(u)' = Ends(u)
      /\ \A u \in Turns : \A i \in Ends(u) : events'[u][i] = events[u][i]
  BY <1>1, <1>2, <1>3, EventAppended
<1>5. \A u : Chat!Questions(u)' = Chat!Questions(u) /\ Chat!Answers(u)' = Chat!Answers(u)
  BY <1>1 DEF Chat!Questions, Chat!Answers
<1>6. /\ at' \in [Workers -> Going \cup {"idle", "start"}] /\ at'[w] = "beat"
      /\ \A v \in Workers : v # w => at'[v] = at[v]
  BY <1>1 DEF ChatTypes, Chat!Goto, Going
<1>7. ChatTypes'
  BY <1>1, <1>4, <1>6 DEF ChatTypes, Going
<1>8. AskedLater' /\ ClaimedOnce'
  BY <1>1, <1>6 DEF ChatInv, AskedLater, ClaimedOnce
<1>9. MessagesGoWithState'
  BY <1>1, <1>5 DEF ChatInv, MessagesGoWithState
<1>10. EndsGoWithState'
  <2> SUFFICES ASSUME NEW u \in Turns, Ends(u) # {}
               PROVE  \E i : /\ Ends(u) = {i} /\ turn_state[u] = Chat!Outcome(events'[u][i])
                            /\ turn_state[u] \in Chat!Terminal
    BY <1>1, <1>4 DEF EndsGoWithState, Chat!Outcome, Chat!Terminal
  <2>1. PICK i : /\ Ends(u) = {i} /\ turn_state[u] = Chat!Outcome(events[u][i])
                 /\ turn_state[u] \in Chat!Terminal
    BY DEF ChatInv, EndsGoWithState
  <2>2. events'[u][i] = events[u][i]
    BY <1>4, <2>1
  <2>3. QED
    BY <2>1, <2>2
<1>11. BusyHaveOpenTurns'
  <2> SUFFICES ASSUME NEW v \in Workers, at'[v] # "idle"
               PROVE  /\ turn[v] \in Turns /\ Ends(turn[v])' = {}
                      /\ turn_state[turn[v]] \in {"reconciliation_required",
                                   IF at'[v] = "start" THEN "leased" ELSE "running"}
                      /\ at'[v] = "fail" =>
                           target[v] \in {"failed", "cancelled", "reconciliation_required"}
    BY <1>1 DEF BusyHaveOpenTurns
  <2>1. at[v] # "idle" /\ (at[v] = "start" <=> at'[v] = "start")
        /\ (at'[v] = "fail" => at[v] = "fail")
    BY <1>1, <1>6
  <2>2. PICK u \in Turns : u = turn[v] /\ Ends(u) = {}
    BY <2>1 DEF ChatInv, BusyHaveOpenTurns
  <2>3. Ends(turn[v])' = Ends(u)'
    BY <1>1, <2>2 DEF Ends
  <2>4. QED
    BY <1>4, <2>1, <2>2, <2>3 DEF ChatInv, BusyHaveOpenTurns
<1>12. QED
  BY <1>7, <1>8, <1>9, <1>10, <1>11 DEF ChatInv

LEMMA GoingKeeps ==
  ASSUME ChatInv, NEW w \in Workers,
         \/ Chat!StreamEnds(w) \/ Chat!GenerationFails(w) \/ Chat!Heartbeat(w)
         \/ Chat!AnswerIsEmpty(w) \/ Chat!BeginComplete(w)
  PROVE  ChatInv'
<1> USE DEF Going
<1>1. CASE Chat!StreamEnds(w)
  BY <1>1, GoesOn DEF Chat!StreamEnds, Chat!request, Chat!rows, Chat!log
<1>2. CASE Chat!GenerationFails(w)
  <2>1. PICK s \in {"failed", "reconciliation_required"} : Chat!FailWith(w, s)
    BY <1>2 DEF Chat!GenerationFails
  <2>2. QED
    BY <1>2, <2>1, FailsWith DEF Chat!GenerationFails, Chat!request, Chat!rows, Chat!log
<1>3. CASE Chat!Heartbeat(w)
  <2>1. /\ UNCHANGED <<asking, turn_state, events, messages, turn, ordinal>>
        /\ at[w] \in {"beat", "last_beat"}
    BY <1>3 DEF Chat!Heartbeat, Chat!request, Chat!log
  <2>2. \/ \E s \in {"generate", "complete"} : Chat!Goto(w, s) /\ UNCHANGED target
        \/ \E s \in {"cancelled", "failed", "reconciliation_required"} : Chat!FailWith(w, s)
    BY <1>3 DEF Chat!Heartbeat
  <2>3. QED
    BY <2>1, <2>2, GoesOn, FailsWith
<1>4. CASE Chat!AnswerIsEmpty(w)
  BY <1>4, FailsWith DEF Chat!AnswerIsEmpty, Chat!request, Chat!rows, Chat!log
<1>5. CASE Chat!BeginComplete(w)
  BY <1>5, GoesOn DEF Chat!BeginComplete, Chat!request, Chat!rows, Chat!log
<1>6. QED
  BY <1>1, <1>2, <1>3, <1>4, <1>5

LEMMA OutcomeKeeps ==
  ASSUME ChatInv, NEW w \in Workers, Chat!CommitComplete(w) \/ Chat!Fail(w)
  PROVE  ChatInv'
<1> USE DEF Going
<1>1. CASE Chat!CommitComplete(w)
  <2>1. UNCHANGED asking /\ at[w] = "committing"
    BY <1>1 DEF Chat!CommitComplete, Chat!request
  <2>2. CASE Chat!FailWith(w, "failed") /\ UNCHANGED <<turn_state, Chat!log, turn, ordinal>>
    BY <2>1, <2>2, FailsWith DEF Chat!log
  <2>3. CASE /\ turn_state' = [turn_state EXCEPT ![turn[w]] = "succeeded"]
             /\ messages' = Append(messages, [turn |-> turn[w], role |-> "assistant"])
             /\ Chat!Event(turn[w], "completed")
             /\ Chat!Leave(w)
    <3>1. Chat!Outcome("completed") = "succeeded"
      BY DEF Chat!Outcome
    <3>2. QED
      BY <2>1, <2>3, <3>1, TurnEnds
  <2>4. QED
    BY <1>1, <2>2, <2>3 DEF Chat!CommitComplete
<1>2. CASE Chat!Fail(w)
  <2>1. /\ UNCHANGED <<asking, messages>> /\ at[w] = "fail" /\ Chat!Leave(w)
        /\ turn_state' = [turn_state EXCEPT ![turn[w]] = target[w]]
        /\ Chat!Event(turn[w], target[w])
    BY <1>2 DEF Chat!Fail, Chat!request
  <2>2. PICK e \in {"failed", "cancelled", "reconciliation_required"} : e = target[w]
    BY <2>1 DEF ChatInv, BusyHaveOpenTurns
  <2>3. Chat!Outcome(e) = e
    BY <2>2 DEF Chat!Outcome
  <2>4. QED
    BY <2>1, <2>2, <2>3, TurnEnds
<1>3. QED
  BY <1>1, <1>2

--------------------------------------------------------------------------------
LEMMA ChatStep == ChatInv /\ [Chat!Next]_(Chat!vars) => ChatInv'
<1> SUFFICES ASSUME ChatInv, [Chat!Next]_(Chat!vars) PROVE ChatInv'
  OBVIOUS
<1>1. ASSUME NEW t \in Turns, Chat!Lapse(t) PROVE ChatInv'
  <2>1. UNCHANGED <<asking, turn_state, events, messages, at, turn, target, ordinal>>
    BY <1>1 DEF Chat!Lapse, Chat!request, Chat!log, Chat!worker
  <2>2. QED
    BY <2>1, ChatStutters
<1>2. CASE UNCHANGED Chat!vars
  BY <1>2, ChatStutters DEF Chat!vars, Chat!request, Chat!rows, Chat!log, Chat!worker
<1>3. ASSUME NEW w \in Workers, Chat!Crash(w) PROVE ChatInv'
  <2>1. /\ UNCHANGED <<asking, turn_state, events, messages>> /\ Chat!Leave(w)
    BY <1>3 DEF Chat!Crash, Chat!request, Chat!rows, Chat!log
  <2>2. QED
    BY <2>1, AbandonKeeps
<1>4. QED
  BY <1>1, <1>2, <1>3, BeginAskKeeps, CommitAskKeeps, CancelKeeps, ClaimKeeps, StartKeeps,
     AppendDeltaKeeps, GoingKeeps, OutcomeKeeps DEF Chat!Next, Chat!Answer

\* The invariant is inductive over the steps of the owner's requests and of the workers.
THEOREM ChatInvariance == Chat!Spec => []ChatInv
  BY ChatInit, ChatStep, PTL DEF Chat!Spec

\* Counting sets of at most one element.
LEMMA ChatCounts == Chat!Cardinality({}) = 0 /\ \A i : Chat!Cardinality({i}) = 1
<1>1. \A S : Chat!Cardinality(S) = Cardinality(S)
  BY DEF Chat!Cardinality, Cardinality
<1>2. Cardinality({}) = 0 /\ \A i : Cardinality({i}) = 1
  BY FS_EmptySet, FS_Singleton, Zenon
<1>3. QED
  BY <1>1, <1>2

\* Every asked turn has its question and every succeeded one its answer behind it, once, though
\* complete() and fail() ask for no lease and a claim may have closed the turn.
THEOREM AnswersAreOutcomes == Chat!Spec => []Chat!AnswerIsOutcome
<1>1. ChatInv => Chat!AnswerIsOutcome
  <2> SUFFICES ASSUME ChatInv, NEW t \in Turns
               PROVE  /\ Chat!Cardinality(Chat!Questions(t)) = (IF t \in Chat!Asked THEN 1 ELSE 0)
                      /\ Chat!Cardinality(Chat!Answers(t)) =
                           (IF turn_state[t] = "succeeded" THEN 1 ELSE 0)
                      /\ \A q \in Chat!Questions(t), a \in Chat!Answers(t) : q < a
    BY DEF Chat!AnswerIsOutcome
  <2>1. Chat!Cardinality({}) = 0 /\ \A i : Chat!Cardinality({i}) = 1
    BY ChatCounts
  <2>2. t \in Chat!Asked <=> turn_state[t] # "unasked"
    BY DEF Chat!Asked
  <2>3. QED
    BY <2>1, <2>2 DEF ChatInv, MessagesGoWithState
<1>2. QED
  BY <1>1, ChatInvariance, PTL

\* The first outcome that the event stream tells is the only one, and stays the turn's.
THEOREM ToldOutcomesStand == Chat!Spec => []Chat!ToldOutcomeStands
<1>1. ChatInv => Chat!ToldOutcomeStands
  <2> SUFFICES ASSUME ChatInv, NEW t \in Turns
               PROVE  /\ \A e \in Chat!Told(t) : Chat!Outcome(e) \in Chat!Terminal =>
                                                turn_state[t] = Chat!Outcome(e)
                      /\ Chat!Cardinality({i \in DOMAIN events[t] :
                                       Chat!Outcome(events[t][i]) \in Chat!Terminal}) <= 1
    BY DEF Chat!ToldOutcomeStands
  <2>1. \/ Ends(t) = {}
        \/ \E i : Ends(t) = {i} /\ turn_state[t] = Chat!Outcome(events[t][i])
    BY DEF ChatInv, EndsGoWithState
  <2>2. Chat!Cardinality({}) = 0 /\ \A i : Chat!Cardinality({i}) = 1
    BY ChatCounts
  <2>3. Chat!Cardinality(Ends(t)) <= 1
    BY <2>1, <2>2
  <2>4. ASSUME NEW e \in Chat!Told(t), Chat!Outcome(e) \in Chat!Terminal
        PROVE  turn_state[t] = Chat!Outcome(e)
    <3>1. PICK i \in DOMAIN events[t] : events[t][i] = e
      BY <2>4 DEF Chat!Told
    <3>2. i \in Ends(t)
      BY <2>4, <3>1 DEF Ends
    <3>3. QED
      BY <2>1, <3>1, <3>2
  <2>5. QED
    BY <2>3, <2>4 DEF Ends
<1>2. QED
  BY <1>1, ChatInvariance, PTL

--------------------------------------------------------------------------------
CONSTANTS Documents, Values, ValueOf, Replaces, Chain, Reviewable, MaxReviews, MaxRequests

VARIABLES found, stage, formation, log, asked, executing, requests, tx, lost, \* the jobs
          defined, packages, matrix, entries                                 \* the models

Model == INSTANCE ProjectUnderstanding WITH job <- executing, crashes <- lost

--------------------------------------------------------------------------------
(* ProjectUnderstanding: the reviews *)

Reviews == [candidate : Model!Candidates, action : Model!Actions]

\* The reviews of a candidate, by their places.
Of(c) == {i \in DOMAIN log : log[i].candidate = c}

\* The latest of them can be named.
LatestIsThere ==
  /\ log \in Seq(Reviews)
  /\ \A c : Of(c) # {} => Model!Max(Of(c)) \in Of(c) /\ \A i \in Of(c) : i <= Model!Max(Of(c))

LEMMA LatestAppended ==
  ASSUME LatestIsThere, NEW r \in Reviews, log' = Append(log, r)
  PROVE  /\ LatestIsThere'
         /\ Len(log') = Len(log) + 1 /\ Len(log) \in Nat
         /\ log'[Len(log) + 1] = r
         /\ \A i \in 1..Len(log) : log'[i] = log[i]
         /\ \A c : c # r.candidate => Model!Latest(c)' = Model!Latest(c)
<1>1. /\ log \in Seq(Reviews) /\ Len(log) \in Nat /\ DOMAIN log = 1..Len(log)
      /\ log' \in Seq(Reviews) /\ Len(log') = Len(log) + 1 /\ DOMAIN log' = 1..Len(log) + 1
      /\ log'[Len(log) + 1] = r
      /\ \A i \in 1..Len(log) : log'[i] = log[i]
  BY DEF LatestIsThere
<1>2. ASSUME NEW c, c # r.candidate
      PROVE  Of(c)' = Of(c)
  BY <1>1, <1>2 DEF Of
<1>3. ASSUME NEW c, c = r.candidate
      PROVE  Of(c)' = Of(c) \cup {Len(log) + 1}
  BY <1>1, <1>3 DEF Of
<1>4. ASSUME NEW c, Of(c)' # {}
      PROVE  Model!Max(Of(c)') \in Of(c)' /\ \A i \in Of(c)' : i <= Model!Max(Of(c)')
  <2>1. CASE c # r.candidate
    BY <1>2, <1>4, <2>1 DEF LatestIsThere
  <2>2. CASE c = r.candidate
    <3>1. PICK m : m = Len(log) + 1
      OBVIOUS
    <3>2. m \in Of(c)' /\ \A i \in Of(c)' : m >= i /\ i \in Nat
      BY <1>1, <1>3, <2>2, <3>1 DEF Of
    <3>3. Model!Max(Of(c)') = m
      BY <3>2 DEF Model!Max
    <3>4. QED
      BY <3>2, <3>3
  <2>3. QED
    BY <2>1, <2>2
<1>5. LatestIsThere'
  BY <1>1, <1>4 DEF LatestIsThere
<1>6. ASSUME NEW c, c # r.candidate
      PROVE  Model!Latest(c)' = Model!Latest(c)
  <2>1. Of(c)' = Of(c)
    BY <1>2, <1>6
  <2>2. PICK S : S = Of(c) /\ S = Of(c)'
    BY <2>1
  <2>3. Model!Latest(c) = IF S = {} THEN "none" ELSE log[Model!Max(S)].action
    BY <2>2 DEF Model!Latest, Of
  <2>4. Model!Latest(c)' = IF S = {} THEN "none" ELSE log'[Model!Max(S)].action
    BY <2>2 DEF Model!Latest, Of
  <2>5. S # {} => log'[Model!Max(S)] = log[Model!Max(S)]
    BY <1>1, <2>2 DEF LatestIsThere, Of
  <2>6. CASE S = {}
    BY <2>3, <2>4, <2>6
  <2>7. CASE S # {}
    <3>1. Model!Latest(c) = log[Model!Max(S)].action
      BY <2>3, <2>7
    <3>2. Model!Latest(c)' = log'[Model!Max(S)].action
      BY <2>4, <2>7
    <3>3. QED
      BY <2>5, <2>7, <3>1, <3>2
  <2>8. QED
    BY <2>6, <2>7
<1>7. QED
  BY <1>1, <1>5, <1>6

--------------------------------------------------------------------------------
(* ProjectUnderstanding: the inductive invariant *)

\* What may count in a model of the corpus c: the facts and works of its sources, but for what the
\* owner had decided otherwise when the corpus was read.
Fits(c, facts, works) ==
  /\ \A fact \in facts :
       /\ fact[1] \in c.sources
       /\ ~Model!Decides(c, <<fact[1], "field">>, "rejected")
       /\ Model!Decides(c, <<fact[1], "field">>, "corrected") => fact[2] = "corrected"
  /\ \A d \in works : d \in c.sources /\ ~Model!Decides(c, <<d, "work">>, "rejected")

Fields == {"step", "corpus", "first", "facts", "works", "entries"}

HasFields(t) == t = [x \in Fields |-> t[x]]

\* A corpus was read before now.
IsRead(c) == c.reviews \in 0..Len(log)

TransactionsAreTyped ==
  /\ tx = [w \in Workers |-> tx[w]]
  /\ \A w \in Workers : tx[w] # None => HasFields(tx[w]) /\ IsRead(tx[w].corpus)
  /\ \A c \in DOMAIN defined : IsRead(c)
  /\ DOMAIN packages = DOMAIN defined /\ DOMAIN matrix = DOMAIN defined
  /\ DOMAIN entries = DOMAIN defined

\* What a transaction has read fits its corpus.
OpenFit ==
  \A w \in Workers : tx[w] # None /\ tx[w].step # "corpus" =>
    Fits(tx[w].corpus, tx[w].facts, tx[w].works)

StoredFit == \A c \in DOMAIN defined : Fits(c, defined[c], packages[c])

\* Who is not the first finds a model.
OthersFindModel ==
  \A w \in Workers : tx[w] # None /\ ~tx[w].first => tx[w].corpus \in DOMAIN defined

\* One transaction at a time has rebuilt the projection of a corpus, and nothing that it has seen
\* has changed since.
ProjectsAlone ==
  \A w \in Workers : Model!Step(w, "projected") =>
    /\ tx[w].entries = Model!Canon(w)
    /\ \A v \in Workers : Model!Step(v, "projected") /\ tx[v].corpus = tx[w].corpus => v = w

ModelInv ==
  /\ LatestIsThere /\ TransactionsAreTyped /\ OpenFit /\ StoredFit /\ OthersFindModel
  /\ ProjectsAlone /\ Model!ProjectionIsCanonical

LEMMA ModelInit == Model!Init => ModelInv
<1> SUFFICES ASSUME Model!Init PROVE ModelInv
  OBVIOUS
<1>1. /\ log = <<>> /\ DOMAIN defined = {} /\ DOMAIN packages = {} /\ DOMAIN matrix = {}
      /\ DOMAIN entries = {} /\ tx = [w \in Workers |-> None]
  BY DEF Model!Init
<1>2. LatestIsThere
  BY <1>1 DEF LatestIsThere, Of
<1>3. \A w \in Workers : tx[w] = None
  BY <1>1
<1>4. TransactionsAreTyped
  BY <1>1, <1>3 DEF TransactionsAreTyped
<1>5. QED
  BY <1>1, <1>2, <1>3, <1>4 DEF ModelInv, OpenFit, StoredFit, OthersFindModel, ProjectsAlone,
    Model!ProjectionIsCanonical, Model!Step

--------------------------------------------------------------------------------
(* ProjectUnderstanding: the steps *)

\* What fitted fits: a review behind the reading of a corpus takes a decision back at most.
LEMMA ReviewsKeepFits ==
  ASSUME LatestIsThere, NEW r \in Reviews, log' = Append(log, r)
  PROVE  \A c, facts, works : IsRead(c) /\ Fits(c, facts, works) =>
           IsRead(c)' /\ Fits(c, facts, works)'
<1> SUFFICES ASSUME NEW c, NEW facts, NEW works, IsRead(c), Fits(c, facts, works)
             PROVE  IsRead(c)' /\ Fits(c, facts, works)'
  OBVIOUS
<1>1. IsRead(c)'
  BY LatestAppended DEF IsRead
<1>2. ASSUME NEW x, NEW action, Model!Decides(c, x, action)'
      PROVE  Model!Decides(c, x, action)
  <2>1. /\ Len(log') = Len(log) + 1 /\ Len(log) \in Nat
        /\ log'[Len(log) + 1] = r
        /\ \A i \in 1..Len(log) : log'[i] = log[i]
    BY LatestAppended
  <2>2. /\ Model!Latest(x)' = action
        /\ \A i \in (c.reviews + 1)..Len(log') : log'[i].candidate # x
    BY <1>2 DEF Model!Decides
  <2>3. c.reviews \in 0..Len(log)
    BY DEF IsRead
  <2>4. x # r.candidate
    BY <2>1, <2>2, <2>3
  <2>5. Model!Latest(x) = action
    BY <2>2, <2>4, LatestAppended
  <2>6. \A i \in (c.reviews + 1)..Len(log) : log[i].candidate # x
    BY <2>1, <2>2, <2>3
  <2>7. QED
    BY <2>5, <2>6 DEF Model!Decides
<1>3. Fits(c, facts, works)'
  BY <1>2 DEF Fits
<1>4. QED
  BY <1>1, <1>3

LEMMA ReviewKeeps ==
  ASSUME ModelInv, NEW x \in Model!Candidates, NEW action \in Model!Actions,
         Model!Review(x, action)
  PROVE  ModelInv'
<1>1. PICK r \in Reviews : log' = Append(log, r)
  BY DEF Model!Review, Reviews
<1>2. UNCHANGED <<tx, defined, packages, matrix, entries>>
  BY DEF Model!Review, Model!model
<1>3. LatestIsThere'
  BY <1>1, LatestAppended DEF ModelInv
<1>4. \A c, facts, works : IsRead(c) /\ Fits(c, facts, works) =>
        IsRead(c)' /\ Fits(c, facts, works)'
  BY <1>1, ReviewsKeepFits DEF ModelInv
<1>5. \A c : IsRead(c) => IsRead(c)'
  BY <1>1, LatestAppended DEF ModelInv, IsRead
<1>6. TransactionsAreTyped'
  BY <1>2, <1>5 DEF ModelInv, TransactionsAreTyped
<1>7. OpenFit'
  <2> SUFFICES ASSUME NEW w \in Workers, tx[w] # None, tx[w].step # "corpus"
               PROVE  Fits(tx[w].corpus, tx[w].facts, tx[w].works)'
    BY <1>2 DEF OpenFit
  <2>1. PICK c, facts, works :
          c = tx[w].corpus /\ facts = tx[w].facts /\ works = tx[w].works
    OBVIOUS
  <2>2. Fits(c, facts, works) /\ IsRead(c)
    BY <2>1 DEF ModelInv, OpenFit, TransactionsAreTyped
  <2>3. Fits(c, facts, works)'
    BY <1>4, <2>2
  <2>4. QED
    BY <1>2, <2>1, <2>3 DEF Fits
<1>8. StoredFit'
  <2> SUFFICES ASSUME NEW c \in DOMAIN defined
               PROVE  Fits(c, defined[c], packages[c])'
    BY <1>2 DEF StoredFit
  <2>1. PICK facts, works : facts = defined[c] /\ works = packages[c]
    OBVIOUS
  <2>2. Fits(c, facts, works) /\ IsRead(c)
    BY <2>1 DEF ModelInv, StoredFit, TransactionsAreTyped
  <2>3. Fits(c, facts, works)'
    BY <1>4, <2>2
  <2>4. QED
    BY <1>2, <2>1, <2>3 DEF Fits
<1>9. OthersFindModel' /\ ProjectsAlone' /\ Model!ProjectionIsCanonical'
  BY <1>2 DEF ModelInv, OthersFindModel, ProjectsAlone, Model!ProjectionIsCanonical, Model!Step,
    Model!Canon
<1>10. QED
  BY <1>3, <1>6, <1>7, <1>8, <1>9 DEF ModelInv

\* Transactions, models and reviews stay as they are.
LEMMA ModelStutters ==
  ASSUME ModelInv, UNCHANGED <<log, tx, defined, packages, matrix, entries>>
  PROVE  ModelInv'
<1>1. LatestIsThere' /\ TransactionsAreTyped' /\ OthersFindModel'
  BY DEF ModelInv, LatestIsThere, Of, TransactionsAreTyped, IsRead, OthersFindModel
<1>2. \A c, x, action : Model!Decides(c, x, action)' = Model!Decides(c, x, action)
  BY DEF Model!Decides, Model!Latest
<1>3. OpenFit' /\ StoredFit'
  BY <1>2 DEF ModelInv, OpenFit, StoredFit, Fits
<1>4. ProjectsAlone' /\ Model!ProjectionIsCanonical'
  BY DEF ModelInv, ProjectsAlone, Model!ProjectionIsCanonical, Model!Step, Model!Canon
<1>5. QED
  BY <1>1, <1>3, <1>4 DEF ModelInv

\* Rows of a model as a transaction t sees them.
Sees(t) ==
  IF t.first THEN [facts |-> t.facts, packages |-> t.works, rows |-> t.works]
  ELSE [facts |-> defined[t.corpus], packages |-> packages[t.corpus] \cup t.works,
        rows |-> matrix[t.corpus]]

\* One transaction goes on.
LEMMA TransactionSteps ==
  ASSUME ModelInv, NEW w \in Workers, UNCHANGED <<log, defined, packages, matrix, entries>>,
         NEW t, tx' = [tx EXCEPT ![w] = t], HasFields(t), IsRead(t.corpus),
         t.step # "corpus" => Fits(t.corpus, t.facts, t.works),
         ~t.first => t.corpus \in DOMAIN defined,
         t.step = "projected" =>
           /\ t.entries = Sees(t)
           /\ \A v \in Workers : v # w /\ tx[v] # None /\ tx[v].corpus = t.corpus =>
                tx[v].step # "projected"
  PROVE  ModelInv'
<1>1. /\ tx = [v \in Workers |-> tx[v]]
      /\ \A v \in Workers : tx[v] # None => HasFields(tx[v]) /\ IsRead(tx[v].corpus)
  BY DEF ModelInv, TransactionsAreTyped
<1>2. /\ tx' = [v \in Workers |-> tx'[v]] /\ tx'[w] = t
      /\ \A v \in Workers : v # w => tx'[v] = tx[v]
  BY <1>1
<1>3. \A c, x, action : Model!Decides(c, x, action)' = Model!Decides(c, x, action)
  BY DEF Model!Decides, Model!Latest
<1>4. \A c, facts, works : Fits(c, facts, works)' <=> Fits(c, facts, works)
  BY <1>3 DEF Fits
<1>5. \A c : IsRead(c)' <=> IsRead(c)
  BY DEF IsRead
<1>6. LatestIsThere'
  BY DEF ModelInv, LatestIsThere, Of
<1>7. TransactionsAreTyped'
  <2>1. \A v \in Workers : tx'[v] # None => HasFields(tx'[v]) /\ IsRead(tx'[v].corpus)
    BY <1>1, <1>2
  <2>2. QED
    BY <1>2, <1>5, <2>1 DEF ModelInv, TransactionsAreTyped, HasFields, IsRead
<1>8. OpenFit'
  <2> SUFFICES ASSUME NEW v \in Workers, tx'[v] # None, tx'[v].step # "corpus"
               PROVE  Fits(tx[v].corpus, tx[v].facts, tx[v].works)'
    BY DEF OpenFit
  <2>1. PICK c, facts, works :
          c = tx'[v].corpus /\ facts = tx'[v].facts /\ works = tx'[v].works
    OBVIOUS
  <2>2. Fits(c, facts, works)
    <3>1. CASE v = w
      BY <1>2, <2>1, <3>1
    <3>2. CASE v # w
      BY <1>2, <2>1, <3>2 DEF ModelInv, OpenFit
    <3>3. QED
      BY <3>1, <3>2
  <2>3. Fits(c, facts, works)'
    BY <1>4, <2>2
  <2>4. QED
    BY <2>1, <2>3 DEF Fits
<1>9. StoredFit'
  BY <1>3 DEF ModelInv, StoredFit, Fits
<1>10. OthersFindModel'
  BY <1>2 DEF ModelInv, OthersFindModel
<1>11. ProjectsAlone'
  <2> SUFFICES ASSUME NEW v \in Workers, tx'[v] # None, tx'[v].step = "projected"
               PROVE  /\ tx'[v].entries = Sees(tx'[v])
                      /\ \A u \in Workers : tx'[u] # None /\ tx'[u].step = "projected"
                                           /\ tx'[u].corpus = tx'[v].corpus => u = v
    BY DEF ProjectsAlone, Model!Step, Model!Canon, Sees
  <2>1. tx'[v].entries = Sees(tx'[v])
    <3>1. CASE v = w
      BY <1>2, <3>1
    <3>2. CASE v # w
      BY <1>2, <3>2 DEF ModelInv, ProjectsAlone, Model!Step, Model!Canon, Sees
    <3>3. QED
      BY <3>1, <3>2
  <2>2. ASSUME NEW u \in Workers, tx'[u] # None, tx'[u].step = "projected",
               tx'[u].corpus = tx'[v].corpus
        PROVE  u = v
    BY <1>2, <2>2 DEF ModelInv, ProjectsAlone, Model!Step
  <2>3. QED
    BY <2>1, <2>2
<1>12. Model!ProjectionIsCanonical'
  BY DEF ModelInv, Model!ProjectionIsCanonical
<1>13. QED
  BY <1>6, <1>7, <1>8, <1>9, <1>10, <1>11, <1>12 DEF ModelInv

LEMMA ReadCorpusKeeps ==
  ASSUME ModelInv, NEW w \in Workers, Model!ReadCorpus(w)
  PROVE  ModelInv'
<1>1. UNCHANGED <<log, defined, packages, matrix, entries>>
  BY DEF Model!ReadCorpus, Model!owner, Model!model
<1>2. PICK t : /\ t = [step |-> "corpus", corpus |-> Model!Corpus,
                       first |-> Model!Corpus \notin DOMAIN defined,
                       facts |-> {}, works |-> {}, entries |-> None]
               /\ tx' = [tx EXCEPT ![w] = t]
  BY DEF Model!ReadCorpus
<1>3. HasFields(t) /\ t.step = "corpus" /\ t.corpus = Model!Corpus
      /\ t.first = (t.corpus \notin DOMAIN defined)
  BY <1>2 DEF HasFields, Fields
<1>4. IsRead(t.corpus)
  <2>1. t.corpus.reviews = Len(log) /\ Len(log) \in Nat
    BY <1>3 DEF Model!Corpus, ModelInv, LatestIsThere
  <2>2. QED
    BY <2>1 DEF IsRead
<1>5. QED
  BY <1>1, <1>2, <1>3, <1>4, TransactionSteps

LEMMA MaterializeKeeps ==
  ASSUME ModelInv, NEW w \in Workers, Model!Materialize(w)
  PROVE  ModelInv'
<1>1. /\ UNCHANGED <<log, defined, packages, matrix, entries>>
      /\ tx[w] # None /\ HasFields(tx[w]) /\ IsRead(tx[w].corpus)
      /\ ~tx[w].first => tx[w].corpus \in DOMAIN defined
      /\ tx = [v \in Workers |-> tx[v]]
  BY DEF Model!Materialize, Model!owner, Model!model, Model!Step, ModelInv, TransactionsAreTyped,
    OthersFindModel
<1>2. PICK c, facts, works :
        /\ c = tx[w].corpus /\ works = Model!Accepted(c, "work")
        /\ facts = {<<d, Model!ValueIn(d)>> : d \in Model!Accepted(c, "field")}
        /\ tx' = [tx EXCEPT ![w].step = "written", ![w].works = works, ![w].facts = facts]
  BY DEF Model!Materialize
<1>3. PICK t : t = [tx[w] EXCEPT !.step = "written", !.works = works, !.facts = facts]
  OBVIOUS
<1>4. tx' = [tx EXCEPT ![w] = t]
  BY <1>1, <1>2, <1>3
<1>5. Fits(c, facts, works)
  <2>1. \A fact \in facts : /\ fact[1] \in Model!Accepted(c, "field")
                            /\ fact[2] = Model!ValueIn(fact[1])
    BY <1>2
  <2>2. \A kind : \A d \in Model!Accepted(c, kind) :
          d \in c.sources /\ Model!Latest(<<d, kind>>) # "rejected"
    BY DEF Model!Accepted
  <2>3. \A x, action : Model!Decides(c, x, action) => Model!Latest(x) = action
    BY DEF Model!Decides
  <2>4. \A d : Model!Latest(<<d, "field">>) = "corrected" => Model!ValueIn(d) = "corrected"
    BY DEF Model!ValueIn
  <2>5. QED
    BY <1>2, <2>1, <2>2, <2>3, <2>4 DEF Fits
<1>6. HasFields(t) /\ t.corpus = c /\ t.facts = facts /\ t.works = works
      /\ t.step = "written" /\ t.first = tx[w].first
  BY <1>1, <1>2, <1>3 DEF HasFields, Fields
<1>7. IsRead(t.corpus) /\ Fits(t.corpus, t.facts, t.works)
  BY <1>1, <1>2, <1>5, <1>6
<1>8. ~t.first => t.corpus \in DOMAIN defined
  BY <1>1, <1>2, <1>6
<1>9. QED
  BY <1>1, <1>4, <1>6, <1>7, <1>8, TransactionSteps

LEMMA ProjectKeeps ==
  ASSUME ModelInv, NEW w \in Workers, Model!Project(w) \/ Model!AwaitProjection(w)
  PROVE  ModelInv'
<1>1. /\ UNCHANGED <<log, defined, packages, matrix, entries>>
      /\ tx[w] # None /\ tx[w].step = "written" /\ HasFields(tx[w]) /\ IsRead(tx[w].corpus)
      /\ ~tx[w].first => tx[w].corpus \in DOMAIN defined
      /\ Fits(tx[w].corpus, tx[w].facts, tx[w].works)
      /\ tx = [v \in Workers |-> tx[v]]
  BY DEF Model!Project, Model!AwaitProjection, Model!owner, Model!model, Model!Step, ModelInv,
    TransactionsAreTyped, OthersFindModel, OpenFit
<1>2. CASE Model!Project(w)
  <2>1. PICK t : t = [tx[w] EXCEPT !.step = "projected", !.entries = Model!Canon(w)]
    OBVIOUS
  <2>2. tx' = [tx EXCEPT ![w] = t]
    BY <1>1, <1>2, <2>1 DEF Model!Project
  <2>3. /\ HasFields(t) /\ t.corpus = tx[w].corpus /\ t.facts = tx[w].facts
        /\ t.works = tx[w].works /\ t.first = tx[w].first /\ t.entries = Model!Canon(w)
    BY <1>1, <2>1 DEF HasFields, Fields
  <2>4. t.entries = Sees(t)
    BY <2>3 DEF Sees, Model!Canon
  <2>5. \A v \in Workers : v # w /\ tx[v] # None /\ tx[v].corpus = t.corpus =>
          tx[v].step # "projected"
    BY <1>2, <2>3 DEF Model!Project, Model!SameCorpus
  <2>6. IsRead(t.corpus) /\ Fits(t.corpus, t.facts, t.works)
    BY <1>1, <2>3
  <2>7. QED
    BY <1>1, <2>2, <2>3, <2>4, <2>5, <2>6, TransactionSteps
<1>3. CASE Model!AwaitProjection(w)
  <2>1. PICK t : t = [tx[w] EXCEPT !.step = "waiting"]
    OBVIOUS
  <2>2. tx' = [tx EXCEPT ![w] = t]
    BY <1>1, <1>3, <2>1 DEF Model!AwaitProjection
  <2>3. /\ HasFields(t) /\ t.corpus = tx[w].corpus /\ t.facts = tx[w].facts
        /\ t.works = tx[w].works /\ t.first = tx[w].first /\ t.step = "waiting"
    BY <1>1, <2>1 DEF HasFields, Fields
  <2>4. IsRead(t.corpus) /\ Fits(t.corpus, t.facts, t.works)
    BY <1>1, <2>3
  <2>5. QED
    BY <1>1, <2>2, <2>3, <2>4, TransactionSteps
<1>4. QED
  BY <1>2, <1>3

\* What the end of a transaction does to another one: nothing, or it goes on from its wait.
Released(v) ==
  \/ tx'[v] = None
  \/ tx'[v] = tx[v]
  \/ /\ tx[v] # None /\ tx[v].step = "waiting"
     /\ HasFields(tx'[v]) /\ tx'[v].step \in {"collided", "written"}
     /\ tx'[v].corpus = tx[v].corpus /\ tx'[v].first = tx[v].first
     /\ tx'[v].facts = tx[v].facts /\ tx'[v].works = tx[v].works

LEMMA TransactionsRelease ==
  ASSUME ModelInv, UNCHANGED log, tx' = [v \in Workers |-> tx'[v]],
         \A v \in Workers : Released(v)
  PROVE  /\ LatestIsThere' /\ OpenFit'
         /\ \A v \in Workers : tx'[v] # None =>
              /\ HasFields(tx'[v]) /\ IsRead(tx'[v].corpus) /\ tx[v] # None
              /\ tx'[v].corpus = tx[v].corpus /\ tx'[v].first = tx[v].first
              /\ tx'[v].step = "projected" => tx'[v] = tx[v]
         /\ \A c : IsRead(c)' <=> IsRead(c)
         /\ \A c, facts, works : Fits(c, facts, works)' <=> Fits(c, facts, works)
<1>1. \A c, x, action : Model!Decides(c, x, action)' = Model!Decides(c, x, action)
  BY DEF Model!Decides, Model!Latest
<1>2. \A c, facts, works : Fits(c, facts, works)' <=> Fits(c, facts, works)
  BY <1>1 DEF Fits
<1>3. LatestIsThere' /\ \A c : IsRead(c)' <=> IsRead(c)
  BY DEF ModelInv, LatestIsThere, Of, IsRead
<1>4. ASSUME NEW v \in Workers, tx'[v] # None
      PROVE  /\ HasFields(tx'[v]) /\ IsRead(tx'[v].corpus) /\ tx[v] # None
             /\ tx'[v].corpus = tx[v].corpus /\ tx'[v].first = tx[v].first
             /\ tx'[v].step = "projected" => tx'[v] = tx[v]
             /\ tx'[v].facts = tx[v].facts /\ tx'[v].works = tx[v].works
             /\ tx'[v].step # "corpus" => tx[v].step # "corpus"
  BY <1>4 DEF Released, ModelInv, TransactionsAreTyped
<1>5. OpenFit'
  <2> SUFFICES ASSUME NEW v \in Workers, tx'[v] # None, tx'[v].step # "corpus"
               PROVE  Fits(tx[v].corpus, tx[v].facts, tx[v].works)'
    BY DEF OpenFit
  <2>1. PICK c, facts, works :
          c = tx'[v].corpus /\ facts = tx'[v].facts /\ works = tx'[v].works
    OBVIOUS
  <2>2. Fits(c, facts, works)
    BY <1>4, <2>1 DEF ModelInv, OpenFit
  <2>3. Fits(c, facts, works)'
    BY <1>2, <2>2
  <2>4. QED
    BY <2>1, <2>3 DEF Fits
<1>6. QED
  BY <1>2, <1>3, <1>4, <1>5

LEMMA RollbackKeeps ==
  ASSUME ModelInv, NEW w \in Workers, Model!Collide(w) \/ Model!Crash(w)
  PROVE  ModelInv'
<1>1. UNCHANGED <<log, defined, packages, matrix, entries>>
  BY DEF Model!Collide, Model!Crash, Model!owner, Model!model
<1>2. \A v \in Workers : tx[v] # None => HasFields(tx[v])
  BY DEF ModelInv, TransactionsAreTyped
<1>3. tx' = [v \in Workers |-> tx'[v]] /\ \A v \in Workers : Released(v)
  <2>1. CASE Model!Collide(w)
    BY <2>1 DEF Model!Collide, Released, ModelInv, TransactionsAreTyped
  <2>2. CASE Model!Crash(w)
    <3>1. tx' = [v \in Workers |->
                   IF v = w THEN None
                   ELSE IF Model!Step(w, "projected") /\ Model!SameCorpus(w, v)
                             /\ tx[v].step = "waiting"
                     THEN [tx[v] EXCEPT !.step = "written"] ELSE tx[v]]
      BY <2>2 DEF Model!Crash
    <3>2. ASSUME NEW v \in Workers, Model!SameCorpus(w, v), tx[v].step = "waiting",
                 tx'[v] = [tx[v] EXCEPT !.step = "written"]
          PROVE  Released(v)
      BY <1>2, <3>2 DEF Model!SameCorpus, Released, HasFields, Fields
    <3>3. QED
      BY <3>1, <3>2 DEF Released
  <2>3. QED
    BY <2>1, <2>2
<1>4. TransactionsAreTyped'
  BY <1>1, <1>3, TransactionsRelease
    DEF ModelInv, TransactionsAreTyped, HasFields, IsRead
<1>5. StoredFit'
  <2> SUFFICES ASSUME NEW c \in DOMAIN defined
               PROVE  Fits(c, defined[c], packages[c])'
    BY <1>1 DEF StoredFit
  <2>1. PICK facts, works : facts = defined[c] /\ works = packages[c]
    OBVIOUS
  <2>2. Fits(c, facts, works)
    BY <2>1 DEF ModelInv, StoredFit
  <2>3. Fits(c, facts, works)'
    BY <1>1, <1>3, <2>2, TransactionsRelease
  <2>4. QED
    BY <1>1, <2>1, <2>3 DEF Fits
<1>6. OthersFindModel'
  BY <1>1, <1>3, TransactionsRelease DEF ModelInv, OthersFindModel
<1>7. ProjectsAlone'
  <2> SUFFICES ASSUME NEW v \in Workers, tx'[v] # None, tx'[v].step = "projected"
               PROVE  /\ tx'[v].entries = Sees(tx'[v])
                      /\ \A u \in Workers : tx'[u] # None /\ tx'[u].step = "projected"
                                           /\ tx'[u].corpus = tx'[v].corpus => u = v
    BY <1>1 DEF ProjectsAlone, Model!Step, Model!Canon, Sees
  <2>1. \A u \in Workers : tx'[u] # None /\ tx'[u].step = "projected" => tx'[u] = tx[u]
    BY <1>1, <1>3, TransactionsRelease
  <2>2. QED
    BY <2>1 DEF ModelInv, ProjectsAlone, Model!Step, Model!Canon, Sees
<1>8. Model!ProjectionIsCanonical'
  BY <1>1 DEF ModelInv, Model!ProjectionIsCanonical
<1>9. QED
  BY <1>1, <1>3, <1>4, <1>5, <1>6, <1>7, <1>8, TransactionsRelease DEF ModelInv

LEMMA CommitKeeps ==
  ASSUME ModelInv, NEW w \in Workers, Model!Commit(w)
  PROVE  ModelInv'
<1>1. PICK c : c = tx[w].corpus
  OBVIOUS
<1>2. PICK canon : canon = Model!Canon(w) /\ canon = Sees(tx[w])
  BY DEF Model!Canon, Sees
<1>3. /\ UNCHANGED log /\ tx[w] # None /\ tx[w].step = "projected"
      /\ defined' = [x \in DOMAIN defined \cup {c} |->
                       IF x = c THEN canon.facts ELSE defined[x]]
      /\ packages' = [x \in DOMAIN packages \cup {c} |->
                        IF x = c THEN canon.packages ELSE packages[x]]
      /\ matrix' = [x \in DOMAIN matrix \cup {c} |->
                      IF x = c THEN canon.rows ELSE matrix[x]]
      /\ entries' = [x \in DOMAIN entries \cup {c} |->
                       IF x = c THEN tx[w].entries ELSE entries[x]]
  BY <1>1, <1>2 DEF Model!Commit, Model!Step
<1>4. tx[w].entries = canon
  BY <1>2, <1>3 DEF ModelInv, ProjectsAlone, Model!Step
<1>5. /\ DOMAIN packages = DOMAIN defined /\ DOMAIN matrix = DOMAIN defined
      /\ DOMAIN entries = DOMAIN defined /\ IsRead(c)
      /\ ~tx[w].first => c \in DOMAIN defined
      /\ Fits(c, tx[w].facts, tx[w].works)
  BY <1>1, <1>3 DEF ModelInv, TransactionsAreTyped, OthersFindModel, OpenFit
<1>6. tx' = [v \in Workers |-> tx'[v]] /\ (\A v \in Workers : Released(v)) /\ tx'[w] = None
  <2>1. tx' = [v \in Workers |-> Model!AfterCommit(w, v)]
    BY DEF Model!Commit
  <2>2. \A v \in Workers : tx[v] # None => HasFields(tx[v])
    BY DEF ModelInv, TransactionsAreTyped
  <2>3. ASSUME NEW v \in Workers, Model!SameCorpus(w, v), tx[v].step = "waiting",
               tx'[v] = [tx[v] EXCEPT !.step = "collided"]
        PROVE  Released(v)
    BY <2>2, <2>3 DEF Model!SameCorpus, Released, HasFields, Fields
  <2>4. QED
    BY <2>1, <2>3 DEF Released, Model!AfterCommit
<1>7. /\ DOMAIN defined' = DOMAIN defined \cup {c} /\ DOMAIN packages' = DOMAIN defined'
      /\ DOMAIN matrix' = DOMAIN defined' /\ DOMAIN entries' = DOMAIN defined'
      /\ defined'[c] = canon.facts /\ packages'[c] = canon.packages
      /\ matrix'[c] = canon.rows /\ entries'[c] = canon
      /\ \A x \in DOMAIN defined : x # c =>
           /\ defined'[x] = defined[x] /\ packages'[x] = packages[x]
           /\ matrix'[x] = matrix[x] /\ entries'[x] = entries[x]
  BY <1>3, <1>4, <1>5
<1>8. TransactionsAreTyped'
  <2>1. \A x \in DOMAIN defined' : IsRead(x)'
    BY <1>3, <1>5, <1>7 DEF ModelInv, TransactionsAreTyped, IsRead
  <2>2. QED
    BY <1>3, <1>6, <1>7, <2>1, TransactionsRelease DEF TransactionsAreTyped, HasFields, IsRead
<1>9. StoredFit'
  <2> SUFFICES ASSUME NEW x \in DOMAIN defined'
               PROVE  Fits(x, defined[x], packages[x])'
    BY DEF StoredFit
  <2>1. PICK facts, works : facts = defined'[x] /\ works = packages'[x]
    OBVIOUS
  <2>2. Fits(x, facts, works)
    <3>1. CASE x # c
      BY <1>7, <2>1, <3>1 DEF ModelInv, StoredFit
    <3>2. CASE x = c /\ tx[w].first
      BY <1>1, <1>2, <1>5, <1>7, <2>1, <3>2 DEF Sees
    <3>3. CASE x = c /\ ~tx[w].first
      <4>1. facts = defined[c] /\ works = packages[c] \cup tx[w].works
        BY <1>1, <1>2, <1>7, <2>1, <3>3 DEF Sees
      <4>2. Fits(c, defined[c], packages[c]) /\ Fits(c, tx[w].facts, tx[w].works)
        BY <1>5, <3>3 DEF ModelInv, StoredFit
      <4>3. QED
        BY <3>3, <4>1, <4>2 DEF Fits
    <3>4. QED
      BY <3>1, <3>2, <3>3
  <2>3. Fits(x, facts, works)'
    BY <1>3, <1>6, <2>2, TransactionsRelease
  <2>4. QED
    BY <2>1, <2>3 DEF Fits
<1>10. OthersFindModel'
  BY <1>3, <1>6, <1>7, TransactionsRelease DEF ModelInv, OthersFindModel
<1>11. ProjectsAlone'
  <2> SUFFICES ASSUME NEW v \in Workers, tx'[v] # None, tx'[v].step = "projected"
               PROVE  /\ tx'[v].entries = Model!Canon(v)'
                      /\ \A u \in Workers : tx'[u] # None /\ tx'[u].step = "projected"
                                           /\ tx'[u].corpus = tx'[v].corpus => u = v
    BY DEF ProjectsAlone, Model!Step
  <2>1. \A u \in Workers : tx'[u] # None /\ tx'[u].step = "projected" =>
                             tx'[u] = tx[u] /\ tx[u] # None
    BY <1>3, <1>6, TransactionsRelease
  <2>2. v # w /\ tx[v].corpus # c /\ tx[v].entries = Model!Canon(v)
        /\ (~tx[v].first => tx[v].corpus \in DOMAIN defined)
    BY <1>1, <1>3, <1>6, <2>1 DEF ModelInv, ProjectsAlone, Model!Step, OthersFindModel
  <2>3. Model!Canon(v)' = Model!Canon(v)
    <3>1. PICK x : x = tx[v].corpus /\ x = tx'[v].corpus /\ tx'[v] = tx[v]
      BY <2>1
    <3>2. CASE tx[v].first
      BY <3>1, <3>2 DEF Model!Canon
    <3>3. CASE ~tx[v].first
      <4>1. defined'[x] = defined[x] /\ packages'[x] = packages[x] /\ matrix'[x] = matrix[x]
        BY <1>7, <2>2, <3>1, <3>3
      <4>2. QED
        BY <3>1, <3>3, <4>1 DEF Model!Canon
    <3>4. QED
      BY <3>2, <3>3
  <2>4. QED
    BY <2>1, <2>2, <2>3 DEF ModelInv, ProjectsAlone, Model!Step
<1>12. Model!ProjectionIsCanonical'
  <2>1. canon = [facts |-> canon.facts, packages |-> canon.packages, rows |-> canon.rows]
    <3>1. PICK facts, works, lines :
            canon = [facts |-> facts, packages |-> works, rows |-> lines]
      BY <1>2 DEF Sees
    <3>2. QED
      BY <3>1
  <2>2. QED
    BY <1>7, <2>1 DEF ModelInv, Model!ProjectionIsCanonical
<1>13. QED
  BY <1>3, <1>6, <1>8, <1>9, <1>10, <1>11, <1>12, TransactionsRelease DEF ModelInv

--------------------------------------------------------------------------------
(* ProjectUnderstanding: the theorems *)

LEMMA ModelStep == ModelInv /\ [Model!Next]_(Model!vars) => ModelInv'
<1> SUFFICES ASSUME ModelInv, [Model!Next]_(Model!vars) PROVE ModelInv'
  OBVIOUS
<1>1. ASSUME NEW d, Model!Register(d) PROVE ModelInv'
  BY <1>1, ModelStutters DEF Model!Register, Model!owner, Model!model
<1>2. CASE Model!StartProjectUnderstanding
  BY <1>2, ModelStutters DEF Model!StartProjectUnderstanding, Model!model
<1>3. ASSUME NEW w \in Workers, Model!ClaimAny(w) PROVE ModelInv'
  BY <1>3, ModelStutters
    DEF Model!ClaimAny, Model!ClaimDocument, Model!ClaimFormation, Model!owner, Model!model
<1>4. ASSUME NEW w \in Workers, Model!Extract(w) \/ Model!Refuse(w) PROVE ModelInv'
  BY <1>4, ModelStutters DEF Model!Extract, Model!Refuse, Model!model
<1>5. CASE UNCHANGED Model!vars
  BY <1>5, ModelStutters DEF Model!vars, Model!owner, Model!model
<1>6. QED
  BY <1>1, <1>2, <1>3, <1>4, <1>5, ReviewKeeps, ReadCorpusKeeps, MaterializeKeeps, ProjectKeeps,
     CommitKeeps, RollbackKeeps DEF Model!Next, Model!Execute

\* The models, the projections and the open transactions keep the inductive invariant.
THEOREM ModelInvariance == Model!Spec => []ModelInv
  BY ModelInit, ModelStep, PTL DEF Model!Spec

\* Every fact and work of a stored model comes from a source of its corpus, and none of them was
\* rejected, or counts uncorrected, by a review that its corpus had taken in.
THEOREM ModelsFitTheirCorpus == Model!Spec => []Model!ModelIsOfItsCorpus
<1>1. ModelInv => Model!ModelIsOfItsCorpus
  BY DEF ModelInv, StoredFit, Fits, Model!ModelIsOfItsCorpus
<1>2. QED
  BY <1>1, ModelInvariance, PTL

\* The projection of a corpus shows what the canonical tables hold for it, whatever transactions
\* overlapped in between.
THEOREM ProjectionsAreCanonical == Model!Spec => []Model!ProjectionIsCanonical
<1>1. ModelInv => Model!ProjectionIsCanonical
  BY DEF ModelInv
<1>2. QED
  BY <1>1, ModelInvariance, PTL

================================================================================
