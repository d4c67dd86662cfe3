----------------------------- MODULE PackageProduction -----------------------------
(***************************************************************************)
(* Production of a package of executive documents: the owner forms the     *)
(* package from the matrix, starts generations, reviews and finalizes the  *)
(* candidates; workers render a document, store it and publish it in the   *)
(* next version of the package. An execution may outlive its lease, be     *)
(* lost after any step, and be repeated by another worker.                 *)
(*                                                                         *)
(* A version number is that of the package, its book and its memberships:  *)
(* they are always appended together. A run is identified by its input,    *)
(* the membership at a version and the facts that fill the fields.         *)
(***************************************************************************)
EXTENDS Naturals, Sequences, FiniteSets

CONSTANTS
  Members,     \* memberships of the package, its register apart
  Gapped,      \* those whose requirement has an authority gap
  Official,    \* those with a production template that lays out
  Workers, Owners, None,
  MaxAttempts, \* max_attempts of a job
  MaxVersion, MaxFacts, MaxForms, MaxStarts, MaxCrashes \* bounds of the model

ASSUME MembersAssumption ==
  Gapped \subseteq Members /\ Official \subseteq Members
ASSUME BoundsAssumption ==
  {MaxAttempts, MaxVersion, MaxFacts, MaxForms, MaxStarts, MaxCrashes} \subseteq Nat

Runs  == [m : Members, v : 1..MaxVersion, f : 1..MaxFacts]
Files == [m : Members, f : 1..MaxFacts]

Finalizations == [by : Owners, reviewer : Owners]

ASSUME NoneAssumption == None \notin Runs \cup Workers \cup Finalizations

VARIABLES
  package,   \* versions of the package
  status,    \* status of each generation run
  job,       \* state of its job
  attempts, holder, \* attempts of the job and the worker that holds its lease
  stage, run,  \* step and run of each worker
  bytes,     \* files of rendered documents: a document is its membership and its facts
  candidate, \* outcome of the print validation of each published candidate
  approvals, \* reviewers who approved each candidate, in their order
  final,     \* finalized documents: who finalized and on whose review
  crashes

queue     == <<job, attempts, holder>>
execution == <<stage, run>>
approval  == <<approvals, final>>
vars == <<package, queue, status, execution, bytes, candidate, approval, crashes>>

--------------------------------------------------------------------------------
(* Packages *)

Document(state, r) == [state |-> state, run |-> r]

FirstDocument(m) ==
  Document(IF m \in Gapped THEN "blocked" ELSE "missing", None)

NewPackage ==
  [formed |-> TRUE, docs |-> [m \in Members |-> FirstDocument(m)]]

Version == Len(package)
Latest  == package[Version]

\* The next version is the last one with one document replaced.
Evolved(p, m, d) == [p EXCEPT !.formed = FALSE, !.docs[m] = d]

\* form_package: once for each version of the requirement matrix, which changes at any time.
FormPackage ==
  /\ Version < MaxVersion
  /\ Cardinality({v \in 1..Version : package[v].formed}) < MaxForms
  /\ package' = Append(package, NewPackage)
  /\ UNCHANGED <<queue, status, execution, bytes, candidate, approval, crashes>>

--------------------------------------------------------------------------------
(* Generation *)

\* A repeated call is answered with the first one's run; the same input under another key
\* violates the primary key of the runs. The facts may have changed since the last run.
StartGeneration(m, f) ==
  /\ Version > 0 /\ Version < MaxVersion
  /\ Cardinality({r \in Runs : status[r] # "none"}) < MaxStarts
  /\ LET r == [m |-> m, v |-> Version, f |-> f]
     IN /\ status[r] = "none"
        /\ status' = [status EXCEPT ![r] = "planned"]
        /\ job' = [job EXCEPT ![r] = "queued"]
  /\ UNCHANGED <<package, attempts, holder, execution, bytes, candidate, approval, crashes>>

\* A lease may have lapsed while its holder still works: any held job may be claimed again.
Claim(w, r) ==
  /\ stage[w] = "idle" /\ job[r] \in {"queued", "held"} /\ attempts[r] < MaxAttempts
  /\ job' = [job EXCEPT ![r] = "held"]
  /\ attempts' = [attempts EXCEPT ![r] = @ + 1]
  /\ holder' = [holder EXCEPT ![r] = w]
  /\ stage' = [stage EXCEPT ![w] = "existing"]
  /\ run' = [run EXCEPT ![w] = r]
  /\ UNCHANGED <<package, status, bytes, candidate, approval, crashes>>

Goto(w, s) == stage' = [stage EXCEPT ![w] = s] /\ UNCHANGED run
Leave(w)   == stage' = [stage EXCEPT ![w] = "idle"] /\ run' = [run EXCEPT ![w] = None]

\* A candidate that is there already ends the execution with success.
ExistingCandidate(w) ==
  /\ stage[w] = "existing"
  /\ Goto(w, IF candidate[run[w]] # "none" THEN "succeeded" ELSE "rendering")
  /\ UNCHANGED <<package, queue, status, bytes, candidate, approval, crashes>>

Before == [rendering |-> {"planned", "resolving"}, validating |-> {"rendering"}]
Then   == [rendering |-> "validating", validating |-> "put"]

\* _advance_generation, under the lock of the run's row; the document is rendered in between.
AdvanceGeneration(w) ==
  /\ stage[w] \in DOMAIN Before
  /\ LET target == stage[w]  r == run[w]
     IN \/ /\ status[r] \in {target, "candidate_created"}
           /\ Goto(w, Then[target])
           /\ UNCHANGED status
        \/ /\ status[r] \in Before[target]
           /\ status' = [status EXCEPT ![r] = target]
           /\ Goto(w, Then[target])
        \/ /\ status[r] \notin Before[target] \cup {target, "candidate_created"}
           /\ Goto(w, "failed")
           /\ UNCHANGED status
  /\ UNCHANGED <<package, queue, bytes, candidate, approval, crashes>>

\* The template's file is missing for a while: retry_job.
RenderLater(w) ==
  /\ stage[w] = "validating"
  /\ Goto(w, "retry")
  /\ UNCHANGED <<package, queue, status, bytes, candidate, approval, crashes>>

\* _fail_generation: a template with another hash, fields it cannot take.
RenderFails(w) ==
  /\ stage[w] = "validating"
  /\ status' = [status EXCEPT ![run[w]] =
                  IF @ \in {"planned", "resolving", "rendering", "validating"} THEN "failed" ELSE @]
  /\ Goto(w, "failed")
  /\ UNCHANGED <<package, queue, bytes, candidate, approval, crashes>>

File(r) == [m |-> r.m, f |-> r.f]

\* Mutated form of PutDerived: a file that exists is taken for the right one.
PutDerivedUnread(w) ==
  /\ stage[w] = "put"
  /\ IF bytes[File(run[w])] = "absent"
       THEN bytes' = [bytes EXCEPT ![File(run[w])] = "partial"] /\ Goto(w, "write")
       ELSE Goto(w, "publish") /\ UNCHANGED bytes
  /\ UNCHANGED <<package, queue, status, candidate, approval, crashes>>

\* The file is created under its name, or compared; another content ends the worker process.
PutDerived(w) ==
  /\ stage[w] = "put"
  /\ CASE bytes[File(run[w])] = "absent" ->
            bytes' = [bytes EXCEPT ![File(run[w])] = "partial"] /\ Goto(w, "write")
       [] bytes[File(run[w])] = "whole"   -> Goto(w, "publish") /\ UNCHANGED bytes
       [] bytes[File(run[w])] = "partial" -> Leave(w) /\ UNCHANGED bytes
  /\ UNCHANGED <<package, queue, status, candidate, approval, crashes>>

WriteBytes(w) ==
  /\ stage[w] = "write"
  /\ bytes' = [bytes EXCEPT ![File(run[w])] = "whole"]
  /\ Goto(w, "publish")
  /\ UNCHANGED <<package, queue, status, candidate, approval, crashes>>

Packaged(r) == \E v \in 1..Version : package[v].docs[r.m].run = r

Outcome(m) == IF m \in Official THEN "print_ready" ELSE "blocked"

Candidate(r) == Document("generated_candidate", r)

\* Mutated form of PublishCandidate: the new version gets the next free number, its documents
\* still are those of the version the run was started with.
PublishOnTop(w) ==
  LET r == run[w]
  IN /\ stage[w] = "publish"
     /\ candidate' = [candidate EXCEPT ![r] = Outcome(r.m)]
     /\ package' = IF Packaged(r) \/ Version = MaxVersion THEN package
                   ELSE Append(package, Evolved(package[r.v], r.m, Candidate(r)))
     /\ status' = [status EXCEPT ![r] = IF @ = "validating" THEN "candidate_created" ELSE @]
     /\ Goto(w, "succeeded")
     /\ UNCHANGED <<queue, bytes, approval, crashes>>

\* One transaction; the version after the one the run was started with may exist already,
\* and the violation of its key rolls everything back.
PublishCandidate(w) ==
  LET r == run[w]
  IN /\ stage[w] = "publish"
     /\ IF ~Packaged(r) /\ r.v # Version
          THEN /\ Goto(w, "reconciliation_required")
               /\ UNCHANGED <<candidate, package, status>>
          ELSE /\ candidate' = [candidate EXCEPT ![r] = Outcome(r.m)]
               /\ package' = IF Packaged(r) THEN package
                             ELSE Append(package, Evolved(package[r.v], r.m, Candidate(r)))
               /\ status' = [status EXCEPT ![r] =
                               IF @ = "validating" THEN "candidate_created" ELSE @]
               /\ Goto(w, "succeeded")
     /\ UNCHANGED <<queue, bytes, approval, crashes>>

Settled == {"succeeded", "failed", "reconciliation_required"}

\* finish_job and retry_job write under the lease; without it the worker process ends.
FinishJob(w) ==
  /\ stage[w] \in Settled \cup {"retry"}
  /\ Leave(w)
  /\ LET r == run[w]
     IN IF holder[r] = w /\ job[r] = "held"
          THEN /\ job' = [job EXCEPT ![r] =
                            CASE stage[w] # "retry"          -> stage[w]
                              [] attempts[r] < MaxAttempts   -> "queued"
                              [] OTHER                       -> "reconciliation_required"]
               /\ holder' = [holder EXCEPT ![r] = None]
          ELSE UNCHANGED <<job, holder>>
  /\ UNCHANGED <<package, attempts, status, bytes, candidate, approval, crashes>>

\* A lapsed lease without attempts left is reconciled.
Reconcile(r) ==
  /\ job[r] = "held" /\ attempts[r] = MaxAttempts
  /\ job' = [job EXCEPT ![r] = "reconciliation_required"]
  /\ holder' = [holder EXCEPT ![r] = None]
  /\ UNCHANGED <<package, attempts, status, execution, bytes, candidate,
                 approval, crashes>>

Crash(w) ==
  /\ crashes < MaxCrashes /\ stage[w] # "idle"
  /\ crashes' = crashes + 1
  /\ Leave(w)
  /\ UNCHANGED <<package, queue, status, bytes, candidate, approval>>

--------------------------------------------------------------------------------
(* Review and finalization *)

ReviewedBy(r) == {approvals[r][i] : i \in DOMAIN approvals[r]}

\* Only what is ready for print is approved; a decision that was recorded before is not
\* recorded again. Nothing reads a rejection.
ReviewCandidate(o, r) ==
  /\ candidate[r] = "print_ready"
  /\ o \notin ReviewedBy(r)
  /\ approvals' = [approvals EXCEPT ![r] = Append(@, o)]
  /\ UNCHANGED <<package, queue, status, execution, bytes, candidate, final, crashes>>

\* The latest approval decides.
Reviewer(r) == IF approvals[r] = <<>> THEN None ELSE approvals[r][Len(approvals[r])]

\* Mutated form of Independent: anybody finalizes what was approved.
IndependentAnyhow(o, r) == Reviewer(r) # None

Independent(o, r) == Reviewer(r) \notin {None, o}

\* finalize_candidate; the candidate must be in the last version of the package.
FinalizeCandidate(o, r) ==
  /\ candidate[r] = "print_ready"
  /\ Independent(o, r)
  /\ final[r] = None
  /\ Version < MaxVersion
  /\ LET entries == {v \in 1..Version : /\ package[v].docs[r.m].run = r
                                        /\ package[v].docs[r.m].state = "generated_candidate"}
     IN entries # {} /\ Version \in entries
  /\ final' = [final EXCEPT ![r] = [by |-> o, reviewer |-> Reviewer(r)]]
  /\ package' = Append(package, Evolved(Latest, r.m, Document("finalized", r)))
  /\ UNCHANGED <<queue, status, execution, bytes, candidate, approvals, crashes>>

--------------------------------------------------------------------------------
Init ==
  /\ package = <<>>
  /\ status = [r \in Runs |-> "none"]
  /\ job = [r \in Runs |-> "none"]
  /\ attempts = [r \in Runs |-> 0]
  /\ holder = [r \in Runs |-> None]
  /\ stage = [w \in Workers |-> "idle"]
  /\ run = [w \in Workers |-> None]
  /\ bytes = [d \in Files |-> "absent"]
  /\ candidate = [r \in Runs |-> "none"]
  /\ approvals = [r \in Runs |-> <<>>]
  /\ final = [r \in Runs |-> None]
  /\ crashes = 0

Execute(w) ==
  \/ ExistingCandidate(w) \/ AdvanceGeneration(w)
  \/ RenderLater(w) \/ RenderFails(w)
  \/ PutDerived(w) \/ WriteBytes(w) \/ PublishCandidate(w) \/ FinishJob(w)

OwnerCommand ==
  \/ FormPackage
  \/ \E m \in Members, f \in 1..MaxFacts : StartGeneration(m, f)
  \/ \E o \in Owners, r \in Runs :
       FinalizeCandidate(o, r) \/ ReviewCandidate(o, r)

Next ==
  \/ OwnerCommand
  \/ \E w \in Workers : Execute(w) \/ Crash(w) \/ \E r \in Runs : Claim(w, r)
  \/ \E r \in Runs : Reconcile(r)

Spec == Init /\ [][Next]_vars

--------------------------------------------------------------------------------
(* Properties *)

Stages == {"idle", "existing", "rendering", "validating", "put", "write", "publish",
           "retry"} \cup Settled

Documents == [state : {"missing", "blocked", "generated_candidate", "finalized"},
              run : Runs \cup {None}]

PackageTypes ==
  /\ package \in Seq([formed : BOOLEAN, docs : [Members -> Documents]])
  /\ bytes \in [Files -> {"absent", "partial", "whole"}]
  /\ candidate \in [Runs -> {"none", "blocked", "print_ready"}]
  /\ approvals \in [Runs -> Seq(Owners)]
  /\ final \in [Runs -> Finalizations \cup {None}]

QueueTypes ==
  /\ status \in [Runs -> {"none", "planned", "rendering", "validating", "failed",
                          "candidate_created"}]
  /\ job \in [Runs -> {"none", "queued", "held"} \cup Settled]
  /\ attempts \in [Runs -> 0..MaxAttempts]
  /\ holder \in [Runs -> Workers \cup {None}]
  /\ stage \in [Workers -> Stages] /\ run \in [Workers -> Runs \cup {None}]
  /\ \A w \in Workers : stage[w] = "idle" <=> run[w] = None
  /\ crashes \in 0..MaxCrashes

\* Types of the variables; a worker has a run unless it is idle.
TypeOK == PackageTypes /\ QueueTypes

\* A candidate can be downloaded and reviewed: its file is there in full, although
\* files are created before they are written and writers are lost in between.
CandidateHasBytes ==
  \A r \in Runs : candidate[r] # "none" => bytes[File(r)] = "whole"

\* What is finalized was ready for print and approved, as this very candidate, by somebody
\* other than the one who finalized it.
FinalizedIsApproved ==
  \A v \in 1..Version, m \in Members :
    package[v].docs[m].state = "finalized" =>
      LET r == package[v].docs[m].run
      IN /\ candidate[r] = "print_ready" /\ final[r] # None
         /\ final[r].by # final[r].reviewer
         /\ final[r].reviewer \in ReviewedBy(r)

Standing(m) == IF Version = 0 THEN None ELSE Latest.docs[m].run

Package ==
  INSTANCE DocumentPackage WITH
    Drafts    <- Runs,
    draft     <- [m \in Members |-> Standing(m)],
    finalized <- {m \in Members : Version > 0 /\ Latest.docs[m].state = "finalized"}

\* Generations run at the same time and each copies the whole package into a new version, yet
\* none undoes what another one has published or somebody has finalized.
FollowsPackage == Package!Spec

--------------------------------------------------------------------------------
(* A statement of the repository that the code does not meet *)

\* SUPPORT_PRODUCTION_ID_01.md lists the "expired running generation lease recovery by a new
\* worker": only a generation whose rendering failed leaves a failed job.
LeaseIsRecovered == \A r \in Runs : job[r] = "failed" => status[r] = "failed"
================================================================================
