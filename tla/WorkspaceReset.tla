----------------------------- MODULE WorkspaceReset -----------------------------
(***************************************************************************)
(* WorkspaceResetService: prepare freezes, archives and plans, execute     *)
(* consumes the confirmed challenge, purges, verifies and destroys. Every  *)
(* step is a transaction or a file operation of its own, several requests  *)
(* may run at once, each may be lost after any step, and nobody records    *)
(* how far a request has come. Meanwhile uploads, workers and the owner's  *)
(* manual retry go on with what they had begun.                            *)
(*                                                                         *)
(* The evidence that prepare records before a transition is part of that   *)
(* transition here, since only the request that made the last one gets to  *)
(* it. Versions, expiry and the verdict are checked as the code does.      *)
(***************************************************************************)
EXTENDS Naturals, Sequences

CONSTANTS
  Preparers, Executors, \* requests to prepare and to execute a reset
  Sources,              \* objects being uploaded, one document each
  Derived,              \* files that workers derive
  None,
  MaxRows,              \* bound on the rows counted in a table
  MaxFaults             \* bound on lost requests, expiries and changes of platform memory

ASSUME RequestsAssumption == Preparers \cap Executors = {} /\ None \notin Preparers
ASSUME FilesAssumption == Sources \cap Derived = {}
ASSUME BoundsAssumption == MaxRows \in Nat /\ MaxFaults \in Nat

VARIABLES
  lifecycle_state, lifecycle_version,
  rows,       \* number of rows of the workspace in each table
  files,      \* files of the workspace in the object store
  registered, \* sources whose document was committed, purged ones included
  archived,   \* files in the portable archive
  upload,     \* how far the registration of a source has come
  worker,     \* stage of the worker's execution
  held,       \* its job is still its own
  open,       \* jobs that are not terminal
  challenge,  \* the challenge each prepare issues
  lapsed,     \* requests whose challenge or plan has expired
  plan,       \* deletion plan of each request
  pc, known,  \* next step of a request, and the lifecycle version it has read
  confirms,   \* the challenge an execute has consumed
  platform, before, \* platform fingerprint, now and as an execute read it first
  todo,       \* what an executing request has left of its plan
  verdict,    \* its last attestation is verified
  receipts,   \* requests with a terminal receipt
  faults,
  disturbed   \* history: somebody interfered with a reset under way

row       == <<lifecycle_state, lifecycle_version>>
intake    == <<upload, registered>>
jobs      == <<worker, held, open>>
consent   == <<challenge, lapsed, confirms>>
planning  == <<plan, todo, before, verdict>>
request   == <<pc, known>>
outside   == <<platform, faults, disturbed>>
vars == <<row, rows, files, archived, intake, jobs, consent, planning, request, receipts, outside>>

Drivers == Preparers \cup Executors

--------------------------------------------------------------------------------
(* Tables, inventories and plans *)

\* The relations a purge goes through, children before their parents.
Tables == <<"challenges", "controls", "jobs", "pages", "states", "documents", "outbox">>

Relations == {"challenges", "controls", "jobs", "pages", "states", "documents", "outbox"}

\* Foreign keys with ON DELETE RESTRICT.
Children(t) == CASE t = "jobs"      -> {"controls"}
                 [] t = "documents" -> {"jobs", "pages", "states"}
                 [] OTHER           -> {}

One(n) == IF n > 0 THEN 1 ELSE 0

\* The control outbox is inventoried by its presence, the other tables by their counts.
Inventory ==
  [tables |-> [t \in Relations |-> IF t = "outbox" THEN One(rows[t]) ELSE rows[t]],
   files  |-> files]

NoPlan == [version |-> 0, inventory |-> Inventory]
NoWork == [files |-> {}, tables |-> <<>>]

NewPlan(d) == [version |-> known[d], inventory |-> Inventory]

\* Items in the order of their adapters: objects, then the relations that had rows.
WorkOf(p) ==
  [files  |-> p.inventory.files,
   tables |-> SelectSeq(Tables, LAMBDA t : p.inventory.tables[t] > 0)]

\* find_residue: objects among the known ones, any row but those of the outbox.
Residue(ids) ==
  files \cap ids # {} \/ \E t \in Relations \ {"outbox"} : rows[t] > 0

--------------------------------------------------------------------------------
(* Transitions *)

After ==
  [FREEZING |-> "fence", FROZEN |-> "FINALIZING", FINALIZING |-> "FINALIZED",
   FINALIZED |-> "archive", EXPORTING |-> "EXPORTED", EXPORTED |-> "ARCHIVING",
   ARCHIVING |-> "ARCHIVED", ARCHIVED |-> "CLOSED", CLOSED |-> "challenge",
   RESET_PLANNING |-> "plan", RESET_AUTHORIZED |-> "PURGING", PURGING |-> "begin",
   VERIFYING_RESET |-> "scan", QUARANTINED |-> "failed", RESET_VERIFIED |-> "replan",
   DESTROYING |-> "begin", DESTROYED |-> "list"]

\* What transition_lifecycle asks of the target.
Admitted(d, target) ==
  /\ target \in {"RESET_AUTHORIZED", "PURGING"} => confirms[d] \notin lapsed
  /\ target = "DESTROYING" => d \notin lapsed
  /\ target \in {"RESET_VERIFIED", "DESTROYED"} => verdict[d]

\* A registration that has inserted its manifest holds a key share lock of the row.
RowIsLocked == lifecycle_state = "ACTIVE" /\ \E s \in Sources : upload[s] = "moved"

Succeeds(d) == lifecycle_version = known[d] /\ Admitted(d, pc[d])

Transition(d) ==
  /\ pc[d] \in DOMAIN After
  /\ ~RowIsLocked
  /\ IF Succeeds(d)
       THEN /\ lifecycle_state' = pc[d]
            /\ lifecycle_version' = lifecycle_version + 1
            /\ known' = [known EXCEPT ![d] = lifecycle_version + 1]
            /\ pc' = [pc EXCEPT ![d] = After[pc[d]]]
            /\ rows' = [rows EXCEPT !["outbox"] = 1]
       ELSE /\ pc' = [pc EXCEPT ![d] = IF pc[d] = "FREEZING" THEN "refused" ELSE "failed"]
            /\ UNCHANGED <<row, known, rows>>
  /\ UNCHANGED <<files, archived, intake, jobs, consent, planning, receipts, outside>>

Goto(d, stage) == pc' = [pc EXCEPT ![d] = stage]

\* get_workspace at the beginning of prepare.
ReadActive(p) ==
  /\ pc[p] = "new"
  /\ known' = [known EXCEPT ![p] = lifecycle_version]
  /\ Goto(p, IF lifecycle_state = "ACTIVE" THEN "FREEZING" ELSE "refused")
  /\ UNCHANGED <<row, rows, files, archived, intake, jobs, consent, planning, receipts, outside>>

\* cancel_jobs_for_reset settles every job, each with a cancellation and a receipt.
FenceJobs(p) ==
  /\ pc[p] = "fence"
  /\ rows' = [rows EXCEPT !["controls"] = IF open > 0 THEN MaxRows ELSE @]
  /\ open' = 0 /\ held' = FALSE
  /\ Goto(p, "FROZEN")
  /\ UNCHANGED <<row, files, archived, intake, worker, consent, planning, known, receipts,
                 outside>>

Archive(p) ==
  /\ pc[p] = "archive"
  /\ archived' = files
  /\ Goto(p, "EXPORTING")
  /\ UNCHANGED <<row, rows, files, intake, jobs, consent, planning, known, receipts, outside>>

IssueChallenge(p) ==
  /\ pc[p] = "challenge"
  /\ challenge' = [challenge EXCEPT ![p] = "issued"]
  /\ rows' = [rows EXCEPT !["challenges"] = 1]
  /\ Goto(p, "RESET_PLANNING")
  /\ UNCHANGED <<row, files, archived, intake, jobs, lapsed, confirms, planning, known, receipts,
                 outside>>

PlanReset(p) ==
  /\ pc[p] = "plan"
  /\ plan' = [plan EXCEPT ![p] = NewPlan(p)]
  /\ Goto(p, IF p \in lapsed THEN "failed" ELSE "bind")
  /\ UNCHANGED <<row, rows, files, archived, intake, jobs, consent, todo, before, verdict, known,
                 receipts, outside>>

BindPlan(p) ==
  /\ pc[p] = "bind"
  /\ challenge' = [challenge EXCEPT ![p] = "bound"]
  /\ Goto(p, "prepared")
  /\ UNCHANGED <<row, rows, files, archived, intake, jobs, lapsed, confirms, planning, known,
                 receipts, outside>>

--------------------------------------------------------------------------------
(* execute *)

\* The row is read FOR UPDATE: bound to a plan, not consumed, not expired.
Consume(e, p) ==
  /\ pc[e] = "new"
  /\ challenge[p] = "bound" /\ p \notin lapsed
  /\ challenge' = [challenge EXCEPT ![p] = "consumed"]
  /\ confirms' = [confirms EXCEPT ![e] = p]
  /\ Goto(e, "confirm")
  /\ UNCHANGED <<row, rows, files, archived, intake, jobs, lapsed, planning, known, receipts,
                 outside>>

\* get_workspace, the comparison with the target of the challenge, the fingerprint.
Confirm(e) ==
  /\ pc[e] = "confirm"
  /\ known' = [known EXCEPT ![e] = lifecycle_version]
  /\ before' = [before EXCEPT ![e] = platform]
  /\ Goto(e, IF /\ lifecycle_state = "RESET_PLANNING"
                /\ lifecycle_version = plan[confirms[e]].version
             THEN "authorize" ELSE "failed")
  /\ UNCHANGED <<row, rows, files, archived, intake, jobs, consent, plan, todo, verdict, receipts,
                 outside>>

\* authorize takes the inventory once more and compares.
Authorize(e) ==
  /\ pc[e] = "authorize"
  /\ Goto(e, IF /\ confirms[e] \notin lapsed
                /\ plan[confirms[e]].inventory = Inventory
             THEN "RESET_AUTHORIZED" ELSE "failed")
  /\ UNCHANGED <<row, rows, files, archived, intake, jobs, consent, planning, known, receipts,
                 outside>>

\* The plan in hand: the reset plan until the reset is verified, then the destroy plan.
CurrentPlan(e) == IF lifecycle_state = "DESTROYING" THEN plan[e] ELSE plan[confirms[e]]
Expired(e)     == IF lifecycle_state = "DESTROYING" THEN e \in lapsed ELSE confirms[e] \in lapsed

BeginPurge(e) ==
  /\ pc[e] = "begin"
  /\ todo' = [todo EXCEPT ![e] = WorkOf(CurrentPlan(e))]
  /\ Goto(e, IF Expired(e) THEN "failed" ELSE "purge")
  /\ UNCHANGED <<row, rows, files, archived, intake, jobs, consent, plan, before, verdict, known,
                 receipts, outside>>

\* An object that is gone already is receipted as absent.
PurgeObject(e, f) ==
  /\ pc[e] \in {"purge", "sweep"} /\ f \in todo[e].files
  /\ files' = files \ {f}
  /\ todo' = [todo EXCEPT ![e].files = @ \ {f}]
  /\ UNCHANGED <<row, rows, archived, intake, jobs, consent, plan, before, verdict, request,
                 receipts, outside>>

\* One DELETE; a row that refers to the table fails it, and the exception ends the request.
PurgeRelation(e) ==
  /\ pc[e] = "purge" /\ todo[e].files = {} /\ todo[e].tables # <<>>
  /\ LET t == Head(todo[e].tables)
     IN IF \E c \in Children(t) : rows[c] > 0 /\ rows[t] > 0
          THEN Goto(e, "failed") /\ UNCHANGED <<rows, todo, held, open>>
          ELSE /\ rows' = [rows EXCEPT ![t] = 0]
               /\ todo' = [todo EXCEPT ![e].tables = Tail(@)]
               /\ open' = IF t = "jobs" THEN 0 ELSE open
               /\ held' = (held /\ t # "jobs")
               /\ UNCHANGED pc
  /\ UNCHANGED <<row, files, archived, intake, worker, consent, plan, before, verdict, known,
                 receipts, outside>>

\* Mutated form of PurgeEnds: the purge waits until no worker has an execution.
PurgeEndsWhenIdle(e) ==
  /\ worker = "idle"
  /\ pc[e] = "purge" /\ todo[e] = NoWork
  /\ Goto(e, IF lifecycle_state = "DESTROYING" THEN "rescan" ELSE "VERIFYING_RESET")
  /\ UNCHANGED <<row, rows, files, archived, intake, jobs, consent, planning, known, receipts,
                 outside>>

PurgeEnds(e) ==
  /\ pc[e] = "purge" /\ todo[e] = NoWork
  /\ Goto(e, IF lifecycle_state = "DESTROYING" THEN "rescan" ELSE "VERIFYING_RESET")
  /\ UNCHANGED <<row, rows, files, archived, intake, jobs, consent, planning, known, receipts,
                 outside>>

\* verify, the second fingerprint and attest: after the reset the planned items are
\* looked for, after the destruction no known item is given.
Attest(e) ==
  /\ pc[e] \in {"scan", "rescan"}
  /\ verdict' = [verdict EXCEPT ![e] =
       /\ ~Residue(IF pc[e] = "scan" THEN plan[confirms[e]].inventory.files ELSE {})
       /\ platform = before[e]]
  /\ Goto(e, IF pc[e] = "rescan" THEN "DESTROYED"
             ELSE IF platform # before[e] THEN "QUARANTINED" ELSE "RESET_VERIFIED")
  /\ UNCHANGED <<row, rows, files, archived, intake, jobs, consent, plan, todo, before, known,
                 receipts, outside>>

PlanDestroy(e) ==
  /\ pc[e] = "replan"
  /\ plan' = [plan EXCEPT ![e] = NewPlan(e)]
  /\ Goto(e, "reauthorize")
  /\ UNCHANGED <<row, rows, files, archived, intake, jobs, consent, todo, before, verdict, known,
                 receipts, outside>>

AuthorizeDestroy(e) ==
  /\ pc[e] = "reauthorize"
  /\ Goto(e, IF e \notin lapsed /\ plan[e].inventory = Inventory THEN "DESTROYING" ELSE "failed")
  /\ UNCHANGED <<row, rows, files, archived, intake, jobs, consent, planning, known, receipts,
                 outside>>

\* purge_workspace lists the files, removes them and then the directories, which must
\* be empty by then.
ListFiles(e) ==
  /\ pc[e] = "list"
  /\ todo' = [todo EXCEPT ![e] = [files |-> files, tables |-> <<>>]]
  /\ Goto(e, "sweep")
  /\ UNCHANGED <<row, rows, files, archived, intake, jobs, consent, plan, before, verdict, known,
                 receipts, outside>>

RemoveDirectories(e) ==
  /\ pc[e] = "sweep" /\ todo[e].files = {}
  /\ Goto(e, IF files = {} THEN "receipt" ELSE "failed")
  /\ UNCHANGED <<row, rows, files, archived, intake, jobs, consent, planning, known, receipts,
                 outside>>

WriteReceipt(e) ==
  /\ pc[e] = "receipt"
  /\ receipts' = receipts \cup {e}
  /\ Goto(e, "done")
  /\ UNCHANGED <<row, rows, files, archived, intake, jobs, consent, planning, known, outside>>

--------------------------------------------------------------------------------
(* Everybody else *)

Interferes == disturbed' = (disturbed \/ lifecycle_state # "ACTIVE")

\* register_batch reads the state without a lock ...
UploadAdmitted(s) ==
  /\ upload[s] = "new" /\ lifecycle_state = "ACTIVE"
  /\ upload' = [upload EXCEPT ![s] = "admitted"]
  /\ UNCHANGED <<row, rows, files, archived, registered, jobs, consent, planning, request,
                 receipts, outside>>

\* ... inserts its manifest and moves the bytes, perhaps behind the freeze already ...
UploadMoves(s) ==
  /\ upload[s] = "admitted" /\ lifecycle_state # "DESTROYED"
  /\ upload' = [upload EXCEPT ![s] = "moved"]
  /\ files' = files \cup {s}
  /\ Interferes
  /\ UNCHANGED <<row, rows, archived, registered, jobs, consent, planning, request, receipts,
                 platform, faults>>

\* Mutated form of UploadCommits: the table of objects has no fence.
UploadCommitsAnyhow(s) ==
  /\ upload[s] = "moved"
  /\ upload' = [upload EXCEPT ![s] = "kept"]
  /\ registered' = registered \cup {s}
  /\ rows' = [rows EXCEPT !["documents"] = @ + 1, !["states"] = One(1), !["jobs"] = @ + 1]
  /\ open' = open + 1
  /\ UNCHANGED <<row, files, archived, worker, held, consent, planning, request, receipts, outside>>

\* ... and commits the document with its first state and its jobs,
UploadCommits(s) ==
  /\ upload[s] = "moved" /\ lifecycle_state = "ACTIVE"
  /\ upload' = [upload EXCEPT ![s] = "kept"]
  /\ registered' = registered \cup {s}
  /\ rows' = [rows EXCEPT !["documents"] = @ + 1, !["states"] = One(1), !["jobs"] = @ + 1]
  /\ open' = open + 1
  /\ UNCHANGED <<row, files, archived, worker, held, consent, planning, request, receipts, outside>>

\* or is rejected by the write fence and takes its file away.
UploadRejected(s) ==
  /\ upload[s] = "moved" /\ lifecycle_state # "ACTIVE"
  /\ upload' = [upload EXCEPT ![s] = "rejected"]
  /\ files' = files \ {s}
  /\ Interferes
  /\ UNCHANGED <<row, rows, archived, registered, jobs, consent, planning, request, receipts,
                 platform, faults>>

\* Neither claim_next_durable_job nor the execution asks for the lifecycle.
ClaimJob ==
  /\ worker = "idle" /\ open > 0
  /\ worker' = "claimed" /\ held' = TRUE
  /\ UNCHANGED <<row, rows, files, archived, intake, open, consent, planning, request, receipts,
                 outside>>

\* An execution either works on pages, and looks at its job before each of them, or
\* appends a processing state without another look.
ChooseWork ==
  /\ worker = "claimed"
  /\ worker' \in {IF held THEN "writing" ELSE "ending", "appending", "ending"}
  /\ UNCHANGED <<row, rows, files, archived, intake, held, open, consent, planning, request,
                 receipts, outside>>

PutDerived(f) ==
  /\ worker = "writing"
  /\ worker' = "recording"
  /\ files' = files \cup {f}
  /\ Interferes
  /\ UNCHANGED <<row, rows, archived, intake, held, open, consent, planning, request, receipts,
                 platform, faults>>

\* A new page needs a locator, whose table is fenced; a known page is left as it is.
\* The progress event refers to the job.
RecordPage ==
  /\ worker = "recording"
  /\ IF (lifecycle_state = "ACTIVE" \/ rows["pages"] > 0) /\ rows["jobs"] > 0
       THEN /\ worker' = "claimed"
            /\ rows' = [rows EXCEPT !["pages"] = 1, !["controls"] = MaxRows]
            /\ Interferes
       ELSE /\ worker' = "ending"
            /\ UNCHANGED <<rows, disturbed>>
  /\ UNCHANGED <<row, files, archived, intake, held, open, consent, planning, request, receipts,
                 platform, faults>>

\* Mutated form of AppendState: the state log does not refer to the document.
AppendStateAnyhow ==
  /\ worker = "appending"
  /\ worker' = "ending"
  /\ rows' = [rows EXCEPT !["states"] = IF @ < MaxRows THEN @ + 1 ELSE @]
  /\ Interferes
  /\ UNCHANGED <<row, files, archived, intake, held, open, consent, planning, request, receipts,
                 platform, faults>>

AppendState ==
  /\ worker = "appending"
  /\ worker' = "ending"
  /\ rows' = [rows EXCEPT !["states"] =
                IF rows["documents"] > 0 /\ @ < MaxRows THEN @ + 1 ELSE @]
  /\ Interferes
  /\ UNCHANGED <<row, files, archived, intake, held, open, consent, planning, request, receipts,
                 platform, faults>>

\* finish_job under the lease fence; without its job the worker goes on to the next one.
EndExecution ==
  /\ worker = "ending"
  /\ worker' = "idle"
  /\ open' = IF held THEN open - 1 ELSE open
  /\ rows' = [rows EXCEPT !["controls"] = IF held THEN MaxRows ELSE @]
  /\ held' = FALSE
  /\ IF held THEN Interferes ELSE UNCHANGED disturbed
  /\ UNCHANGED <<row, files, archived, intake, consent, planning, request, receipts, platform,
                 faults>>

\* manually_retry_job asks for a terminal job, not for the lifecycle; the scope of a
\* destroyed workspace is not resolved any more.
RetryJob ==
  /\ lifecycle_state # "DESTROYED"
  /\ open < rows["jobs"] /\ rows["jobs"] < MaxRows
  /\ rows' = [rows EXCEPT !["jobs"] = @ + 1, !["controls"] = MaxRows]
  /\ open' = open + 1
  /\ Interferes
  /\ UNCHANGED <<row, files, archived, intake, worker, held, consent, planning, request, receipts,
                 platform, faults>>

PlatformChanges ==
  /\ faults < MaxFaults
  /\ faults' = faults + 1
  /\ platform' = platform + 1
  /\ Interferes
  /\ UNCHANGED <<row, rows, files, archived, intake, jobs, consent, planning, request, receipts>>

\* The challenge and the reset plan of a prepare expire together, the destroy plan of an
\* execute on its own.
Lapse(d) ==
  /\ faults < MaxFaults /\ d \notin lapsed
  /\ faults' = faults + 1
  /\ IF d \in Preparers THEN challenge[d] # "none" ELSE plan[d].version # 0
  /\ lapsed' = lapsed \cup {d}
  /\ disturbed' = TRUE
  /\ UNCHANGED <<row, rows, files, archived, intake, jobs, challenge, confirms, planning, request,
                 receipts, platform>>

Ended == {"new", "refused", "prepared", "failed", "done"}

Crash(d) ==
  /\ faults < MaxFaults /\ pc[d] \notin Ended
  /\ faults' = faults + 1
  /\ disturbed' = TRUE
  /\ Goto(d, "failed")
  /\ UNCHANGED <<row, rows, files, archived, intake, jobs, consent, planning, known, receipts,
                 platform>>

--------------------------------------------------------------------------------

Init ==
  /\ lifecycle_state = "ACTIVE" /\ lifecycle_version = 1
  /\ rows = [t \in Relations |-> One(IF t = "outbox" THEN 1 ELSE 0)]
  /\ files = {} /\ registered = {} /\ archived = {}
  /\ upload = [s \in Sources |-> "new"]
  /\ worker = "idle" /\ held = FALSE /\ open = 0
  /\ challenge = [p \in Preparers |-> "none"]
  /\ lapsed = {}
  /\ confirms = [e \in Executors |-> None]
  /\ plan = [d \in Drivers |-> NoPlan]
  /\ todo = [e \in Executors |-> NoWork]
  /\ before = [e \in Executors |-> 0]
  /\ verdict = [e \in Executors |-> FALSE]
  /\ pc = [d \in Drivers |-> "new"]
  /\ known = [d \in Drivers |-> 0]
  /\ receipts = {}
  /\ platform = 0 /\ faults = 0 /\ disturbed = FALSE

PrepareStep(p) ==
  \/ ReadActive(p) \/ FenceJobs(p) \/ Archive(p) \/ IssueChallenge(p) \/ PlanReset(p)
  \/ BindPlan(p)

ExecuteStep(e) ==
  \/ \E p \in Preparers : Consume(e, p)
  \/ Confirm(e) \/ Authorize(e) \/ BeginPurge(e)
  \/ \E f \in Sources \cup Derived : PurgeObject(e, f)
  \/ PurgeRelation(e) \/ PurgeEnds(e) \/ Attest(e) \/ PlanDestroy(e) \/ AuthorizeDestroy(e)
  \/ ListFiles(e) \/ RemoveDirectories(e) \/ WriteReceipt(e)

UploadStep(s) == UploadMoves(s) \/ UploadCommits(s) \/ UploadRejected(s)

Others ==
  \/ \E s \in Sources : UploadAdmitted(s) \/ UploadStep(s)
  \/ ClaimJob \/ ChooseWork \/ \E f \in Derived : PutDerived(f)
  \/ RecordPage \/ AppendState \/ EndExecution \/ RetryJob
  \/ PlatformChanges
  \/ \E d \in Drivers : Lapse(d) \/ Crash(d)

Next ==
  \/ \E d \in Drivers : Transition(d)
  \/ \E p \in Preparers : PrepareStep(p)
  \/ \E e \in Executors : ExecuteStep(e)
  \/ Others

Spec == Init /\ [][Next]_vars

\* A request thread runs until its call returns; uploads finish what they have begun.
FairSpec ==
  /\ Spec
  /\ \A p \in Preparers : WF_vars(Transition(p) \/ (pc[p] # "new" /\ PrepareStep(p)))
  /\ \A e \in Executors : WF_vars(Transition(e) \/ (pc[e] # "new" /\ ExecuteStep(e)))
  /\ \A s \in Sources : WF_vars(UploadStep(s))

--------------------------------------------------------------------------------
(* Properties *)

Stages ==
  DOMAIN After \cup Ended \cup
  {"fence", "archive", "challenge", "plan", "bind", "confirm", "authorize", "begin", "purge",
   "scan", "rescan", "replan", "reauthorize", "list", "sweep", "receipt"}

\* Types of the variables.
TypeOK ==
  /\ lifecycle_state \in DOMAIN After \cup {"ACTIVE"} /\ lifecycle_version \in Nat
  /\ rows \in [Relations -> Nat]
  /\ files \subseteq Sources \cup Derived /\ archived \subseteq Sources \cup Derived
  /\ registered \subseteq Sources
  /\ upload \in [Sources -> {"new", "admitted", "moved", "kept", "rejected"}]
  /\ worker \in {"idle", "claimed", "writing", "recording", "appending", "ending"}
  /\ held \in BOOLEAN /\ open \in Nat
  /\ challenge \in [Preparers -> {"none", "issued", "bound", "consumed"}]
  /\ lapsed \subseteq Drivers
  /\ confirms \in [Executors -> Preparers \cup {None}]
  /\ pc \in [Drivers -> Stages] /\ known \in [Drivers -> Nat]
  /\ verdict \in [Executors -> BOOLEAN]
  /\ platform \in Nat /\ before \in [Executors -> Nat]
  /\ receipts \subseteq Executors
  /\ faults \in Nat /\ disturbed \in BOOLEAN

\* Registrations race with the freeze, but no committed document's bytes are ever deleted
\* unless the portable archive has them.
SourcesAreArchived == \A s \in registered : s \in files \/ s \in archived

Emptied == {"RESET_VERIFIED", "DESTROYING", "DESTROYED"}

\* What is declared reset stays so: workers and the owner go on writing during the purge and
\* behind the scan, but every row they could still add refers to one that is gone.
ResetIsFinal ==
  lifecycle_state \in Emptied =>
    /\ \A t \in Relations \ {"outbox"} : rows[t] = 0
    /\ files \cap registered = {}

\* A confirmed reset is completed, unless somebody interferes: no step of it waits for ever.
ConfirmedResetCompletes ==
  \A e \in Executors : pc[e] = "confirm" ~> (e \in receipts \/ disturbed)

Phase ==
  CASE lifecycle_state = "ACTIVE"    -> "open"
    [] lifecycle_state = "DESTROYED" -> "destroyed"
    [] lifecycle_state \in {"PURGING", "VERIFYING_RESET", "RESET_VERIFIED", "DESTROYING",
                            "QUARANTINED"} -> "condemned"
    [] OTHER -> "sealed"

Custody ==
  INSTANCE WorkspaceCustody WITH
    Items   <- Sources,
    phase   <- Phase,
    content <- files \cap registered,
    writing <- {s \in Sources : upload[s] = "moved" /\ lifecycle_state = "ACTIVE"},
    stray   <- {}

\* The workflow keeps the promise of custody for the documents of the workspace, and unlike
\* the lifecycle at large it lets no document land behind the freeze.
CustodyKept == Custody!Spec
================================================================================
