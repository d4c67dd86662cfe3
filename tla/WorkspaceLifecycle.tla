--------------------------- MODULE WorkspaceLifecycle ---------------------------
(***************************************************************************)
(* The lifecycle of one workspace: workspace.transition_lifecycle with the *)
(* evidence its guards ask for, the write fence of the material tables,    *)
(* legal holds, and the plans, authorizations, executions and attestations *)
(* of the destruction coordinator.                                         *)
(*                                                                         *)
(* An action is one transaction, or one call of the coordinator between    *)
(* two transactions. The operators are disciplined: evidence is recorded   *)
(* in the state it is for and with the version and revision of that state, *)
(* an execution is started in the state of its kind. Nothing else is       *)
(* assumed of them: any allowed transition may be taken at any time.       *)
(***************************************************************************)
EXTENDS Naturals

CONSTANTS
  Items,     \* what the storage adapters inventory: a relation, an object
  Retained,  \* the items of adapters that the retention profile keeps on reset
  Plans,     \* identities of deletion plans
  Holds,     \* identities of legal holds
  MaxVersion \* bound on lifecycle_version

ASSUME ItemsAssumption == Retained \subseteq Items
ASSUME VersionAssumption == MaxVersion \in Nat \ {0}

VARIABLES
  lifecycle_state, lifecycle_version, workspace_revision, purge_started,
  legal_hold_active, \* the flag of the workspace row
  holds,             \* the latest version of each row of legal_holds
  manifests,         \* lifecycle versions with a verified freeze manifest
  reports,           \* lifecycle versions with a verified finalization report
  exports,           \* workspace revisions with a verified export
  archives,          \* workspace revisions with a verified archive package
  content,           \* items that hold material of the workspace
  writing,           \* items being written by statements that have passed the fence
  stray,             \* items that landed behind the fence since the last opening
  plan,              \* rows of deletion_plans
  expired,           \* plans whose expires_at has passed, their authorizations included
  authority,         \* the latest authorization of each plan
  suspended,         \* plans that a legal hold has met
  running,           \* plans that are being executed
  todo,              \* items the execution has not come to
  failed,            \* the execution has met an item it could not delete
  executed,          \* plans with a complete set of receipts
  checkpoints,       \* plans with a recovery checkpoint
  attested           \* outcome of the attestation of each plan

workspace == <<lifecycle_state, lifecycle_version, workspace_revision, purge_started>>
hold      == <<legal_hold_active, holds>>
evidence  == <<manifests, reports, exports, archives>>
material  == <<content, writing, stray>>
planning  == <<plan, expired, authority, suspended>>
execution == <<running, todo, failed>>
outcomes  == <<executed, checkpoints, attested>>
vars      == <<workspace, hold, evidence, material, planning, execution, outcomes>>

--------------------------------------------------------------------------------

Writable == {"PROVISIONING", "ACTIVE"}
Doomed   == {"PURGING", "VERIFYING_RESET", "RESET_VERIFIED", "DESTROYING", "DESTROYED"}
Dormant  == {"FREEZING", "FROZEN", "FINALIZING", "FINALIZED", "EXPORTING", "EXPORTED",
             "ARCHIVING", "ARCHIVED", "CLOSED", "REOPENING", "RESET_PLANNING",
             "RESET_AUTHORIZED"}
States   == Writable \cup Dormant \cup Doomed \cup {"RECOVERY_REQUIRED", "QUARANTINED"}

Kinds == {"reset", "destroy"}

NoPlan == [kind |-> "none", version |-> 0, inventory |-> {}]

Planned(p) == plan[p] # NoPlan

Edges ==
  {<<"PROVISIONING", "ACTIVE">>, <<"ACTIVE", "FREEZING">>, <<"FREEZING", "FROZEN">>,
   <<"FROZEN", "FINALIZING">>, <<"FINALIZING", "FINALIZED">>, <<"FINALIZED", "EXPORTING">>,
   <<"EXPORTING", "EXPORTED">>, <<"EXPORTED", "ARCHIVING">>, <<"ARCHIVING", "ARCHIVED">>,
   <<"ARCHIVED", "CLOSED">>, <<"CLOSED", "REOPENING">>, <<"REOPENING", "ACTIVE">>,
   <<"CLOSED", "RESET_PLANNING">>, <<"RESET_PLANNING", "CLOSED">>,
   <<"RESET_PLANNING", "RESET_AUTHORIZED">>, <<"RESET_AUTHORIZED", "PURGING">>,
   <<"PURGING", "VERIFYING_RESET">>, <<"VERIFYING_RESET", "RESET_VERIFIED">>,
   <<"RESET_VERIFIED", "DESTROYING">>, <<"DESTROYING", "DESTROYED">>}
  \cup {"FREEZING", "FINALIZING", "EXPORTING", "ARCHIVING", "REOPENING", "RESET_AUTHORIZED",
        "PURGING", "VERIFYING_RESET", "DESTROYING", "RECOVERY_REQUIRED", "QUARANTINED"}
       \X {"RECOVERY_REQUIRED"}
  \cup {"RECOVERY_REQUIRED"} \X {"PURGING", "DESTROYING"}
  \cup {"VERIFYING_RESET", "DESTROYING", "RECOVERY_REQUIRED"} \X {"QUARANTINED"}

--------------------------------------------------------------------------------
(* transition_lifecycle *)

\* An authorization that has neither expired nor been invalidated.
Authorized(kind) ==
  {p \in Plans : plan[p].kind = kind /\ authority[p] = "valid" /\ p \notin expired}

Attested(kind) == {p \in Plans : plan[p].kind = kind /\ attested[p] = "verified"}

\* The evidence each target state asks for.
Evidence(target) ==
  /\ target = "FROZEN"           => lifecycle_version \in manifests
  /\ target = "FINALIZED"        => lifecycle_version \in reports
  /\ target = "EXPORTED"         => workspace_revision \in exports
  /\ target = "ARCHIVED"         => archives # {}
  /\ target = "RESET_AUTHORIZED" => Authorized("reset") \cup Authorized("destroy") # {}
  /\ target = "PURGING"          => Authorized("reset") # {}
  /\ target = "VERIFYING_RESET"  => \E p \in executed : plan[p].kind = "reset"
  /\ target = "RESET_VERIFIED"   => Attested("reset") # {}
  /\ target = "DESTROYING"       => Authorized("destroy") # {}
  /\ target = "DESTROYED"        => Attested("destroy") # {}

\* Mutated form of HoldAllows: a resumption is not held up.
HoldAllowsResumption(target) ==
  legal_hold_active /\ lifecycle_state # "RECOVERY_REQUIRED" =>
    target \notin {"RESET_AUTHORIZED", "PURGING", "DESTROYING", "DESTROYED"}

HoldAllows(target) ==
  legal_hold_active =>
    target \notin {"RESET_AUTHORIZED", "PURGING", "DESTROYING", "DESTROYED"}

\* Mutated form of RecoveryAllows: no checkpoint is asked for.
RecoveryAllowsAnything(target) == target \in States

\* Leaving RECOVERY_REQUIRED for a destructive state needs a checkpoint of that kind.
RecoveryAllows(target) ==
  /\ lifecycle_state = "RECOVERY_REQUIRED" /\ target = "PURGING" =>
       \E p \in checkpoints : plan[p].kind = "reset"
  /\ lifecycle_state = "RECOVERY_REQUIRED" /\ target = "DESTROYING" =>
       \E p \in checkpoints : plan[p].kind = "destroy"

Reopens(target) == lifecycle_state = "REOPENING" /\ target = "ACTIVE"

Transition(target) ==
  /\ lifecycle_version < MaxVersion
  /\ <<lifecycle_state, target>> \in Edges
  /\ HoldAllows(target)
  /\ ~(purge_started /\ target = "REOPENING")
  /\ RecoveryAllows(target)
  /\ Evidence(target)
  /\ lifecycle_state' = target
  /\ lifecycle_version' = lifecycle_version + 1
  /\ workspace_revision' = IF Reopens(target) THEN workspace_revision + 1
                                              ELSE workspace_revision
  /\ purge_started' = (purge_started \/ target = "PURGING")
  /\ stray' = IF Reopens(target) THEN {} ELSE stray
  /\ UNCHANGED <<content, writing, hold, evidence, planning, execution, outcomes>>

--------------------------------------------------------------------------------
(* Material and its write fence *)

\* The trigger reads the workspace row without a lock ...
BeginWrite(i) ==
  /\ lifecycle_state \in Writable
  /\ i \notin content \cup writing
  /\ writing' = writing \cup {i}
  /\ UNCHANGED <<workspace, content, stray, hold, evidence, planning, execution, outcomes>>

\* ... and the foreign key takes its lock at the end of the statement, when a transition
\* may have been committed. From then on the row keeps transitions waiting.
LandWrite(i) ==
  /\ i \in writing
  /\ writing' = writing \ {i}
  /\ content' = content \cup {i}
  /\ stray' = IF lifecycle_state \in Writable THEN stray ELSE stray \cup {i}
  /\ UNCHANGED <<workspace, hold, evidence, planning, execution, outcomes>>

--------------------------------------------------------------------------------
(* Evidence *)

RecordFreezeManifest ==
  /\ lifecycle_state = "FREEZING"
  /\ manifests' = manifests \cup {lifecycle_version}
  /\ UNCHANGED <<workspace, hold, reports, exports, archives, material, planning,
                 execution, outcomes>>

RecordFinalizationReport ==
  /\ lifecycle_state = "FINALIZING"
  /\ reports' = reports \cup {lifecycle_version}
  /\ UNCHANGED <<workspace, hold, manifests, exports, archives, material, planning,
                 execution, outcomes>>

RecordVerifiedExport ==
  /\ lifecycle_state = "EXPORTING"
  /\ exports' = exports \cup {workspace_revision}
  /\ UNCHANGED <<workspace, hold, manifests, reports, archives, material, planning,
                 execution, outcomes>>

RecordVerifiedArchive ==
  /\ lifecycle_state = "ARCHIVING"
  /\ archives' = archives \cup {workspace_revision}
  /\ UNCHANGED <<workspace, hold, manifests, reports, exports, material, planning,
                 execution, outcomes>>

--------------------------------------------------------------------------------
(* Legal holds *)

Invalidated == [p \in Plans |-> IF authority[p] = "valid" THEN "revoked" ELSE authority[p]]

PlaceLegalHold(h) ==
  /\ holds[h] = "none"
  /\ holds' = [holds EXCEPT ![h] = "active"]
  /\ legal_hold_active' = TRUE
  /\ authority' = Invalidated
  /\ suspended' = suspended \cup {p \in Plans : Planned(p)}
  /\ UNCHANGED <<workspace, evidence, material, plan, expired, execution, outcomes>>

ReleaseLegalHold(h) ==
  /\ holds[h] = "active"
  /\ holds' = [holds EXCEPT ![h] = "released"]
  /\ legal_hold_active' = (\E k \in Holds : holds'[k] = "active")
  /\ authority' = Invalidated
  /\ UNCHANGED <<workspace, suspended, evidence, material, plan, expired, execution, outcomes>>

--------------------------------------------------------------------------------
(* Plans and authorizations *)

\* Mutated form of KeptBy: a destruction spares the retained copies as well.
KeptByAlways(kind) == IF kind \in Kinds THEN Retained ELSE {}

\* Mutated form of KeptBy: the retention profile is read the wrong way round.
KeptByOthers(kind) == IF kind = "reset" THEN Items \ Retained ELSE {}

KeptBy(kind) == IF kind = "reset" THEN Retained ELSE {}

PlannedItems(p) == plan[p].inventory \ KeptBy(plan[p].kind)

PlanningState(kind) == IF kind = "reset" THEN "RESET_PLANNING" ELSE "RESET_VERIFIED"

\* What callers of the coordinator say of a hold: the flag, or FALSE as reset.py does.
HoldArguments == {legal_hold_active, FALSE}

\* plan and persist_deletion_plan, where the workspace waits for a plan of the kind or has
\* to recover from one.
MakePlan(p, kind, held) ==
  /\ ~Planned(p)
  /\ ~held
  /\ \/ lifecycle_state = PlanningState(kind)
     \/ lifecycle_state = "RECOVERY_REQUIRED" /\ \E q \in checkpoints : plan[q].kind = kind
  /\ plan' = [plan EXCEPT ![p] = [kind |-> kind, version |-> lifecycle_version,
                                  inventory |-> content]]
  /\ UNCHANGED <<workspace, hold, evidence, material, expired, authority, suspended,
                 execution, outcomes>>

\* DestructionCoordinator.authorize: the plan must fit the version and the inventory.
Authorize(p, held) ==
  /\ Planned(p)
  /\ authority[p] \in {"none", "revoked"}
  /\ ~held
  /\ p \notin expired
  /\ lifecycle_version = plan[p].version
  /\ content = plan[p].inventory
  /\ authority' = [authority EXCEPT ![p] = "granted"]
  /\ UNCHANGED <<workspace, hold, evidence, material, plan, expired, suspended,
                 execution, outcomes>>

\* persist_authorization inserts the row as it is, whatever has happened meanwhile.
PersistAuthorization(p) ==
  /\ authority[p] = "granted"
  /\ authority' = [authority EXCEPT ![p] = "valid"]
  /\ UNCHANGED <<workspace, hold, evidence, material, plan, expired, suspended,
                 execution, outcomes>>

Expire(p) ==
  /\ Planned(p)
  /\ expired' = expired \cup {p}
  /\ UNCHANGED <<workspace, hold, evidence, material, plan, authority, suspended,
                 execution, outcomes>>

--------------------------------------------------------------------------------
(* Execution *)

\* The invalidation of an authorization is a row that execute does not read.
StartExecution(p, held) ==
  /\ p \notin running \cup executed
  /\ authority[p] \in {"valid", "revoked"}
  /\ p \notin expired
  /\ ~held
  /\ lifecycle_state = IF plan[p].kind = "reset" THEN "PURGING" ELSE "DESTROYING"
  /\ running' = running \cup {p}
  /\ todo' = [todo EXCEPT ![p] = PlannedItems(p)]
  /\ failed' = [failed EXCEPT ![p] = FALSE]
  /\ UNCHANGED <<workspace, hold, evidence, material, planning, outcomes>>

PurgeItem(p, i) ==
  /\ p \in running /\ i \in todo[p]
  /\ content' = content \ {i}
  /\ todo' = [todo EXCEPT ![p] = @ \ {i}]
  /\ UNCHANGED <<workspace, hold, evidence, writing, stray, planning, running, failed, outcomes>>

\* The adapter is not capable of it, or reports a failure.
PurgeItemFails(p, i) ==
  /\ p \in running /\ i \in todo[p]
  /\ todo' = [todo EXCEPT ![p] = @ \ {i}]
  /\ failed' = [failed EXCEPT ![p] = TRUE]
  /\ UNCHANGED <<workspace, hold, evidence, material, planning, running, outcomes>>

EndExecution(p) ==
  /\ p \in running /\ todo[p] = {}
  /\ running' = running \ {p}
  /\ UNCHANGED <<workspace, hold, evidence, material, planning, todo, failed, attested>>

RecordReceipts(p) ==
  /\ EndExecution(p)
  /\ ~failed[p]
  /\ executed' = executed \cup {p}
  /\ UNCHANGED checkpoints

RecordCheckpoint(p) ==
  /\ EndExecution(p)
  /\ failed[p]
  /\ checkpoints' = checkpoints \cup {p}
  /\ UNCHANGED executed

\* The process is lost, or an adapter raises: the receipts collected so far go with it.
LoseExecution(p) ==
  /\ p \in running
  /\ running' = running \ {p}
  /\ UNCHANGED <<workspace, hold, evidence, material, planning, todo, failed, outcomes>>

\* verify, attest and persist_verification_evidence: one attestation for each plan, as a
\* second one would repeat the scans of its adapters.
Attest(p) ==
  /\ p \in executed
  /\ attested[p] = "none"
  /\ lifecycle_state = IF plan[p].kind = "reset" THEN "VERIFYING_RESET" ELSE "DESTROYING"
  /\ attested' = [attested EXCEPT ![p] =
       IF content \subseteq KeptBy(plan[p].kind) THEN "verified" ELSE "incomplete"]
  /\ UNCHANGED <<workspace, hold, evidence, material, planning, execution, executed, checkpoints>>

--------------------------------------------------------------------------------

Init ==
  /\ lifecycle_state = "PROVISIONING"
  /\ lifecycle_version = 1
  /\ workspace_revision = 1
  /\ purge_started = FALSE
  /\ legal_hold_active = FALSE
  /\ holds = [h \in Holds |-> "none"]
  /\ manifests = {} /\ reports = {} /\ exports = {} /\ archives = {}
  /\ content = {} /\ writing = {} /\ stray = {}
  /\ plan = [p \in Plans |-> NoPlan]
  /\ expired = {}
  /\ authority = [p \in Plans |-> "none"]
  /\ suspended = {}
  /\ running = {}
  /\ todo = [p \in Plans |-> {}]
  /\ failed = [p \in Plans |-> FALSE]
  /\ executed = {} /\ checkpoints = {}
  /\ attested = [p \in Plans |-> "none"]

Record ==
  \/ RecordFreezeManifest \/ RecordFinalizationReport
  \/ RecordVerifiedExport \/ RecordVerifiedArchive

Destruction(p) ==
  \/ \E held \in HoldArguments :
       \/ \E kind \in Kinds : MakePlan(p, kind, held)
       \/ Authorize(p, held)
       \/ StartExecution(p, held)
  \/ PersistAuthorization(p) \/ Expire(p)
  \/ \E i \in Items : PurgeItem(p, i) \/ PurgeItemFails(p, i)
  \/ RecordReceipts(p) \/ RecordCheckpoint(p) \/ LoseExecution(p)
  \/ Attest(p)

Next ==
  \/ \E target \in States : Transition(target)
  \/ \E i \in Items : BeginWrite(i) \/ LandWrite(i)
  \/ \E h \in Holds : PlaceLegalHold(h) \/ ReleaseLegalHold(h)
  \/ \E p \in Plans : Destruction(p)
  \/ Record

Spec == Init /\ [][Next]_vars

--------------------------------------------------------------------------------
(* Properties *)

PlanRows ==
  [kind : Kinds, version : Nat \ {0}, inventory : SUBSET Items] \cup {NoPlan}

\* Every variable stays in its domain; exports and archives are of revisions that exist.
TypeOK ==
  /\ lifecycle_state \in States
  /\ lifecycle_version \in Nat \ {0}
  /\ workspace_revision \in Nat \ {0}
  /\ purge_started \in BOOLEAN
  /\ legal_hold_active \in BOOLEAN
  /\ holds \in [Holds -> {"none", "active", "released"}]
  /\ manifests \subseteq 1..lifecycle_version
  /\ reports \subseteq 1..lifecycle_version
  /\ exports \subseteq 1..workspace_revision
  /\ archives \subseteq 1..workspace_revision
  /\ content \subseteq Items
  /\ writing \subseteq Items
  /\ stray \subseteq Items
  /\ plan \in [Plans -> PlanRows]
  /\ expired \subseteq Plans
  /\ authority \in [Plans -> {"none", "granted", "valid", "revoked"}]
  /\ suspended \subseteq Plans
  /\ running \subseteq Plans
  /\ todo \in [Plans -> SUBSET Items]
  /\ failed \in [Plans -> BOOLEAN]
  /\ executed \subseteq Plans
  /\ checkpoints \subseteq Plans
  /\ attested \in [Plans -> {"none", "verified", "incomplete"}]

\* The flag that the guards of transition_lifecycle read agrees with the history of holds,
\* however several holds overlap.
HoldFlag == legal_hold_active <=> \E h \in Holds : holds[h] = "active"

\* Nothing is purged before the current revision was exported, however often the
\* workspace was reopened: no detour over a failed operation leads past the export.
PurgedAfterExport ==
  lifecycle_state \in {"EXPORTED", "ARCHIVING", "ARCHIVED", "CLOSED", "REOPENING",
                       "RESET_PLANNING", "RESET_AUTHORIZED"} \cup Doomed
    => workspace_revision \in exports

\* A verified reset leaves only what the retention profile keeps: executions that failed,
\* were lost or followed a stale plan do not end in RESET_VERIFIED.
ResetLeavesRetained ==
  lifecycle_state \in {"RESET_VERIFIED", "DESTROYING"} => content \subseteq Retained \cup stray

\* A hold that finds the workspace outside of a purge keeps it there with all its material,
\* whatever was planned and authorized before and whatever callers say of the hold.
Untouched == lifecycle_state \notin {"PURGING", "DESTROYING"} /\ running = {}

HoldKeepsMaterial ==
  [][legal_hold_active /\ Untouched /\ legal_hold_active'
       => Untouched' /\ content \subseteq content']_vars

\* What a lifecycle state is to the custody of the material. A recovery is told apart by
\* the mark that a purge leaves in the row.
Phase ==
  IF lifecycle_state \in Writable THEN "open"
  ELSE IF lifecycle_state = "DESTROYED" THEN "destroyed"
  ELSE IF purge_started THEN "condemned" ELSE "sealed"

Custody == INSTANCE WorkspaceCustody WITH phase <- Phase

\* The lifecycle keeps the promise of WorkspaceCustody, through failed and lost executions,
\* recovery, quarantine and reopening.
CustodyKept == Custody!Spec

--------------------------------------------------------------------------------
(* Statements of the repository that the code does not meet *)

\* "a delayed write after freeze is rejected": nothing lands behind the fence of a
\* workspace whose freeze manifest was verified.
FrozenMeansStill == lifecycle_state \in Dormant \ {"FREEZING"} => stray = {}

\* "Release never resumes an old plan; fresh inventory, plan and authorization are
\* required": no destructive transition rests on plans that a hold has met.
ReleaseNeedsFreshPlan ==
  [][/\ lifecycle_state' # lifecycle_state
     /\ lifecycle_state' \in {"RESET_AUTHORIZED", "PURGING", "DESTROYING"}
     => \E p \in Authorized("reset") \cup Authorized("destroy") : p \notin suspended]_vars

\* ARCHIVED stands for a verified archive of the material that is in the workspace.
ArchiveIsCurrent == lifecycle_state = "ARCHIVED" => workspace_revision \in archives
================================================================================
