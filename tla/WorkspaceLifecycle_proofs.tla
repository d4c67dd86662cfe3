------------------------ MODULE WorkspaceLifecycle_proofs ------------------------
(***************************************************************************)
(* Theorems about WorkspaceLifecycle, for every set of items, plans and    *)
(* holds and every bound on versions.                                      *)
(***************************************************************************)
EXTENDS WorkspaceLifecycle, TLAPS

USE ItemsAssumption, VersionAssumption

Recovering == {"RECOVERY_REQUIRED", "QUARANTINED"}

Kept == {"EXPORTED", "ARCHIVING", "ARCHIVED", "CLOSED", "REOPENING", "RESET_PLANNING",
         "RESET_AUTHORIZED"}

\* What is left when only retained copies and late writes are left.
OnlyRetained == content \subseteq Retained \cup stray

\* A purge is marked in the row before anything is deleted, and the mark keeps the workspace
\* among the states that lead to its end, with its material exported.
PurgeIsMarked ==
  /\ lifecycle_state \in Doomed => purge_started
  /\ purge_started => /\ lifecycle_state \in Doomed \cup Recovering
                      /\ workspace_revision \in exports

\* No execution leaves a trace before a purge.
TracesNeedPurge ==
  \A p \in Plans : p \in running \cup executed \cup checkpoints \/ attested[p] # "none"
                     => purge_started

\* What is done about a plan is done after it was made.
PlansComeFirst ==
  \A p \in Plans :
    /\ authority[p] # "none" => Planned(p)
    /\ p \in running \cup executed \cup checkpoints => Planned(p)
    /\ attested[p] # "none" => p \in executed

\* Destruction begins where the reset has ended.
ResetComesFirst ==
  /\ lifecycle_state \in {"RESET_VERIFIED", "DESTROYING"} => OnlyRetained
  /\ \A p \in running \cup executed \cup checkpoints :
       plan[p].kind = "destroy" => OnlyRetained

\* What an attestation has verified stays true.
VerdictsLast ==
  \A p \in Plans : attested[p] = "verified" => content \subseteq KeptBy(plan[p].kind) \cup stray

\* The inductive invariant.
IInv ==
  /\ TypeOK
  /\ HoldFlag
  /\ PurgedAfterExport
  /\ PurgeIsMarked
  /\ TracesNeedPurge
  /\ PlansComeFirst
  /\ ResetComesFirst
  /\ VerdictsLast

--------------------------------------------------------------------------------
(* The edges of the lifecycle *)

\* Which states an edge can join.
LEMMA EdgeFacts ==
  ASSUME NEW s, NEW t, <<s, t>> \in Edges
  PROVE  /\ t \in States
         /\ s \in Doomed \cup Recovering => t \in Doomed \cup Recovering
         /\ t \in Doomed => \/ s \in Doomed
                            \/ (s = "RESET_AUTHORIZED" /\ t = "PURGING")
                            \/ (s = "RECOVERY_REQUIRED" /\ t \in {"PURGING", "DESTROYING"})
         /\ t \in Kept => \/ s \in Kept
                          \/ (s = "EXPORTING" /\ t = "EXPORTED")
         /\ t \in Writable => \/ s = "PROVISIONING"
                              \/ (s = "REOPENING" /\ t = "ACTIVE")
         /\ t = "REOPENING" => s = "CLOSED"
         /\ t = "DESTROYING" => s \in {"RESET_VERIFIED", "RECOVERY_REQUIRED"}
         /\ t = "DESTROYED" => s = "DESTROYING"
         /\ s # "DESTROYED"
BY DEF Edges, States, Writable, Dormant, Doomed, Recovering, Kept

--------------------------------------------------------------------------------
(* Types *)

\* The initial state has its types and satisfies the invariant.
LEMMA InvariantInit == Init => IInv
<1> SUFFICES ASSUME Init PROVE IInv
  OBVIOUS
<1> USE DEF Init
<1>1. TypeOK
  <2>1. lifecycle_state \in States /\ plan \in [Plans -> PlanRows]
    BY DEF States, Writable, PlanRows
  <2>2. lifecycle_version \in Nat \ {0} /\ workspace_revision \in Nat \ {0}
    OBVIOUS
  <2>7. purge_started \in BOOLEAN /\ legal_hold_active \in BOOLEAN
    OBVIOUS
  <2>3. /\ holds \in [Holds -> {"none", "active", "released"}]
        /\ authority \in [Plans -> {"none", "granted", "valid", "revoked"}]
        /\ attested \in [Plans -> {"none", "verified", "incomplete"}]
    OBVIOUS
  <2>4. todo \in [Plans -> SUBSET Items] /\ failed \in [Plans -> BOOLEAN]
    OBVIOUS
  <2>5. /\ manifests \subseteq 1..lifecycle_version /\ reports \subseteq 1..lifecycle_version
        /\ exports \subseteq 1..workspace_revision /\ archives \subseteq 1..workspace_revision
    OBVIOUS
  <2>6. /\ content \subseteq Items /\ writing \subseteq Items /\ stray \subseteq Items
        /\ expired \subseteq Plans /\ suspended \subseteq Plans /\ running \subseteq Plans
        /\ executed \subseteq Plans /\ checkpoints \subseteq Plans
    OBVIOUS
  <2> HIDE DEF Init
  <2> QED
    BY <2>1, <2>2, <2>3, <2>4, <2>5, <2>6, <2>7 DEF TypeOK
<1>2. HoldFlag
  BY DEF HoldFlag
<1>3. PurgedAfterExport /\ PurgeIsMarked
  BY DEF PurgedAfterExport, PurgeIsMarked, Doomed
<1>4. TracesNeedPurge /\ PlansComeFirst /\ ResetComesFirst /\ VerdictsLast
  BY DEF TracesNeedPurge, PlansComeFirst, ResetComesFirst, VerdictsLast
<1> QED
  BY <1>1, <1>2, <1>3, <1>4 DEF IInv

\* A transition and the evidence for it keep the types.
LEMMA TransitionType ==
  ASSUME TypeOK, NEW target \in States, Transition(target)
  PROVE  TypeOK'
<1>1. lifecycle_version' \in Nat \ {0} /\ workspace_revision' \in Nat \ {0}
  BY DEF Transition, TypeOK
<1>2. lifecycle_state' \in States /\ purge_started' \in BOOLEAN
  BY DEF Transition, TypeOK
<1>3. /\ manifests' \subseteq 1..lifecycle_version'
      /\ reports' \subseteq 1..lifecycle_version'
      /\ exports' \subseteq 1..workspace_revision'
      /\ archives' \subseteq 1..workspace_revision'
  BY DEF Transition, TypeOK, evidence
<1>4. stray' \subseteq Items
  BY DEF Transition, TypeOK
<1>5. UNCHANGED <<content, writing, hold, planning, execution, outcomes>>
  BY DEF Transition
<1> QED
  BY <1>1, <1>2, <1>3, <1>4, <1>5 DEF TypeOK, hold, planning, execution, outcomes

\* Recorded evidence is of the present version and revision.
LEMMA RecordType ==
  ASSUME TypeOK, Record
  PROVE  TypeOK'
<1>1. CASE RecordFreezeManifest
  BY <1>1 DEF RecordFreezeManifest, TypeOK, workspace, hold, material, planning, execution,
              outcomes
<1>2. CASE RecordFinalizationReport
  BY <1>2 DEF RecordFinalizationReport, TypeOK, workspace, hold, material, planning, execution,
              outcomes
<1>3. CASE RecordVerifiedExport
  BY <1>3 DEF RecordVerifiedExport, TypeOK, workspace, hold, material, planning, execution,
              outcomes
<1>4. CASE RecordVerifiedArchive
  BY <1>4 DEF RecordVerifiedArchive, TypeOK, workspace, hold, material, planning, execution,
              outcomes
<1> QED
  BY <1>1, <1>2, <1>3, <1>4 DEF Record

\* Material, holds and plans keep the types.
LEMMA MaterialType ==
  ASSUME TypeOK, NEW i \in Items, BeginWrite(i) \/ LandWrite(i)
  PROVE  TypeOK'
<1>1. CASE BeginWrite(i)
  BY <1>1 DEF BeginWrite, TypeOK, workspace, hold, evidence, planning, execution, outcomes
<1>2. CASE LandWrite(i)
  BY <1>2 DEF LandWrite, TypeOK, workspace, hold, evidence, planning, execution, outcomes
<1> QED
  BY <1>1, <1>2

LEMMA InvalidatedType ==
  ASSUME TypeOK
  PROVE  Invalidated \in [Plans -> {"none", "granted", "valid", "revoked"}]
BY DEF TypeOK, Invalidated

LEMMA HoldType ==
  ASSUME TypeOK, NEW h \in Holds, PlaceLegalHold(h) \/ ReleaseLegalHold(h)
  PROVE  TypeOK'
<1>1. authority' \in [Plans -> {"none", "granted", "valid", "revoked"}]
  BY InvalidatedType DEF PlaceLegalHold, ReleaseLegalHold
<1>2. /\ holds' \in [Holds -> {"none", "active", "released"}]
      /\ legal_hold_active' \in BOOLEAN
      /\ suspended' \subseteq Plans
  BY DEF PlaceLegalHold, ReleaseLegalHold, TypeOK
<1>3. UNCHANGED <<workspace, evidence, material, plan, expired, execution, outcomes>>
  BY DEF PlaceLegalHold, ReleaseLegalHold
<1> QED
  BY <1>1, <1>2, <1>3 DEF TypeOK, workspace, evidence, material, execution, outcomes

LEMMA PlanningType ==
  ASSUME TypeOK, NEW p \in Plans, NEW held,
         \/ \E kind \in Kinds : MakePlan(p, kind, held)
         \/ Authorize(p, held) \/ PersistAuthorization(p) \/ Expire(p)
  PROVE  TypeOK'
<1>1. CASE \E kind \in Kinds : MakePlan(p, kind, held)
  <2>1. PICK kind \in Kinds : MakePlan(p, kind, held)
    BY <1>1
  <2>2. [kind |-> kind, version |-> lifecycle_version, inventory |-> content] \in PlanRows
    BY DEF PlanRows, TypeOK
  <2>3. plan' \in [Plans -> PlanRows]
    BY <2>1, <2>2 DEF MakePlan, TypeOK
  <2> QED
    BY <2>1, <2>3 DEF MakePlan, TypeOK, workspace, hold, evidence, material, execution, outcomes
<1>2. CASE Authorize(p, held)
  BY <1>2 DEF Authorize, TypeOK, workspace, hold, evidence, material, execution, outcomes
<1>3. CASE PersistAuthorization(p)
  BY <1>3 DEF PersistAuthorization, TypeOK, workspace, hold, evidence, material, execution,
              outcomes
<1>4. CASE Expire(p)
  BY <1>4 DEF Expire, TypeOK, workspace, hold, evidence, material, execution, outcomes
<1> QED
  BY <1>1, <1>2, <1>3, <1>4

LEMMA PlannedItemsType ==
  ASSUME TypeOK, NEW p \in Plans
  PROVE  PlannedItems(p) \subseteq Items
BY DEF TypeOK, PlannedItems, PlanRows, NoPlan

LEMMA ExecutionType ==
  ASSUME TypeOK, NEW p \in Plans, NEW held,
         \/ StartExecution(p, held)
         \/ \E i \in Items : PurgeItem(p, i) \/ PurgeItemFails(p, i)
         \/ RecordReceipts(p) \/ RecordCheckpoint(p) \/ LoseExecution(p)
         \/ Attest(p)
  PROVE  TypeOK'
<1> USE DEF TypeOK, workspace, hold, evidence, material, planning, execution, outcomes
<1>1. CASE StartExecution(p, held)
  BY <1>1, PlannedItemsType DEF StartExecution
<1>2. CASE \E i \in Items : PurgeItem(p, i)
  BY <1>2 DEF PurgeItem
<1>3. CASE \E i \in Items : PurgeItemFails(p, i)
  BY <1>3 DEF PurgeItemFails
<1>4. CASE RecordReceipts(p)
  BY <1>4 DEF RecordReceipts, EndExecution
<1>5. CASE RecordCheckpoint(p)
  BY <1>5 DEF RecordCheckpoint, EndExecution
<1>6. CASE LoseExecution(p)
  BY <1>6 DEF LoseExecution
<1>7. CASE Attest(p)
  BY <1>7 DEF Attest
<1> QED
  BY <1>1, <1>2, <1>3, <1>4, <1>5, <1>6, <1>7

--------------------------------------------------------------------------------
(* Steps that are no transitions *)

\* The marks of a purge depend on the row and on the exports only.
LEMMA MarksKept ==
  ASSUME IInv, UNCHANGED workspace, exports \subseteq exports'
  PROVE  PurgedAfterExport' /\ PurgeIsMarked'
BY DEF IInv, PurgedAfterExport, PurgeIsMarked, workspace

\* What executions have left behind is the same as long as they and the material are.
LEMMA TracesKept ==
  ASSUME IInv,
         UNCHANGED <<lifecycle_state, purge_started, running, executed, checkpoints, attested,
                     plan, content, stray>>,
         \A p \in Plans : authority'[p] # "none" => Planned(p)
  PROVE  TracesNeedPurge' /\ PlansComeFirst' /\ ResetComesFirst' /\ VerdictsLast'
<1>1. TracesNeedPurge'
  BY DEF IInv, TracesNeedPurge
<1>2. PlansComeFirst'
  BY DEF IInv, PlansComeFirst, Planned
<1>3. ResetComesFirst'
  BY DEF IInv, ResetComesFirst, OnlyRetained
<1>4. VerdictsLast'
  BY DEF IInv, VerdictsLast, KeptBy
<1> QED
  BY <1>1, <1>2, <1>3, <1>4

LEMMA RecordInvariant ==
  ASSUME IInv, Record
  PROVE  IInv'
<1>1. TypeOK'
  BY RecordType DEF IInv
<1>2. /\ UNCHANGED <<workspace, hold, material, planning, execution, outcomes>>
      /\ exports \subseteq exports'
  BY DEF Record, RecordFreezeManifest, RecordFinalizationReport, RecordVerifiedExport,
         RecordVerifiedArchive
<1>3. HoldFlag'
  BY <1>2 DEF IInv, HoldFlag, hold
<1>4. \A p \in Plans : authority'[p] # "none" => Planned(p)
  BY <1>2 DEF IInv, PlansComeFirst, planning
<1> QED
  BY <1>1, <1>2, <1>3, <1>4, MarksKept, TracesKept
     DEF IInv, workspace, material, planning, execution, outcomes

LEMMA BeginWriteInvariant ==
  ASSUME IInv, NEW i \in Items, BeginWrite(i)
  PROVE  IInv'
<1>1. TypeOK'
  BY MaterialType DEF IInv
<1>2. UNCHANGED <<workspace, content, stray, hold, evidence, planning, execution, outcomes>>
  BY DEF BeginWrite
<1>3. HoldFlag'
  BY <1>2 DEF IInv, HoldFlag, hold
<1>4. \A p \in Plans : authority'[p] # "none" => Planned(p)
  BY <1>2 DEF IInv, PlansComeFirst, planning
<1> QED
  BY <1>1, <1>2, <1>3, <1>4, MarksKept, TracesKept
     DEF IInv, workspace, evidence, planning, execution, outcomes

\* A late write is stray, and without a purge nothing depends on the material.
LEMMA LandWriteInvariant ==
  ASSUME IInv, NEW i \in Items, LandWrite(i)
  PROVE  IInv'
<1>1. TypeOK'
  BY MaterialType DEF IInv
<1>2. /\ content' = content \cup {i}
      /\ stray' = IF lifecycle_state \in Writable THEN stray ELSE stray \cup {i}
      /\ UNCHANGED <<workspace, hold, evidence, planning, execution, outcomes>>
  BY DEF LandWrite
<1>3. HoldFlag' /\ PurgedAfterExport' /\ PurgeIsMarked'
  BY <1>2, MarksKept DEF IInv, HoldFlag, hold, evidence
<1>4. TracesNeedPurge' /\ PlansComeFirst'
  BY <1>2 DEF IInv, TracesNeedPurge, PlansComeFirst, Planned, workspace, planning, execution,
             outcomes
<1>5. ResetComesFirst' /\ VerdictsLast'
  <2>1. CASE purge_started
    <3>1. lifecycle_state \notin Writable
      BY <2>1 DEF IInv, PurgeIsMarked, Doomed, Recovering, Writable
    <3>2. stray' = stray \cup {i}
      BY <1>2, <3>1
    <3>3. OnlyRetained => OnlyRetained'
      BY <1>2, <3>2 DEF OnlyRetained
    <3>4. ResetComesFirst'
      BY <1>2, <3>3 DEF IInv, ResetComesFirst, workspace, planning, execution, outcomes
    <3>5. VerdictsLast'
      BY <1>2, <3>2 DEF IInv, VerdictsLast, KeptBy, planning, outcomes
    <3> QED
      BY <3>4, <3>5
  <2>2. CASE ~purge_started
    <3>1. lifecycle_state \notin {"RESET_VERIFIED", "DESTROYING"}
      BY <2>2 DEF IInv, PurgeIsMarked, Doomed
    <3>2. \A p \in Plans : p \notin running \cup executed \cup checkpoints /\ attested[p] = "none"
      BY <2>2 DEF IInv, TracesNeedPurge
    <3>3. running \cup executed \cup checkpoints \subseteq Plans
      BY DEF IInv, TypeOK
    <3> QED
      BY <1>2, <3>1, <3>2, <3>3 DEF ResetComesFirst, VerdictsLast, workspace, execution, outcomes
  <2> QED
    BY <2>1, <2>2
<1> QED
  BY <1>1, <1>3, <1>4, <1>5 DEF IInv

\* The flag follows the holds, and no authorization appears from nowhere.
LEMMA HoldInvariant ==
  ASSUME IInv, NEW h \in Holds, PlaceLegalHold(h) \/ ReleaseLegalHold(h)
  PROVE  IInv'
<1>1. TypeOK'
  BY HoldType DEF IInv
<1>2. /\ authority' = Invalidated
      /\ UNCHANGED <<workspace, evidence, material, plan, expired, execution, outcomes>>
  BY DEF PlaceLegalHold, ReleaseLegalHold
<1>3. ASSUME PlaceLegalHold(h) PROVE HoldFlag'
  BY <1>3 DEF PlaceLegalHold, HoldFlag, IInv, TypeOK
<1>4. ASSUME ReleaseLegalHold(h) PROVE HoldFlag'
  BY <1>4 DEF ReleaseLegalHold, HoldFlag
<1>5. \A p \in Plans : authority'[p] # "none" => Planned(p)
  BY <1>2 DEF IInv, PlansComeFirst, Invalidated
<1> QED
  BY <1>1, <1>2, <1>3, <1>4, <1>5, MarksKept, TracesKept
     DEF IInv, workspace, evidence, material, execution, outcomes

\* A plan is made once, and nothing refers to it before.
LEMMA MakePlanInvariant ==
  ASSUME IInv, NEW p \in Plans, NEW kind \in Kinds, NEW held, MakePlan(p, kind, held)
  PROVE  IInv'
<1>1. TypeOK'
  BY PlanningType DEF IInv
<1>2. /\ ~Planned(p)
      /\ \A q \in Plans \ {p} : plan'[q] = plan[q]
      /\ Planned(p)'
      /\ UNCHANGED <<workspace, hold, evidence, material, expired, authority, suspended,
                     execution, outcomes>>
  BY DEF MakePlan, Planned, NoPlan, IInv, TypeOK, Kinds
<1>3. HoldFlag' /\ PurgedAfterExport' /\ PurgeIsMarked'
  BY <1>2, MarksKept DEF IInv, HoldFlag, hold, evidence
<1>4. \A q \in Plans : Planned(q) => Planned(q)' /\ plan'[q] = plan[q]
  BY <1>2 DEF Planned
<1>5. p \notin running \cup executed \cup checkpoints /\ attested[p] = "none"
  BY <1>2 DEF IInv, PlansComeFirst
<1>6. TracesNeedPurge' /\ PlansComeFirst'
  BY <1>2, <1>4 DEF IInv, TracesNeedPurge, PlansComeFirst, workspace, execution, outcomes
<1>7. ResetComesFirst'
  <2>1. running \cup executed \cup checkpoints \subseteq Plans
    BY DEF IInv, TypeOK
  <2> QED
    BY <1>2, <1>5, <2>1 DEF IInv, ResetComesFirst, OnlyRetained, workspace, material, execution,
                            outcomes
<1>8. VerdictsLast'
  BY <1>2, <1>5 DEF IInv, VerdictsLast, KeptBy, material, outcomes
<1> QED
  BY <1>1, <1>3, <1>6, <1>7, <1>8 DEF IInv

LEMMA AuthorityInvariant ==
  ASSUME IInv, NEW p \in Plans, NEW held,
         Authorize(p, held) \/ PersistAuthorization(p) \/ Expire(p)
  PROVE  IInv'
<1>1. TypeOK'
  BY PlanningType DEF IInv
<1>2. UNCHANGED <<workspace, hold, evidence, material, plan, suspended, execution, outcomes>>
  BY DEF Authorize, PersistAuthorization, Expire
<1>3. HoldFlag'
  BY <1>2 DEF IInv, HoldFlag, hold
<1>4. /\ \A q \in Plans \ {p} : authority'[q] = authority[q]
      /\ Planned(p) \/ authority'[p] = authority[p]
  BY DEF Authorize, PersistAuthorization, Expire, IInv, TypeOK, PlansComeFirst
<1>5. \A q \in Plans : authority'[q] # "none" => Planned(q)
  BY <1>4 DEF IInv, PlansComeFirst
<1> QED
  BY <1>1, <1>2, <1>3, <1>5, MarksKept, TracesKept
     DEF IInv, workspace, evidence, material, execution, outcomes

\* An execution starts in a purge, and one that destroys after the reset has ended.
LEMMA StartInvariant ==
  ASSUME IInv, NEW p \in Plans, NEW held, StartExecution(p, held)
  PROVE  IInv'
<1>1. TypeOK'
  BY ExecutionType DEF IInv
<1>2. /\ authority[p] # "none"
      /\ lifecycle_state = IF plan[p].kind = "reset" THEN "PURGING" ELSE "DESTROYING"
      /\ running' = running \cup {p}
      /\ UNCHANGED <<workspace, hold, evidence, material, planning, outcomes>>
  BY DEF StartExecution
<1>3. HoldFlag' /\ PurgedAfterExport' /\ PurgeIsMarked'
  BY <1>2, MarksKept DEF IInv, HoldFlag, hold, evidence
<1>4. purge_started
  BY <1>2 DEF IInv, PurgeIsMarked, Doomed
<1>5. TracesNeedPurge' /\ PlansComeFirst'
  BY <1>2, <1>4 DEF IInv, TracesNeedPurge, PlansComeFirst, Planned, workspace, planning, outcomes
<1>6. plan[p].kind = "destroy" => OnlyRetained
  BY <1>2 DEF IInv, ResetComesFirst
<1>7. ResetComesFirst' /\ VerdictsLast'
  BY <1>2, <1>6 DEF IInv, ResetComesFirst, VerdictsLast, OnlyRetained, KeptBy, workspace, material,
                    planning, outcomes
<1> QED
  BY <1>1, <1>3, <1>5, <1>7 DEF IInv

\* Executions only delete.
LEMMA PurgeInvariant ==
  ASSUME IInv, NEW p \in Plans, NEW i \in Items, PurgeItem(p, i)
  PROVE  IInv'
<1>1. TypeOK'
  BY ExecutionType DEF IInv
<1>2. /\ content' \subseteq content
      /\ UNCHANGED <<workspace, hold, evidence, stray, planning, running, outcomes>>
  BY DEF PurgeItem
<1>3. HoldFlag' /\ PurgedAfterExport' /\ PurgeIsMarked'
  BY <1>2, MarksKept DEF IInv, HoldFlag, hold, evidence
<1>4. TracesNeedPurge' /\ PlansComeFirst'
  BY <1>2 DEF IInv, TracesNeedPurge, PlansComeFirst, Planned, workspace, planning, outcomes
<1>5. OnlyRetained => OnlyRetained'
  BY <1>2 DEF OnlyRetained
<1>6. ResetComesFirst' /\ VerdictsLast'
  BY <1>2, <1>5 DEF IInv, ResetComesFirst, VerdictsLast, KeptBy, workspace, planning, outcomes
<1> QED
  BY <1>1, <1>3, <1>4, <1>6 DEF IInv

\* The end of an execution leaves a trace of an execution that there was.
LEMMA EndInvariant ==
  ASSUME IInv, NEW p \in Plans,
         \/ \E i \in Items : PurgeItemFails(p, i)
         \/ RecordReceipts(p) \/ RecordCheckpoint(p) \/ LoseExecution(p)
  PROVE  IInv'
<1>1. TypeOK'
  BY ExecutionType DEF IInv
<1>2. /\ UNCHANGED <<workspace, hold, evidence, material, planning, attested>>
      /\ executed \subseteq executed'
      /\ running' \cup executed' \cup checkpoints' \subseteq running \cup executed \cup checkpoints
  BY DEF PurgeItemFails, RecordReceipts, RecordCheckpoint, LoseExecution, EndExecution, outcomes
<1>3. HoldFlag' /\ PurgedAfterExport' /\ PurgeIsMarked'
  BY <1>2, MarksKept DEF IInv, HoldFlag, hold, evidence
<1>4. TracesNeedPurge'
  BY <1>2 DEF IInv, TracesNeedPurge, workspace
<1>5. PlansComeFirst'
  BY <1>2 DEF IInv, PlansComeFirst, Planned, planning
<1>6. ResetComesFirst' /\ VerdictsLast'
  BY <1>2 DEF IInv, ResetComesFirst, VerdictsLast, OnlyRetained, KeptBy, workspace, material,
              planning
<1> QED
  BY <1>1, <1>3, <1>4, <1>5, <1>6 DEF IInv

LEMMA AttestInvariant ==
  ASSUME IInv, NEW p \in Plans, Attest(p)
  PROVE  IInv'
<1>1. TypeOK'
  BY ExecutionType DEF IInv
<1>2. /\ p \in executed
      /\ \A q \in Plans \ {p} : attested'[q] = attested[q]
      /\ attested'[p] = "verified" => content \subseteq KeptBy(plan[p].kind)
      /\ UNCHANGED <<workspace, hold, evidence, material, planning, execution, executed,
                     checkpoints>>
  BY DEF Attest, IInv, TypeOK
<1>3. HoldFlag' /\ PurgedAfterExport' /\ PurgeIsMarked'
  BY <1>2, MarksKept DEF IInv, HoldFlag, hold, evidence
<1>4. TracesNeedPurge'
  BY <1>2 DEF IInv, TracesNeedPurge, workspace, execution
<1>5. PlansComeFirst'
  BY <1>2 DEF IInv, PlansComeFirst, Planned, planning, execution
<1>6. ResetComesFirst'
  BY <1>2 DEF IInv, ResetComesFirst, OnlyRetained, workspace, material, planning, execution
<1>7. VerdictsLast'
  BY <1>2 DEF IInv, VerdictsLast, KeptBy, material, planning
<1> QED
  BY <1>1, <1>3, <1>4, <1>5, <1>6, <1>7 DEF IInv

--------------------------------------------------------------------------------
(* Transitions *)

\* A workspace with traces of an execution is not reopened, so late writes stay stray.
LEMMA TransitionFrame ==
  ASSUME IInv, NEW target \in States, Transition(target)
  PROVE  /\ lifecycle_state' = target
         /\ UNCHANGED <<content, writing, hold, evidence, planning, execution, outcomes>>
         /\ purge_started => purge_started'
         /\ purge_started => UNCHANGED <<stray, workspace_revision>>
         /\ target # "ACTIVE" => UNCHANGED <<stray, workspace_revision>>
<1>1. purge_started => lifecycle_state # "REOPENING"
  BY DEF IInv, PurgeIsMarked, Doomed, Recovering
<1> QED
  BY <1>1 DEF Transition, Reopens

\* Every way into a purge passes the export or the traces of an earlier purge.
LEMMA TransitionMarks ==
  ASSUME IInv, NEW target \in States, Transition(target)
  PROVE  PurgedAfterExport' /\ PurgeIsMarked'
<1> DEFINE s == lifecycle_state
<1>1. <<s, target>> \in Edges /\ RecoveryAllows(target) /\ Evidence(target)
  BY DEF Transition
<1>2. /\ s \in Doomed \cup Recovering => target \in Doomed \cup Recovering
      /\ target \in Doomed => \/ s \in Doomed
                              \/ (s = "RESET_AUTHORIZED" /\ target = "PURGING")
                            \/ (s = "RECOVERY_REQUIRED" /\ target \in {"PURGING", "DESTROYING"})
      /\ target \in Kept => \/ s \in Kept
                            \/ (s = "EXPORTING" /\ target = "EXPORTED")
  BY <1>1, EdgeFacts
<1>3. /\ lifecycle_state' = target
      /\ UNCHANGED exports
      /\ purge_started => purge_started'
      /\ purge_started => UNCHANGED workspace_revision
      /\ target # "ACTIVE" => UNCHANGED workspace_revision
  BY TransitionFrame DEF evidence
<1>4. purge_started' <=> purge_started \/ target = "PURGING"
  BY DEF Transition, IInv, TypeOK
<1>5. purge_started => /\ s \in Doomed \cup Recovering
                       /\ workspace_revision \in exports
  BY DEF IInv, PurgeIsMarked
<1>6. s \in Doomed \cup Kept => workspace_revision \in exports
  BY DEF IInv, PurgedAfterExport, Kept
<1>7. s \in Doomed => purge_started
  BY DEF IInv, PurgeIsMarked
<1>8. s = "RECOVERY_REQUIRED" /\ target \in {"PURGING", "DESTROYING"} => purge_started
  BY <1>1 DEF RecoveryAllows, IInv, TypeOK, TracesNeedPurge
<1>9. "ACTIVE" \notin Doomed \cup Kept /\ "PURGING" \in Doomed /\ "RESET_AUTHORIZED" \in Kept
  BY DEF Doomed, Kept
<1>10. target \in Doomed => purge_started'
  BY <1>2, <1>4, <1>7, <1>8
<1>11. target \in Doomed \cup Kept => workspace_revision \in exports
  <2>1. CASE target \in Doomed
    BY <2>1, <1>2, <1>5, <1>6, <1>8, <1>9
  <2>2. CASE target \in Kept /\ s \in Kept
    BY <2>2, <1>6
  <2>3. CASE target = "EXPORTED"
    BY <2>3, <1>1 DEF Evidence
  <2> QED
    BY <2>1, <2>2, <2>3, <1>2
<1>12. PurgedAfterExport'
  BY <1>3, <1>9, <1>11 DEF PurgedAfterExport, Kept
<1>13. purge_started' => target \in Doomed \cup Recovering
  BY <1>2, <1>4, <1>5, <1>9
<1>14. purge_started' => (workspace_revision \in exports)'
  BY <1>3, <1>4, <1>5, <1>9, <1>11
<1> QED
  BY <1>3, <1>10, <1>12, <1>13, <1>14 DEF PurgeIsMarked

LEMMA TransitionInvariant ==
  ASSUME IInv, NEW target \in States, Transition(target)
  PROVE  IInv'
<1>1. /\ lifecycle_state' = target
      /\ UNCHANGED <<content, writing, hold, evidence, planning, execution, outcomes>>
      /\ purge_started => purge_started'
      /\ purge_started => stray' = stray
      /\ target # "ACTIVE" => stray' = stray
  BY TransitionFrame
<1>2. TypeOK'
  BY TransitionType DEF IInv
<1>3. HoldFlag'
  BY <1>1 DEF IInv, HoldFlag, hold
<1>4. TracesNeedPurge' /\ PlansComeFirst'
  BY <1>1 DEF IInv, TracesNeedPurge, PlansComeFirst, Planned, planning, execution, outcomes
<1>5. OnlyRetained /\ stray' = stray => OnlyRetained'
  BY <1>1 DEF OnlyRetained
<1>6. target \in {"RESET_VERIFIED", "DESTROYING"} => OnlyRetained
  <2>1. <<lifecycle_state, target>> \in Edges /\ RecoveryAllows(target) /\ Evidence(target)
    BY DEF Transition
  <2>2. CASE target = "RESET_VERIFIED"
    BY <2>1, <2>2 DEF Evidence, Attested, IInv, VerdictsLast, KeptBy, OnlyRetained
  <2>3. CASE target = "DESTROYING" /\ lifecycle_state = "RESET_VERIFIED"
    BY <2>3 DEF IInv, ResetComesFirst
  <2>4. CASE target = "DESTROYING" /\ lifecycle_state = "RECOVERY_REQUIRED"
    BY <2>1, <2>4 DEF RecoveryAllows, IInv, ResetComesFirst
  <2> QED
    BY <2>1, <2>2, <2>3, <2>4, EdgeFacts
<1>7. \A p \in running \cup executed \cup checkpoints : purge_started
  BY DEF IInv, TypeOK, TracesNeedPurge
<1>8. ResetComesFirst'
  <2>1. target \in {"RESET_VERIFIED", "DESTROYING"} => OnlyRetained'
    BY <1>1, <1>5, <1>6
  <2>2. \A p \in running \cup executed \cup checkpoints :
          plan[p].kind = "destroy" => OnlyRetained'
    BY <1>1, <1>5, <1>7 DEF IInv, ResetComesFirst
  <2> QED
    BY <1>1, <2>1, <2>2 DEF ResetComesFirst, planning, execution, outcomes
<1>9. VerdictsLast'
  BY <1>1 DEF IInv, VerdictsLast, TracesNeedPurge, KeptBy, planning, outcomes
<1> QED
  BY <1>2, <1>3, <1>4, <1>8, <1>9, TransitionMarks DEF IInv

--------------------------------------------------------------------------------
(* Theorems *)

LEMMA StutterInvariant == IInv /\ UNCHANGED vars => IInv'
<1> SUFFICES ASSUME IInv, UNCHANGED vars PROVE IInv'
  OBVIOUS
<1> USE DEF vars, workspace, hold, evidence, material, planning, execution, outcomes
<1>1. TypeOK'
  BY DEF IInv, TypeOK
<1>2. HoldFlag'
  BY DEF IInv, HoldFlag
<1>3. \A p \in Plans : authority'[p] # "none" => Planned(p)
  BY DEF IInv, PlansComeFirst
<1> QED
  BY <1>1, <1>2, <1>3, MarksKept, TracesKept DEF IInv

LEMMA InvariantNext == IInv /\ [Next]_vars => IInv'
<1> SUFFICES ASSUME IInv, [Next]_vars PROVE IInv'
  OBVIOUS
<1>1. ASSUME NEW target \in States, Transition(target) PROVE IInv'
  BY <1>1, TransitionInvariant
<1>2. ASSUME NEW i \in Items, BeginWrite(i) \/ LandWrite(i) PROVE IInv'
  BY <1>2, BeginWriteInvariant, LandWriteInvariant
<1>3. ASSUME NEW h \in Holds, PlaceLegalHold(h) \/ ReleaseLegalHold(h) PROVE IInv'
  BY <1>3, HoldInvariant
<1>4. ASSUME NEW p \in Plans, Destruction(p) PROVE IInv'
  <2>1. ASSUME NEW held \in HoldArguments, NEW kind \in Kinds, MakePlan(p, kind, held) PROVE IInv'
    BY <2>1, MakePlanInvariant
  <2>2. ASSUME NEW held \in HoldArguments, Authorize(p, held) PROVE IInv'
    BY <2>2, AuthorityInvariant
  <2>3. ASSUME NEW held \in HoldArguments, StartExecution(p, held) PROVE IInv'
    BY <2>3, StartInvariant
  <2>4. CASE PersistAuthorization(p) \/ Expire(p)
    BY <2>4, AuthorityInvariant
  <2>5. ASSUME NEW i \in Items, PurgeItem(p, i) PROVE IInv'
    BY <2>5, PurgeInvariant
  <2>6. CASE \/ \E i \in Items : PurgeItemFails(p, i)
             \/ RecordReceipts(p) \/ RecordCheckpoint(p) \/ LoseExecution(p)
    BY <2>6, EndInvariant
  <2>7. CASE Attest(p)
    BY <2>7, AttestInvariant
  <2> QED
    BY <1>4, <2>1, <2>2, <2>3, <2>4, <2>5, <2>6, <2>7 DEF Destruction
<1>5. CASE Record
  BY <1>5, RecordInvariant
<1>6. CASE UNCHANGED vars
  BY <1>6, StutterInvariant
<1> QED
  BY <1>1, <1>2, <1>3, <1>4, <1>5, <1>6 DEF Next

\* The invariant of the lifecycle: what was exported, marked, planned, executed and attested
\* fits the state of the workspace, whichever way it came there.
THEOREM Invariance == Spec => []IInv
<1>1. Init => IInv
  BY InvariantInit
<1>2. IInv /\ [Next]_vars => IInv'
  BY InvariantNext
<1> QED
  BY <1>1, <1>2, PTL DEF Spec

\* Every variable of the lifecycle stays in its domain.
THEOREM TypeCorrect == Spec => []TypeOK
<1>1. IInv => TypeOK
  BY DEF IInv
<1> QED
  BY <1>1, Invariance, PTL

\* The flag of the workspace row follows any number of overlapping holds.
THEOREM FlagFollowsHolds == Spec => []HoldFlag
<1>1. IInv => HoldFlag
  BY DEF IInv
<1> QED
  BY <1>1, Invariance, PTL

\* No way through failures, recovery and reopening leads past the export to the purge.
THEOREM NoPurgeBeforeExport == Spec => []PurgedAfterExport
<1>1. IInv => PurgedAfterExport
  BY DEF IInv
<1> QED
  BY <1>1, Invariance, PTL

\* A verified reset leaves only what the retention profile keeps and what landed late,
\* also in a workspace that was reopened any number of times.
THEOREM ResetIsComplete == Spec => []ResetLeavesRetained
<1>1. IInv => ResetLeavesRetained
  BY DEF IInv, ResetComesFirst, OnlyRetained, ResetLeavesRetained
<1> QED
  BY <1>1, Invariance, PTL

\* A hold that comes before the purge keeps the workspace and its material.
THEOREM HoldsProtect == Spec => HoldKeepsMaterial
<1> DEFINE Protected == legal_hold_active /\ Untouched /\ legal_hold_active'
                          => Untouched' /\ content \subseteq content'
<1>1. ASSUME NEW target \in States, Transition(target) PROVE Protected
  <2>1. HoldAllows(target)
    BY <1>1 DEF Transition
  <2> QED
    BY <1>1, <2>1 DEF Transition, HoldAllows, Untouched, execution
<1>2. ASSUME NEW i \in Items, BeginWrite(i) \/ LandWrite(i) PROVE Protected
  BY <1>2 DEF BeginWrite, LandWrite, Untouched, workspace, execution
<1>3. ASSUME NEW h \in Holds, PlaceLegalHold(h) \/ ReleaseLegalHold(h) PROVE Protected
  BY <1>3 DEF PlaceLegalHold, ReleaseLegalHold, Untouched, workspace, execution, material
<1>4. ASSUME NEW p \in Plans, Destruction(p) PROVE Protected
  <2>1. ASSUME NEW held, NEW kind \in Kinds, MakePlan(p, kind, held) PROVE Protected
    BY <2>1 DEF MakePlan, Untouched, workspace, execution, material
  <2>2. ASSUME NEW held, Authorize(p, held) PROVE Protected
    BY <2>2 DEF Authorize, Untouched, workspace, execution, material
  <2>3. ASSUME NEW held, StartExecution(p, held) PROVE Protected
    BY <2>3 DEF StartExecution, Untouched
  <2>4. CASE PersistAuthorization(p) \/ Expire(p)
    BY <2>4 DEF PersistAuthorization, Expire, Untouched, workspace, execution, material
  <2>5. ASSUME NEW i \in Items, PurgeItem(p, i) \/ PurgeItemFails(p, i) PROVE Protected
    BY <2>5 DEF PurgeItem, PurgeItemFails, Untouched
  <2>6. CASE RecordReceipts(p) \/ RecordCheckpoint(p) \/ LoseExecution(p)
    BY <2>6 DEF RecordReceipts, RecordCheckpoint, LoseExecution, EndExecution, Untouched
  <2>7. CASE Attest(p)
    BY <2>7 DEF Attest, Untouched, workspace, execution, material
  <2> QED
    BY <1>4, <2>1, <2>2, <2>3, <2>4, <2>5, <2>6, <2>7 DEF Destruction
<1>5. ASSUME Record PROVE Protected
  BY <1>5 DEF Record, RecordFreezeManifest, RecordFinalizationReport, RecordVerifiedExport,
              RecordVerifiedArchive, Untouched, workspace, execution, material
<1>6. ASSUME UNCHANGED vars PROVE Protected
  BY <1>6 DEF vars, Untouched, workspace, execution, material
<1>7. [Next]_vars => Protected
  BY <1>1, <1>2, <1>3, <1>4, <1>5, <1>6 DEF Next
<1>8. [Next]_vars => [Protected]_vars
  BY <1>7
<1> QED
  BY <1>8, PTL DEF Spec, HoldKeepsMaterial

--------------------------------------------------------------------------------
(* The lifecycle implements WorkspaceCustody *)

\* Phases along an edge: what is open is sealed, what is sealed is reopened or condemned,
\* what is condemned stays so until it is destroyed.
LEMMA PhaseEdges ==
  ASSUME IInv, NEW target \in States, Transition(target)
  PROVE  \/ Phase' = Phase
         \/ Phase = "open" /\ Phase' = "sealed"
         \/ Phase = "sealed" /\ Phase' = "open" /\ Reopens(target)
         \/ Phase = "sealed" /\ Phase' = "condemned"
         \/ Phase = "condemned" /\ Phase' = "destroyed" /\ target = "DESTROYED"
<1> DEFINE s == lifecycle_state
<1>1. /\ <<s, target>> \in Edges
      /\ lifecycle_state' = target
      /\ purge_started' <=> purge_started \/ target = "PURGING"
  BY DEF Transition, IInv, TypeOK
<1>2. /\ s \in Doomed => purge_started
      /\ purge_started => s \in Doomed \cup Recovering
      /\ target \in Doomed => purge_started'
      /\ purge_started' => target \in Doomed \cup Recovering
  BY <1>1, TransitionMarks DEF IInv, PurgeIsMarked
<1>3. /\ Writable \cap (Doomed \cup Recovering) = {}
      /\ "DESTROYED" \in Doomed \ Writable
      /\ "PURGING" \in Doomed
  BY DEF Writable, Doomed, Recovering
<1>4. /\ target \in Writable => \/ s = "PROVISIONING"
                                \/ s = "REOPENING" /\ target = "ACTIVE"
      /\ target = "DESTROYED" => s = "DESTROYING"
      /\ s # "DESTROYED"
      /\ "PROVISIONING" \in Writable /\ "REOPENING" \notin Writable
      /\ "DESTROYING" \in Doomed \ Writable
      /\ s \in Writable => target \notin Doomed
  BY <1>1, EdgeFacts DEF Writable, Doomed
<1>5. CASE s \in Writable
  <2>1. ~purge_started'
    BY <1>1, <1>2, <1>3, <1>4, <1>5
  <2> QED
    BY <2>1, <1>1, <1>3, <1>4, <1>5 DEF Phase
<1>6. CASE s \notin Writable /\ target \in Writable
  <2>1. ~purge_started /\ Reopens(target)
    BY <1>1, <1>2, <1>3, <1>4, <1>6 DEF Reopens
  <2> QED
    BY <2>1, <1>1, <1>4, <1>6 DEF Phase
<1>7. CASE s \notin Writable /\ target \notin Writable
  BY <1>1, <1>2, <1>3, <1>4, <1>7 DEF Phase
<1> QED
  BY <1>5, <1>6, <1>7

\* A transition seals, reopens, condemns or destroys, or does not show.
LEMMA TransitionRefines ==
  ASSUME IInv, NEW target \in States, Transition(target)
  PROVE  [Custody!Next]_(Custody!vars)
<1>1. content' = content /\ writing' = writing
  BY DEF Transition
<1>2. stray' = IF Reopens(target) THEN {} ELSE stray
  BY DEF Transition
<1>3. Reopens(target) => Phase = "sealed" /\ Phase' = "open"
  <2> SUFFICES ASSUME Reopens(target) PROVE Phase = "sealed" /\ Phase' = "open"
    OBVIOUS
  <2>1. lifecycle_state = "REOPENING" /\ lifecycle_state' = "ACTIVE"
    BY DEF Reopens, Transition
  <2>2. ~purge_started
    BY <2>1 DEF IInv, PurgeIsMarked, Doomed, Recovering
  <2> QED
    BY <2>1, <2>2 DEF Phase, Writable
<1>4. target = "DESTROYED" => content \subseteq stray
  BY DEF Transition, Evidence, Attested, IInv, VerdictsLast, KeptBy
<1>5. CASE Reopens(target)
  BY <1>1, <1>2, <1>3, <1>5 DEF Custody!Reopen, Custody!Next
<1>6. CASE ~Reopens(target)
  <2>1. stray' = stray
    BY <1>2, <1>6
  <2>2. CASE Phase' = Phase
    BY <1>1, <2>1, <2>2 DEF Custody!vars
  <2>3. CASE Phase = "open" /\ Phase' = "sealed"
    BY <1>1, <2>1, <2>3 DEF Custody!Seal, Custody!Next
  <2>4. CASE Phase = "sealed" /\ Phase' = "condemned"
    BY <1>1, <2>1, <2>4 DEF Custody!Condemn, Custody!Next
  <2>5. CASE Phase = "condemned" /\ Phase' = "destroyed" /\ target = "DESTROYED"
    BY <1>1, <1>4, <2>1, <2>5 DEF Custody!Destroy, Custody!Next
  <2> QED
    BY <1>6, <2>2, <2>3, <2>4, <2>5, PhaseEdges
<1> QED
  BY <1>5, <1>6

\* Material is admitted, lands and is removed as promised.
LEMMA MaterialRefines ==
  ASSUME IInv, NEW i \in Items, BeginWrite(i) \/ LandWrite(i)
  PROVE  Custody!Next
<1>1. Phase' = Phase
  BY DEF BeginWrite, LandWrite, workspace, Phase
<1>2. Phase = "open" <=> lifecycle_state \in Writable
  BY DEF Phase
<1>3. CASE BeginWrite(i)
  BY <1>1, <1>2, <1>3 DEF BeginWrite, Custody!Admit, Custody!Next
<1>4. CASE LandWrite(i)
  BY <1>1, <1>2, <1>4 DEF LandWrite, Custody!Land, Custody!Next
<1> QED
  BY <1>3, <1>4

LEMMA PurgeRefines ==
  ASSUME IInv, NEW p \in Plans, NEW i \in Items, PurgeItem(p, i)
  PROVE  Custody!Next
<1>1. Phase' = Phase /\ writing' = writing /\ stray' = stray /\ content' = content \ {i}
  BY DEF PurgeItem, workspace, Phase
<1>2. purge_started
  BY DEF PurgeItem, IInv, TracesNeedPurge
<1>3. lifecycle_state \notin Writable
  BY <1>2 DEF IInv, PurgeIsMarked, Doomed, Recovering, Writable
<1>4. Phase \in {"condemned", "destroyed"}
  BY <1>2, <1>3 DEF Phase
<1> QED
  BY <1>1, <1>4 DEF Custody!Remove, Custody!Next

\* Every other step leaves the phase and the material alone.
LEMMA OthersStutter ==
  ASSUME UNCHANGED workspace, UNCHANGED material
  PROVE  UNCHANGED Custody!vars
BY DEF workspace, material, Phase, Custody!vars

\* The lifecycle with its holds, plans and executions, failures and resumptions included,
\* is a custody of the material: sealed before condemned, condemned before anything is
\* deleted, never reopened after, and empty when it is declared destroyed.
THEOREM CustodyIsKept == Spec => CustodyKept
<1>1. Init => Custody!Init
  BY DEF Init, Custody!Init, Phase, Writable
<1>2. IInv /\ [Next]_vars => [Custody!Next]_(Custody!vars)
  <2> SUFFICES ASSUME IInv, [Next]_vars PROVE [Custody!Next]_(Custody!vars)
    OBVIOUS
  <2>1. ASSUME NEW target \in States, Transition(target)
        PROVE  [Custody!Next]_(Custody!vars)
    BY <2>1, TransitionRefines
  <2>2. ASSUME NEW i \in Items, BeginWrite(i) \/ LandWrite(i) PROVE Custody!Next
    BY <2>2, MaterialRefines
  <2>3. ASSUME NEW p \in Plans, NEW i \in Items, PurgeItem(p, i) PROVE Custody!Next
    BY <2>3, PurgeRefines
  <2>4. ASSUME NEW h \in Holds, PlaceLegalHold(h) \/ ReleaseLegalHold(h)
        PROVE  UNCHANGED Custody!vars
    BY <2>4, OthersStutter DEF PlaceLegalHold, ReleaseLegalHold
  <2>5. ASSUME NEW p \in Plans, Destruction(p)
        PROVE  [Custody!Next]_(Custody!vars)
    <3>1. ASSUME NEW held, \/ \E kind \in Kinds : MakePlan(p, kind, held)
                           \/ Authorize(p, held)
                           \/ StartExecution(p, held)
          PROVE  UNCHANGED Custody!vars
      BY <3>1, OthersStutter DEF MakePlan, Authorize, StartExecution
    <3>2. CASE PersistAuthorization(p) \/ Expire(p) \/ Attest(p)
      BY <3>2, OthersStutter DEF PersistAuthorization, Expire, Attest
    <3>3. CASE \E i \in Items : PurgeItemFails(p, i)
      BY <3>3, OthersStutter DEF PurgeItemFails
    <3>4. CASE RecordReceipts(p) \/ RecordCheckpoint(p) \/ LoseExecution(p)
      BY <3>4, OthersStutter DEF RecordReceipts, RecordCheckpoint, LoseExecution, EndExecution
    <3> QED
      BY <2>3, <2>5, <3>1, <3>2, <3>3, <3>4 DEF Destruction
  <2>6. CASE Record
    <3>1. UNCHANGED workspace /\ UNCHANGED material
      BY <2>6 DEF Record, RecordFreezeManifest, RecordFinalizationReport,
                  RecordVerifiedExport, RecordVerifiedArchive
    <3> QED
      BY <3>1, OthersStutter
  <2>7. CASE UNCHANGED vars
    BY <2>7, OthersStutter DEF vars
  <2> QED
    BY <2>1, <2>2, <2>4, <2>5, <2>6, <2>7 DEF Next
<1> QED
  BY <1>1, <1>2, Invariance, PTL DEF Spec, CustodyKept, Custody!Spec
================================================================================
