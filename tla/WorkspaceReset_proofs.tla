------------------------- MODULE WorkspaceReset_proofs -------------------------
(* Proofs about WorkspaceReset: at most one prepare ever freezes the workspace  *)
(* and at most one execute follows it, so the stage of that one request tells   *)
(* where the lifecycle is, though nobody records it. From that follow what the  *)
(* archive and the plan cover and that nothing grows behind the scan.           *)
EXTENDS WorkspaceReset, TLAPS

--------------------------------------------------------------------------------
(* The inductive invariant *)

Plans == [version : Nat,
          inventory : [tables : [Relations -> Nat], files : SUBSET (Sources \cup Derived)]]

PlansAreTyped == plan \in [Drivers -> Plans]

PrepareStages ==
  {"fence", "FROZEN", "FINALIZING", "FINALIZED", "archive", "EXPORTING", "EXPORTED",
   "ARCHIVING", "ARCHIVED", "CLOSED", "challenge", "RESET_PLANNING", "plan", "bind"}

ExecuteStages ==
  {"authorize", "RESET_AUTHORIZED", "PURGING", "begin", "purge", "VERIFYING_RESET", "scan",
   "RESET_VERIFIED", "QUARANTINED", "replan", "reauthorize", "DESTROYING", "rescan",
   "DESTROYED", "list", "sweep", "receipt"}

PreparerStages == PrepareStages \cup {"new", "FREEZING", "refused", "prepared", "failed"}
ExecutorStages == ExecuteStages \cup {"new", "confirm", "failed", "done"}

RolesAreApart ==
  /\ \A p \in Preparers : pc[p] \in PreparerStages
  /\ \A e \in Executors : pc[e] \in ExecutorStages

\* The request goes on with the transition it has made, or read, last.
InChain(d) == pc[d] \in PrepareStages \cup ExecuteStages

\* Where the lifecycle is while a request of the chain is at its stage.
Place(d) ==
  \/ pc[d] \in {"fence", "FROZEN"} /\ lifecycle_state = "FREEZING"
  \/ pc[d] = "FINALIZING" /\ lifecycle_state = "FROZEN"
  \/ pc[d] = "FINALIZED" /\ lifecycle_state = "FINALIZING"
  \/ pc[d] \in {"archive", "EXPORTING"} /\ lifecycle_state = "FINALIZED"
  \/ pc[d] = "EXPORTED" /\ lifecycle_state = "EXPORTING"
  \/ pc[d] = "ARCHIVING" /\ lifecycle_state = "EXPORTED"
  \/ pc[d] = "ARCHIVED" /\ lifecycle_state = "ARCHIVING"
  \/ pc[d] = "CLOSED" /\ lifecycle_state = "ARCHIVED"
  \/ pc[d] \in {"challenge", "RESET_PLANNING"} /\ lifecycle_state = "CLOSED"
  \/ /\ pc[d] \in {"plan", "bind", "authorize", "RESET_AUTHORIZED"}
     /\ lifecycle_state = "RESET_PLANNING"
  \/ pc[d] = "PURGING" /\ lifecycle_state = "RESET_AUTHORIZED"
  \/ pc[d] \in {"begin", "purge"} /\ lifecycle_state \in {"PURGING", "DESTROYING"}
  \/ pc[d] = "VERIFYING_RESET" /\ lifecycle_state = "PURGING"
  \/ pc[d] \in {"scan", "RESET_VERIFIED", "QUARANTINED"} /\ lifecycle_state = "VERIFYING_RESET"
  \/ pc[d] \in {"replan", "reauthorize", "DESTROYING"} /\ lifecycle_state = "RESET_VERIFIED"
  \/ pc[d] \in {"rescan", "DESTROYED"} /\ lifecycle_state = "DESTROYING"
  \/ pc[d] \in {"list", "sweep", "receipt"} /\ lifecycle_state = "DESTROYED"

\* The workspace is as it was created exactly while nobody has moved it.
VersionsTell ==
  /\ lifecycle_version >= 1
  /\ lifecycle_version = 1 <=> lifecycle_state = "ACTIVE"
  /\ \A p \in Preparers : pc[p] = "FREEZING" => known[p] = 1

\* A request of the chain knows the current version and the state that goes with its stage.
ChainIsPlaced == \A d \in Drivers : InChain(d) => known[d] = lifecycle_version /\ Place(d)

Led(p) == pc[p] \in PrepareStages \cup {"prepared"} \/ challenge[p] # "none"

\* At most one prepare ever froze the workspace.
OneLeader ==
  \A p \in Preparers : Led(p) => /\ lifecycle_state # "ACTIVE"
                                 /\ \A q \in Preparers : Led(q) => q = p

\* A challenge that can be confirmed, or was, belongs to a prepare that has returned.
ConsentIsPrepared ==
  \A p \in Preparers : challenge[p] \in {"bound", "consumed"} => pc[p] = "prepared"

\* A challenge is consumed by one execute.
ConsentIsOnce ==
  \A e \in Executors :
    /\ confirms[e] = None <=> pc[e] = "new"
    /\ confirms[e] # None =>
         /\ challenge[confirms[e]] = "consumed"
         /\ \A f \in Executors : confirms[f] = confirms[e] => f = e

\* Open jobs are rows, and a worker that holds its job has an open one.
JobsAreRows == open <= rows["jobs"] /\ (held => open > 0)

UploadsArePlaced ==
  \A s \in Sources : /\ s \in registered => upload[s] = "kept"
                     /\ upload[s] = "moved" /\ lifecycle_state = "ACTIVE" => s \in files

Condemned ==
  {"PURGING", "VERIFYING_RESET", "RESET_VERIFIED", "DESTROYING", "QUARANTINED", "DESTROYED"}

KeptUntilPurge == lifecycle_state \notin Condemned => registered \subseteq files

Early == {"ACTIVE", "FREEZING", "FROZEN", "FINALIZING", "FINALIZED"}

\* From the export on the archive has every registered document.
ArchiveIsWhole ==
  lifecycle_state \notin Early \/ (\E p \in Preparers : pc[p] = "EXPORTING") =>
    registered \subseteq archived

\* No registered document is missing in a plan that is to be bound or was.
PlansCover ==
  \A p \in Preparers : pc[p] \in {"bind", "prepared"} =>
    files \cap registered \subseteq plan[p].inventory.files

Empty ==
  /\ \A t \in Relations \ {"outbox"} : rows[t] = 0
  /\ files \cap registered = {}

\* Behind a successful scan the workspace stays empty.
EmptyStays ==
  lifecycle_state \in Emptied \/ (\E e \in Executors : pc[e] = "RESET_VERIFIED" /\ verdict[e]) =>
    Empty

IInv ==
  /\ TypeOK
  /\ PlansAreTyped
  /\ RolesAreApart
  /\ VersionsTell
  /\ ChainIsPlaced
  /\ OneLeader
  /\ ConsentIsPrepared
  /\ ConsentIsOnce
  /\ JobsAreRows
  /\ UploadsArePlaced
  /\ KeptUntilPurge
  /\ ArchiveIsWhole
  /\ PlansCover
  /\ EmptyStays

--------------------------------------------------------------------------------
(* Kinds of steps *)

\* The request makes the transition it is at.
Moves(d) ==
  /\ Succeeds(d)
  /\ pc[d] = "FREEZING" \/ InChain(d)
  /\ lifecycle_state' = pc[d]
  /\ lifecycle_version' = lifecycle_version + 1
  /\ known' = [known EXCEPT ![d] = lifecycle_version + 1]
  /\ \A c \in Drivers \ {d} : pc'[c] = pc[c]
  /\ UNCHANGED <<challenge, confirms>>

\* The request goes on without one, or gives up.
Advances(d) ==
  /\ UNCHANGED <<lifecycle_state, lifecycle_version, known, challenge, confirms>>
  /\ pc[d] \notin {"new", "prepared"}
  /\ \A c \in Drivers \ {d} : pc'[c] = pc[c]
  /\ pc'[d] \in {"refused", "failed", "done"} \/ (InChain(d) /\ Place(d)')
  /\ d \in Preparers => pc'[d] \in PreparerStages \ {"new", "FREEZING", "prepared"}
  /\ d \in Executors => pc'[d] \in ExecutorStages \ {"new", "confirm"}

Quiet == UNCHANGED <<lifecycle_state, lifecycle_version, pc, known, challenge, confirms>>

LEMMA AfterFacts ==
  ASSUME NEW s \in DOMAIN After
  PROVE  \/ s = "FREEZING" /\ After[s] = "fence"
         \/ s = "FROZEN" /\ After[s] = "FINALIZING"
         \/ s = "FINALIZING" /\ After[s] = "FINALIZED"
         \/ s = "FINALIZED" /\ After[s] = "archive"
         \/ s = "EXPORTING" /\ After[s] = "EXPORTED"
         \/ s = "EXPORTED" /\ After[s] = "ARCHIVING"
         \/ s = "ARCHIVING" /\ After[s] = "ARCHIVED"
         \/ s = "ARCHIVED" /\ After[s] = "CLOSED"
         \/ s = "CLOSED" /\ After[s] = "challenge"
         \/ s = "RESET_PLANNING" /\ After[s] = "plan"
         \/ s = "RESET_AUTHORIZED" /\ After[s] = "PURGING"
         \/ s = "PURGING" /\ After[s] = "begin"
         \/ s = "VERIFYING_RESET" /\ After[s] = "scan"
         \/ s = "QUARANTINED" /\ After[s] = "failed"
         \/ s = "RESET_VERIFIED" /\ After[s] = "replan"
         \/ s = "DESTROYING" /\ After[s] = "begin"
         \/ s = "DESTROYED" /\ After[s] = "list"
BY DEF After

LEMMA AfterDomain ==
  DOMAIN After = {"FREEZING", "FROZEN", "FINALIZING", "FINALIZED", "EXPORTING", "EXPORTED",
                  "ARCHIVING", "ARCHIVED", "CLOSED", "RESET_PLANNING", "RESET_AUTHORIZED",
                  "PURGING", "VERIFYING_RESET", "QUARANTINED", "RESET_VERIFIED", "DESTROYING",
                  "DESTROYED"}
BY DEF After

\* Where a transition of the chain leads, from which state it starts, and what it passes.
LEMMA MoveFacts ==
  ASSUME TypeOK, RolesAreApart, VersionsTell, ChainIsPlaced, NEW d \in Drivers, Transition(d),
         Succeeds(d)
  PROVE  /\ Moves(d)
         /\ pc'[d] = "failed" \/ (InChain(d) /\ Place(d))'
         /\ d \in Preparers => pc'[d] \in PrepareStages
         /\ d \in Executors => pc'[d] \in ExecuteStages \cup {"failed"}
         /\ pc'[d] \notin {"EXPORTING", "bind", "prepared", "RESET_VERIFIED"}
         /\ lifecycle_state' # "ACTIVE"
         /\ lifecycle_state' \notin Condemned => lifecycle_state \notin Condemned
         /\ lifecycle_state' \notin Early => \/ lifecycle_state \notin Early
                                             \/ pc[d] = "EXPORTING" /\ d \in Preparers
         /\ lifecycle_state' \in Emptied => \/ lifecycle_state \in Emptied
                                            \/ /\ pc[d] = "RESET_VERIFIED" /\ d \in Executors
                                               /\ verdict[d]
<1> DEFINE s == pc[d]
<1>1. /\ s \in DOMAIN After
      /\ lifecycle_state' = s /\ lifecycle_version' = lifecycle_version + 1
      /\ known' = [known EXCEPT ![d] = lifecycle_version + 1]
      /\ pc' = [pc EXCEPT ![d] = After[s]]
      /\ known[d] = lifecycle_version /\ Admitted(d, s)
      /\ challenge' = challenge /\ confirms' = confirms
  BY DEF Transition, Succeeds, consent
<1>2. pc'[d] = After[s] /\ \A c \in Drivers \ {d} : pc'[c] = pc[c]
  BY <1>1 DEF TypeOK
<1>3. s = "FREEZING" \/ InChain(d)
  BY <1>1, AfterDomain DEF InChain, PrepareStages, ExecuteStages
<1>4. /\ d \in Preparers => s \in PreparerStages
      /\ d \in Executors => s \in ExecutorStages
  BY DEF RolesAreApart
<1>5. CASE s = "FREEZING"
  <2>1. lifecycle_state = "ACTIVE" /\ After[s] = "fence" /\ d \notin Executors
    BY <1>1, <1>4, <1>5, AfterFacts
    DEF VersionsTell, Drivers, ExecutorStages, ExecuteStages
  <2>2. QED
    BY <1>1, <1>2, <1>3, <1>5, <2>1
    DEF Moves, InChain, Place, PrepareStages, ExecuteStages, Condemned, Early, Emptied
<1>6. CASE s # "FREEZING"
  <2>1. Place(d)
    BY <1>3, <1>6 DEF ChainIsPlaced
  <2>2. pc'[d] = "failed" \/ (InChain(d) /\ Place(d))'
    BY <1>1, <1>2, <1>6, AfterFacts DEF InChain, Place, PrepareStages, ExecuteStages
  <2>3. /\ d \in Preparers => pc'[d] \in PrepareStages
        /\ d \in Executors => pc'[d] \in ExecuteStages \cup {"failed"}
        /\ pc'[d] \notin {"EXPORTING", "bind", "prepared", "RESET_VERIFIED"}
    BY <1>1, <1>2, <1>4, <1>6, AfterFacts
    DEF PreparerStages, ExecutorStages, PrepareStages, ExecuteStages
  <2>4. /\ lifecycle_state' # "ACTIVE"
        /\ lifecycle_state' \notin Condemned => lifecycle_state \notin Condemned
        /\ lifecycle_state' \notin Early => lifecycle_state \notin Early \/ s = "EXPORTING"
        /\ lifecycle_state' \in Emptied => lifecycle_state \in Emptied \/ s = "RESET_VERIFIED"
    BY <1>1, <2>1, AfterDomain DEF Place, Condemned, Early, Emptied
  <2>5. /\ s = "EXPORTING" => d \in Preparers
        /\ s = "RESET_VERIFIED" => d \in Executors /\ verdict[d]
    BY <1>1, <1>4
    DEF Admitted, Drivers, PreparerStages, ExecutorStages, PrepareStages, ExecuteStages
  <2>6. QED
    BY <1>1, <1>2, <1>3, <2>2, <2>3, <2>4, <2>5 DEF Moves
<1>7. QED
  BY <1>5, <1>6

LEMMA TransitionKinds ==
  ASSUME TypeOK, RolesAreApart, VersionsTell, ChainIsPlaced, NEW d \in Drivers, Transition(d)
  PROVE  Moves(d) \/ Advances(d)
<1>1. CASE Succeeds(d)
  BY <1>1, MoveFacts
<1>2. CASE ~Succeeds(d)
  <2>1. /\ pc[d] \in DOMAIN After
        /\ UNCHANGED <<lifecycle_state, lifecycle_version, known, challenge, confirms>>
        /\ pc' = [pc EXCEPT ![d] = IF pc[d] = "FREEZING" THEN "refused" ELSE "failed"]
    BY <1>2 DEF Transition, row, consent
  <2>2. d \in Executors => pc[d] # "FREEZING"
    BY DEF RolesAreApart, ExecutorStages, ExecuteStages
  <2>3. QED
    BY <2>1, <2>2, AfterDomain DEF Advances, TypeOK, PreparerStages, ExecutorStages
<1>3. QED
  BY <1>1, <1>2

LEMMA PrepareKinds ==
  ASSUME TypeOK, ChainIsPlaced, NEW p \in Preparers, FenceJobs(p) \/ Archive(p) \/ PlanReset(p)
  PROVE  Advances(p)
<1> USE RequestsAssumption DEF row, consent, request, Goto, TypeOK, Advances, InChain,
    PreparerStages, PrepareStages, ExecuteStages, Drivers, ChainIsPlaced, Place
<1>1. CASE FenceJobs(p)
  BY <1>1 DEF FenceJobs
<1>2. CASE Archive(p)
  BY <1>2 DEF Archive
<1>3. CASE PlanReset(p)
  BY <1>3 DEF PlanReset
<1>4. QED
  BY <1>1, <1>2, <1>3

LEMMA ExecuteKinds ==
  ASSUME TypeOK, ChainIsPlaced, NEW e \in Executors, ExecuteStep(e)
  PROVE  (\E p \in Preparers : Consume(e, p)) \/ Confirm(e) \/ Advances(e) \/ Quiet
<1> USE RequestsAssumption DEF row, consent, planning, request, Goto, TypeOK, Drivers
<1>1. e \in DOMAIN pc /\ e \notin Preparers
  OBVIOUS
<1>2. \A d : InChain(d) /\ d \in Drivers => Place(d)
  BY DEF ChainIsPlaced
<1>3. CASE Authorize(e) \/ AuthorizeDestroy(e)
  BY <1>1, <1>2, <1>3
  DEF Authorize, AuthorizeDestroy, Advances, InChain, ExecutorStages, ExecuteStages, Place
<1>4. CASE BeginPurge(e)
  BY <1>1, <1>2, <1>4
  DEF BeginPurge, Advances, InChain, ExecutorStages, ExecuteStages, Place
<1>5. CASE \E f \in Sources \cup Derived : PurgeObject(e, f)
  BY <1>5 DEF PurgeObject, Quiet
<1>6. CASE PurgeRelation(e)
  <2>1. UNCHANGED pc \/ Goto(e, "failed")
    BY <1>6 DEF PurgeRelation
  <2>2. UNCHANGED <<lifecycle_state, lifecycle_version, known, challenge, confirms>>
    BY <1>6 DEF PurgeRelation
  <2>3. pc[e] = "purge"
    BY <1>6 DEF PurgeRelation
  <2>4. QED
    BY <1>1, <2>1, <2>2, <2>3 DEF Quiet, Advances, ExecutorStages
<1>7. CASE PurgeEnds(e)
  BY <1>1, <1>2, <1>7
  DEF PurgeEnds, Advances, InChain, ExecutorStages, ExecuteStages, Place
<1>8. CASE Attest(e)
  BY <1>1, <1>2, <1>8
  DEF Attest, Advances, InChain, ExecutorStages, ExecuteStages, Place
<1>9. CASE PlanDestroy(e) \/ ListFiles(e)
  BY <1>1, <1>2, <1>9
  DEF PlanDestroy, ListFiles, Advances, InChain, ExecutorStages, ExecuteStages, Place
<1>10. CASE RemoveDirectories(e) \/ WriteReceipt(e)
  BY <1>1, <1>2, <1>10
  DEF RemoveDirectories, WriteReceipt, Advances, InChain, ExecutorStages, ExecuteStages, Place
<1>11. QED
  BY <1>3, <1>4, <1>5, <1>6, <1>7, <1>8, <1>9, <1>10 DEF ExecuteStep

LEMMA OthersKinds ==
  ASSUME TypeOK, RolesAreApart, Others
  PROVE  Quiet \/ \E d \in Drivers : Crash(d) /\ Advances(d)
<1> USE DEF row, consent, request, Quiet
<1>1. CASE \E s \in Sources : UploadAdmitted(s) \/ UploadStep(s)
  BY <1>1 DEF UploadAdmitted, UploadStep, UploadMoves, UploadCommits, UploadRejected
<1>2. CASE ClaimJob \/ ChooseWork \/ \E f \in Derived : PutDerived(f)
  BY <1>2 DEF ClaimJob, ChooseWork, PutDerived
<1>3. CASE RecordPage \/ AppendState \/ EndExecution \/ RetryJob \/ PlatformChanges
  BY <1>3 DEF RecordPage, AppendState, EndExecution, RetryJob, PlatformChanges
<1>4. CASE \E d \in Drivers : Lapse(d)
  BY <1>4 DEF Lapse
<1>5. ASSUME NEW d \in Drivers, Crash(d)
      PROVE  Advances(d)
  BY <1>5
  DEF Crash, Ended, Goto, TypeOK, Advances, Drivers, PreparerStages, ExecutorStages
<1>6. QED
  BY <1>1, <1>2, <1>3, <1>4, <1>5 DEF Others

--------------------------------------------------------------------------------
(* One request at a time *)

ChainInv ==
  /\ RolesAreApart
  /\ VersionsTell
  /\ ChainIsPlaced
  /\ OneLeader
  /\ ConsentIsPrepared
  /\ ConsentIsOnce

\* Where an execute is, the prepare whose challenge it has consumed has returned.
LEMMA ExecutorFacts ==
  ASSUME TypeOK, ChainInv, NEW e \in Executors, pc[e] # "new"
  PROVE  /\ confirms[e] \in Preparers
         /\ pc[confirms[e]] = "prepared" /\ challenge[confirms[e]] = "consumed"
         /\ \A p \in Preparers : Led(p) => p = confirms[e]
         /\ \A f \in Executors : pc[f] # "new" => f = e
<1>1. ASSUME NEW f \in Executors, pc[f] # "new"
      PROVE  /\ confirms[f] \in Preparers
             /\ challenge[confirms[f]] = "consumed" /\ pc[confirms[f]] = "prepared"
             /\ \A p \in Preparers : Led(p) => p = confirms[f]
  <2>1. confirms[f] \in Preparers /\ challenge[confirms[f]] = "consumed"
    BY <1>1 DEF ChainInv, ConsentIsOnce, TypeOK
  <2>2. pc[confirms[f]] = "prepared"
    BY <2>1 DEF ChainInv, ConsentIsPrepared
  <2>3. Led(confirms[f])
    BY <2>2 DEF Led
  <2>4. QED
    BY <2>1, <2>2, <2>3 DEF ChainInv, OneLeader
<1>2. ASSUME NEW f \in Executors, pc[f] # "new"
      PROVE  f = e
  <2>1. Led(confirms[f]) /\ confirms[f] \in Preparers
    BY <1>1, <1>2 DEF Led
  <2>2. confirms[f] = confirms[e]
    BY <1>1, <2>1
  <2>3. QED
    BY <1>1, <2>2, RequestsAssumption DEF ChainInv, ConsentIsOnce
<1>3. QED
  BY <1>1, <1>2

\* No two requests are in the chain.
LEMMA Alone ==
  ASSUME TypeOK, ChainInv, NEW c \in Drivers, NEW d \in Drivers, InChain(c), InChain(d)
  PROVE  c = d
<1>1. \A p \in Preparers : InChain(p) => Led(p) /\ pc[p] # "prepared"
  BY DEF ChainInv, RolesAreApart, InChain, Led, PreparerStages, PrepareStages, ExecuteStages
<1>2. \A e \in Executors : InChain(e) => pc[e] # "new"
  BY DEF InChain, PrepareStages, ExecuteStages
<1>3. CASE c \in Preparers /\ d \in Preparers
  BY <1>1, <1>3 DEF ChainInv, OneLeader
<1>4. CASE c \in Executors \/ d \in Executors
  BY <1>1, <1>2, <1>4, ExecutorFacts DEF Drivers
<1>5. QED
  BY <1>3, <1>4 DEF Drivers

LEMMA PlaceFacts ==
  ASSUME NEW d, Place(d)
  PROVE  lifecycle_state # "ACTIVE"
BY DEF Place

LEMMA MovesChain ==
  ASSUME TypeOK, ChainInv, NEW d \in Drivers, Transition(d), Moves(d)
  PROVE  ChainInv'
<1>1. /\ pc'[d] = "failed" \/ (InChain(d) /\ Place(d))'
      /\ d \in Preparers => pc'[d] \in PrepareStages
      /\ d \in Executors => pc'[d] \in ExecuteStages \cup {"failed"}
      /\ lifecycle_state' # "ACTIVE"
  BY MoveFacts DEF ChainInv, Moves
<1>2. /\ pc[d] = "FREEZING" \/ InChain(d)
      /\ lifecycle_version = known[d] /\ lifecycle_version' = lifecycle_version + 1
      /\ known'[d] = lifecycle_version'
      /\ \A c \in Drivers \ {d} : pc'[c] = pc[c] /\ known'[c] = known[c]
      /\ challenge' = challenge /\ confirms' = confirms
  BY DEF Moves, Succeeds, TypeOK
<1>3. pc[d] \notin {"new", "prepared"}
  BY <1>2 DEF InChain, PrepareStages, ExecuteStages
<1>4. pc[d] = "FREEZING" => d \in Preparers /\ lifecycle_state = "ACTIVE"
  <2>1. pc[d] = "FREEZING" => d \in Preparers
    BY DEF ChainInv, RolesAreApart, ExecutorStages, ExecuteStages, Drivers
  <2>2. QED
    BY <1>2, <2>1 DEF ChainInv, VersionsTell
<1>5. \A c \in Drivers \ {d} : ~InChain(c)
  BY <1>2, <1>4, Alone, PlaceFacts DEF ChainInv, ChainIsPlaced
<1>6. \A p \in Preparers, q \in Preparers : Led(p)' /\ Led(q)' => q = p
  <2>1. \A p \in Preparers \ {d} : Led(p)' <=> Led(p)
    BY <1>2 DEF Led, Drivers
  <2>2. CASE pc[d] = "FREEZING"
    BY <1>4, <2>1, <2>2 DEF ChainInv, OneLeader
  <2>3. CASE InChain(d)
    <3>1. d \in Preparers => Led(d)
      BY <2>3
      DEF ChainInv, RolesAreApart, InChain, Led, PreparerStages, PrepareStages, ExecuteStages
    <3>2. QED
      BY <2>1, <3>1 DEF ChainInv, OneLeader
  <2>4. QED
    BY <1>2, <2>2, <2>3
<1>7. RolesAreApart'
  BY <1>1, <1>2 DEF ChainInv, RolesAreApart, PreparerStages, ExecutorStages, Drivers
<1>8. VersionsTell'
  <2>1. \A p \in Preparers : pc'[p] = "FREEZING" => known'[p] = 1
    BY <1>1, <1>2 DEF ChainInv, VersionsTell, Drivers, PrepareStages
  <2>2. lifecycle_version' >= 1 /\ lifecycle_version' # 1
    BY <1>2 DEF ChainInv, VersionsTell, TypeOK
  <2>3. QED
    BY <1>1, <2>1, <2>2 DEF VersionsTell
<1>9. ChainIsPlaced'
  <2>1. \A c \in Drivers \ {d} : ~InChain(c)'
    BY <1>2, <1>5 DEF InChain
  <2>2. InChain(d)' => Place(d)'
    BY <1>1 DEF InChain, PrepareStages, ExecuteStages
  <2>3. QED
    BY <1>2, <2>1, <2>2 DEF ChainIsPlaced
<1>10. OneLeader'
  BY <1>1, <1>6 DEF OneLeader
<1>11. ConsentIsPrepared'
  BY <1>2, <1>3 DEF ChainInv, ConsentIsPrepared, Drivers
<1>12. ConsentIsOnce'
  <2>1. \A e \in Executors : pc'[e] = "new" <=> pc[e] = "new"
    BY <1>1, <1>2, <1>3 DEF Drivers, ExecuteStages
  <2>2. QED
    BY <1>2, <2>1 DEF ChainInv, ConsentIsOnce
<1>13. QED
  BY <1>7, <1>8, <1>9, <1>10, <1>11, <1>12 DEF ChainInv

LEMMA AdvancesChain ==
  ASSUME TypeOK, ChainInv, NEW d \in Drivers, Advances(d)
  PROVE  ChainInv'
<1>1. /\ UNCHANGED <<lifecycle_state, lifecycle_version, known, challenge, confirms>>
      /\ pc[d] \notin {"new", "prepared"}
      /\ \A c \in Drivers \ {d} : pc'[c] = pc[c]
  BY DEF Advances
<1>2. RolesAreApart'
  BY <1>1 DEF Advances, ChainInv, RolesAreApart, Drivers
<1>3. VersionsTell'
  <2>1. \A p \in Preparers : pc'[p] = "FREEZING" => pc[p] = "FREEZING"
    BY <1>1 DEF Advances, Drivers, PreparerStages
  <2>2. QED
    BY <1>1, <2>1 DEF ChainInv, VersionsTell
<1>4. /\ InChain(d)' => InChain(d) /\ Place(d)'
      /\ \A c \in Drivers \ {d} : (InChain(c)' <=> InChain(c)) /\ (Place(c)' <=> Place(c))
  BY <1>1 DEF Advances, InChain, Place, PrepareStages, ExecuteStages
<1>5. ChainIsPlaced'
  BY <1>1, <1>4 DEF ChainInv, ChainIsPlaced
<1>6. \A p \in Preparers : Led(p)' => Led(p)
  <2>1. d \in Preparers /\ pc'[d] \in PrepareStages \cup {"prepared"} => pc[d] \in PrepareStages
    BY <1>4
    DEF Advances, ChainInv, RolesAreApart, InChain, PreparerStages, PrepareStages, ExecuteStages
  <2>2. QED
    BY <1>1, <2>1 DEF Led, Drivers
<1>7. OneLeader'
  BY <1>1, <1>6 DEF ChainInv, OneLeader
<1>8. ConsentIsPrepared'
  BY <1>1 DEF ChainInv, ConsentIsPrepared, Drivers
<1>9. ConsentIsOnce'
  <2>1. \A e \in Executors : pc'[e] = "new" <=> pc[e] = "new"
    BY <1>1 DEF Advances, Drivers
  <2>2. QED
    BY <1>1, <2>1 DEF ChainInv, ConsentIsOnce
<1>10. QED
  BY <1>2, <1>3, <1>5, <1>7, <1>8, <1>9 DEF ChainInv

LEMMA PrepareChain ==
  ASSUME TypeOK, ChainInv, NEW p \in Preparers,
         ReadActive(p) \/ IssueChallenge(p) \/ BindPlan(p)
  PROVE  ChainInv'
<1> USE DEF row, consent, request, Goto, Drivers
<1>1. p \notin Executors
  BY RequestsAssumption
<1>2. CASE ReadActive(p)
  <2>1. /\ pc[p] = "new" /\ pc'[p] \in {"FREEZING", "refused"}
        /\ pc'[p] = "FREEZING" => lifecycle_state = "ACTIVE"
        /\ known'[p] = lifecycle_version
        /\ \A c \in Drivers \ {p} : pc'[c] = pc[c] /\ known'[c] = known[c]
        /\ UNCHANGED <<lifecycle_state, lifecycle_version, challenge, confirms>>
    BY <1>2 DEF ReadActive, TypeOK
  <2>2. RolesAreApart'
    BY <1>1, <2>1 DEF ChainInv, RolesAreApart, PreparerStages
  <2>3. VersionsTell'
    BY <2>1 DEF ChainInv, VersionsTell
  <2>4. ChainIsPlaced'
    <3>1. ~InChain(p)'
      BY <2>1 DEF InChain, PrepareStages, ExecuteStages
    <3>2. \A c \in Drivers \ {p} : (InChain(c)' <=> InChain(c)) /\ (Place(c)' <=> Place(c))
      BY <2>1 DEF InChain, Place
    <3>3. QED
      BY <2>1, <3>1, <3>2 DEF ChainInv, ChainIsPlaced
  <2>5. OneLeader'
    <3>1. \A q \in Preparers : Led(q)' => Led(q)
      BY <2>1 DEF Led, PrepareStages
    <3>2. QED
      BY <2>1, <3>1 DEF ChainInv, OneLeader
  <2>6. ConsentIsPrepared' /\ ConsentIsOnce'
    BY <1>1, <2>1 DEF ChainInv, ConsentIsPrepared, ConsentIsOnce
  <2>7. QED
    BY <2>2, <2>3, <2>4, <2>5, <2>6 DEF ChainInv
<1>3. CASE IssueChallenge(p) \/ BindPlan(p)
  <2>1. /\ \/ pc[p] = "challenge" /\ pc'[p] = "RESET_PLANNING" /\ challenge'[p] = "issued"
           \/ pc[p] = "bind" /\ pc'[p] = "prepared" /\ challenge'[p] = "bound"
        /\ \A c \in Drivers \ {p} : pc'[c] = pc[c]
        /\ \A q \in Preparers \ {p} : challenge'[q] = challenge[q]
        /\ UNCHANGED <<lifecycle_state, lifecycle_version, known, confirms>>
    BY <1>3 DEF IssueChallenge, BindPlan, TypeOK
  <2>2. InChain(p) /\ Led(p) /\ challenge[p] \notin {"bound", "consumed"}
    BY <2>1 DEF InChain, Led, PrepareStages, ChainInv, ConsentIsPrepared
  <2>3. known[p] = lifecycle_version /\ Place(p)
    BY <2>2 DEF ChainInv, ChainIsPlaced
  <2>4. RolesAreApart'
    BY <1>1, <2>1 DEF ChainInv, RolesAreApart, PreparerStages, PrepareStages
  <2>5. VersionsTell'
    BY <2>1 DEF ChainInv, VersionsTell
  <2>6. ChainIsPlaced'
    <3>1. InChain(p)' => Place(p)'
      BY <2>1, <2>3 DEF InChain, Place, PrepareStages, ExecuteStages
    <3>2. \A c \in Drivers \ {p} : (InChain(c)' <=> InChain(c)) /\ (Place(c)' <=> Place(c))
      BY <2>1 DEF InChain, Place
    <3>3. QED
      BY <2>1, <2>3, <3>1, <3>2 DEF ChainInv, ChainIsPlaced
  <2>7. OneLeader'
    <3>1. \A q \in Preparers : Led(q)' => Led(q)
      BY <2>1, <2>2 DEF Led
    <3>2. QED
      BY <2>1, <3>1 DEF ChainInv, OneLeader
  <2>8. ConsentIsPrepared'
    BY <2>1 DEF ChainInv, ConsentIsPrepared
  <2>9. ConsentIsOnce'
    <3>1. \A e \in Executors : confirms[e] # None => confirms[e] \in Preparers \ {p}
      BY <2>2 DEF ChainInv, ConsentIsOnce, TypeOK
    <3>2. QED
      BY <1>1, <2>1, <3>1 DEF ChainInv, ConsentIsOnce
  <2>10. QED
    BY <2>4, <2>5, <2>6, <2>7, <2>8, <2>9 DEF ChainInv
<1>4. QED
  BY <1>2, <1>3

LEMMA ExecuteChain ==
  ASSUME TypeOK, ChainInv, NEW e \in Executors,
         Confirm(e) \/ \E p \in Preparers : Consume(e, p)
  PROVE  ChainInv'
<1> USE DEF row, consent, request, Goto, Drivers
<1>1. e \notin Preparers
  BY RequestsAssumption
<1>2. CASE Confirm(e)
  <2>1. /\ pc[e] = "confirm"
        /\ pc'[e] = "failed" \/ (pc'[e] = "authorize" /\ lifecycle_state = "RESET_PLANNING")
        /\ known'[e] = lifecycle_version
        /\ \A c \in Drivers \ {e} : pc'[c] = pc[c] /\ known'[c] = known[c]
        /\ UNCHANGED <<lifecycle_state, lifecycle_version, challenge, confirms>>
    BY <1>2 DEF Confirm, TypeOK
  <2>2. RolesAreApart' /\ VersionsTell'
    BY <1>1, <2>1 DEF ChainInv, RolesAreApart, VersionsTell, ExecutorStages, ExecuteStages
  <2>3. ChainIsPlaced'
    <3>1. InChain(e)' => Place(e)'
      BY <2>1 DEF InChain, Place, PrepareStages, ExecuteStages
    <3>2. \A c \in Drivers \ {e} : (InChain(c)' <=> InChain(c)) /\ (Place(c)' <=> Place(c))
      BY <2>1 DEF InChain, Place
    <3>3. QED
      BY <2>1, <3>1, <3>2 DEF ChainInv, ChainIsPlaced
  <2>4. OneLeader' /\ ConsentIsPrepared'
    BY <1>1, <2>1 DEF ChainInv, OneLeader, ConsentIsPrepared, Led
  <2>5. ConsentIsOnce'
    BY <2>1 DEF ChainInv, ConsentIsOnce
  <2>6. QED
    BY <2>2, <2>3, <2>4, <2>5 DEF ChainInv
<1>3. ASSUME NEW p \in Preparers, Consume(e, p)
      PROVE  ChainInv'
  <2>1. /\ pc[e] = "new" /\ pc'[e] = "confirm" /\ confirms'[e] = p
        /\ challenge[p] = "bound" /\ challenge'[p] = "consumed"
        /\ \A c \in Drivers \ {e} : pc'[c] = pc[c]
        /\ \A q \in Preparers \ {p} : challenge'[q] = challenge[q]
        /\ \A f \in Executors \ {e} : confirms'[f] = confirms[f]
        /\ UNCHANGED <<lifecycle_state, lifecycle_version, known>>
    BY <1>3 DEF Consume, TypeOK
  <2>2. RolesAreApart' /\ VersionsTell'
    BY <1>1, <2>1 DEF ChainInv, RolesAreApart, VersionsTell, ExecutorStages
  <2>3. ChainIsPlaced'
    <3>1. ~InChain(e)'
      BY <2>1 DEF InChain, PrepareStages, ExecuteStages
    <3>2. \A c \in Drivers \ {e} : (InChain(c)' <=> InChain(c)) /\ (Place(c)' <=> Place(c))
      BY <2>1 DEF InChain, Place
    <3>3. QED
      BY <2>1, <3>1, <3>2 DEF ChainInv, ChainIsPlaced
  <2>4. OneLeader'
    <3>1. \A q \in Preparers : Led(q)' <=> Led(q)
      BY <1>1, <2>1 DEF Led
    <3>2. QED
      BY <2>1, <3>1 DEF ChainInv, OneLeader
  <2>5. ConsentIsPrepared'
    BY <1>1, <2>1 DEF ChainInv, ConsentIsPrepared
  <2>6. ConsentIsOnce'
    <3>1. \A f \in Executors : confirms[f] # None => confirms[f] \in Preparers \ {p}
      BY <2>1 DEF ChainInv, ConsentIsOnce, TypeOK
    <3>2. p # None
      BY RequestsAssumption
    <3>3. QED
      BY <2>1, <3>1, <3>2 DEF ChainInv, ConsentIsOnce
  <2>7. QED
    BY <2>2, <2>3, <2>4, <2>5, <2>6 DEF ChainInv
<1>4. QED
  BY <1>2, <1>3

LEMMA QuietChain == ChainInv /\ Quiet => ChainInv'
BY DEF Quiet, ChainInv, RolesAreApart, VersionsTell, ChainIsPlaced, OneLeader,
    ConsentIsPrepared, ConsentIsOnce, InChain, Place, Led

--------------------------------------------------------------------------------
(* Types *)

Typed == TypeOK /\ PlansAreTyped

LEMMA StagesFacts ==
  /\ PreparerStages \cup ExecutorStages \subseteq Stages
  /\ \A s \in DOMAIN After : s \in Stages /\ After[s] \in Stages
<1>1. \A s \in DOMAIN After : After[s] \in Stages
  BY AfterFacts, AfterDomain DEF Stages, Ended
<1>2. QED
  BY <1>1, AfterDomain
  DEF Stages, Ended, PreparerStages, ExecutorStages, PrepareStages, ExecuteStages

LEMMA InventoryType ==
  ASSUME TypeOK
  PROVE  Inventory \in [tables : [Relations -> Nat], files : SUBSET (Sources \cup Derived)]
BY DEF TypeOK, Inventory, One

LEMMA NewPlanType ==
  ASSUME TypeOK, NEW d \in Drivers
  PROVE  NewPlan(d) \in Plans /\ NewPlan(d).inventory.files = files
<1>1. known[d] \in Nat
  BY DEF TypeOK
<1>2. QED
  BY <1>1, InventoryType DEF NewPlan, Plans, Inventory

LEMMA InitTyped == Init => Typed
<1> SUFFICES ASSUME Init
             PROVE  Typed
  OBVIOUS
<1>1. TypeOK
  BY AfterDomain DEF Init, TypeOK, One, Relations, Stages, Ended
<1>2. NoPlan \in Plans
  BY <1>1, InventoryType DEF NoPlan, Plans
<1>3. QED
  BY <1>1, <1>2 DEF Init, Typed, PlansAreTyped

LEMMA TransitionTyped ==
  ASSUME Typed, NEW d \in Drivers, Transition(d)
  PROVE  Typed'
<1> USE DEF Typed, row, intake, jobs, consent, planning, outside
<1>1. pc[d] \in DOMAIN After
  BY DEF Transition
<1>2. After[pc[d]] \in Stages /\ "refused" \in Stages /\ "failed" \in Stages
  BY <1>1, StagesFacts DEF Stages, Ended
<1>3. PlansAreTyped'
  BY DEF Transition, PlansAreTyped
<1>4. CASE Succeeds(d)
  BY <1>1, <1>2, <1>3, <1>4 DEF Transition, TypeOK
<1>5. CASE ~Succeeds(d)
  BY <1>1, <1>2, <1>3, <1>5 DEF Transition, TypeOK
<1>6. QED
  BY <1>4, <1>5

LEMMA PrepareTyped ==
  ASSUME Typed, NEW p \in Preparers, PrepareStep(p)
  PROVE  Typed'
<1> USE BoundsAssumption DEF Typed, TypeOK, row, intake, jobs, consent, planning, request, outside,
    Goto
<1>1. {"FREEZING", "refused", "FROZEN", "EXPORTING", "RESET_PLANNING", "bind", "prepared",
       "failed"} \subseteq Stages
  BY AfterDomain DEF Stages, Ended
<1>2. p \in Drivers /\ (PlansAreTyped => plan \in [Drivers -> Plans])
  BY DEF Drivers, PlansAreTyped
<1>3. CASE ReadActive(p)
  BY <1>1, <1>2, <1>3 DEF ReadActive, PlansAreTyped
<1>4. CASE FenceJobs(p)
  BY <1>1, <1>2, <1>4 DEF FenceJobs, PlansAreTyped
<1>5. CASE Archive(p)
  BY <1>1, <1>2, <1>5 DEF Archive, PlansAreTyped
<1>6. CASE IssueChallenge(p)
  BY <1>1, <1>2, <1>6 DEF IssueChallenge, PlansAreTyped
<1>7. CASE PlanReset(p)
  <2>1. NewPlan(p) \in Plans
    BY <1>2, NewPlanType
  <2>2. PlansAreTyped'
    BY <1>2, <1>7, <2>1 DEF PlanReset, PlansAreTyped
  <2>3. QED
    BY <1>1, <1>2, <1>7, <2>2 DEF PlanReset
<1>8. CASE BindPlan(p)
  BY <1>1, <1>2, <1>8 DEF BindPlan, PlansAreTyped
<1>9. QED
  BY <1>3, <1>4, <1>5, <1>6, <1>7, <1>8 DEF PrepareStep

LEMMA ExecuteTyped ==
  ASSUME Typed, NEW e \in Executors, ExecuteStep(e)
  PROVE  Typed'
<1> USE DEF Typed, TypeOK, row, intake, jobs, consent, planning, request, outside, Goto
<1>1. {"confirm", "authorize", "failed", "RESET_AUTHORIZED", "purge", "rescan", "VERIFYING_RESET",
       "DESTROYED", "QUARANTINED", "RESET_VERIFIED", "reauthorize", "DESTROYING", "sweep",
       "receipt", "done"} \subseteq Stages
  BY AfterDomain DEF Stages, Ended
<1>2. e \in Drivers /\ (PlansAreTyped => plan \in [Drivers -> Plans])
  BY DEF Drivers, PlansAreTyped
<1>3. ASSUME NEW p \in Preparers, Consume(e, p)
      PROVE  Typed'
  BY <1>1, <1>2, <1>3 DEF Consume, PlansAreTyped
<1>4. CASE Confirm(e)
  BY <1>1, <1>2, <1>4 DEF Confirm, PlansAreTyped
<1>5. CASE Authorize(e) \/ AuthorizeDestroy(e)
  BY <1>1, <1>2, <1>5 DEF Authorize, AuthorizeDestroy, PlansAreTyped
<1>6. CASE BeginPurge(e)
  BY <1>1, <1>2, <1>6 DEF BeginPurge, PlansAreTyped
<1>7. ASSUME NEW f \in Sources \cup Derived, PurgeObject(e, f)
      PROVE  Typed'
  BY <1>1, <1>2, <1>7 DEF PurgeObject, PlansAreTyped
<1>8. CASE PurgeRelation(e)
  <2>1. pc' = pc \/ pc' = [pc EXCEPT ![e] = "failed"]
    BY <1>8 DEF PurgeRelation
  <2>2. /\ rows' = rows \/ \E t : rows' = [rows EXCEPT ![t] = 0]
        /\ open' \in {0, open} /\ held' \in BOOLEAN
    BY <1>8 DEF PurgeRelation
  <2>3. rows' \in [Relations -> Nat]
    BY <2>2
  <2>4. pc' \in [Drivers -> Stages] /\ open' \in Nat
    BY <1>1, <1>2, <2>1, <2>2
  <2>5. UNCHANGED <<row, files, archived, intake, worker, consent, plan, before, verdict, known,
                    receipts, outside>>
    BY <1>8 DEF PurgeRelation
  <2>6. QED
    BY <2>2, <2>3, <2>4, <2>5 DEF PlansAreTyped
<1>9. CASE PurgeEnds(e)
  BY <1>1, <1>2, <1>9 DEF PurgeEnds, PlansAreTyped
<1>10. CASE Attest(e)
  <2>1. verdict' \in [Executors -> BOOLEAN]
    BY <1>10 DEF Attest
  <2>2. pc' \in [Drivers -> Stages]
    BY <1>1, <1>2, <1>10 DEF Attest
  <2>3. QED
    BY <1>10, <2>1, <2>2 DEF Attest, PlansAreTyped
<1>11. CASE PlanDestroy(e)
  <2>1. NewPlan(e) \in Plans
    BY <1>2, NewPlanType
  <2>2. PlansAreTyped'
    BY <1>2, <1>11, <2>1 DEF PlanDestroy, PlansAreTyped
  <2>3. QED
    BY <1>1, <1>2, <1>11, <2>2 DEF PlanDestroy
<1>12. CASE ListFiles(e) \/ RemoveDirectories(e) \/ WriteReceipt(e)
  BY <1>1, <1>2, <1>12 DEF ListFiles, RemoveDirectories, WriteReceipt, PlansAreTyped
<1>13. QED
  BY <1>3, <1>4, <1>5, <1>6, <1>7, <1>8, <1>9, <1>10, <1>11, <1>12 DEF ExecuteStep

LEMMA OthersTyped ==
  ASSUME Typed, JobsAreRows, Others
  PROVE  Typed'
<1> USE BoundsAssumption DEF Typed, TypeOK, row, intake, jobs, consent, planning, request, outside,
    Relations, Interferes
<1>1. CASE \E s \in Sources : UploadAdmitted(s)
  BY <1>1 DEF UploadAdmitted, PlansAreTyped
<1>2. CASE \E s \in Sources : UploadMoves(s) \/ UploadRejected(s)
  BY <1>2 DEF UploadMoves, UploadRejected, PlansAreTyped
<1>3. CASE \E s \in Sources : UploadCommits(s)
  BY <1>3 DEF UploadCommits, One, PlansAreTyped
<1>4. CASE ClaimJob \/ ChooseWork
  BY <1>4 DEF ClaimJob, ChooseWork, PlansAreTyped
<1>5. CASE \E f \in Derived : PutDerived(f)
  BY <1>5 DEF PutDerived, PlansAreTyped
<1>6. CASE RecordPage
  <2>1. /\ rows' \in {rows, [rows EXCEPT !["pages"] = 1, !["controls"] = MaxRows]}
        /\ worker' \in {"claimed", "ending"}
        /\ disturbed' \in BOOLEAN
    BY <1>6 DEF RecordPage
  <2>2. rows' \in [Relations -> Nat]
    BY <2>1
  <2>3. UNCHANGED <<row, files, archived, intake, held, open, consent, planning, request,
                    receipts, platform, faults>>
    BY <1>6 DEF RecordPage
  <2>4. QED
    BY <2>1, <2>2, <2>3 DEF PlansAreTyped
<1>7. CASE AppendState
  BY <1>7 DEF AppendState, PlansAreTyped
<1>8. CASE EndExecution
  <2>1. /\ \/ rows' = [rows EXCEPT !["controls"] = MaxRows]
           \/ rows' = [rows EXCEPT !["controls"] = @]
        /\ worker' = "idle" /\ held' = FALSE
        /\ disturbed' \in BOOLEAN
        /\ open' = open \/ (held /\ open' = open - 1)
    BY <1>8 DEF EndExecution
  <2>2. rows' \in [Relations -> Nat] /\ open' \in Nat
    BY <2>1 DEF JobsAreRows
  <2>3. UNCHANGED <<row, files, archived, intake, consent, planning, request, receipts,
                    platform, faults>>
    BY <1>8 DEF EndExecution
  <2>4. QED
    BY <2>1, <2>2, <2>3 DEF PlansAreTyped
<1>9. CASE RetryJob
  BY <1>9 DEF RetryJob, PlansAreTyped
<1>10. CASE PlatformChanges
  BY <1>10 DEF PlatformChanges, PlansAreTyped
<1>11. CASE \E d \in Drivers : Lapse(d)
  BY <1>11 DEF Lapse, PlansAreTyped
<1>12. CASE \E d \in Drivers : Crash(d)
  <2>1. "failed" \in Stages
    BY DEF Stages, Ended
  <2>2. QED
    BY <1>12, <2>1 DEF Crash, Goto, PlansAreTyped
<1>13. QED
  BY <1>1, <1>2, <1>3, <1>4, <1>5, <1>6, <1>7, <1>8, <1>9, <1>10, <1>11, <1>12
  DEF Others, UploadStep

--------------------------------------------------------------------------------
(* Rows, files and the archive *)

DataInv ==
  /\ JobsAreRows
  /\ UploadsArePlaced
  /\ KeptUntilPurge
  /\ ArchiveIsWhole
  /\ PlansCover
  /\ EmptyStays

RowsAreGone == \A t \in Relations \ {"outbox"} : rows[t] = 0

\* Nobody is anywhere in a reset while the workspace is open.
LEMMA OpenFacts ==
  ASSUME TypeOK, ChainInv, lifecycle_state = "ACTIVE"
  PROVE  /\ \A p \in Preparers : pc[p] \notin {"EXPORTING", "bind", "prepared"}
         /\ \A e \in Executors : pc[e] # "RESET_VERIFIED"
<1>1. \A d \in Drivers : ~InChain(d)
  BY PlaceFacts DEF ChainInv, ChainIsPlaced
<1>2. \A p \in Preparers : ~Led(p)
  BY DEF ChainInv, OneLeader
<1>3. QED
  BY <1>1, <1>2 DEF InChain, Led, PrepareStages, ExecuteStages, Drivers

\* A request that changes nothing but its own stage.
Passes(d) ==
  /\ UNCHANGED <<lifecycle_state, rows, files, registered, archived, upload, held, open>>
  /\ \A p \in Preparers : plan'[p] = plan[p]
  /\ \A c \in Drivers \ {d} : pc'[c] = pc[c]
  /\ pc'[d] \notin {"EXPORTING", "bind", "RESET_VERIFIED"}
  /\ pc'[d] = "prepared" => pc[d] = "bind"
  /\ verdict' = verdict

LEMMA PassesData ==
  ASSUME DataInv, NEW d \in Drivers, Passes(d)
  PROVE  DataInv'
<1> USE DEF DataInv, Passes, Drivers
<1>1. JobsAreRows' /\ UploadsArePlaced' /\ KeptUntilPurge'
  BY DEF JobsAreRows, UploadsArePlaced, KeptUntilPurge
<1>2. ArchiveIsWhole'
  BY DEF ArchiveIsWhole
<1>3. PlansCover'
  BY DEF PlansCover
<1>4. EmptyStays'
  BY DEF EmptyStays, Empty
<1>5. QED
  BY <1>1, <1>2, <1>3, <1>4

\* A step that leaves the lifecycle and the requests alone: it must not take a registered
\* document before the purge or bring one back, nor add rows where there are none.
LEMMA OutsideData ==
  ASSUME DataInv,
         UNCHANGED <<lifecycle_state, pc, plan, verdict, archived, registered>>,
         JobsAreRows', UploadsArePlaced',
         files' \cap registered \subseteq files,
         lifecycle_state \notin Condemned => files \cap registered \subseteq files',
         RowsAreGone => RowsAreGone'
  PROVE  DataInv'
<1> USE DEF DataInv
<1>1. KeptUntilPurge'
  BY DEF KeptUntilPurge
<1>2. ArchiveIsWhole'
  BY DEF ArchiveIsWhole
<1>3. PlansCover'
  BY DEF PlansCover
<1>4. EmptyStays'
  BY DEF EmptyStays, Empty, RowsAreGone
<1>5. QED
  BY <1>1, <1>2, <1>3, <1>4

LEMMA TransitionData ==
  ASSUME TypeOK, ChainInv, DataInv, NEW d \in Drivers, Transition(d)
  PROVE  DataInv'
<1> USE DEF DataInv, row, intake, jobs, planning
<1>1. /\ UNCHANGED <<files, registered, archived, upload, held, open, plan, verdict>>
      /\ \A t \in Relations \ {"outbox"} : rows'[t] = rows[t]
      /\ \A c \in Drivers \ {d} : pc'[c] = pc[c]
  BY DEF Transition, TypeOK
<1>2. CASE ~Succeeds(d)
  <2>1. /\ UNCHANGED <<lifecycle_state, rows>>
        /\ pc'[d] \in {"refused", "failed"}
    BY <1>2 DEF Transition, TypeOK
  <2>2. Passes(d)
    BY <1>1, <2>1 DEF Passes
  <2>3. QED
    BY <2>2, PassesData
<1>3. CASE Succeeds(d)
  <2>1. /\ pc'[d] \notin {"EXPORTING", "bind", "prepared", "RESET_VERIFIED"}
        /\ lifecycle_state' # "ACTIVE"
        /\ lifecycle_state' \notin Condemned => lifecycle_state \notin Condemned
        /\ lifecycle_state' \notin Early => \/ lifecycle_state \notin Early
                                            \/ pc[d] = "EXPORTING" /\ d \in Preparers
        /\ lifecycle_state' \in Emptied => \/ lifecycle_state \in Emptied
                                           \/ /\ pc[d] = "RESET_VERIFIED" /\ d \in Executors
                                              /\ verdict[d]
    BY <1>3, MoveFacts DEF ChainInv
  <2>2. JobsAreRows'
    BY <1>1 DEF JobsAreRows, Relations
  <2>3. UploadsArePlaced' /\ KeptUntilPurge'
    BY <1>1, <2>1 DEF UploadsArePlaced, KeptUntilPurge
  <2>4. ArchiveIsWhole'
    BY <1>1, <2>1 DEF ArchiveIsWhole, Drivers
  <2>5. PlansCover'
    BY <1>1, <2>1 DEF PlansCover, Drivers
  <2>6. EmptyStays'
    BY <1>1, <2>1 DEF EmptyStays, Empty, Drivers
  <2>7. QED
    BY <2>2, <2>3, <2>4, <2>5, <2>6
<1>4. QED
  BY <1>2, <1>3

LEMMA PrepareData ==
  ASSUME Typed, ChainInv, DataInv, NEW p \in Preparers, PrepareStep(p)
  PROVE  DataInv'
<1> USE DEF Typed, DataInv, row, intake, jobs, consent, planning, request, Goto, Drivers
<1>1. p \notin Executors
  BY RequestsAssumption
<1>2. CASE ReadActive(p) \/ BindPlan(p)
  <2>1. Passes(p)
    BY <1>2 DEF ReadActive, BindPlan, Passes, TypeOK
  <2>2. QED
    BY <2>1, PassesData
<1>3. CASE FenceJobs(p) \/ IssueChallenge(p)
  <2>1. /\ UNCHANGED <<lifecycle_state, files, registered, archived, upload, plan, verdict>>
        /\ pc[p] \in {"fence", "challenge"} /\ pc'[p] \in {"FROZEN", "RESET_PLANNING"}
        /\ \A c \in Drivers \ {p} : pc'[c] = pc[c]
    BY <1>3 DEF FenceJobs, IssueChallenge, TypeOK
  <2>2. JobsAreRows'
    <3>1. CASE FenceJobs(p)
      BY <3>1 DEF FenceJobs, JobsAreRows, TypeOK, Relations
    <3>2. CASE IssueChallenge(p)
      BY <3>2 DEF IssueChallenge, JobsAreRows, TypeOK, Relations
    <3>3. QED
      BY <1>3, <3>1, <3>2
  <2>3. UploadsArePlaced' /\ KeptUntilPurge' /\ ArchiveIsWhole' /\ PlansCover'
    BY <2>1 DEF UploadsArePlaced, KeptUntilPurge, ArchiveIsWhole, PlansCover
  <2>4. InChain(p) /\ Place(p)
    BY <2>1 DEF InChain, PrepareStages, ChainInv, ChainIsPlaced
  <2>5. lifecycle_state' \notin Emptied
    BY <2>1, <2>4 DEF Place, Emptied
  <2>6. \A e \in Executors : pc'[e] # "RESET_VERIFIED"
    BY <1>1, <2>1, <2>4, Alone DEF InChain, ExecuteStages
  <2>7. EmptyStays'
    BY <2>5, <2>6 DEF EmptyStays
  <2>8. QED
    BY <2>2, <2>3, <2>7
<1>4. CASE Archive(p)
  <2>1. /\ UNCHANGED <<lifecycle_state, rows, files, registered, upload, held, open, plan, verdict>>
        /\ pc[p] = "archive" /\ pc'[p] = "EXPORTING" /\ archived' = files
        /\ \A c \in Drivers \ {p} : pc'[c] = pc[c]
    BY <1>4 DEF Archive, TypeOK
  <2>2. lifecycle_state = "FINALIZED"
    BY <2>1 DEF InChain, PrepareStages, ChainInv, ChainIsPlaced, Place
  <2>3. registered \subseteq archived'
    BY <2>1, <2>2 DEF KeptUntilPurge, Condemned
  <2>4. JobsAreRows' /\ UploadsArePlaced' /\ KeptUntilPurge' /\ ArchiveIsWhole' /\ PlansCover'
    BY <2>1, <2>3
    DEF JobsAreRows, UploadsArePlaced, KeptUntilPurge, ArchiveIsWhole, PlansCover
  <2>5. EmptyStays'
    BY <1>1, <2>1 DEF EmptyStays, Empty
  <2>6. QED
    BY <2>4, <2>5
<1>5. CASE PlanReset(p)
  <2>1. /\ UNCHANGED <<lifecycle_state, rows, files, registered, archived, upload, held, open,
                       verdict>>
        /\ plan' = [plan EXCEPT ![p] = NewPlan(p)]
        /\ pc'[p] \in {"failed", "bind"}
        /\ \A c \in Drivers \ {p} : pc'[c] = pc[c]
    BY <1>5 DEF PlanReset, TypeOK
  <2>2. /\ plan'[p].inventory.files = files
        /\ \A q \in Preparers \ {p} : plan'[q] = plan[q]
    BY <2>1, NewPlanType DEF PlansAreTyped
  <2>3. PlansCover'
    BY <2>1, <2>2 DEF PlansCover
  <2>4. JobsAreRows' /\ UploadsArePlaced' /\ KeptUntilPurge' /\ ArchiveIsWhole'
    BY <2>1 DEF JobsAreRows, UploadsArePlaced, KeptUntilPurge, ArchiveIsWhole
  <2>5. EmptyStays'
    BY <1>1, <2>1 DEF EmptyStays, Empty
  <2>6. QED
    BY <2>3, <2>4, <2>5
<1>6. QED
  BY <1>2, <1>3, <1>4, <1>5 DEF PrepareStep

\* Behind the scan nothing is left of what was planned, and the plan had every registered
\* document that is still there.
LEMMA ScanIsEmpty ==
  ASSUME TypeOK, ChainInv, DataInv, NEW e \in Executors, pc[e] = "scan",
         ~Residue(plan[confirms[e]].inventory.files)
  PROVE  Empty
<1>1. confirms[e] \in Preparers /\ pc[confirms[e]] = "prepared"
  BY ExecutorFacts
<1>2. files \cap registered \subseteq plan[confirms[e]].inventory.files
  BY <1>1 DEF DataInv, PlansCover
<1>3. \A t \in Relations \ {"outbox"} : rows[t] \in Nat /\ ~(rows[t] > 0)
  BY DEF Residue, TypeOK
<1>4. files \cap plan[confirms[e]].inventory.files = {}
  BY DEF Residue
<1>5. QED
  BY <1>2, <1>3, <1>4 DEF Empty

LEMMA ExecuteData ==
  ASSUME Typed, ChainInv, DataInv, NEW e \in Executors, ExecuteStep(e)
  PROVE  DataInv'
<1> USE DEF Typed, row, intake, jobs, consent, planning, request, Goto, Drivers
<1>1. e \notin Preparers /\ e \in DOMAIN pc
  BY RequestsAssumption DEF TypeOK
<1>2. ASSUME NEW p \in Preparers, Consume(e, p)
      PROVE  DataInv'
  <2>1. Passes(e)
    BY <1>1, <1>2 DEF Consume, Passes
  <2>2. QED
    BY <2>1, PassesData
<1>3. CASE Confirm(e) \/ Authorize(e) \/ AuthorizeDestroy(e) \/ BeginPurge(e)
  <2>1. Passes(e)
    <3>1. CASE Confirm(e)
      BY <1>1, <3>1 DEF Confirm, Passes
    <3>2. CASE Authorize(e) \/ AuthorizeDestroy(e)
      BY <1>1, <3>2 DEF Authorize, AuthorizeDestroy, Passes, TypeOK
    <3>3. CASE BeginPurge(e)
      BY <1>1, <3>3 DEF BeginPurge, Passes
    <3>4. QED
      BY <1>3, <3>1, <3>2, <3>3
  <2>2. QED
    BY <2>1, PassesData
<1>4. CASE PurgeEnds(e) \/ ListFiles(e) \/ RemoveDirectories(e) \/ WriteReceipt(e)
  <2>1. Passes(e)
    <3>1. CASE PurgeEnds(e)
      BY <1>1, <3>1 DEF PurgeEnds, Passes
    <3>2. CASE ListFiles(e)
      BY <1>1, <3>2 DEF ListFiles, Passes
    <3>3. CASE RemoveDirectories(e) \/ WriteReceipt(e)
      BY <1>1, <3>3 DEF RemoveDirectories, WriteReceipt, Passes, TypeOK
    <3>4. QED
      BY <1>4, <3>1, <3>2, <3>3
  <2>2. QED
    BY <2>1, PassesData
<1>5. CASE PlanDestroy(e)
  <2>1. Passes(e)
    BY <1>1, <1>5 DEF PlanDestroy, Passes, PlansAreTyped
  <2>2. QED
    BY <2>1, PassesData
<1>6. ASSUME NEW f \in Sources \cup Derived, PurgeObject(e, f)
      PROVE  DataInv'
  <2>1. /\ UNCHANGED <<lifecycle_state, pc, plan, verdict, archived, registered, rows, open, held,
                       upload>>
        /\ files' = files \ {f} /\ pc[e] \in {"purge", "sweep"}
    BY <1>6 DEF PurgeObject
  <2>2. lifecycle_state \in Condemned
    BY <2>1 DEF InChain, ExecuteStages, ChainInv, ChainIsPlaced, Place, Condemned
  <2>3. JobsAreRows' /\ UploadsArePlaced'
    BY <2>1, <2>2 DEF DataInv, JobsAreRows, UploadsArePlaced, Condemned
  <2>4. QED
    BY <2>1, <2>2, <2>3, OutsideData DEF RowsAreGone
<1>7. CASE PurgeRelation(e)
  <2>1. UNCHANGED <<lifecycle_state, plan, verdict, archived, registered, files, upload>>
    BY <1>7 DEF PurgeRelation
  <2>2. CASE pc' = [pc EXCEPT ![e] = "failed"] /\ UNCHANGED <<rows, held, open>>
    <3>1. Passes(e)
      BY <1>1, <2>1, <2>2 DEF Passes
    <3>2. QED
      BY <3>1, PassesData
  <2>3. ASSUME NEW t, rows' = [rows EXCEPT ![t] = 0], pc' = pc,
               open' = IF t = "jobs" THEN 0 ELSE open, held' = (held /\ t # "jobs")
        PROVE  DataInv'
    <3>1. JobsAreRows'
      <4>1. rows'["jobs"] = IF t = "jobs" THEN 0 ELSE rows["jobs"]
        BY <2>3 DEF TypeOK, Relations
      <4>2. CASE t = "jobs"
        <5>1. ~held' /\ open' = 0
          BY <2>3, <4>2
        <5>2. QED
          BY <4>1, <4>2, <5>1 DEF JobsAreRows
      <4>3. CASE t # "jobs"
        BY <2>3, <4>1, <4>3 DEF DataInv, JobsAreRows
      <4>4. QED
        BY <4>2, <4>3
    <3>2. UploadsArePlaced'
      BY <2>1, <2>3 DEF DataInv, UploadsArePlaced
    <3>3. RowsAreGone => RowsAreGone'
      BY <2>3 DEF RowsAreGone, TypeOK
    <3>4. QED
      BY <2>1, <2>3, <3>1, <3>2, <3>3, OutsideData
  <2>4. QED
    BY <1>7, <2>2, <2>3 DEF PurgeRelation
<1>8. CASE Attest(e)
  <2>1. /\ UNCHANGED <<lifecycle_state, rows, files, registered, archived, upload, held, open,
                       plan>>
        /\ pc[e] \in {"scan", "rescan"}
        /\ pc'[e] \in {"DESTROYED", "QUARANTINED", "RESET_VERIFIED"}
        /\ pc'[e] = "RESET_VERIFIED" => pc[e] = "scan"
        /\ \A c \in Drivers \ {e} : pc'[c] = pc[c]
        /\ \A f \in Executors \ {e} : verdict'[f] = verdict[f]
        /\ verdict'[e] /\ pc[e] = "scan" => ~Residue(plan[confirms[e]].inventory.files)
    BY <1>1, <1>8 DEF Attest, TypeOK
  <2>2. JobsAreRows' /\ UploadsArePlaced' /\ KeptUntilPurge' /\ ArchiveIsWhole' /\ PlansCover'
    BY <1>1, <2>1
    DEF DataInv, JobsAreRows, UploadsArePlaced, KeptUntilPurge, ArchiveIsWhole, PlansCover
  <2>3. EmptyStays'
    <3>1. pc'[e] = "RESET_VERIFIED" /\ verdict'[e] => Empty
      BY <2>1, ScanIsEmpty
    <3>2. Empty => Empty'
      BY <2>1 DEF Empty
    <3>3. QED
      BY <2>1, <3>1, <3>2 DEF DataInv, EmptyStays
  <2>4. QED
    BY <2>2, <2>3 DEF DataInv
<1>9. QED
  BY <1>2, <1>3, <1>4, <1>5, <1>6, <1>7, <1>8 DEF ExecuteStep

LEMMA OthersData ==
  ASSUME TypeOK, ChainInv, DataInv, Others
  PROVE  DataInv'
<1> USE DEF row, intake, jobs, consent, planning, request
<1>1. /\ rows \in [Relations -> Nat] /\ open \in Nat /\ held \in BOOLEAN
      /\ JobsAreRows /\ UploadsArePlaced
  BY DEF TypeOK, DataInv
<1>2. ASSUME NEW s \in Sources, UploadAdmitted(s)
      PROVE  DataInv'
  <2>1. JobsAreRows' /\ UploadsArePlaced'
    BY <1>1, <1>2 DEF UploadAdmitted, TypeOK, JobsAreRows, UploadsArePlaced
  <2>2. QED
    BY <1>2, <2>1, OutsideData DEF UploadAdmitted, RowsAreGone
<1>3. ASSUME NEW s \in Sources, UploadMoves(s)
      PROVE  DataInv'
  <2>1. JobsAreRows' /\ UploadsArePlaced' /\ s \notin registered
    BY <1>1, <1>3 DEF UploadMoves, TypeOK, JobsAreRows, UploadsArePlaced
  <2>2. QED
    BY <1>3, <2>1, OutsideData DEF UploadMoves, RowsAreGone
<1>4. ASSUME NEW s \in Sources, UploadRejected(s)
      PROVE  DataInv'
  <2>1. JobsAreRows' /\ UploadsArePlaced' /\ s \notin registered
    BY <1>1, <1>4 DEF UploadRejected, TypeOK, JobsAreRows, UploadsArePlaced
  <2>2. QED
    BY <1>4, <2>1, OutsideData DEF UploadRejected, RowsAreGone
<1>5. ASSUME NEW s \in Sources, UploadCommits(s)
      PROVE  DataInv'
  <2>1. /\ lifecycle_state = "ACTIVE" /\ upload[s] = "moved"
        /\ upload' = [upload EXCEPT ![s] = "kept"]
        /\ registered' = registered \cup {s}
        /\ UNCHANGED <<lifecycle_state, files, pc, plan>>
    BY <1>5 DEF UploadCommits
  <2>2. s \in files
    BY <1>1, <2>1 DEF UploadsArePlaced
  <2>3. JobsAreRows'
    BY <1>1, <1>5 DEF UploadCommits, JobsAreRows, Relations
  <2>4. UploadsArePlaced'
    BY <1>1, <2>1 DEF UploadsArePlaced, TypeOK
  <2>5. KeptUntilPurge'
    BY <2>1, <2>2 DEF DataInv, KeptUntilPurge, Condemned
  <2>6. ArchiveIsWhole' /\ PlansCover' /\ EmptyStays'
    BY <2>1, OpenFacts DEF ArchiveIsWhole, PlansCover, EmptyStays, Early, Emptied
  <2>7. QED
    BY <2>3, <2>4, <2>5, <2>6 DEF DataInv
<1>6. CASE ClaimJob \/ ChooseWork
  <2>1. JobsAreRows' /\ UploadsArePlaced'
    BY <1>1, <1>6 DEF ClaimJob, ChooseWork, JobsAreRows, UploadsArePlaced
  <2>2. QED
    BY <1>6, <2>1, OutsideData DEF ClaimJob, ChooseWork, RowsAreGone
<1>7. ASSUME NEW f \in Derived, PutDerived(f)
      PROVE  DataInv'
  <2>1. f \notin registered
    BY FilesAssumption DEF TypeOK
  <2>2. JobsAreRows' /\ UploadsArePlaced'
    BY <1>1, <1>7 DEF PutDerived, JobsAreRows, UploadsArePlaced
  <2>3. QED
    BY <1>7, <2>1, <2>2, OutsideData DEF PutDerived, RowsAreGone
<1>8. CASE RecordPage
  <2>1. /\ \/ rows' = rows
           \/ rows["jobs"] > 0 /\ rows' = [rows EXCEPT !["pages"] = 1, !["controls"] = MaxRows]
        /\ UNCHANGED <<lifecycle_state, files, archived, upload, registered, held, open, plan,
                       verdict, pc>>
    BY <1>8 DEF RecordPage
  <2>2. JobsAreRows' /\ UploadsArePlaced'
    BY <1>1, <2>1 DEF JobsAreRows, UploadsArePlaced, Relations
  <2>3. RowsAreGone => RowsAreGone'
    BY <1>1, <2>1 DEF RowsAreGone, Relations
  <2>4. QED
    BY <2>1, <2>2, <2>3, OutsideData
<1>9. CASE AppendState
  <2>1. /\ rows' = rows \/ (rows["documents"] > 0 /\ \E n : rows' = [rows EXCEPT !["states"] = n])
        /\ UNCHANGED <<lifecycle_state, files, archived, upload, registered, held, open, plan,
                       verdict, pc>>
    BY <1>1, <1>9 DEF AppendState
  <2>2. JobsAreRows' /\ UploadsArePlaced'
    BY <1>1, <2>1 DEF JobsAreRows, UploadsArePlaced, Relations
  <2>3. RowsAreGone => RowsAreGone'
    BY <1>1, <2>1 DEF RowsAreGone, Relations
  <2>4. QED
    BY <2>1, <2>2, <2>3, OutsideData
<1>10. CASE EndExecution
  <2>1. /\ \/ rows' = rows /\ open' = open
           \/ held /\ rows' = [rows EXCEPT !["controls"] = MaxRows] /\ open' = open - 1
        /\ held' = FALSE
        /\ UNCHANGED <<lifecycle_state, files, archived, upload, registered, plan, verdict, pc>>
    BY <1>1, <1>10 DEF EndExecution
  <2>2. JobsAreRows' /\ UploadsArePlaced'
    BY <1>1, <2>1 DEF JobsAreRows, UploadsArePlaced, Relations
  <2>3. RowsAreGone => RowsAreGone'
    BY <1>1, <2>1 DEF RowsAreGone, JobsAreRows, Relations
  <2>4. QED
    BY <2>1, <2>2, <2>3, OutsideData
<1>11. CASE RetryJob
  <2>1. /\ open < rows["jobs"] /\ open' = open + 1
        /\ rows' = [rows EXCEPT !["jobs"] = @ + 1, !["controls"] = MaxRows]
        /\ UNCHANGED <<lifecycle_state, files, archived, upload, registered, held, plan, verdict,
                       pc>>
    BY <1>11 DEF RetryJob
  <2>2. JobsAreRows' /\ UploadsArePlaced'
    BY <1>1, <2>1 DEF JobsAreRows, UploadsArePlaced, Relations
  <2>3. ~RowsAreGone
    BY <1>1, <2>1 DEF RowsAreGone, Relations
  <2>4. QED
    BY <2>1, <2>2, <2>3, OutsideData
<1>12. CASE PlatformChanges \/ \E d \in Drivers : Lapse(d)
  <2>1. UNCHANGED <<lifecycle_state, rows, files, archived, upload, registered, held, open, plan,
                    verdict, pc>>
    BY <1>12 DEF PlatformChanges, Lapse
  <2>2. JobsAreRows' /\ UploadsArePlaced' /\ (RowsAreGone => RowsAreGone')
    BY <1>1, <2>1 DEF JobsAreRows, UploadsArePlaced, RowsAreGone
  <2>3. QED
    BY <2>1, <2>2, OutsideData
<1>13. ASSUME NEW d \in Drivers, Crash(d)
       PROVE  DataInv'
  <2>1. Passes(d)
    BY <1>13 DEF Crash, Goto, Passes, TypeOK
  <2>2. QED
    BY <2>1, PassesData
<1>14. QED
  BY <1>2, <1>3, <1>4, <1>5, <1>6, <1>7, <1>8, <1>9, <1>10, <1>11, <1>12, <1>13
  DEF Others, UploadStep

--------------------------------------------------------------------------------
(* The invariant *)

LEMMA InitInvariant == Init => IInv
<1> SUFFICES ASSUME Init
             PROVE  IInv
  OBVIOUS
<1>1. Typed
  BY InitTyped
<1>2. RolesAreApart /\ VersionsTell
  BY DEF Init, RolesAreApart, VersionsTell, PreparerStages, ExecutorStages, Drivers
<1>3. \A d \in Drivers : ~InChain(d)
  BY DEF Init, InChain, PrepareStages, ExecuteStages
<1>4. \A p \in Preparers : ~Led(p)
  BY DEF Init, Led, PrepareStages, Drivers
<1>5. ChainIsPlaced /\ OneLeader
  BY <1>3, <1>4 DEF ChainIsPlaced, OneLeader
<1>6. ConsentIsPrepared /\ ConsentIsOnce
  BY DEF Init, ConsentIsPrepared, ConsentIsOnce, Drivers
<1>7. JobsAreRows
  BY DEF Init, JobsAreRows, Relations, One
<1>8. UploadsArePlaced /\ KeptUntilPurge /\ ArchiveIsWhole /\ PlansCover /\ EmptyStays
  BY DEF Init, UploadsArePlaced, KeptUntilPurge, ArchiveIsWhole, PlansCover, EmptyStays, Early,
    Emptied, Drivers
<1>9. QED
  BY <1>1, <1>2, <1>5, <1>6, <1>7, <1>8 DEF IInv, Typed

LEMMA InvariantParts == IInv <=> Typed /\ ChainInv /\ DataInv
BY DEF IInv, Typed, ChainInv, DataInv

LEMMA NextInvariant == IInv /\ [Next]_vars => IInv'
<1> SUFFICES ASSUME Typed, ChainInv, DataInv, [Next]_vars
             PROVE  Typed' /\ ChainInv' /\ DataInv'
  BY DEF IInv, Typed, ChainInv, DataInv
<1>1. TypeOK /\ JobsAreRows /\ RolesAreApart /\ VersionsTell /\ ChainIsPlaced
  BY DEF Typed, ChainInv, DataInv
<1>2. ASSUME NEW d \in Drivers, Transition(d)
      PROVE  Typed' /\ ChainInv' /\ DataInv'
  BY <1>1, <1>2, TransitionTyped, TransitionKinds, MovesChain, AdvancesChain, TransitionData
<1>3. ASSUME NEW p \in Preparers, PrepareStep(p)
      PROVE  Typed' /\ ChainInv' /\ DataInv'
  <2>1. ChainInv'
    BY <1>1, <1>3, PrepareKinds, PrepareChain, AdvancesChain DEF PrepareStep, Drivers
  <2>2. QED
    BY <1>3, <2>1, PrepareTyped, PrepareData
<1>4. ASSUME NEW e \in Executors, ExecuteStep(e)
      PROVE  Typed' /\ ChainInv' /\ DataInv'
  <2>1. ChainInv'
    BY <1>1, <1>4, ExecuteKinds, ExecuteChain, AdvancesChain, QuietChain DEF Drivers
  <2>2. QED
    BY <1>4, <2>1, ExecuteTyped, ExecuteData
<1>5. CASE Others
  <2>1. ChainInv'
    BY <1>1, <1>5, OthersKinds, AdvancesChain, QuietChain
  <2>2. QED
    BY <1>1, <1>5, <2>1, OthersTyped, OthersData
<1>6. CASE UNCHANGED vars
  <2>1. Quiet
    BY <1>6 DEF vars, row, consent, request, Quiet
  <2>2. Typed'
    BY <1>6 DEF vars, row, intake, jobs, consent, planning, request, outside, Typed, TypeOK,
      PlansAreTyped
  <2>3. UNCHANGED <<lifecycle_state, pc, plan, verdict, archived, registered, files, rows, upload,
                    open, held>>
    BY <1>6 DEF vars, row, intake, jobs, planning, request
  <2>4. JobsAreRows' /\ UploadsArePlaced' /\ (RowsAreGone => RowsAreGone')
    BY <2>3 DEF DataInv, JobsAreRows, UploadsArePlaced, RowsAreGone
  <2>5. QED
    BY <2>1, <2>2, <2>3, <2>4, QuietChain, OutsideData
<1>7. QED
  BY <1>2, <1>3, <1>4, <1>5, <1>6 DEF Next

--------------------------------------------------------------------------------
(* Theorems *)

\* The invariant is inductive over every operation of the workflow, the intake and the worker.
THEOREM Invariance == Spec => []IInv
  BY InitInvariant, NextInvariant, PTL DEF Spec

\* Every variable stays in its domain.
THEOREM TypeCorrect == Spec => []TypeOK
<1>1. IInv => TypeOK
  BY DEF IInv
<1>2. QED
  BY <1>1, Invariance, PTL

\* However uploads and prepares overlap, no registered document is deleted before the portable
\* archive has it: registrations end with the freeze, and the archive is taken behind it.
THEOREM NothingIsLost == Spec => []SourcesAreArchived
<1>1. IInv => SourcesAreArchived
  <2>1. IInv /\ lifecycle_state \notin Condemned => registered \subseteq files
    BY DEF IInv, KeptUntilPurge
  <2>2. IInv /\ lifecycle_state \in Condemned => registered \subseteq archived
    BY DEF IInv, ArchiveIsWhole, Condemned, Early
  <2>3. QED
    BY <2>1, <2>2 DEF SourcesAreArchived
<1>2. QED
  BY <1>1, Invariance, PTL

\* Nothing grows behind a verified reset: the worker, the owner's retry and late uploads find
\* every row gone that theirs would refer to.
THEOREM ResetStands == Spec => []ResetIsFinal
<1>1. IInv => ResetIsFinal
  BY DEF IInv, EmptyStays, Empty, ResetIsFinal
<1>2. QED
  BY <1>1, Invariance, PTL

\* One request at most is under way with the lifecycle, and it knows the version and the state.
OneRequestActs ==
  \A c, d \in Drivers : InChain(c) /\ InChain(d) => /\ c = d
                                                    /\ known[c] = lifecycle_version /\ Place(c)

\* However many prepares and executes run at once, freeze and consumption of the challenge let one
\* of them through: the transitions of reset.py are never made by two requests in turn.
THEOREM OneAtATime == Spec => []OneRequestActs
<1>1. IInv => OneRequestActs
  BY InvariantParts, Alone DEF OneRequestActs, Typed, ChainInv, ChainIsPlaced
<1>2. QED
  BY <1>1, Invariance, PTL

--------------------------------------------------------------------------------
(* The refinement *)

LEMMA RefinementInit == Init => Custody!Init
<1> SUFFICES ASSUME Init
             PROVE  Custody!Init
  OBVIOUS
<1>1. Phase = "open" /\ files \cap registered = {}
  BY DEF Init, Phase
<1>2. {s \in Sources : upload[s] = "moved" /\ lifecycle_state = "ACTIVE"} = {}
  BY DEF Init
<1>3. QED
  BY <1>1, <1>2 DEF Custody!Init

\* The phases a transition passes.
LEMMA PhaseStep ==
  ASSUME IInv, NEW d \in Drivers, Transition(d), Succeeds(d)
  PROVE  \/ lifecycle_state = "ACTIVE" /\ Phase = "open" /\ Phase' = "sealed"
         \/ lifecycle_state # "ACTIVE" /\ lifecycle_state' # "ACTIVE"
            /\ \/ Phase' = Phase
               \/ Phase = "sealed" /\ Phase' = "condemned"
               \/ /\ Phase = "condemned" /\ Phase' = "destroyed"
                  /\ lifecycle_state = "DESTROYING"
<1>1. Moves(d)
  BY MoveFacts DEF IInv
<1>2. lifecycle_state' = pc[d] /\ pc[d] \in DOMAIN After
  BY <1>1 DEF Moves, Transition
<1>3. CASE pc[d] = "FREEZING"
  <2>1. d \in Preparers /\ known[d] = lifecycle_version
    BY <1>1, <1>3 DEF Moves, Succeeds, IInv, RolesAreApart, ExecutorStages, ExecuteStages, Drivers
  <2>2. lifecycle_state = "ACTIVE"
    BY <1>3, <2>1 DEF IInv, VersionsTell
  <2>3. QED
    BY <1>2, <1>3, <2>2 DEF Phase
<1>4. CASE pc[d] # "FREEZING"
  <2>1. Place(d)
    BY <1>1, <1>4 DEF Moves, IInv, ChainIsPlaced
  <2>2. QED
    BY <1>2, <1>4, <2>1, AfterDomain DEF Place, Phase
<1>5. QED
  BY <1>3, <1>4

Content == files \cap registered
Writing == {s \in Sources : upload[s] = "moved" /\ lifecycle_state = "ACTIVE"}

\* Every step of the workflow is a step of custody, or leaves it alone.
LEMMA RefinementStep ==
  IInv /\ [Next]_vars => [Custody!Next]_<<Phase, Content, Writing, {}>>
<1> SUFFICES ASSUME IInv, [Next]_vars
             PROVE  [Custody!Next]_<<Phase, Content, Writing, {}>>
  OBVIOUS
<1> USE DEF row, intake, jobs, consent, planning, request, outside
<1>1. registered \subseteq Sources
  BY DEF IInv, TypeOK
<1>2. ASSUME UNCHANGED lifecycle_state, UNCHANGED Content, UNCHANGED Writing
      PROVE  UNCHANGED <<Phase, Content, Writing, {}>>
  BY <1>2 DEF Phase
<1>3. ASSUME UNCHANGED <<lifecycle_state, files, registered, upload>>
      PROVE  UNCHANGED <<Phase, Content, Writing, {}>>
  BY <1>2, <1>3 DEF Content, Writing
<1>4. ASSUME NEW d \in Drivers, Transition(d)
      PROVE  [Custody!Next]_<<Phase, Content, Writing, {}>>
  <2>1. CASE ~Succeeds(d)
    BY <1>3, <1>4, <2>1 DEF Transition
  <2>2. CASE Succeeds(d)
    <3>1. UNCHANGED <<files, registered, upload>>
      BY <1>4 DEF Transition
    <3>2. Content' = Content
      BY <3>1 DEF Content
    <3>3. Writing = {} /\ Writing' = {}
      <4>1. Writing = {}
        BY <1>4 DEF Transition, RowIsLocked, Writing
      <4>2. lifecycle_state' # "ACTIVE"
        BY <1>4, <2>2, MoveFacts DEF IInv
      <4>3. QED
        BY <4>1, <4>2 DEF Writing
    <3>4. CASE Phase = "open" /\ Phase' = "sealed"
      BY <3>2, <3>3, <3>4 DEF Custody!Next, Custody!Seal, Content, Writing
    <3>5. CASE Phase' = Phase
      BY <3>2, <3>3, <3>5
    <3>6. CASE Phase = "sealed" /\ Phase' = "condemned"
      BY <3>2, <3>3, <3>6 DEF Custody!Next, Custody!Condemn, Content, Writing
    <3>7. CASE Phase = "condemned" /\ Phase' = "destroyed" /\ lifecycle_state = "DESTROYING"
      <4>1. Content = {}
        BY <3>7 DEF IInv, EmptyStays, Empty, Emptied, Content
      <4>2. QED
        BY <3>2, <3>3, <3>7, <4>1 DEF Custody!Next, Custody!Destroy, Content, Writing
    <3>8. QED
      BY <1>4, <2>2, <3>4, <3>5, <3>6, <3>7, PhaseStep
  <2>3. QED
    BY <2>1, <2>2
<1>5. ASSUME NEW p \in Preparers, PrepareStep(p)
      PROVE  UNCHANGED <<Phase, Content, Writing, {}>>
  BY <1>3, <1>5 DEF PrepareStep, ReadActive, FenceJobs, Archive, IssueChallenge, PlanReset, BindPlan
<1>6. ASSUME NEW e \in Executors, NEW f \in Sources \cup Derived, PurgeObject(e, f)
      PROVE  [Custody!Next]_<<Phase, Content, Writing, {}>>
  <2>1. /\ UNCHANGED <<lifecycle_state, registered, upload>>
        /\ files' = files \ {f} /\ pc[e] \in {"purge", "sweep"}
    BY <1>6 DEF PurgeObject
  <2>2. Phase \in {"condemned", "destroyed"} /\ Phase' = Phase
    BY <2>1 DEF InChain, ExecuteStages, IInv, ChainIsPlaced, Place, Phase, Drivers
  <2>3. Content' = Content \ {f} /\ Writing' = Writing
    BY <2>1 DEF Content, Writing
  <2>4. CASE f \in Sources
    BY <2>2, <2>3, <2>4 DEF Custody!Next, Custody!Remove, Content, Writing
  <2>5. CASE f \notin Sources
    <3>1. Content' = Content
      BY <1>1, <2>3, <2>5 DEF Content
    <3>2. QED
      BY <2>2, <2>3, <3>1
  <2>6. QED
    BY <2>4, <2>5
<1>7. ASSUME NEW e \in Executors, ExecuteStep(e)
      PROVE  [Custody!Next]_<<Phase, Content, Writing, {}>>
  <2>1. CASE \E f \in Sources \cup Derived : PurgeObject(e, f)
    BY <1>6, <2>1
  <2>2. CASE (\E p \in Preparers : Consume(e, p)) \/ Confirm(e) \/ Authorize(e) \/ BeginPurge(e)
    BY <1>3, <2>2 DEF Consume, Confirm, Authorize, BeginPurge
  <2>3. CASE PurgeRelation(e) \/ PurgeEnds(e) \/ Attest(e) \/ PlanDestroy(e)
    BY <1>3, <2>3 DEF PurgeRelation, PurgeEnds, Attest, PlanDestroy
  <2>4. CASE \/ AuthorizeDestroy(e) \/ ListFiles(e) \/ RemoveDirectories(e) \/ WriteReceipt(e)
    BY <1>3, <2>4 DEF AuthorizeDestroy, ListFiles, RemoveDirectories, WriteReceipt
  <2>5. QED
    BY <1>7, <2>1, <2>2, <2>3, <2>4 DEF ExecuteStep
<1>8. ASSUME NEW s \in Sources, UploadAdmitted(s) \/ UploadStep(s)
      PROVE  [Custody!Next]_<<Phase, Content, Writing, {}>>
  <2>1. /\ upload \in [Sources -> {"new", "admitted", "moved", "kept", "rejected"}]
        /\ \A i \in registered : upload[i] = "kept"
        /\ upload[s] = "moved" /\ lifecycle_state = "ACTIVE" => s \in files
    BY <1>1 DEF IInv, TypeOK, UploadsArePlaced
  <2>2. CASE UploadAdmitted(s)
    <3>1. Writing' = Writing /\ Content' = Content /\ UNCHANGED lifecycle_state
      BY <2>1, <2>2 DEF UploadAdmitted, Writing, Content
    <3>2. QED
      BY <1>2, <3>1
  <2>3. CASE UploadMoves(s)
    <3>1. /\ upload[s] = "admitted" /\ upload' = [upload EXCEPT ![s] = "moved"]
          /\ files' = files \cup {s} /\ registered' = registered
          /\ lifecycle_state' = lifecycle_state
      BY <2>3 DEF UploadMoves
    <3>2. Content' = Content
      BY <2>1, <3>1 DEF Content
    <3>3. CASE lifecycle_state = "ACTIVE"
      <4>1. Phase = "open" /\ Phase' = "open"
        BY <3>1, <3>3 DEF Phase
      <4>2. Writing' = Writing \cup {s}
        BY <2>1, <3>1, <3>3 DEF Writing
      <4>3. QED
        BY <3>2, <4>1, <4>2 DEF Custody!Next, Custody!Admit, Content, Writing
    <3>4. CASE lifecycle_state # "ACTIVE"
      BY <1>2, <3>1, <3>2, <3>4 DEF Writing
    <3>5. QED
      BY <3>3, <3>4
  <2>4. CASE UploadCommits(s)
    <3>1. /\ upload[s] = "moved" /\ upload' = [upload EXCEPT ![s] = "kept"]
          /\ files' = files /\ registered' = registered \cup {s}
          /\ lifecycle_state = "ACTIVE" /\ lifecycle_state' = lifecycle_state
      BY <2>4 DEF UploadCommits
    <3>2. Content' = Content \cup {s}
      BY <2>1, <3>1 DEF Content
    <3>3. Writing' = Writing \ {s} /\ s \in Writing
      BY <2>1, <3>1 DEF Writing
    <3>4. Phase = "open" /\ Phase' = "open"
      BY <3>1 DEF Phase
    <3>5. QED
      BY <3>2, <3>3, <3>4 DEF Custody!Next, Custody!Land, Content, Writing
  <2>5. CASE UploadRejected(s)
    <3>1. /\ upload[s] = "moved" /\ lifecycle_state # "ACTIVE"
          /\ lifecycle_state' = lifecycle_state
          /\ files' = files \ {s} /\ registered' = registered
      BY <2>5 DEF UploadRejected
    <3>2. Content' = Content
      BY <2>1, <3>1 DEF Content
    <3>3. QED
      BY <1>2, <3>1, <3>2 DEF Writing
  <2>6. QED
    BY <1>8, <2>2, <2>3, <2>4, <2>5 DEF UploadStep
<1>9. CASE Others
  <2>1. CASE ClaimJob \/ ChooseWork \/ RecordPage \/ AppendState \/ EndExecution \/ RetryJob
    BY <1>3, <2>1 DEF ClaimJob, ChooseWork, RecordPage, AppendState, EndExecution, RetryJob
  <2>2. CASE PlatformChanges \/ \E d \in Drivers : Lapse(d) \/ Crash(d)
    BY <1>3, <2>2 DEF PlatformChanges, Lapse, Crash
  <2>3. ASSUME NEW f \in Derived, PutDerived(f)
        PROVE  UNCHANGED <<Phase, Content, Writing, {}>>
    <3>1. UNCHANGED <<lifecycle_state, registered, upload>> /\ files' = files \cup {f}
      BY <2>3 DEF PutDerived
    <3>2. Content' = Content
      BY <1>1, <3>1, FilesAssumption DEF Content
    <3>3. Writing' = Writing
      BY <3>1 DEF Writing
    <3>4. QED
      BY <1>2, <3>1, <3>2, <3>3
  <2>4. QED
    BY <1>8, <1>9, <2>1, <2>2, <2>3 DEF Others
<1>10. CASE UNCHANGED vars
  BY <1>3, <1>10 DEF vars
<1>11. QED
  BY <1>4, <1>5, <1>7, <1>9, <1>10 DEF Next

\* The workflow implements custody: documents enter only while the workspace is open, leave
\* only when it is condemned, and none is left when it is declared destroyed.
THEOREM Custodial == Spec => CustodyKept
<1>1. Spec => Custody!Init /\ [][Custody!Next]_<<Phase, Content, Writing, {}>>
  BY RefinementInit, RefinementStep, Invariance, PTL DEF Spec
<1>2. QED
  BY <1>1, PTL DEF CustodyKept, Custody!Spec, Custody!vars, Content, Writing
=============================================================================
