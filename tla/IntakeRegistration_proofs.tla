------------------------ MODULE IntakeRegistration_proofs ------------------------
(***************************************************************************)
(* Theorems about IntakeRegistration, for every set of requests, every     *)
(* batch and any number of faults.                                         *)
(***************************************************************************)
EXTENDS IntakeRegistration, TLAPS

USE BatchAssumption, FaultsAssumption

Uploads(r) == Batch[r].uploads

\* What one request does, and what happens to it alone.
Acts(r) == Step(r) \/ StatementFails(r) \/ DeletionFails(r) \/ CommitAnswerLost(r)

\* The steps of the compensation.
Compensates(r) == \/ SkipObject(r) \/ FindObject(r) \/ UndoObject(r) \/ UndoCollides(r)
                  \/ RaiseFailure(r) \/ DeletionFails(r)

Distinct(s) == \A i, j \in DOMAIN s : s[i] = s[j] => i = j

--------------------------------------------------------------------------------
(* The inductive invariant *)

\* Rows are pending in registrations only; unique keys give each document one writer, and
\* the write fence is never up while rows are pending.
RowsAreOwned ==
  /\ \A r \in Requests : pc[r] \notin InRegistration => pending[r] = NoRows
  /\ \A q, r \in Requests : \A p \in Paths :
       pending[q][p] # <<>> /\ pending[r][p] # <<>> => q = r
  /\ fenced => \A r \in Requests : pending[r] = NoRows

\* A request about to insert has not seen the content in the versions it read, and these
\* are still the first versions of the document.
ReadsAreKept ==
  \A r \in Requests :
    /\ pc[r] \in {"verify", "move", "sync", "lookup", "insert"} => Remaining(r)
    /\ pc[r] = "insert" =>
         /\ seen[r] <= Len(Seen(r, Current(r).path))
         /\ \A i \in 1..seen[r] : Seen(r, Current(r).path)[i] # Current(r).digest

\* What a transaction sees of a document has no content twice.
ViewsAreDistinct ==
  \A r \in Requests : \A p \in Paths : Distinct(Seen(r, p))

\* The uploads behind the loop are in the view, and only uploads are pending.
ProgressIsVisible ==
  \A r \in Requests :
    /\ pc[r] \in InRegistration =>
         \A k \in 1..(item[r] - 1) : k \in DOMAIN Uploads(r) =>
           Uploads(r)[k].digest \in Contents(Seen(r, Uploads(r)[k].path))
    /\ \A p \in Paths : \A d \in Contents(pending[r][p]) :
         [path |-> p, digest |-> d] \in Contents(Uploads(r))

\* The advisory lock: one transaction per manifest, and only for a manifest that is new.
ManifestsAreLocked ==
  /\ \A q, r \in Requests :
       /\ pc[q] \in InTransaction /\ pc[r] \in InTransaction
       /\ Manifest(q) = Manifest(r)
       => q = r
  /\ \A r \in Requests : pc[r] \in InTransaction => Manifest(r) \notin manifests

\* The staged files that are left are the ones the loop has still to commit.
StagingIsCounted ==
  \A r \in Requests :
    /\ pc[r] \in {"submitted", "locked", "writable"} => staging[r] = Len(Uploads(r))
    /\ pc[r] \in InRegistration => item[r] <= Len(Uploads(r)) + 1
    /\ pc[r] \in {"store", "verify", "move"} => staging[r] + item[r] = Len(Uploads(r)) + 1
    /\ pc[r] \in {"sync", "lookup", "insert"} => staging[r] + item[r] = Len(Uploads(r))

\* What a request remembers to have created are bytes of its own uploads; it remembers them
\* until it commits or has undone them.
CreatedIsOwn ==
  \A r \in Requests :
    /\ pc[r] = "unlink" => created[r] # <<>>
    /\ created[r] # <<>> => pc[r] \in InRegistration \cup {"undo", "unlink"}
    /\ \A d \in Contents(created[r]) : \E k \in DOMAIN Uploads(r) : Uploads(r)[k].digest = d

IInv ==
  /\ TypeOK
  /\ CreatedIsOwn
  /\ StagingIsCounted
  /\ RowsAreOwned
  /\ ReadsAreKept
  /\ ViewsAreDistinct
  /\ ProgressIsVisible
  /\ ManifestsAreLocked
  /\ OneVersionPerContent
  /\ BatchesAreAtomic

--------------------------------------------------------------------------------
(* Sequences of contents *)

\* The view of a document: the committed versions followed by the pending ones.
LEMMA ConcatFacts ==
  ASSUME NEW D, NEW s \in Seq(D), NEW t \in Seq(D)
  PROVE  /\ s \o t \in Seq(D)
         /\ Len(s \o t) = Len(s) + Len(t)
         /\ Len(s) <= Len(s \o t)
         /\ \A i \in 1..Len(s) : (s \o t)[i] = s[i]
         /\ Contents(s \o t) = Contents(s) \cup Contents(t)
         /\ t = <<>> => s \o t = s
<1>1. /\ s \o t \in Seq(D)
      /\ Len(s \o t) = Len(s) + Len(t)
      /\ Len(s) <= Len(s \o t)
      /\ \A i \in 1..Len(s) : (s \o t)[i] = s[i]
      /\ \A i \in 1..Len(t) : (s \o t)[Len(s) + i] = t[i]
  OBVIOUS
<1>d. /\ DOMAIN s = 1..Len(s) /\ DOMAIN t = 1..Len(t)
      /\ DOMAIN (s \o t) = 1..(Len(s) + Len(t))
  BY <1>1
<1>2. Contents(s \o t) \subseteq Contents(s) \cup Contents(t)
  <2>1. SUFFICES ASSUME NEW i \in 1..(Len(s) + Len(t))
                 PROVE  (s \o t)[i] \in Contents(s) \cup Contents(t)
    BY <1>1, <1>d DEF Contents
  <2>2. CASE i <= Len(s)
    BY <1>1, <2>2, <1>d DEF Contents
  <2>3. CASE i > Len(s)
    <3>1. i - Len(s) \in 1..Len(t) /\ Len(s) + (i - Len(s)) = i
      BY <2>3
    <3>2. (s \o t)[i] = t[i - Len(s)]
      BY <1>1, <3>1
    <3>3. QED
      BY <3>1, <3>2, <1>d DEF Contents
  <2>4. QED
    BY <2>2, <2>3
<1>3. Contents(s) \subseteq Contents(s \o t)
  <2>1. \A i \in 1..Len(s) : i \in 1..Len(s \o t)
    BY <1>1
  <2>2. QED
    BY <1>1, <2>1, <1>d DEF Contents
<1>4. Contents(t) \subseteq Contents(s \o t)
  <2>1. SUFFICES ASSUME NEW i \in 1..Len(t)
                 PROVE  t[i] \in Contents(s \o t)
    BY <1>d DEF Contents
  <2>2. Len(s) + i \in 1..Len(s \o t)
    BY <1>1
  <2>3. QED
    BY <1>1, <2>2, <1>d DEF Contents
<1>5. t = <<>> => s \o t = s
  OBVIOUS
<1>6. QED
  BY <1>1, <1>2, <1>3, <1>4, <1>5

LEMMA AppendFacts ==
  ASSUME NEW D, NEW s \in Seq(D), NEW e \in D
  PROVE  /\ Append(s, e) \in Seq(D)
         /\ Len(Append(s, e)) = Len(s) + 1
         /\ Append(s, e) # <<>>
         /\ \A i \in 1..Len(s) : Append(s, e)[i] = s[i]
         /\ Append(s, e)[Len(s) + 1] = e
         /\ Contents(Append(s, e)) = Contents(s) \cup {e}
<1>1. /\ Append(s, e) \in Seq(D)
      /\ Len(Append(s, e)) = Len(s) + 1
      /\ Append(s, e) # <<>>
      /\ \A i \in 1..Len(s) : Append(s, e)[i] = s[i]
      /\ Append(s, e)[Len(s) + 1] = e
  OBVIOUS
<1>2. \A i \in 1..(Len(s) + 1) : i \in 1..Len(s) \/ i = Len(s) + 1
  OBVIOUS
<1>3. QED
  BY <1>1, <1>2 DEF Contents

\* Appending to the pending rows appends to the view.
LEMMA ConcatAppend ==
  ASSUME NEW D, NEW s \in Seq(D), NEW t \in Seq(D), NEW e \in D
  PROVE  s \o Append(t, e) = Append(s \o t, e)
OBVIOUS

LEMMA DistinctAppend ==
  ASSUME NEW D, NEW s \in Seq(D), NEW e \in D, Distinct(s), e \notin Contents(s)
  PROVE  Distinct(Append(s, e))
<1>1. \A i \in 1..(Len(s) + 1) : i \in 1..Len(s) \/ i = Len(s) + 1
  OBVIOUS
<1>2. DOMAIN Append(s, e) = 1..(Len(s) + 1) /\ DOMAIN s = 1..Len(s)
  OBVIOUS
<1>3. \A i \in 1..Len(s) : s[i] # e
  BY <1>2 DEF Contents
<1>4. QED
  BY <1>1, <1>2, <1>3, AppendFacts DEF Distinct

--------------------------------------------------------------------------------
(* Steps *)

LEMMA StagesFacts ==
  /\ InRegistration \subseteq InTransaction
  /\ InTransaction \subseteq Stages
  /\ {"new", "submitted", "undo", "unlink", "accepted", "replayed", "failed", "crashed"}
       \subseteq Stages \ InTransaction
BY DEF InRegistration, InTransaction, Stages, Settled

LEMMA StageNames ==
  {"new", "submitted", "locked", "writable", "store", "verify", "move", "sync", "lookup",
   "insert", "undo", "unlink", "accepted", "replayed", "failed", "crashed"} \subseteq Stages
BY DEF InRegistration, InTransaction, Stages, Settled

LEMMA UploadsType ==
  ASSUME NEW r \in Requests
  PROVE  /\ Uploads(r) \in Seq(Upload)
         /\ Batch[r].members \in Nat
         /\ Len(Uploads(r)) \in Nat
         /\ DOMAIN Uploads(r) = 1..Len(Uploads(r))
         /\ \A k \in DOMAIN Uploads(r) : Uploads(r)[k].path \in Paths
<1>1. /\ Uploads(r) \in Seq(Upload)
      /\ Batch[r].members \in Nat
      /\ Len(Uploads(r)) \in Nat
      /\ DOMAIN Uploads(r) = 1..Len(Uploads(r))
  BY DEF Uploads
<1>2. \A k \in DOMAIN Uploads(r) : Uploads(r)[k] \in Upload
  BY <1>1
<1>3. QED
  BY <1>1, <1>2 DEF Upload

LEMMA CurrentType ==
  ASSUME TypeOK, NEW r \in Requests, Remaining(r)
  PROVE  /\ item[r] \in DOMAIN Uploads(r)
         /\ Current(r) = Uploads(r)[item[r]]
         /\ Current(r) \in Upload
         /\ Current(r).path \in Paths
         /\ Current(r).digest \in Digests
<1>1. item[r] \in 1..Len(Uploads(r))
  BY UploadsType DEF TypeOK, Remaining, Uploads
<1>2. Uploads(r)[item[r]] \in Upload
  BY <1>1, UploadsType
<1>3. QED
  BY <1>1, <1>2, UploadsType DEF Current, Upload, Uploads

LEMMA ViewType ==
  ASSUME TypeOK, NEW r \in Requests, NEW p \in Paths
  PROVE  /\ versions[p] \in Seq(Digests)
         /\ pending[r][p] \in Seq(Digests)
         /\ Seen(r, p) \in Seq(Digests)
         /\ Contents(Seen(r, p)) = Contents(versions[p]) \cup Contents(pending[r][p])
         /\ Len(Seen(r, p)) = Len(versions[p]) + Len(pending[r][p])
         /\ Len(versions[p]) <= Len(Seen(r, p))
         /\ \A i \in 1..Len(versions[p]) : Seen(r, p)[i] = versions[p][i]
<1>1. versions[p] \in Seq(Digests) /\ pending[r][p] \in Seq(Digests)
  BY DEF TypeOK
<1>2. PICK s \in Seq(Digests), t \in Seq(Digests) : s = versions[p] /\ t = pending[r][p]
  BY <1>1
<1>3. Seen(r, p) = s \o t
  BY <1>2 DEF Seen
<1>4. /\ s \o t \in Seq(Digests)
      /\ Len(s \o t) = Len(s) + Len(t)
      /\ Len(s) <= Len(s \o t)
      /\ \A i \in 1..Len(s) : (s \o t)[i] = s[i]
      /\ Contents(s \o t) = Contents(s) \cup Contents(t)
  BY ConcatFacts
<1>5. QED
  BY <1>1, <1>2, <1>3, <1>4

LEMMA NoRowsType == NoRows \in [Paths -> Seq(Digests)]
BY DEF NoRows

\* The compensation touches objects, and what it remembers of them; it is in an operation on
\* one of them, or ends.
LEMMA CompensationFrame ==
  ASSUME TypeOK, NEW r \in Requests, Compensates(r)
  PROVE  /\ pc[r] \in {"undo", "unlink"} /\ pc'[r] \in {"undo", "unlink", "failed"}
         /\ \A q \in Requests \ {r} : pc'[q] = pc[q] /\ created'[q] = created[q]
         /\ UNCHANGED <<tables, fenced, staging, item, seen, pending>>
<1> USE DEF TypeOK
<1>1. CASE SkipObject(r) \/ FindObject(r)
  BY <1>1 DEF SkipObject, FindObject
<1>2. CASE UndoObject(r) \/ RaiseFailure(r)
  BY <1>2 DEF UndoObject, RaiseFailure
<1>3. CASE UndoCollides(r) \/ DeletionFails(r)
  BY <1>3 DEF UndoCollides, DeletionFails, AbandonUndo, tables
<1>4. QED
  BY <1>1, <1>2, <1>3 DEF Compensates

\* What a request may do to the others: nothing but commit rows they may see.
LEMMA OthersKept ==
  ASSUME TypeOK, NEW r \in Requests, Acts(r)
  PROVE  /\ fenced' = fenced
         /\ \A q \in Requests \ {r} :
              /\ pc'[q] = pc[q] /\ item'[q] = item[q] /\ seen'[q] = seen[q]
              /\ pending'[q] = pending[q] /\ staging'[q] = staging[q]
<1> USE DEF TypeOK, tables
<1>1. CASE Stage(r) \/ StageDamagedArchive(r)
  BY <1>1 DEF Stage, StageDamagedArchive
<1>2. CASE OpenBatch(r) \/ ReplayBatch(r)
  BY <1>2 DEF OpenBatch, ReplayBatch
<1>3. CASE ReadWorkspaceState(r) \/ InsertManifest(r)
  BY <1>3 DEF ReadWorkspaceState, InsertManifest
<1>4. CASE SeeObject(r) \/ KeepObject(r) \/ MissObject(r) \/ MoveObject(r) \/ RecordObject(r)
  BY <1>4 DEF SeeObject, KeepObject, MissObject, MoveObject, RecordObject
<1>5. CASE FindDuplicate(r) \/ FindNothing(r) \/ InsertVersion(r)
  BY <1>5 DEF FindDuplicate, FindNothing, InsertVersion, NextItem
<1>6. CASE CommitBatch(r)
  BY <1>6 DEF CommitBatch
<1>7. CASE Fail(r)
  BY <1>7 DEF Fail
<1>8. CASE Compensates(r)
  BY <1>8, CompensationFrame
<1>9. QED
  BY <1>1, <1>2, <1>3, <1>4, <1>5, <1>6, <1>7, <1>8
  DEF Acts, Compensates, Step, WorkspaceNotWritable, ObjectVanished, UniqueViolation,
      WriteFenceRejects, DeadlockVictim, StatementFails, CommitAnswerLost

\* The ways a step of a request touches the tables and its own rows.
Quiet(r) == /\ UNCHANGED <<versions, manifests, pending>>
            /\ pc[r] \in InRegistration => pc'[r] \in InRegistration

Drops(r) == /\ UNCHANGED <<versions, manifests>>
            /\ pending' = [pending EXCEPT ![r] = NoRows]
            /\ pc' = [pc EXCEPT ![r] = "undo"]

Commits(r) == /\ pc[r] = "store" /\ ~Remaining(r)
              /\ CommitRows(r)
              /\ pending' = [pending EXCEPT ![r] = NoRows]
              /\ pc'[r] \in {"accepted", "undo"}

LEMMA StepKinds ==
  ASSUME TypeOK, NEW r \in Requests, Acts(r)
  PROVE  Quiet(r) \/ Drops(r) \/ Commits(r) \/ InsertVersion(r)
<1> USE DEF TypeOK, tables, Quiet, InRegistration
<1>1. CASE Stage(r) \/ StageDamagedArchive(r)
  BY <1>1 DEF Stage, StageDamagedArchive
<1>2. CASE OpenBatch(r) \/ ReplayBatch(r)
  BY <1>2 DEF OpenBatch, ReplayBatch, LockManifest
<1>3. CASE ReadWorkspaceState(r) \/ InsertManifest(r)
  BY <1>3 DEF ReadWorkspaceState, InsertManifest
<1>4. CASE SeeObject(r) \/ KeepObject(r) \/ MissObject(r) \/ MoveObject(r) \/ RecordObject(r)
  BY <1>4 DEF SeeObject, KeepObject, MissObject, MoveObject, RecordObject
<1>5. CASE FindDuplicate(r) \/ FindNothing(r)
  BY <1>5 DEF FindDuplicate, FindNothing, NextItem
<1>6. CASE CommitBatch(r)
  BY <1>6 DEF CommitBatch, Commits
<1>7. CASE CommitAnswerLost(r)
  BY <1>7 DEF CommitAnswerLost, Commits, Fail
<1>8. CASE Fail(r) /\ UNCHANGED tables
  BY <1>8 DEF Fail, Drops
<1>9. CASE Compensates(r)
  BY <1>9, CompensationFrame
<1>10. QED
  BY <1>1, <1>2, <1>3, <1>4, <1>5, <1>6, <1>7, <1>8, <1>9
  DEF Step, WorkspaceNotWritable, ObjectVanished, UniqueViolation, WriteFenceRejects,
      DeadlockVictim, Acts, Compensates, StatementFails

--------------------------------------------------------------------------------
(* Types and the count of staged files *)

LEMMA InitTypeOK == Init => TypeOK
<1> SUFFICES ASSUME Init PROVE TypeOK
  OBVIOUS
<1>1. <<>> \in Seq(Digests) /\ 1 \in Nat \ {0} /\ MaxFaults \in 0..MaxFaults
  OBVIOUS
<1>2. /\ files \in SUBSET Digests
      /\ manifests \subseteq {Manifest(r) : r \in Requests}
      /\ fenced \in BOOLEAN
      /\ pc \in [Requests -> Stages]
  BY StageNames DEF Init
<1>3. QED
  BY <1>1, <1>2, NoRowsType DEF Init, TypeOK

LEMMA CommitRowsType ==
  ASSUME TypeOK, NEW r \in Requests, CommitRows(r)
  PROVE  /\ versions' \in [Paths -> Seq(Digests)]
         /\ manifests' \subseteq {Manifest(q) : q \in Requests}
<1>1. \A p \in Paths : Seen(r, p) \in Seq(Digests)
  BY ViewType
<1>2. versions' \in [Paths -> Seq(Digests)]
  BY <1>1 DEF CommitRows
<1>3. manifests' \subseteq {Manifest(q) : q \in Requests}
  BY DEF CommitRows, TypeOK
<1>4. QED
  BY <1>2, <1>3

LEMMA FailType ==
  ASSUME TypeOK, NEW r \in Requests, Fail(r)
  PROVE  /\ pc' \in [Requests -> Stages]
         /\ staging' \in [Requests -> Nat]
         /\ pending' \in [Requests -> [Paths -> Seq(Digests)]]
         /\ UNCHANGED <<files, fenced, item, seen, created>>
BY NoRowsType DEF Fail, TypeOK, Stages

LEMMA InsertType ==
  ASSUME TypeOK, NEW r \in Requests, Remaining(r), InsertVersion(r)
  PROVE  pending' \in [Requests -> [Paths -> Seq(Digests)]]
<1> DEFINE p == Current(r).path
           q == Append(pending[r][p], Current(r).digest)
<1>1. p \in Paths /\ q \in Seq(Digests)
  BY CurrentType, AppendFacts, ViewType
<1>2. [pending[r] EXCEPT ![p] = q] \in [Paths -> Seq(Digests)]
  BY <1>1 DEF TypeOK
<1>3. pending' = [pending EXCEPT ![r] = [pending[r] EXCEPT ![p] = q]]
  BY DEF InsertVersion
<1>4. QED
  BY <1>2, <1>3 DEF TypeOK

LEMMA StepTypeOK ==
  ASSUME TypeOK, CreatedIsOwn, StagingIsCounted, ReadsAreKept, NEW r \in Requests, Step(r)
  PROVE  TypeOK'
<1> USE StageNames DEF TypeOK
<1>0. Len(Uploads(r)) \in Nat /\ Batch[r].members \in Nat /\ Len(Batch[r].uploads) \in Nat
  BY UploadsType DEF Uploads
<1>1. CASE Stage(r) \/ StageDamagedArchive(r)
  <2>0. {"submitted", "failed"} \subseteq Stages
    BY DEF Stages, Settled
  <2>1. /\ pc' \in [Requests -> Stages]
        /\ staging' \in [Requests -> Nat]
    <3>1. CASE Stage(r)
      BY <1>0, <2>0, <3>1 DEF Stage
    <3>2. CASE StageDamagedArchive(r)
      BY <1>0, <2>0, <3>2 DEF StageDamagedArchive
    <3>3. QED
      BY <1>1, <3>1, <3>2
  <2>2. UNCHANGED <<files, tables, fenced, item, seen, pending, created, faults>>
    BY <1>1 DEF Stage, StageDamagedArchive
  <2>3. QED
    BY <2>1, <2>2 DEF tables
<1>2. CASE OpenBatch(r)
  BY <1>2 DEF OpenBatch, tables
<1>2a. CASE ReplayBatch(r)
  BY <1>2a DEF ReplayBatch, tables
<1>3. CASE ReadWorkspaceState(r)
  BY <1>3 DEF ReadWorkspaceState, tables
<1>3a. CASE InsertManifest(r)
  <2>1. pc' \in [Requests -> Stages] /\ item' \in [Requests -> Nat \ {0}]
    BY <1>3a DEF InsertManifest
  <2>2. UNCHANGED <<files, tables, fenced, staging, seen, pending, created, faults>>
    BY <1>3a DEF InsertManifest
  <2>3. QED
    BY <2>1, <2>2 DEF tables
<1>4. CASE SeeObject(r) \/ MissObject(r)
  <2>1. CASE SeeObject(r)
    BY <2>1 DEF SeeObject, tables
  <2>2. CASE MissObject(r)
    BY <2>2 DEF MissObject, tables
  <2>3. QED
    BY <1>4, <2>1, <2>2
<1>5. CASE KeepObject(r)
  <2>1. staging[r] - 1 \in Nat
    BY <1>5, <1>0 DEF KeepObject, StagingIsCounted, ReadsAreKept, Remaining, Uploads
  <2>2. QED
    BY <1>5, <2>1 DEF KeepObject, tables
<1>6. CASE MoveObject(r)
  <2>1. staging[r] - 1 \in Nat
    BY <1>6, <1>0 DEF MoveObject, StagingIsCounted, ReadsAreKept, Remaining, Uploads
  <2>2. Current(r).digest \in Digests
    BY <1>6, CurrentType DEF MoveObject, ReadsAreKept
  <2>3. QED
    BY <1>6, <2>1, <2>2 DEF MoveObject, tables
<1>6a. CASE RecordObject(r)
  <2>1. Current(r).digest \in Digests
    BY <1>6a, CurrentType DEF RecordObject, ReadsAreKept
  <2>2. Append(created[r], Current(r).digest) \in Seq(Digests)
    BY <2>1, AppendFacts
  <2>3. QED
    BY <1>6a, <2>2 DEF RecordObject, tables
<1>7. CASE FindDuplicate(r)
  BY <1>7 DEF FindDuplicate, NextItem, tables
<1>8. CASE FindNothing(r)
  <2>1. Len(Seen(r, Current(r).path)) \in Nat
    BY <1>8, CurrentType, ViewType DEF FindNothing, ReadsAreKept
  <2>2. QED
    BY <1>8, <2>1 DEF FindNothing, tables
<1>9. CASE InsertVersion(r)
  <2>1. pending' \in [Requests -> [Paths -> Seq(Digests)]]
    BY <1>9, InsertType DEF InsertVersion, ReadsAreKept
  <2>2. NextItem(r) /\ UNCHANGED <<files, tables, fenced, staging, seen, created, faults>>
    BY <1>9 DEF InsertVersion
  <2>3. pc' \in [Requests -> Stages] /\ item' \in [Requests -> Nat \ {0}]
    BY <2>2 DEF NextItem
  <2>4. QED
    BY <2>1, <2>2, <2>3 DEF tables
<1>10. CASE CommitBatch(r)
  <2>1. /\ versions' \in [Paths -> Seq(Digests)]
        /\ manifests' \subseteq {Manifest(q) : q \in Requests}
    BY <1>10, CommitRowsType DEF CommitBatch
  <2>2. QED
    BY <1>10, <2>1, NoRowsType DEF CommitBatch
<1>11. CASE SkipObject(r) \/ UndoObject(r)
  <2>1. Tail(created[r]) \in Seq(Digests)
    BY <1>11 DEF SkipObject, UndoObject, CreatedIsOwn
  <2>2. CASE SkipObject(r)
    BY <2>1, <2>2 DEF SkipObject, tables
  <2>3. CASE UndoObject(r)
    BY <2>1, <2>3 DEF UndoObject, tables
  <2>4. QED
    BY <1>11, <2>2, <2>3
<1>12. CASE FindObject(r) \/ RaiseFailure(r)
  <2>1. CASE FindObject(r)
    BY <2>1 DEF FindObject, tables
  <2>2. CASE RaiseFailure(r)
    BY <2>2 DEF RaiseFailure, tables
  <2>3. QED
    BY <1>12, <2>1, <2>2
<1>12a. CASE UndoCollides(r)
  BY <1>12a DEF UndoCollides, AbandonUndo, tables
<1>13. CASE Fail(r) /\ UNCHANGED <<tables, faults>>
  BY <1>13, FailType DEF tables
<1>14. QED
  BY <1>1, <1>2, <1>2a, <1>3, <1>3a, <1>4, <1>5, <1>6, <1>6a, <1>7, <1>8, <1>9, <1>10, <1>11,
     <1>12, <1>12a, <1>13
  DEF Step, WorkspaceNotWritable, ObjectVanished, UniqueViolation, WriteFenceRejects,
      DeadlockVictim

LEMMA DisturbanceTypeOK == TypeOK /\ Disturbance => TypeOK'
<1> SUFFICES ASSUME TypeOK, Disturbance
             PROVE  TypeOK'
  OBVIOUS
<1>0. Fault => faults' \in 0..MaxFaults
  BY DEF Fault, TypeOK
<1>1. CASE MoveFence
  BY <1>1 DEF MoveFence, TypeOK, tables, request
<1>2. CASE ProcessLost
  BY <1>0, <1>2, NoRowsType DEF ProcessLost, TypeOK, tables, Stages, Settled
<1>3. ASSUME NEW r \in Requests, StatementFails(r) \/ CommitAnswerLost(r)
      PROVE  TypeOK'
  <2>1. /\ versions' \in [Paths -> Seq(Digests)]
        /\ manifests' \subseteq {Manifest(q) : q \in Requests}
    BY <1>3, CommitRowsType DEF StatementFails, CommitAnswerLost, TypeOK, tables
  <2>2. Fail(r) /\ Fault
    BY <1>3 DEF StatementFails, CommitAnswerLost
  <2>3. QED
    BY <2>1, <2>2, <1>0, FailType DEF TypeOK
<1>4. ASSUME NEW r \in Requests, DeletionFails(r)
      PROVE  TypeOK'
  BY <1>0, <1>4, StageNames DEF DeletionFails, AbandonUndo, TypeOK, tables
<1>5. QED
  BY <1>1, <1>2, <1>3, <1>4 DEF Disturbance

LEMMA StagingStep ==
  ASSUME TypeOK, StagingIsCounted, ReadsAreKept, NEW r \in Requests,
         Acts(r)
  PROVE  StagingIsCounted'
<1>0. /\ Len(Uploads(r)) \in Nat /\ Uploads(r) = Batch[r].uploads
      /\ item[r] \in Nat \ {0} /\ staging[r] \in Nat
  BY UploadsType DEF Uploads, TypeOK
<1> DEFINE Counted(q) ==
      /\ pc[q] \in {"submitted", "locked", "writable"} => staging[q] = Len(Uploads(q))
      /\ pc[q] \in InRegistration => item[q] <= Len(Uploads(q)) + 1
      /\ pc[q] \in {"store", "verify", "move"} => staging[q] + item[q] = Len(Uploads(q)) + 1
      /\ pc[q] \in {"sync", "lookup", "insert"} => staging[q] + item[q] = Len(Uploads(q))
<1>1. \A q \in Requests \ {r} : Counted(q)'
  BY OthersKept DEF StagingIsCounted, Uploads
<1>2. Counted(r)'
  <2> USE <1>0 DEF StagingIsCounted, TypeOK, InRegistration, Uploads
  <2>1. CASE Stage(r) \/ StageDamagedArchive(r)
    BY <2>1 DEF Stage, StageDamagedArchive
  <2>2. CASE OpenBatch(r) \/ ReplayBatch(r)
    BY <2>2 DEF OpenBatch, ReplayBatch, LockManifest
  <2>3. CASE ReadWorkspaceState(r)
    BY <2>3 DEF ReadWorkspaceState
  <2>4. CASE InsertManifest(r)
    BY <2>4 DEF InsertManifest
  <2>5. CASE SeeObject(r) \/ MissObject(r)
    BY <2>5 DEF SeeObject, MissObject
  <2>a. /\ pc[r] \in {"verify", "move", "sync", "lookup", "insert"} => item[r] <= Len(Uploads(r))
        /\ pc[r] \in {"verify", "move"} => staging[r] - 1 + item[r] = Len(Uploads(r))
        /\ \A i, l \in Nat : i <= l => i + 1 <= l + 1
    BY DEF ReadsAreKept, Remaining
  <2>6. CASE KeepObject(r)
    <3>1. /\ pc'[r] = "lookup" /\ staging'[r] = staging[r] - 1 /\ item'[r] = item[r]
      BY <2>6 DEF KeepObject
    <3>2. QED
      BY <2>6, <2>a, <3>1 DEF KeepObject
  <2>7. CASE MoveObject(r)
    <3>1. /\ pc'[r] = "sync" /\ staging'[r] = staging[r] - 1 /\ item'[r] = item[r]
      BY <2>7 DEF MoveObject
    <3>2. QED
      BY <2>7, <2>a, <3>1 DEF MoveObject
  <2>7a. CASE RecordObject(r)
    BY <2>7a DEF RecordObject
  <2>8. CASE FindDuplicate(r)
    <3>1. /\ pc'[r] = "store" /\ staging'[r] = staging[r] /\ item'[r] = item[r] + 1
          /\ pc[r] = "lookup"
      BY <2>8 DEF FindDuplicate, NextItem
    <3>2. QED
      BY <2>a, <3>1
  <2>9. CASE FindNothing(r)
    BY <2>9 DEF FindNothing
  <2>10. CASE InsertVersion(r)
    <3>1. /\ pc'[r] = "store" /\ staging'[r] = staging[r] /\ item'[r] = item[r] + 1
          /\ pc[r] = "insert"
      BY <2>10 DEF InsertVersion, NextItem
    <3>2. QED
      BY <2>a, <3>1
  <2>11. CASE CommitBatch(r)
    BY <2>11 DEF CommitBatch
  <2>12. CASE Compensates(r)
    BY <2>12, CompensationFrame
  <2>14. CASE Fail(r)
    BY <2>14 DEF Fail
  <2>15. QED
    BY <2>1, <2>2, <2>3, <2>4, <2>5, <2>6, <2>7, <2>7a, <2>8, <2>9, <2>10, <2>11, <2>12,
       <2>14
    DEF Step, WorkspaceNotWritable, ObjectVanished, UniqueViolation, WriteFenceRejects,
        DeadlockVictim, Acts, Compensates, StatementFails, CommitAnswerLost
<1>3. QED
  BY <1>1, <1>2 DEF StagingIsCounted

LEMMA StagingRest == StagingIsCounted /\ (MoveFence \/ ProcessLost) => StagingIsCounted'
<1>1. CASE MoveFence
  BY <1>1 DEF MoveFence, StagingIsCounted, request, Uploads
<1>2. CASE ProcessLost
  BY <1>2 DEF ProcessLost, StagingIsCounted, Settled, InRegistration, Uploads
<1>3. QED
  BY <1>1, <1>2

--------------------------------------------------------------------------------
(* Phases and views *)

\* Only the advisory lock lets a request into a transaction, and one that reaches for an
\* upload has one.
LEMMA StepPhases ==
  ASSUME TypeOK, ReadsAreKept, NEW r \in Requests,
         Acts(r)
  PROVE  /\ pc'[r] \in InTransaction => pc[r] \in InTransaction \/ OpenBatch(r)
         /\ pc'[r] \in {"verify", "move", "sync", "lookup", "insert"} => Remaining(r)'
         /\ pc'[r] = "insert" => FindNothing(r)
         /\ pc'[r] \in InRegistration =>
              \/ InsertManifest(r) \/ FindDuplicate(r) \/ InsertVersion(r)
              \/ pc[r] \in InRegistration /\ item'[r] = item[r]
<1> USE DEF TypeOK, InRegistration, InTransaction, ReadsAreKept, Remaining
<1>1. CASE Stage(r) \/ StageDamagedArchive(r)
  BY <1>1 DEF Stage, StageDamagedArchive
<1>2. CASE OpenBatch(r) \/ ReplayBatch(r)
  BY <1>2 DEF OpenBatch, ReplayBatch
<1>3. CASE ReadWorkspaceState(r) \/ InsertManifest(r)
  BY <1>3 DEF ReadWorkspaceState, InsertManifest
<1>4. CASE SeeObject(r) \/ KeepObject(r) \/ MissObject(r) \/ MoveObject(r) \/ RecordObject(r)
  BY <1>4 DEF SeeObject, KeepObject, MissObject, MoveObject, RecordObject
<1>5. CASE FindDuplicate(r)
  BY <1>5 DEF FindDuplicate, NextItem
<1>6. CASE FindNothing(r)
  BY <1>6 DEF FindNothing
<1>7. CASE InsertVersion(r)
  BY <1>7 DEF InsertVersion, NextItem
<1>8. CASE CommitBatch(r)
  BY <1>8 DEF CommitBatch
<1>9. CASE Fail(r)
  BY <1>9 DEF Fail
<1>10. CASE Compensates(r)
  BY <1>10, CompensationFrame
<1>11. QED
  BY <1>1, <1>2, <1>3, <1>4, <1>5, <1>6, <1>7, <1>8, <1>9, <1>10
  DEF Acts, Compensates, Step, WorkspaceNotWritable, ObjectVanished, UniqueViolation,
      WriteFenceRejects, DeadlockVictim, StatementFails, CommitAnswerLost

\* What r inserts is new to the document it reads.
LEMMA InsertIsNew ==
  ASSUME TypeOK, ReadsAreKept, NEW r \in Requests, InsertVersion(r)
  PROVE  /\ Remaining(r)
         /\ Current(r).digest \notin Contents(Seen(r, Current(r).path))
<1>1. Remaining(r) /\ pc[r] = "insert"
  BY DEF InsertVersion, ReadsAreKept
<1>2. Current(r).path \in Paths
  BY <1>1, CurrentType
<1>3. seen[r] = Len(Seen(r, Current(r).path))
  BY DEF InsertVersion, Taken
<1>4. DOMAIN Seen(r, Current(r).path) = 1..Len(Seen(r, Current(r).path))
  BY <1>2, ViewType
<1>5. QED
  BY <1>1, <1>3, <1>4 DEF ReadsAreKept, Contents

LEMMA RowsAreOwnedStep ==
  ASSUME TypeOK, RowsAreOwned, ReadsAreKept, NEW r \in Requests,
         Acts(r)
  PROVE  RowsAreOwned'
<1>0. /\ fenced' = fenced
      /\ \A q \in Requests : q # r => pc'[q] = pc[q] /\ pending'[q] = pending[q]
  BY OthersKept
<1>o. \A a, b \in Requests : \A p \in Paths :
        pending[a][p] # <<>> /\ pending[b][p] # <<>> => a = b
  BY DEF RowsAreOwned
<1>1. CASE pending' = pending /\ (pc[r] \in InRegistration => pc'[r] \in InRegistration)
  <2>1. \A q \in Requests : pc'[q] \notin InRegistration => pending'[q] = NoRows
    BY <1>0, <1>1 DEF RowsAreOwned
  <2>2. QED
    BY <1>0, <1>1, <2>1 DEF RowsAreOwned
<1>2. CASE pending'[r] = NoRows
  <2>1. \A p \in Paths : pending'[r][p] = <<>>
    BY <1>2 DEF NoRows
  <2>2. \A q \in Requests : pc'[q] \notin InRegistration => pending'[q] = NoRows
    BY <1>0, <1>2 DEF RowsAreOwned
  <2>3. \A a, b \in Requests : \A p \in Paths :
          pending'[a][p] # <<>> /\ pending'[b][p] # <<>> => a = b
    <3>1. SUFFICES ASSUME NEW a \in Requests, NEW b \in Requests, NEW p \in Paths,
                          pending'[a][p] # <<>>, pending'[b][p] # <<>>
                   PROVE  a = b
      OBVIOUS
    <3>2. a # r /\ b # r
      BY <2>1, <3>1
    <3>3. pending'[a] = pending[a] /\ pending'[b] = pending[b]
      BY <1>0, <3>2
    <3>4. QED
      BY <1>o, <3>1, <3>3
  <2>4. fenced' => \A q \in Requests : pending'[q] = NoRows
    BY <1>0, <1>2 DEF RowsAreOwned
  <2>5. QED
    BY <2>2, <2>3, <2>4 DEF RowsAreOwned
<1>3. CASE InsertVersion(r)
  <2>1. /\ ~fenced /\ pc'[r] \in InRegistration
        /\ Remaining(r)
        /\ \A q \in Requests \ {r} : pending[q][Current(r).path] = <<>>
    BY <1>3, InsertIsNew DEF InsertVersion, Blocks, NextItem, TypeOK, InRegistration
  <2>2. \A p \in Paths \ {Current(r).path} : pending'[r][p] = pending[r][p]
    BY <1>3 DEF InsertVersion, TypeOK
  <2>3. \A q \in Requests : pc'[q] \notin InRegistration => pending'[q] = NoRows
    BY <1>0, <2>1 DEF RowsAreOwned
  <2>4. \A q \in Requests \ {r} : \A p \in Paths :
          pending'[q][p] # <<>> => pending'[r][p] = <<>>
    BY <1>0, <2>1, <2>2 DEF RowsAreOwned
  <2>5. \A a, b \in Requests : \A p \in Paths :
          pending'[a][p] # <<>> /\ pending'[b][p] # <<>> => a = b
    <3>1. SUFFICES ASSUME NEW a \in Requests, NEW b \in Requests, NEW p \in Paths,
                          pending'[a][p] # <<>>, pending'[b][p] # <<>>, a # b
                   PROVE  FALSE
      OBVIOUS
    <3>2. CASE a = r \/ b = r
      BY <2>4, <3>1, <3>2
    <3>3. CASE a # r /\ b # r
      <4>1. pending'[a] = pending[a] /\ pending'[b] = pending[b]
        BY <1>0, <3>3
      <4>2. QED
        BY <1>o, <3>1, <4>1
    <3>4. QED
      BY <3>2, <3>3
  <2>6. QED
    BY <1>0, <2>1, <2>3, <2>5 DEF RowsAreOwned
<1>4. QED
  BY <1>1, <1>2, <1>3, StepKinds DEF Quiet, Drops, Commits, TypeOK

LEMMA RowsAreOwnedRest ==
  TypeOK /\ RowsAreOwned /\ (MoveFence \/ ProcessLost) => RowsAreOwned'
<1>1. CASE MoveFence
  BY <1>1 DEF MoveFence, RowsAreOwned, request, HoldsWorkspaceRow
<1>2. CASE ProcessLost
  BY <1>2 DEF ProcessLost, RowsAreOwned, NoRows
<1>3. QED
  BY <1>1, <1>2

\* What a step of r makes of the versions of a document and of the view q has of it.
VersionsKept(p)  == versions'[p] = versions[p]
VersionsFrom(r, p) == Commits(r) /\ versions'[p] = Seen(r, p)

ViewKept(q, p)     == Seen(q, p)' = Seen(q, p)
ViewDropped(q, p)  == pc'[q] = "undo" /\ Seen(q, p)' = versions[p]
ViewExtended(r, q, p) == Seen(q, p) = versions[p] /\ Seen(q, p)' = Seen(r, p)
ViewAppended(q, p) == /\ InsertVersion(q) /\ p = Current(q).path
                      /\ Seen(q, p)' = Append(Seen(q, p), Current(q).digest)

LEMMA VersionsStep ==
  ASSUME TypeOK, NEW r \in Requests, NEW p \in Paths,
         Acts(r)
  PROVE  VersionsKept(p) \/ VersionsFrom(r, p)
<1>1. CASE Commits(r)
  BY <1>1 DEF Commits, CommitRows, VersionsFrom
<1>2. CASE InsertVersion(r)
  BY <1>2 DEF InsertVersion, VersionsKept, tables
<1>3. QED
  BY <1>1, <1>2, StepKinds DEF Quiet, Drops, VersionsKept

LEMMA ViewsStep ==
  ASSUME TypeOK, RowsAreOwned, ReadsAreKept, NEW r \in Requests, NEW q \in Requests,
         NEW p \in Paths, Acts(r)
  PROVE  \/ ViewKept(q, p)
         \/ q = r /\ ViewDropped(r, p)
         \/ q # r /\ Commits(r) /\ ViewExtended(r, q, p)
         \/ q = r /\ ViewAppended(r, p)
<1>0. /\ Seen(q, p)' = versions'[p] \o pending'[q][p]
      /\ Seen(q, p) = versions[p] \o pending[q][p]
      /\ Seen(r, p) = versions[p] \o pending[r][p]
  BY DEF Seen
<1>t. /\ versions[p] \in Seq(Digests) /\ pending[r][p] \in Seq(Digests)
      /\ pending[q][p] \in Seq(Digests) /\ Seen(r, p) \in Seq(Digests)
  BY ViewType
<1>e. \A s \in Seq(Digests) : s \o <<>> = s
  OBVIOUS
<1>1. CASE Quiet(r)
  BY <1>0, <1>1 DEF Quiet, ViewKept
<1>2. CASE Drops(r)
  <2>1. CASE q = r
    <3>1. pending'[q][p] = <<>> /\ versions'[p] = versions[p] /\ pc'[q] = "undo"
      BY <1>2, <2>1 DEF Drops, NoRows, TypeOK
    <3>2. QED
      BY <1>0, <1>t, <1>e, <2>1, <3>1 DEF ViewDropped
  <2>2. CASE q # r
    BY <1>0, <1>2, <2>2 DEF Drops, ViewKept, TypeOK
  <2>3. QED
    BY <2>1, <2>2
<1>3. CASE Commits(r)
  <2>0. versions'[p] = Seen(r, p)
    BY <1>3 DEF Commits, CommitRows
  <2>1. CASE q = r
    <3>1. pending'[q][p] = <<>>
      BY <1>3, <2>1 DEF Commits, NoRows, TypeOK
    <3>2. QED
      BY <1>0, <1>t, <1>e, <2>0, <2>1, <3>1 DEF ViewKept
  <2>2. CASE q # r
    <3>0. pending'[q] = pending[q]
      BY <1>3, <2>2 DEF Commits, TypeOK
    <3>1. pending[q][p] = <<>> \/ pending[r][p] = <<>>
      BY <2>2 DEF RowsAreOwned
    <3>2. CASE pending[q][p] = <<>>
      <4>1. Seen(q, p) = versions[p] /\ Seen(q, p)' = Seen(r, p)
        BY <1>0, <1>t, <1>e, <2>0, <3>0, <3>2
      <4>2. QED
        BY <1>3, <2>2, <4>1 DEF ViewExtended
    <3>3. CASE pending[r][p] = <<>>
      <4>1. versions'[p] = versions[p]
        BY <1>0, <1>t, <1>e, <2>0, <3>3
      <4>2. QED
        BY <1>0, <3>0, <4>1 DEF ViewKept
    <3>4. QED
      BY <3>1, <3>2, <3>3
  <2>3. QED
    BY <2>1, <2>2
<1>4. CASE InsertVersion(r)
  <2>0. versions' = versions
    BY <1>4 DEF InsertVersion, tables
  <2>1. CASE q = r /\ p = Current(r).path
    <3>1. pending'[q][p] = Append(pending[q][p], Current(r).digest)
      BY <1>4, <2>1 DEF InsertVersion, TypeOK
    <3>2. Current(r).digest \in Digests
      BY <1>4, InsertIsNew, CurrentType
    <3>3. Seen(q, p)' = Append(Seen(q, p), Current(r).digest)
      <4>1. versions[p] \o Append(pending[q][p], Current(r).digest)
              = Append(versions[p] \o pending[q][p], Current(r).digest)
        <5>1. \A s, t \in Seq(Digests) : \A e \in Digests : s \o Append(t, e) = Append(s \o t, e)
          BY ConcatAppend
        <5>2. QED
          BY <1>t, <3>2, <5>1
      <4>2. QED
        BY <1>0, <2>0, <3>1, <4>1
    <3>4. QED
      BY <1>4, <2>1, <3>3 DEF ViewAppended
  <2>2. CASE ~(q = r /\ p = Current(r).path)
    <3>1. pending'[q][p] = pending[q][p]
      BY <1>4, <2>2 DEF InsertVersion, TypeOK
    <3>2. QED
      BY <1>0, <2>0, <3>1 DEF ViewKept
  <2>3. QED
    BY <2>1, <2>2
<1>5. QED
  BY <1>1, <1>2, <1>3, <1>4, StepKinds

--------------------------------------------------------------------------------
(* Steps of a request keep the invariant *)

LEMMA ViewsAreDistinctStep ==
  ASSUME TypeOK, RowsAreOwned, ReadsAreKept, ViewsAreDistinct, OneVersionPerContent,
         NEW r \in Requests, Acts(r)
  PROVE  ViewsAreDistinct' /\ OneVersionPerContent'
<1>1. ASSUME NEW q \in Requests, NEW p \in Paths
      PROVE  Distinct(Seen(q, p)')
  <2>1. CASE ViewKept(q, p)
    BY <2>1 DEF ViewKept, ViewsAreDistinct
  <2>2. CASE q = r /\ ViewDropped(r, p)
    BY <2>2 DEF ViewDropped, OneVersionPerContent, Distinct
  <2>3. CASE ViewExtended(r, q, p)
    BY <2>3 DEF ViewExtended, ViewsAreDistinct
  <2>4. CASE q = r /\ ViewAppended(r, p)
    <3>1. /\ Distinct(Seen(r, p)) /\ Seen(r, p) \in Seq(Digests)
          /\ Current(r).digest \in Digests
          /\ Current(r).digest \notin Contents(Seen(r, p))
      BY <2>4, InsertIsNew, CurrentType, ViewType DEF ViewAppended, ViewsAreDistinct
    <3>2. QED
      BY <2>4, <3>1, DistinctAppend DEF ViewAppended
  <2>5. QED
    BY <2>1, <2>2, <2>3, <2>4, ViewsStep
<1>2. ASSUME NEW p \in Paths
      PROVE  Distinct(versions'[p])
  <2>1. CASE VersionsKept(p)
    BY <2>1 DEF VersionsKept, OneVersionPerContent, Distinct
  <2>2. CASE VersionsFrom(r, p)
    BY <2>2 DEF VersionsFrom, ViewsAreDistinct
  <2>3. QED
    BY <2>1, <2>2, VersionsStep
<1>3. ViewsAreDistinct'
  BY <1>1 DEF ViewsAreDistinct, Distinct
<1>4. OneVersionPerContent'
  BY <1>2 DEF OneVersionPerContent, Distinct
<1>5. QED
  BY <1>3, <1>4

\* A view that is not dropped keeps its contents.
LEMMA ViewsGrow ==
  ASSUME TypeOK, RowsAreOwned, ReadsAreKept, NEW r \in Requests, NEW q \in Requests,
         NEW p \in Paths, Acts(r),
         q # r \/ pc'[r] # "undo"
  PROVE  /\ Contents(Seen(q, p)) \subseteq Contents(Seen(q, p)')
         /\ q # r => /\ Len(Seen(q, p)) <= Len(Seen(q, p)')
                     /\ \A i \in 1..Len(Seen(q, p)) : Seen(q, p)'[i] = Seen(q, p)[i]
<1>1. CASE ViewKept(q, p)
  <2>1. Len(Seen(q, p)) \in Nat
    BY ViewType
  <2>2. QED
    BY <1>1, <2>1 DEF ViewKept
<1>2. CASE ViewExtended(r, q, p)
  <2>1. Seen(q, p) = versions[p] /\ Seen(q, p)' = Seen(r, p)
    BY <1>2 DEF ViewExtended
  <2>2. /\ Contents(versions[p]) \subseteq Contents(Seen(r, p))
        /\ Len(versions[p]) <= Len(Seen(r, p))
        /\ \A i \in 1..Len(versions[p]) : Seen(r, p)[i] = versions[p][i]
    BY ViewType
  <2>3. QED
    BY <2>1, <2>2
<1>3. CASE q = r /\ ViewAppended(r, p)
  <2>1. Seen(r, p) \in Seq(Digests) /\ Current(r).digest \in Digests
    BY <1>3, InsertIsNew, CurrentType, ViewType DEF ViewAppended
  <2>2. QED
    BY <1>3, <2>1, AppendFacts DEF ViewAppended
<1>4. QED
  BY <1>1, <1>2, <1>3, ViewsStep DEF ViewDropped

LEMMA ReadsAreKeptStep ==
  ASSUME TypeOK, RowsAreOwned, ReadsAreKept, NEW r \in Requests,
         Acts(r)
  PROVE  ReadsAreKept'
<1>1. ASSUME NEW q \in Requests, pc'[q] \in {"verify", "move", "sync", "lookup", "insert"}
      PROVE  Remaining(q)'
  <2>1. CASE q = r
    BY <1>1, <2>1, StepPhases DEF ReadsAreKept, Remaining
  <2>2. CASE q # r
    <3>1. pc'[q] = pc[q] /\ item'[q] = item[q]
      BY <2>2, OthersKept
    <3>2. QED
      BY <1>1, <3>1 DEF ReadsAreKept, Remaining
  <2>3. QED
    BY <2>1, <2>2
<1>2. ASSUME NEW q \in Requests, pc'[q] = "insert"
      PROVE  /\ seen'[q] <= Len(Seen(q, Current(q).path)')
             /\ \A i \in 1..seen'[q] : Seen(q, Current(q).path)'[i] # Current(q)'.digest
  <2>1. CASE q = r
    <3>1. FindNothing(r)
      BY <1>2, <2>1, StepPhases
    <3>2. /\ Remaining(r) /\ Current(r)' = Current(r)
          /\ seen'[r] = Len(Seen(r, Current(r).path))
          /\ Seen(r, Current(r).path)' = Seen(r, Current(r).path)
          /\ Current(r).digest \notin Contents(Seen(r, Current(r).path))
      BY <3>1, Zenon DEF FindNothing, ReadsAreKept, Current, Seen, TypeOK, tables
    <3>3. Seen(r, Current(r).path) \in Seq(Digests)
      BY <3>2, CurrentType, ViewType, Zenon
    <3>4. DOMAIN Seen(r, Current(r).path) = 1..Len(Seen(r, Current(r).path))
      BY <3>3
    <3>5. Len(Seen(r, Current(r).path)) <= Len(Seen(r, Current(r).path))
      BY <3>3
    <3>6. QED
      BY <2>1, <3>2, <3>4, <3>5, Zenon DEF Contents
  <2>2. CASE q # r
    <3>1. /\ pc[q] = "insert" /\ seen'[q] = seen[q]
          /\ Current(q)' = Current(q)
      BY <1>2, <2>2, OthersKept DEF Current
    <3>2. /\ Current(q).path \in Paths
          /\ seen[q] \in Nat /\ seen[q] <= Len(Seen(q, Current(q).path))
          /\ \A i \in 1..seen[q] : Seen(q, Current(q).path)[i] # Current(q).digest
      BY <3>1, CurrentType DEF ReadsAreKept, TypeOK
    <3>p. PICK p \in Paths : p = Current(q).path
      BY <3>2
    <3>3. /\ Len(Seen(q, p)) <= Len(Seen(q, p)')
          /\ \A i \in 1..Len(Seen(q, p)) : Seen(q, p)'[i] = Seen(q, p)[i]
          /\ Len(Seen(q, p)) \in Nat
      <4>1. Len(Seen(q, p)) \in Nat
        BY ViewType
      <4>2. QED
        BY <2>2, <4>1, ViewsGrow
    <3>4. Seen(q, Current(q).path)' = Seen(q, p)'
      BY <3>1, <3>p DEF Seen
    <3>5. seen[q] <= Len(Seen(q, p)) /\ \A i \in 1..seen[q] : Seen(q, p)[i] # Current(q).digest
      BY <3>2, <3>p
    <3>7. Len(Seen(q, p)') \in Nat
      BY <3>3
    <3>8. /\ seen[q] <= Len(Seen(q, p)')
          /\ \A i \in 1..seen[q] : i \in 1..Len(Seen(q, p))
      BY <3>2, <3>3, <3>5
    <3>9. QED
      BY <3>1, <3>3, <3>4, <3>5, <3>8
  <2>3. QED
    BY <2>1, <2>2
<1>3. QED
  BY <1>1, <1>2 DEF ReadsAreKept

LEMMA ProgressStep ==
  ASSUME TypeOK, RowsAreOwned, ReadsAreKept, ProgressIsVisible, NEW r \in Requests,
         Acts(r)
  PROVE  ProgressIsVisible'
<1>1. ASSUME NEW q \in Requests, pc'[q] \in InRegistration,
             NEW k \in 1..(item'[q] - 1), k \in DOMAIN Uploads(q)
      PROVE  Uploads(q)[k].digest \in Contents(Seen(q, Uploads(q)[k].path)')
  <2>0. /\ Uploads(q)[k].path \in Paths
        /\ q # r \/ pc'[r] # "undo"
        /\ k \in Nat /\ k >= 1
    BY <1>1, UploadsType DEF InRegistration
  <2>p. PICK p \in Paths : p = Uploads(q)[k].path
    BY <2>0
  <2>g. Contents(Seen(q, p)) \subseteq Contents(Seen(q, p)')
    BY <2>0, ViewsGrow
  <2>1. CASE pc[q] \in InRegistration /\ item'[q] = item[q]
    <3>1. Uploads(q)[k].digest \in Contents(Seen(q, p))
      BY <1>1, <2>1, <2>p DEF ProgressIsVisible
    <3>2. QED
      BY <2>g, <2>p, <3>1 DEF Uploads
  <2>2. CASE q = r /\ InsertManifest(r)
    <3>1. item'[r] = 1
      BY <2>2 DEF InsertManifest, TypeOK
    <3>2. QED
      BY <1>1, <2>2, <3>1
  <2>3. CASE q = r /\ (FindDuplicate(r) \/ InsertVersion(r))
    <3>1. item'[r] = item[r] + 1 /\ pc[r] \in InRegistration /\ item[r] \in Nat
      BY <2>3 DEF FindDuplicate, InsertVersion, NextItem, InRegistration, TypeOK
    <3>2. CASE k \in 1..(item[r] - 1)
      <4>1. Uploads(q)[k].digest \in Contents(Seen(q, p))
        BY <1>1, <2>3, <2>p, <3>1, <3>2 DEF ProgressIsVisible
      <4>2. QED
        BY <2>g, <2>p, <4>1 DEF Uploads
    <3>3. CASE k = item[r]
      <4>1. Current(r) = Uploads(r)[k]
        BY <3>3 DEF Current, Uploads
      <4>2. CASE FindDuplicate(r)
        <5>1. Uploads(q)[k].digest \in Contents(Seen(q, p))
          BY <2>3, <2>p, <4>1, <4>2 DEF FindDuplicate
        <5>2. QED
          BY <2>g, <2>p, <5>1 DEF Uploads
      <4>3. CASE InsertVersion(r)
        <5>1. Current(r).digest \in Digests
          BY <4>3, InsertIsNew, CurrentType
        <5>2. /\ pending'[r][p] = Append(pending[r][p], Current(r).digest)
              /\ versions' = versions
          BY <2>p, <2>3, <4>1, <4>3 DEF InsertVersion, TypeOK, tables
        <5>3. /\ pending[r][p] \in Seq(Digests) /\ versions[p] \in Seq(Digests)
          BY ViewType
        <5>4. /\ Append(pending[r][p], Current(r).digest) \in Seq(Digests)
              /\ Current(r).digest \in Contents(Append(pending[r][p], Current(r).digest))
          BY <5>1, <5>3, AppendFacts
        <5>5. Current(r).digest \in Contents(versions[p] \o Append(pending[r][p], Current(r).digest))
          <6>1. \A s, t \in Seq(Digests) : Contents(t) \subseteq Contents(s \o t)
            BY ConcatFacts
          <6>2. QED
            BY <5>3, <5>4, <6>1
        <5>6. Current(r).digest \in Contents(Seen(r, p)')
          BY <5>2, <5>5 DEF Seen
        <5>7. QED
          BY <2>3, <2>p, <4>1, <5>6 DEF Uploads
      <4>4. QED
        BY <2>3, <4>2, <4>3
    <3>4. k \in 1..(item[r] - 1) \/ k = item[r]
      BY <1>1, <2>3, <3>1
    <3>5. QED
      BY <3>2, <3>3, <3>4
  <2>4. QED
    BY <1>1, <2>1, <2>2, <2>3, StepPhases, OthersKept
<1>2. ASSUME NEW q \in Requests, NEW p \in Paths, NEW d \in Contents(pending'[q][p])
      PROVE  [path |-> p, digest |-> d] \in Contents(Uploads(q))
  <2>1. CASE pending'[q][p] = pending[q][p]
    BY <1>2, <2>1 DEF ProgressIsVisible
  <2>2. CASE pending'[q][p] = <<>>
    BY <1>2, <2>2 DEF Contents
  <2>3. CASE q = r /\ InsertVersion(r) /\ p = Current(r).path
    <3>1. /\ Current(r) \in Upload /\ Current(r).digest \in Digests
          /\ Current(r) \in Contents(Uploads(r))
      BY <2>3, InsertIsNew, CurrentType DEF Contents
    <3>2. Current(r) = [path |-> Current(r).path, digest |-> Current(r).digest]
      BY <3>1 DEF Upload
    <3>3. pending'[q][p] = Append(pending[q][p], Current(r).digest)
      BY <2>3 DEF InsertVersion, TypeOK
    <3>4. d \in Contents(pending[q][p]) \/ d = Current(r).digest
      <4>1. pending[q][p] \in Seq(Digests)
        BY ViewType
      <4>2. Contents(Append(pending[q][p], Current(r).digest))
              = Contents(pending[q][p]) \cup {Current(r).digest}
        BY <3>1, <4>1, AppendFacts
      <4>3. QED
        BY <1>2, <3>3, <4>2
    <3>5. QED
      BY <2>3, <3>1, <3>2, <3>4 DEF ProgressIsVisible
  <2>4. \/ pending'[q][p] = pending[q][p] \/ pending'[q][p] = <<>>
        \/ q = r /\ InsertVersion(r) /\ p = Current(r).path
    <3>1. CASE q # r
      BY <3>1, OthersKept
    <3>2. CASE Quiet(r)
      BY <3>2 DEF Quiet
    <3>3. CASE q = r /\ (Drops(r) \/ Commits(r))
      BY <3>3 DEF Drops, Commits, NoRows, TypeOK
    <3>4. CASE q = r /\ InsertVersion(r)
      BY <3>4 DEF InsertVersion, TypeOK
    <3>5. QED
      BY <3>1, <3>2, <3>3, <3>4, StepKinds
  <2>5. QED
    BY <2>1, <2>2, <2>3, <2>4
<1>3. QED
  <2>1. ASSUME NEW q \in Requests, pc'[q] \in InRegistration
        PROVE  \A k \in 1..(item'[q] - 1) : k \in DOMAIN Uploads(q) =>
                 Uploads(q)[k].digest \in Contents(Seen(q, Uploads(q)[k].path)')
    BY <1>1, <2>1
  <2>2. QED
    BY <1>2, <2>1 DEF ProgressIsVisible, Uploads

LEMMA ManifestsAreLockedStep ==
  ASSUME TypeOK, ReadsAreKept, ManifestsAreLocked, NEW r \in Requests,
         Acts(r)
  PROVE  ManifestsAreLocked'
<1>0. /\ \A q \in Requests : q # r => pc'[q] = pc[q]
      /\ pc'[r] \in InTransaction => pc[r] \in InTransaction \/ OpenBatch(r)
  BY OthersKept, StepPhases
<1>1. ASSUME NEW a \in Requests, NEW b \in Requests,
             pc'[a] \in InTransaction, pc'[b] \in InTransaction, Manifest(a) = Manifest(b)
      PROVE  a = b
  <2>1. CASE ~OpenBatch(r)
    BY <1>0, <1>1, <2>1 DEF ManifestsAreLocked
  <2>2. CASE OpenBatch(r)
    BY <1>0, <1>1, <2>2 DEF ManifestsAreLocked, OpenBatch, LockManifest
  <2>3. QED
    BY <2>1, <2>2
<1>2. ASSUME NEW q \in Requests, pc'[q] \in InTransaction
      PROVE  Manifest(q) \notin manifests'
  <2>1. CASE manifests' = manifests
    BY <1>0, <1>2, <2>1 DEF ManifestsAreLocked, OpenBatch
  <2>2. CASE Commits(r)
    <3>1. /\ pc[r] \in InTransaction /\ pc'[r] \notin InTransaction
          /\ manifests' = manifests \cup {Manifest(r)}
      BY <2>2 DEF Commits, CommitRows, InTransaction, InRegistration
    <3>2. q # r /\ pc[q] \in InTransaction
      BY <1>0, <1>2, <3>1
    <3>3. QED
      BY <3>1, <3>2 DEF ManifestsAreLocked
  <2>3. QED
    BY <2>1, <2>2, StepKinds DEF Quiet, Drops, InsertVersion, tables
<1>3. QED
  BY <1>1, <1>2 DEF ManifestsAreLocked, Manifest

\* A commit brings exactly what the batch carries.
LEMMA CommitIsWhole ==
  ASSUME TypeOK, ReadsAreKept, ProgressIsVisible, NEW r \in Requests, Commits(r)
  PROVE  /\ \A u \in Contents(Uploads(r)) : u.digest \in Contents(versions'[u.path])
         /\ \A p \in Paths : \A d \in Contents(versions'[p]) :
              d \in Contents(versions[p]) \/ [path |-> p, digest |-> d] \in Contents(Uploads(r))
<1>0. /\ pc[r] \in InRegistration
      /\ \A p \in Paths : versions'[p] = Seen(r, p)
      /\ item[r] > Len(Uploads(r)) /\ item[r] \in Nat
  BY UploadsType DEF Commits, CommitRows, InRegistration, Remaining, Uploads, TypeOK
<1>1. ASSUME NEW k \in 1..Len(Uploads(r))
      PROVE  Uploads(r)[k].digest \in Contents(versions'[Uploads(r)[k].path])
  <2>1. k \in 1..(item[r] - 1) /\ k \in DOMAIN Uploads(r)
    BY <1>0, UploadsType
  <2>2. Uploads(r)[k].path \in Paths
    BY <2>1, UploadsType
  <2>3. QED
    BY <1>0, <2>1, <2>2 DEF ProgressIsVisible
<1>2. ASSUME NEW p \in Paths, NEW d \in Contents(versions'[p])
      PROVE  d \in Contents(versions[p]) \/ [path |-> p, digest |-> d] \in Contents(Uploads(r))
  <2>1. Contents(versions'[p]) = Contents(versions[p]) \cup Contents(pending[r][p])
    BY <1>0, ViewType
  <2>2. QED
    BY <1>2, <2>1 DEF ProgressIsVisible
<1>3. ASSUME NEW u \in Contents(Uploads(r))
      PROVE  u.digest \in Contents(versions'[u.path])
  <2>1. PICK k \in DOMAIN Uploads(r) : u = Uploads(r)[k]
    BY DEF Contents
  <2>2. k \in 1..Len(Uploads(r))
    BY UploadsType
  <2>3. QED
    BY <1>1, <2>1, <2>2
<1>4. QED
  BY <1>2, <1>3

LEMMA BatchesAreAtomicStep ==
  ASSUME TypeOK, RowsAreOwned, ReadsAreKept, ProgressIsVisible, BatchesAreAtomic,
         NEW r \in Requests, Acts(r)
  PROVE  BatchesAreAtomic'
<1>1. CASE UNCHANGED <<versions, manifests>>
  BY <1>1 DEF BatchesAreAtomic
<1>2. CASE Commits(r)
  <2>0. /\ manifests' = manifests \cup {Manifest(r)}
        /\ Manifest(r).uploads = Uploads(r)
        /\ \A p \in Paths : versions'[p] = Seen(r, p)
    BY <1>2 DEF Commits, CommitRows, Manifest, Uploads
  <2>g. \A p \in Paths : Contents(versions[p]) \subseteq Contents(versions'[p])
    BY <2>0, ViewType
  <2>w. /\ \A u \in Contents(Uploads(r)) : u.digest \in Contents(versions'[u.path])
        /\ \A p \in Paths : \A d \in Contents(versions'[p]) :
             d \in Contents(versions[p]) \/ [path |-> p, digest |-> d] \in Contents(Uploads(r))
    BY <1>2, CommitIsWhole
  <2>1. ASSUME NEW mm \in manifests', NEW k \in DOMAIN mm.uploads
        PROVE  mm.uploads[k].digest \in Contents(versions'[mm.uploads[k].path])
    <3>1. CASE mm \in manifests
      <4>1. PICK q \in Requests : mm.uploads = Uploads(q)
        BY <3>1 DEF TypeOK, Manifest, Uploads
      <4>2. mm.uploads[k].path \in Paths
        BY <4>1, UploadsType
      <4>3. mm.uploads[k].digest \in Contents(versions[mm.uploads[k].path])
        BY <3>1 DEF BatchesAreAtomic
      <4>4. QED
        BY <2>g, <4>2, <4>3
    <3>2. CASE mm = Manifest(r)
      <4>1. k \in DOMAIN Uploads(r) /\ mm.uploads[k] = Uploads(r)[k]
        BY <2>0, <2>1, <3>2
      <4>2. Uploads(r)[k] \in Contents(Uploads(r))
        BY <4>1 DEF Contents
      <4>3. QED
        BY <2>w, <4>1, <4>2
    <3>3. QED
      BY <2>0, <3>1, <3>2
  <2>2. ASSUME NEW p \in Paths, NEW d \in Contents(versions'[p])
        PROVE  \E mm \in manifests' : [path |-> p, digest |-> d] \in Contents(mm.uploads)
    <3>1. CASE d \in Contents(versions[p])
      BY <2>0, <3>1 DEF BatchesAreAtomic
    <3>2. CASE [path |-> p, digest |-> d] \in Contents(Uploads(r))
      BY <2>0, <3>2
    <3>3. QED
      BY <2>2, <2>w, <3>1, <3>2
  <2>3. QED
    BY <2>1, <2>2 DEF BatchesAreAtomic
<1>3. QED
  BY <1>1, <1>2, StepKinds DEF Quiet, Drops, InsertVersion, tables

--------------------------------------------------------------------------------
(* Objects *)

LEMMA TailFacts ==
  ASSUME NEW D, NEW s \in Seq(D), s # <<>>
  PROVE  Head(s) \in Contents(s) /\ Contents(s) = {Head(s)} \cup Contents(Tail(s))
<1>1. /\ Len(s) \in Nat /\ Len(s) >= 1 /\ DOMAIN s = 1..Len(s) /\ Head(s) = s[1]
      /\ Tail(s) \in Seq(D) /\ DOMAIN Tail(s) = 1..(Len(s) - 1)
      /\ \A i \in 1..(Len(s) - 1) : Tail(s)[i] = s[i + 1]
  OBVIOUS
<1>2. \A i \in 1..Len(s) : i = 1 \/ \E k \in 1..(Len(s) - 1) : k + 1 = i
  <2>1. ASSUME NEW i \in 1..Len(s), i # 1
        PROVE  (i - 1) \in 1..(Len(s) - 1) /\ (i - 1) + 1 = i
    BY <1>1, <2>1
  <2>2. QED
    BY <2>1
<1>3. \A i \in 1..(Len(s) - 1) : i + 1 \in 1..Len(s)
  BY <1>1
<1>4. 1 \in 1..Len(s)
  BY <1>1
<1>5. Head(s) \in Contents(s)
  BY <1>1, <1>4 DEF Contents
<1>6. ASSUME NEW i \in 1..Len(s)
      PROVE  s[i] \in {Head(s)} \cup Contents(Tail(s))
  <2>1. CASE i = 1
    BY <1>1, <2>1
  <2>2. ASSUME NEW k \in 1..(Len(s) - 1), k + 1 = i
        PROVE  s[i] \in Contents(Tail(s))
    BY <1>1, <2>2 DEF Contents
  <2>3. QED
    BY <1>2, <2>1, <2>2
<1>7. Contents(Tail(s)) \subseteq Contents(s)
  BY <1>1, <1>3 DEF Contents
<1>8. QED
  BY <1>1, <1>5, <1>6, <1>7 DEF Contents

\* The ways a step of a request touches the object plane and what is remembered of it.
LEMMA ObjectKinds ==
  ASSUME TypeOK, NEW r \in Requests, Acts(r)
  PROVE  /\ UNCHANGED files \/ MoveObject(r) \/ UndoObject(r)
         /\ \/ UNCHANGED created
            \/ RecordObject(r) \/ CommitBatch(r) \/ SkipObject(r) \/ UndoObject(r)
            \/ UndoCollides(r) \/ DeletionFails(r)
         /\ \A q \in Requests \ {r} : created'[q] = created[q]
         /\ pc'[r] = "unlink" => FindObject(r)
         /\ pc[r] \in InRegistration \cup {"undo", "unlink"} =>
              \/ pc'[r] \in InRegistration \cup {"undo", "unlink"}
              \/ created'[r] = <<>>
         /\ pc[r] = "sync" => \/ RecordObject(r) \/ ObjectVanished(r)
                              \/ faults' < faults /\ pc'[r] = "undo"
         /\ pc'[r] \in {"move", "sync"} => MissObject(r) \/ MoveObject(r)
<1> USE DEF TypeOK, InRegistration
<1>1. CASE Stage(r) \/ StageDamagedArchive(r)
  BY <1>1 DEF Stage, StageDamagedArchive
<1>2. CASE OpenBatch(r) \/ ReplayBatch(r)
  BY <1>2 DEF OpenBatch, ReplayBatch, LockManifest
<1>3. CASE ReadWorkspaceState(r) \/ InsertManifest(r)
  BY <1>3 DEF ReadWorkspaceState, InsertManifest
<1>4. CASE SeeObject(r) \/ KeepObject(r) \/ MissObject(r)
  BY <1>4 DEF SeeObject, KeepObject, MissObject
<1>5. CASE MoveObject(r) \/ RecordObject(r)
  BY <1>5 DEF MoveObject, RecordObject
<1>6. CASE FindDuplicate(r) \/ FindNothing(r) \/ InsertVersion(r)
  BY <1>6 DEF FindDuplicate, FindNothing, InsertVersion, NextItem
<1>7. CASE CommitBatch(r)
  BY <1>7 DEF CommitBatch
<1>8. CASE SkipObject(r) \/ FindObject(r) \/ UndoObject(r) \/ RaiseFailure(r)
  BY <1>8 DEF SkipObject, FindObject, UndoObject, RaiseFailure
<1>9. CASE UndoCollides(r) \/ DeletionFails(r)
  BY <1>9 DEF UndoCollides, DeletionFails, AbandonUndo
<1>10. CASE Fail(r) /\ (pc[r] = "sync" => ObjectVanished(r) \/ faults' < faults)
  BY <1>10 DEF Fail
<1>11. QED
  <2>1. Fault => faults' < faults
    BY DEF Fault
  <2>2. QED
    BY <1>1, <1>2, <1>3, <1>4, <1>5, <1>6, <1>7, <1>8, <1>9, <1>10, <2>1
    DEF Acts, Step, WorkspaceNotWritable, ObjectVanished, UniqueViolation, WriteFenceRejects,
        DeadlockVictim, Deadlocked, StatementFails, CommitAnswerLost

\* What the steps make of the objects a request remembers.
LEMMA CreatedFacts ==
  ASSUME TypeOK, ReadsAreKept, CreatedIsOwn, NEW r \in Requests, Acts(r)
  PROVE  \/ created'[r] = created[r]
         \/ created'[r] = <<>>
         \/ /\ RecordObject(r)
            /\ Contents(created'[r]) = Contents(created[r]) \cup {Current(r).digest}
         \/ /\ SkipObject(r) \/ UndoObject(r)
            /\ Contents(created[r]) = {Head(created[r])} \cup Contents(created'[r])
<1>0. created[r] \in Seq(Digests)
  BY DEF TypeOK
<1>1. CASE RecordObject(r)
  <2>1. created'[r] = Append(created[r], Current(r).digest) /\ Remaining(r)
    BY <1>1 DEF RecordObject, ReadsAreKept, TypeOK
  <2>2. Current(r).digest \in Digests
    BY <2>1, CurrentType
  <2>3. QED
    BY <1>0, <1>1, <2>1, <2>2, AppendFacts
<1>2. CASE SkipObject(r) \/ UndoObject(r)
  <2>1. created'[r] = Tail(created[r]) /\ created[r] # <<>>
    BY <1>2 DEF SkipObject, UndoObject, CreatedIsOwn, TypeOK
  <2>2. QED
    BY <1>0, <1>2, <2>1, TailFacts
<1>3. CASE CommitBatch(r) \/ UndoCollides(r) \/ DeletionFails(r)
  BY <1>3 DEF CommitBatch, UndoCollides, DeletionFails, AbandonUndo, TypeOK
<1>4. QED
  BY <1>1, <1>2, <1>3, ObjectKinds

LEMMA CreatedIsOwnStep ==
  ASSUME TypeOK, ReadsAreKept, CreatedIsOwn, NEW r \in Requests, Acts(r)
  PROVE  CreatedIsOwn'
<1>1. pc'[r] = "unlink" => created'[r] # <<>>
  <2>1. pc'[r] = "unlink" => created' = created /\ created[r] # <<>>
    BY ObjectKinds DEF FindObject
  <2>2. QED
    BY <2>1
<1>2. created'[r] # <<>> => pc'[r] \in InRegistration \cup {"undo", "unlink"}
  <2>1. RecordObject(r) => pc[r] \in InRegistration
    BY DEF RecordObject, InRegistration
  <2>2. SkipObject(r) \/ UndoObject(r) => pc[r] \in {"undo", "unlink"}
    BY DEF SkipObject, UndoObject
  <2>3. created[r] # <<>> => pc[r] \in InRegistration \cup {"undo", "unlink"}
    BY DEF CreatedIsOwn
  <2>4. QED
    BY <2>1, <2>2, <2>3, CreatedFacts, ObjectKinds
<1>3. ASSUME NEW d \in Contents(created'[r])
      PROVE  \E k \in DOMAIN Uploads(r) : Uploads(r)[k].digest = d
  <2>1. CASE d \in Contents(created[r])
    BY <2>1 DEF CreatedIsOwn
  <2>2. CASE RecordObject(r) /\ d = Current(r).digest
    <3>1. Remaining(r)
      BY <2>2 DEF RecordObject, ReadsAreKept
    <3>2. QED
      BY <2>2, <3>1, CurrentType
  <2>3. created'[r] # <<>>
    BY <1>3 DEF Contents
  <2>4. QED
    BY <1>3, <2>1, <2>2, <2>3, CreatedFacts
<1>4. \A q \in Requests \ {r} : pc'[q] = pc[q] /\ created'[q] = created[q]
  BY OthersKept, ObjectKinds
<1>5. ASSUME NEW q \in Requests
      PROVE  /\ pc'[q] = "unlink" => created'[q] # <<>>
             /\ created'[q] # <<>> => pc'[q] \in InRegistration \cup {"undo", "unlink"}
             /\ \A d \in Contents(created'[q]) :
                  \E k \in DOMAIN Uploads(q) : Uploads(q)[k].digest = d
  <2>1. CASE q = r
    BY <1>1, <1>2, <1>3, <2>1
  <2>2. CASE q # r
    BY <1>4, <2>2 DEF CreatedIsOwn
  <2>3. QED
    BY <2>1, <2>2
<1>6. QED
  BY <1>5 DEF CreatedIsOwn, Uploads, Contents

\* What is published stays published.
LEMMA PublishedStays ==
  ASSUME TypeOK, NEW r \in Requests, Acts(r), NEW d, Published(d)
  PROVE  Published(d)'
<1>1. PICK p \in Paths : d \in Contents(versions[p])
  BY DEF Published
<1>2. Contents(versions[p]) \subseteq Contents(versions'[p])
  BY VersionsStep, ViewType DEF VersionsKept, VersionsFrom
<1>3. d \in Contents(versions'[p])
  BY <1>1, <1>2
<1>4. QED
  BY <1>3 DEF Published, Contents

\* A batch publishes whatever it has created.
LEMMA CommitPublishes ==
  ASSUME TypeOK, ReadsAreKept, ProgressIsVisible, CreatedIsOwn,
         NEW r \in Requests, CommitBatch(r), NEW d \in Contents(created[r])
  PROVE  Published(d)'
<1>1. Commits(r)
  BY DEF CommitBatch, Commits, TypeOK
<1>2. PICK k \in DOMAIN Uploads(r) : Uploads(r)[k].digest = d
  BY DEF CreatedIsOwn
<1>3. Uploads(r)[k] \in Contents(Uploads(r)) /\ Uploads(r)[k].path \in Paths
  BY UploadsType DEF Contents
<1>4. d \in Contents(versions'[Uploads(r)[k].path])
  BY <1>1, <1>2, <1>3, CommitIsWhole
<1>5. QED
  BY <1>3, <1>4 DEF Published, Contents

\* A request stops being responsible for an object that stays in place and unpublished only
\* when it gives it up.
LEMMA ResponsibilityStep ==
  ASSUME TypeOK, ReadsAreKept, ProgressIsVisible, CreatedIsOwn,
         NEW r \in Requests, Acts(r), NEW d \in files, d \in files', ~Published(d)',
         Moved(r, d) \/ d \in Contents(created[r]), d \notin Contents(created'[r])
  PROVE  GivesUp(r, d) \/ Moved(r, d)'
<1>1. CASE Moved(r, d) /\ d \notin Contents(created[r])
  <2>1. pc[r] = "sync" /\ Current(r).digest = d
    BY <1>1 DEF Moved
  <2>2. CASE RecordObject(r)
    <3>1. created'[r] = Append(created[r], d) /\ Remaining(r) /\ created[r] \in Seq(Digests)
      BY <2>1, <2>2 DEF RecordObject, ReadsAreKept, TypeOK
    <3>2. d \in Digests
      BY DEF TypeOK
    <3>3. QED
      BY <3>1, <3>2, AppendFacts
  <2>3. CASE ObjectVanished(r)
    BY <2>1, <2>3 DEF ObjectVanished
  <2>4. CASE faults' < faults /\ pc'[r] = "undo"
    BY <1>1, <2>4 DEF GivesUp
  <2>5. QED
    BY <2>1, <2>2, <2>3, <2>4, ObjectKinds
<1>2. CASE d \in Contents(created[r])
  <2>1. ~(SkipObject(r) \/ UndoObject(r))
    <3>1. SUFFICES ASSUME SkipObject(r) \/ UndoObject(r) PROVE FALSE
      OBVIOUS
    <3>2. created'[r] = Tail(created[r]) /\ created[r] # <<>> /\ created[r] \in Seq(Digests)
      BY <3>1 DEF SkipObject, UndoObject, CreatedIsOwn, TypeOK
    <3>3. d = Head(created[r])
      BY <1>2, <3>2, TailFacts
    <3>4. QED
      BY <3>1, <3>3 DEF SkipObject, UndoObject
  <2>2. ~CommitBatch(r)
    BY <1>2, CommitPublishes
  <2>3. CASE UndoCollides(r)
    <3>1. /\ pc[r] = "unlink" /\ Head(created[r]) \notin files /\ pc'[r] = "failed"
          /\ created[r] # <<>> /\ created[r] \in Seq(Digests)
      BY <2>3 DEF UndoCollides, AbandonUndo, CreatedIsOwn, TypeOK
    <3>2. d \in Contents(Tail(created[r]))
      BY <1>2, <3>1, TailFacts
    <3>3. QED
      BY <3>1, <3>2 DEF GivesUp
  <2>4. CASE DeletionFails(r)
    <3>1. faults' < faults /\ pc'[r] = "failed"
      BY <2>4 DEF DeletionFails, Fault, AbandonUndo, TypeOK
    <3>2. QED
      BY <1>2, <3>1 DEF GivesUp
  <2>5. CASE RecordObject(r)
    <3>1. /\ created'[r] = Append(created[r], Current(r).digest) /\ Remaining(r)
          /\ created[r] \in Seq(Digests)
      BY <2>5 DEF RecordObject, ReadsAreKept, TypeOK
    <3>2. Current(r).digest \in Digests
      BY <3>1, CurrentType
    <3>3. QED
      BY <1>2, <3>1, <3>2, AppendFacts
  <2>6. CASE UNCHANGED created
    BY <1>2, <2>6
  <2>7. QED
    BY <2>1, <2>2, <2>3, <2>4, <2>5, <2>6, ObjectKinds
<1>3. QED
  BY <1>1, <1>2

\* Where a request is, and what it is at, depends on it alone.
LEMMA OthersAreStill ==
  ASSUME TypeOK, NEW r \in Requests, Acts(r), NEW q \in Requests, q # r
  PROVE  /\ pc'[q] = pc[q] /\ created'[q] = created[q] /\ Current(q)' = Current(q)
         /\ \A d : Moved(q, d)' <=> Moved(q, d)
BY OthersKept, ObjectKinds DEF Current, Moved

LEMMA OrphansStep ==
  ASSUME IInv, NEW r \in Requests, Acts(r), NEW d \in Orphans', d \notin Orphans
  PROVE  \E q \in Requests : GivesUp(q, d)
<1> USE DEF IInv
<1>1. /\ d \in files' /\ ~Published(d)'
      /\ \A q \in Requests : ~Moved(q, d)' /\ d \notin Contents(created'[q])
  BY DEF Orphans, Contents
<1>2. ~Published(d)
  BY <1>1, PublishedStays
<1>3. d \in files
  <2>1. SUFFICES ASSUME d \notin files PROVE FALSE
    OBVIOUS
  <2>2. MoveObject(r)
    BY <1>1, <2>1, ObjectKinds DEF UndoObject
  <2>3. d = Current(r).digest /\ pc'[r] = "sync" /\ item' = item
    BY <1>1, <2>1, <2>2 DEF MoveObject, TypeOK
  <2>4. Moved(r, d)'
    BY <2>3 DEF Moved, Current
  <2>5. QED
    BY <1>1, <2>4
<1>4. PICK q \in Requests : Moved(q, d) \/ d \in Contents(created[q])
  BY <1>2, <1>3 DEF Orphans
<1>5. q = r
  BY <1>1, <1>4, OthersAreStill
<1>6. QED
  BY <1>1, <1>3, <1>4, <1>5, ResponsibilityStep

LEMMA OrphansRest ==
  ASSUME IInv, MoveFence \/ ProcessLost, NEW d \in Orphans', d \notin Orphans
  PROVE  \E q \in Requests : GivesUp(q, d)
<1> USE DEF IInv
<1>1. CASE MoveFence
  <2>1. UNCHANGED <<files, versions, pc, item, created>>
    BY <1>1 DEF MoveFence, tables, request
  <2>2. QED
    BY <2>1 DEF Orphans, Published, Moved, Current, Contents
<1>2. CASE ProcessLost
  <2>1. UNCHANGED <<files, versions>>
    BY <1>2 DEF ProcessLost, tables
  <2>2. d \in files /\ ~Published(d)
    BY <2>1 DEF Orphans, Published, Contents
  <2>3. PICK q \in Requests : Moved(q, d) \/ d \in Contents(created[q])
    BY <2>2 DEF Orphans
  <2>4. pc[q] \in InRegistration \cup {"undo", "unlink"}
    BY <2>3 DEF Moved, CreatedIsOwn, Contents, InRegistration
  <2>5. pc[q] # "crashed" /\ pc'[q] = "crashed"
    BY <1>2, <2>4 DEF ProcessLost, InRegistration, Settled, TypeOK
  <2>6. faults' < faults
    BY <1>2 DEF ProcessLost, Fault, TypeOK
  <2>7. QED
    BY <2>5, <2>6 DEF GivesUp
<1>3. QED
  BY <1>1, <1>2

LEMMA SafeStep ==
  ASSUME IInv, NEW r \in Requests, Acts(r), NEW d, Safe(d)
  PROVE  Safe(d)'
<1> USE DEF IInv
<1>1. /\ Published(d) /\ d \in files
      /\ \A q \in Requests : /\ d \notin Contents(created[q])
                             /\ ~(pc[q] \in {"move", "sync"} /\ Current(q).digest = d)
  BY DEF Safe
<1>2. Published(d)'
  BY <1>1, PublishedStays
<1>3. d \in files'
  <2>1. CASE UndoObject(r)
    <3>1. /\ files' = files \ {Head(created[r])}
          /\ created[r] # <<>> /\ created[r] \in Seq(Digests)
      BY <2>1 DEF UndoObject, CreatedIsOwn, TypeOK
    <3>2. Head(created[r]) \in Contents(created[r])
      BY <3>1, TailFacts
    <3>3. QED
      BY <1>1, <3>1, <3>2
  <2>2. CASE MoveObject(r)
    BY <1>1, <2>2 DEF MoveObject
  <2>3. QED
    BY <1>1, <2>1, <2>2, ObjectKinds
<1>4. d \notin Contents(created'[r])
  <2>1. RecordObject(r) => Current(r).digest # d
    BY <1>1 DEF RecordObject
  <2>2. Contents(<<>>) = {}
    BY DEF Contents
  <2>3. QED
    BY <1>1, <2>1, <2>2, CreatedFacts
<1>5. ~(pc'[r] \in {"move", "sync"} /\ Current(r)'.digest = d)
  <2>1. MissObject(r) => Current(r).digest # d /\ Current(r)' = Current(r)
    BY <1>1 DEF MissObject, Current
  <2>2. MoveObject(r) => Current(r).digest # d /\ Current(r)' = Current(r)
    BY <1>1 DEF MoveObject, Current
  <2>3. QED
    BY <2>1, <2>2, ObjectKinds
<1>6. \A q \in Requests : /\ d \notin Contents(created'[q])
                          /\ ~(pc'[q] \in {"move", "sync"} /\ Current(q)'.digest = d)
  BY <1>1, <1>4, <1>5, OthersAreStill
<1>7. QED
  BY <1>2, <1>3, <1>6 DEF Safe, Contents

LEMMA SafeRest ==
  ASSUME TypeOK, MoveFence \/ ProcessLost, NEW d, Safe(d)
  PROVE  Safe(d)'
<1>1. CASE MoveFence
  BY <1>1 DEF MoveFence, tables, request, Safe, Published, Current, Contents
<1>2. CASE ProcessLost
  <2>1. /\ UNCHANGED <<files, versions>>
        /\ \A q \in Requests : created'[q] = <<>> /\ pc'[q] \notin {"move", "sync"}
    BY <1>2 DEF ProcessLost, tables, Settled, TypeOK
  <2>2. QED
    BY <2>1 DEF Safe, Published, Contents
<1>3. QED
  BY <1>1, <1>2


--------------------------------------------------------------------------------
(* The initial state and the environment *)

LEMMA InitInvariant == Init => IInv
<1> SUFFICES ASSUME Init PROVE IInv
  OBVIOUS
<1>1. TypeOK
  BY InitTypeOK
<1>2. /\ \A r \in Requests : pc[r] = "new" /\ pending[r] = NoRows
      /\ \A p \in Paths : versions[p] = <<>>
      /\ manifests = {} /\ ~fenced
  BY DEF Init, NoRows
<1>3. "new" \notin InTransaction /\ "new" \notin InRegistration
  BY StagesFacts
<1>4. RowsAreOwned
  BY <1>2 DEF RowsAreOwned, NoRows
<1>5. \A r \in Requests : \A p \in Paths : Seen(r, p) = <<>>
  BY <1>2 DEF Seen, NoRows
<1>6. ReadsAreKept /\ StagingIsCounted /\ ManifestsAreLocked
  BY <1>2, <1>3 DEF ReadsAreKept, StagingIsCounted, ManifestsAreLocked
<1>6a. CreatedIsOwn
  BY <1>2 DEF Init, CreatedIsOwn, Contents
<1>7. ViewsAreDistinct /\ OneVersionPerContent
  BY <1>2, <1>5 DEF ViewsAreDistinct, OneVersionPerContent, Distinct
<1>8. ProgressIsVisible
  BY <1>2, <1>3 DEF ProgressIsVisible, NoRows, Contents
<1>9. BatchesAreAtomic
  BY <1>2 DEF BatchesAreAtomic, Contents
<1>10. QED
  BY <1>1, <1>4, <1>6, <1>6a, <1>7, <1>8, <1>9 DEF IInv

\* What is said of requests and of the tables stays while neither changes.
LEMMA RegistryStays ==
  ASSUME ReadsAreKept, ViewsAreDistinct, OneVersionPerContent, ProgressIsVisible,
         ManifestsAreLocked, BatchesAreAtomic,
         UNCHANGED <<versions, manifests, pc, item, seen, pending>>
  PROVE  /\ ReadsAreKept' /\ ViewsAreDistinct' /\ OneVersionPerContent' /\ ProgressIsVisible'
         /\ ManifestsAreLocked' /\ BatchesAreAtomic'
<1>1. ReadsAreKept'
  <2>1. ASSUME NEW r \in Requests
        PROVE  /\ Remaining(r)' = Remaining(r)
               /\ Current(r)' = Current(r)
               /\ Seen(r, Current(r).path)' = Seen(r, Current(r).path)
    BY DEF Remaining, Current, Seen
  <2>2. QED
    BY <2>1, Zenon DEF ReadsAreKept
<1>2. ViewsAreDistinct'
  <2>1. ASSUME NEW r \in Requests, NEW p \in Paths
        PROVE  Seen(r, p)' = Seen(r, p) /\ Distinct(Seen(r, p))
    BY DEF ViewsAreDistinct, Seen
  <2>2. QED
    BY <2>1, Zenon DEF ViewsAreDistinct, Distinct
<1>3. OneVersionPerContent'
  BY Zenon DEF OneVersionPerContent
<1>4. ProgressIsVisible'
  BY DEF ProgressIsVisible, Uploads, Seen
<1>5. ManifestsAreLocked'
  BY DEF ManifestsAreLocked, Manifest
<1>6. BatchesAreAtomic'
  BY DEF BatchesAreAtomic
<1>7. QED
  BY <1>1, <1>2, <1>3, <1>4, <1>5, <1>6

LEMMA MoveFenceInvariant == IInv /\ MoveFence => IInv'
<1> SUFFICES ASSUME IInv, MoveFence PROVE IInv'
  OBVIOUS
<1>0. UNCHANGED <<versions, manifests, pc, item, seen, pending>>
  BY DEF MoveFence, tables, request
<1>1. TypeOK'
  BY DisturbanceTypeOK DEF IInv, Disturbance
<1>2. StagingIsCounted' /\ RowsAreOwned'
  BY StagingRest, RowsAreOwnedRest DEF IInv
<1>3. /\ ReadsAreKept' /\ ViewsAreDistinct' /\ OneVersionPerContent' /\ ProgressIsVisible'
      /\ ManifestsAreLocked' /\ BatchesAreAtomic'
  BY <1>0, RegistryStays DEF IInv
<1>4. CreatedIsOwn'
  BY DEF MoveFence, request, IInv, CreatedIsOwn, Uploads
<1>5. QED
  BY <1>1, <1>2, <1>3, <1>4 DEF IInv

LEMMA ProcessLostInvariant == IInv /\ ProcessLost => IInv'
<1> SUFFICES ASSUME IInv, ProcessLost PROVE IInv'
  OBVIOUS
<1>0. /\ UNCHANGED <<versions, manifests>>
      /\ \A r \in Requests : pc'[r] \notin InTransaction /\ pending'[r] = NoRows
  BY DEF ProcessLost, tables, Settled, InTransaction, InRegistration
<1>p. \A r \in Requests : pc'[r] \notin InRegistration
  BY <1>0, StagesFacts
<1>1. TypeOK'
  BY DisturbanceTypeOK DEF IInv, Disturbance
<1>2. StagingIsCounted' /\ RowsAreOwned'
  BY StagingRest, RowsAreOwnedRest DEF IInv
<1>3. ReadsAreKept'
  BY <1>p DEF ReadsAreKept, InRegistration
<1>4. ASSUME NEW r \in Requests, NEW p \in Paths
      PROVE  Seen(r, p)' = versions[p]
  <2>1. pending'[r][p] = <<>> /\ versions[p] \in Seq(Digests)
    BY <1>0 DEF NoRows, IInv, TypeOK
  <2>2. \A s \in Seq(Digests) : s \o <<>> = s
    OBVIOUS
  <2>3. QED
    BY <1>0, <2>1, <2>2 DEF Seen
<1>5. ViewsAreDistinct' /\ OneVersionPerContent'
  BY <1>0, <1>4 DEF IInv, ViewsAreDistinct, OneVersionPerContent, Distinct
<1>6. ProgressIsVisible'
  BY <1>0, <1>p DEF ProgressIsVisible, NoRows, Contents
<1>7. ManifestsAreLocked' /\ BatchesAreAtomic'
  BY <1>0 DEF IInv, ManifestsAreLocked, BatchesAreAtomic
<1>8. CreatedIsOwn'
  <2>1. \A r \in Requests : created'[r] = <<>> /\ pc'[r] # "unlink"
    BY DEF ProcessLost, Settled, IInv, TypeOK
  <2>2. QED
    BY <2>1 DEF CreatedIsOwn, Contents
<1>9. QED
  BY <1>1, <1>2, <1>3, <1>5, <1>6, <1>7, <1>8 DEF IInv

LEMMA RequestInvariant ==
  ASSUME IInv, NEW r \in Requests, Acts(r)
  PROVE  IInv'
<1> USE DEF IInv
<1>1. TypeOK'
  BY StepTypeOK, DisturbanceTypeOK DEF Disturbance, Acts
<1>2. StagingIsCounted' /\ RowsAreOwned'
  BY StagingStep, RowsAreOwnedStep
<1>3. ReadsAreKept' /\ ManifestsAreLocked'
  BY ReadsAreKeptStep, ManifestsAreLockedStep
<1>4. ViewsAreDistinct' /\ OneVersionPerContent'
  BY ViewsAreDistinctStep
<1>5. ProgressIsVisible' /\ BatchesAreAtomic'
  BY ProgressStep, BatchesAreAtomicStep
<1>6. CreatedIsOwn'
  BY CreatedIsOwnStep
<1>7. QED
  BY <1>1, <1>2, <1>3, <1>4, <1>5, <1>6

LEMMA NextInvariant == IInv /\ [Next]_vars => IInv'
<1>1. ASSUME IInv, UNCHANGED vars
      PROVE  IInv'
  <2> USE <1>1 DEF vars, tables, request, IInv
  <2>1. TypeOK'
    BY DEF TypeOK
  <2>2. StagingIsCounted' /\ RowsAreOwned'
    BY DEF StagingIsCounted, RowsAreOwned, Uploads
  <2>3. /\ ReadsAreKept' /\ ViewsAreDistinct' /\ OneVersionPerContent' /\ ProgressIsVisible'
        /\ ManifestsAreLocked' /\ BatchesAreAtomic'
    BY RegistryStays
  <2>4. CreatedIsOwn'
    BY DEF CreatedIsOwn, Uploads
  <2>5. QED
    BY <2>1, <2>2, <2>3, <2>4
<1>2. IInv /\ Next => IInv'
  BY RequestInvariant, MoveFenceInvariant, ProcessLostInvariant DEF Next, Disturbance, Acts
<1>3. QED
  BY <1>1, <1>2

--------------------------------------------------------------------------------
(* Theorems *)

\* The invariant of locks, reads and rows is inductive over every statement of register_batch.
THEOREM Invariance == Spec => []IInv
  BY InitInvariant, NextInvariant, PTL DEF Spec

\* Every variable stays in its domain; in particular the loop never commits more staged
\* files than the request has.
THEOREM TypeCorrect == Spec => []TypeOK
<1>1. IInv => TypeOK
  BY DEF IInv
<1>2. QED
  BY <1>1, Invariance, PTL

\* Whatever the overlapping registrations read, no document ever has the same content in
\* two versions.
THEOREM ContentsAreUnique == Spec => []OneVersionPerContent
<1>1. IInv => OneVersionPerContent
  BY DEF IInv
<1>2. QED
  BY <1>1, Invariance, PTL

\* A manifest is registered exactly when all its documents are, through lost answers to
\* COMMIT, deadlocks and process losses.
THEOREM WholeBatches == Spec => []BatchesAreAtomic
<1>1. IInv => BatchesAreAtomic
  BY DEF IInv
<1>2. QED
  BY <1>1, Invariance, PTL

\* The compensation of register_batch leaves no object behind that nobody refers to, except
\* in three cases: the process is lost, a file operation fails between the move of an object
\* and its recording or in the compensation itself, or two compensations collide over one
\* object before they have come to their others.
THEOREM NothingIsOrphaned == Spec => OrphansHaveCauses
<1>1. IInv /\ [Next]_vars => [\A d \in Orphans' \ Orphans : \E r \in Requests : GivesUp(r, d)]_vars
  BY OrphansStep, OrphansRest DEF Next, Disturbance, Acts
<1>2. QED
  BY <1>1, Invariance, PTL DEF Spec, OrphansHaveCauses

\* The bytes of a published document are there for good from the moment no request is left
\* that created them, or has found them missing and is about to replace them: requests that
\* come later and fail, their processes lost or not, take none of them away.
THEOREM PublishedBytesAreSafe == Spec => PublishedBytesStay
<1>1. IInv /\ [Next]_vars => [\A d \in Digests : Safe(d) => Safe(d)']_vars
  BY SafeStep, SafeRest DEF Next, Disturbance, Acts, IInv
<1>2. QED
  BY <1>1, Invariance, PTL DEF Spec, PublishedBytesStay


\* Every step of the intake is a step of the registry, or leaves it alone.
LEMMA RefinementStep ==
  IInv /\ [Next]_vars => [Registry!Next]_<<versions, manifests, fenced>>
<1> USE DEF IInv
<1>1. ASSUME IInv, NEW r \in Requests, Commits(r), fenced' = fenced
      PROVE  Registry!Register(Manifest(r))
  <2>1. Manifest(r) \notin manifests /\ manifests' = manifests \cup {Manifest(r)}
    BY <1>1 DEF Commits, CommitRows, ManifestsAreLocked, InTransaction, InRegistration
  <2>2. /\ \A p \in Paths : versions'[p] = Seen(r, p)
        /\ Manifest(r).uploads = Uploads(r)
    BY <1>1 DEF Commits, CommitRows, Manifest, Uploads
  <2>3. ASSUME NEW p \in Paths
        PROVE  /\ Registry!Extends(versions[p], versions'[p])
               /\ Registry!Distinct(versions'[p])
    <3>1. /\ versions[p] \in Seq(Digests)
          /\ Len(versions[p]) <= Len(Seen(r, p))
          /\ \A i \in 1..Len(versions[p]) : Seen(r, p)[i] = versions[p][i]
      BY <1>1, ViewType
    <3>2. Registry!Extends(versions[p], versions'[p])
      <4>1. versions'[p] = Seen(r, p)
        BY <2>2
      <4>2. DOMAIN versions[p] = 1..Len(versions[p])
        BY <3>1
      <4>3. QED
        BY <3>1, <4>1, <4>2 DEF Registry!Extends
    <3>3. Registry!Distinct(versions'[p])
      BY <1>1, <2>2 DEF ViewsAreDistinct, Distinct, Registry!Distinct
    <3>4. QED
      BY <3>2, <3>3
  <2>4. ASSUME NEW p \in Paths
        PROVE  Contents(versions'[p])
                 = Contents(versions[p]) \cup Registry!Carried(Manifest(r), p)
    <3>1. Registry!Carried(Manifest(r), p)
            = {u.digest : u \in {v \in Contents(Uploads(r)) : v.path = p}}
      BY <2>2 DEF Registry!Carried, Registry!Contents, Contents
    <3>2. /\ \A u \in Contents(Uploads(r)) : u.digest \in Contents(versions'[u.path])
          /\ \A d \in Contents(versions'[p]) :
               \/ d \in Contents(versions[p])
               \/ [path |-> p, digest |-> d] \in Contents(Uploads(r))
      BY <1>1, CommitIsWhole
    <3>3. Contents(versions[p]) \subseteq Contents(versions'[p])
      BY <1>1, <2>2, ViewType
    <3>4. \A d : [path |-> p, digest |-> d] \in Contents(Uploads(r)) =>
                 d \in Registry!Carried(Manifest(r), p)
      BY <3>1
    <3>5. QED
      BY <3>1, <3>2, <3>3, <3>4
  <2>5. fenced => versions' = versions
    <3>1. SUFFICES ASSUME fenced PROVE versions' = versions
      OBVIOUS
    <3>2. \A p \in Paths : Seen(r, p) = versions[p]
      <4>1. \A s \in Seq(Digests) : s \o <<>> = s
        OBVIOUS
      <4>2. \A p \in Paths : pending[r][p] = <<>> /\ versions[p] \in Seq(Digests)
        BY <1>1, <3>1 DEF RowsAreOwned, NoRows, TypeOK
      <4>3. QED
        BY <4>1, <4>2 DEF Seen
    <3>3. versions = [p \in Paths |-> versions[p]]
      BY <1>1 DEF TypeOK
    <3>4. QED
      BY <1>1, <3>2, <3>3 DEF Commits, CommitRows
  <2>6. QED
    BY <1>1, <2>1, <2>3, <2>4, <2>5 DEF Registry!Register, Registry!Contents, Contents
<1>2. ASSUME IInv, NEW r \in Requests,
             Acts(r)
      PROVE  \/ UNCHANGED <<versions, manifests, fenced>>
             \/ \E mm \in {Manifest(q) : q \in Requests} : Registry!Register(mm)
  <2>1. fenced' = fenced
    BY <1>2, OthersKept
  <2>2. UNCHANGED <<versions, manifests>> \/ Commits(r)
    BY <1>2, StepKinds DEF Quiet, Drops, InsertVersion, tables
  <2>3. QED
    BY <1>1, <1>2, <2>1, <2>2
<1>3. ASSUME IInv, MoveFence
      PROVE  Registry!MoveFence
  BY <1>3 DEF MoveFence, Registry!MoveFence, tables
<1>4. QED
  BY <1>2, <1>3 DEF Next, Disturbance, Acts, ProcessLost, Registry!Next, vars, tables

\* Overlapping registrations are serialisable: the intake implements the registry that
\* registers one batch after the other.
THEOREM Serialisable == Spec => RegistersSerially
<1>1. Init => Registry!Init
  BY DEF Init, Registry!Init, NoRows
<1>2. QED
  BY <1>1, RefinementStep, Invariance, PTL DEF Spec, RegistersSerially, Registry!Spec

\* No registration adds a version while the workspace is closed for writes.
THEOREM NothingBehindTheFence == Spec => FenceHolds
<1>1. IInv /\ [Next]_vars => [fenced => UNCHANGED versions]_vars
  BY RefinementStep DEF Registry!Next, Registry!Register, Registry!MoveFence
<1>2. QED
  BY <1>1, Invariance, PTL DEF Spec, FenceHolds
================================================================================
