--------------------------- MODULE IntakeRegistration ---------------------------
(***************************************************************************)
(* Document intake: upload requests of the product API run in parallel in  *)
(* its thread pool. Each stages its files, then registers its batch in one *)
(* PostgreSQL transaction that also moves the staged files into the        *)
(* content-addressed object plane, and undoes the moves when it fails.     *)
(*                                                                         *)
(* An action is one statement of the transaction or one file operation, as *)
(* far as another request can tell it from the next. PostgreSQL runs READ  *)
(* COMMITTED: a statement sees what is committed and its own writes, waits *)
(* for an uncommitted row with its unique key, and fails on a committed    *)
(* one; a cycle of waits is broken by failing one of its members.          *)
(***************************************************************************)
EXTENDS Naturals, Sequences, FiniteSets

CONSTANTS
  Requests,  \* upload requests, retries after a failure included
  Paths,     \* case-folded relative paths: the identities of documents
  Digests,   \* contents
  Batch,     \* what each request carries
  MaxFaults  \* bound on lost connections and process losses

Upload == [path : Paths, digest : Digests]

ASSUME BatchAssumption ==
  Batch \in [Requests -> [uploads : Seq(Upload), \* staged files, archive members included
                          rejected : Nat,        \* files that failed to stage
                          damaged : BOOLEAN,     \* an archive breaks off while it is expanded
                          members : Nat]]        \* the members staged before it does

ASSUME FaultsAssumption == MaxFaults \in Nat

VARIABLES
  files,     \* contents present in the object plane of the workspace
  versions,  \* document_versions: the contents of each document, in order
  manifests, \* intake_manifests
  fenced,    \* lifecycle_state is not ACTIVE: the write fence triggers reject
  pc,        \* where each request is in register_uploads
  staging,   \* files it has in the staging directory
  item,      \* the upload its registration loop has reached
  seen,      \* versions of the current document when it read them
  pending,   \* versions its transaction has inserted
  created,   \* committed_created: contents it has moved into the object plane
  faults     \* faults left

tables  == <<versions, manifests>>
request == <<pc, staging, item, seen, pending, created>>
vars    == <<files, tables, fenced, request, faults>>

--------------------------------------------------------------------------------

InRegistration == {"store", "verify", "move", "sync", "lookup", "insert"}
InTransaction  == {"locked", "writable"} \cup InRegistration
Settled        == {"accepted", "replayed", "failed", "crashed"}
Stages         == {"new", "submitted", "undo", "unlink"} \cup InTransaction \cup Settled

NoRows == [p \in Paths |-> <<>>]

Contents(s) == {s[i] : i \in DOMAIN s}

\* The semantic digest of the manifest covers the staged items and the rejected ones.
Manifest(r) == [uploads |-> Batch[r].uploads, rejected |-> Batch[r].rejected]

Current(r)  == Batch[r].uploads[item[r]]
Remaining(r) == item[r] <= Len(Batch[r].uploads)

\* What the transaction of r reads of a document.
Seen(r, p) == versions[p] \o pending[r][p]

\* Mutated form of HoldsWorkspaceRow: the row is released after the manifest is inserted.
HoldsWorkspaceRowBriefly(r) == pc[r] = "store" /\ item[r] = 1

\* The foreign key of intake_manifests holds the workspace row FOR KEY SHARE until the
\* transaction ends, and transition_lifecycle takes it FOR UPDATE.
HoldsWorkspaceRow(r) == pc[r] \in InRegistration

\* The version r wants to insert exists by now.
Taken(r) == seen[r] # Len(Seen(r, Current(r).path))

\* r waits for the uncommitted document or version of q.
Blocks(q, r) ==
  /\ pc[r] = "insert" /\ ~Taken(r)
  /\ q # r /\ pending[q][Current(r).path] # <<>>

Deadlocked(r) ==
  \E S \in SUBSET {q \in Requests : pc[q] = "insert"} :
    /\ r \in S
    /\ \A a \in S : (\E b \in S : Blocks(b, a)) /\ (\E b \in S : Blocks(a, b))

--------------------------------------------------------------------------------
(* Staging *)

Stage(r) ==
  /\ pc[r] = "new" /\ ~Batch[r].damaged
  /\ pc' = [pc EXCEPT ![r] = "submitted"]
  /\ staging' = [staging EXCEPT ![r] = Len(Batch[r].uploads)]
  /\ UNCHANGED <<files, tables, fenced, item, seen, pending, created, faults>>

\* expand_archive turns BadZipFile into an IntakeError before the handler that would
\* have aborted the members staged so far.
StageDamagedArchive(r) ==
  /\ pc[r] = "new" /\ Batch[r].damaged
  /\ pc' = [pc EXCEPT ![r] = "failed"]
  /\ staging' = [staging EXCEPT ![r] = Batch[r].members]
  /\ UNCHANGED <<files, tables, fenced, item, seen, pending, created, faults>>

--------------------------------------------------------------------------------
(* The end of a transaction *)

\* Mutated form of Fail: the transaction is left open.
FailWithoutRollback(r) ==
  /\ pc' = [pc EXCEPT ![r] = "undo"]
  /\ staging' = [staging EXCEPT ![r] = 0]
  /\ UNCHANGED <<files, fenced, item, seen, pending, created>>

\* The transaction is rolled back and the staged files are aborted; then the handler
\* deletes, one by one, the objects this request has created.
Fail(r) ==
  /\ pc' = [pc EXCEPT ![r] = "undo"]
  /\ staging' = [staging EXCEPT ![r] = 0]
  /\ pending' = [pending EXCEPT ![r] = NoRows]
  /\ UNCHANGED <<files, fenced, item, seen, created>>

\* WorkspaceObjectStore.delete has nothing to do for an object that is gone ...
SkipObject(r) ==
  /\ pc[r] = "undo" /\ created[r] # <<>> /\ Head(created[r]) \notin files
  /\ created' = [created EXCEPT ![r] = Tail(@)]
  /\ UNCHANGED <<files, tables, fenced, pc, staging, item, seen, pending, faults>>

\* ... and unlinks one that it has seen in place.
FindObject(r) ==
  /\ pc[r] = "undo" /\ created[r] # <<>> /\ Head(created[r]) \in files
  /\ pc' = [pc EXCEPT ![r] = "unlink"]
  /\ UNCHANGED <<files, tables, fenced, staging, item, seen, pending, created, faults>>

UndoObject(r) ==
  /\ pc[r] = "unlink" /\ Head(created[r]) \in files
  /\ files' = files \ {Head(created[r])}
  /\ created' = [created EXCEPT ![r] = Tail(@)]
  /\ pc' = [pc EXCEPT ![r] = "undo"]
  /\ UNCHANGED <<tables, fenced, staging, item, seen, pending, faults>>

\* A deletion raises: the rest of committed_created is abandoned.
AbandonUndo(r) ==
  /\ pc' = [pc EXCEPT ![r] = "failed"]
  /\ created' = [created EXCEPT ![r] = <<>>]
  /\ UNCHANGED <<files, tables, fenced, staging, item, seen, pending>>

\* Another compensation has unlinked the object since this one saw it.
UndoCollides(r) ==
  /\ pc[r] = "unlink" /\ Head(created[r]) \notin files
  /\ AbandonUndo(r)
  /\ UNCHANGED faults

RaiseFailure(r) ==
  /\ pc[r] = "undo" /\ created[r] = <<>>
  /\ pc' = [pc EXCEPT ![r] = "failed"]
  /\ UNCHANGED <<files, tables, fenced, staging, item, seen, pending, created, faults>>

\* Mutated form of CommitRows: the new versions are numbered before the old ones.
CommitRowsInFront(r) ==
  /\ versions' = [p \in Paths |-> pending[r][p] \o versions[p]]
  /\ manifests' = manifests \cup {Manifest(r)}

CommitRows(r) ==
  /\ versions' = [p \in Paths |-> Seen(r, p)]
  /\ manifests' = manifests \cup {Manifest(r)}

CommitBatch(r) ==
  /\ pc[r] = "store" /\ ~Remaining(r)
  /\ CommitRows(r)
  /\ pc' = [pc EXCEPT ![r] = "accepted"]
  /\ pending' = [pending EXCEPT ![r] = NoRows]
  /\ created' = [created EXCEPT ![r] = <<>>]
  /\ UNCHANGED <<files, fenced, staging, item, seen, faults>>

--------------------------------------------------------------------------------
(* The transaction *)

\* pg_advisory_xact_lock on the manifest digest, then the lookup of the manifest.
LockManifest(r) ==
  /\ pc[r] = "submitted"
  /\ \A q \in Requests : pc[q] \in InTransaction => Manifest(q) # Manifest(r)

OpenBatch(r) ==
  /\ LockManifest(r)
  /\ Manifest(r) \notin manifests
  /\ pc' = [pc EXCEPT ![r] = "locked"]
  /\ UNCHANGED <<files, tables, fenced, staging, item, seen, pending, created, faults>>

ReplayBatch(r) ==
  /\ LockManifest(r)
  /\ Manifest(r) \in manifests
  /\ pc' = [pc EXCEPT ![r] = "replayed"]
  /\ staging' = [staging EXCEPT ![r] = 0]
  /\ UNCHANGED <<files, tables, fenced, item, seen, pending, created, faults>>

ReadWorkspaceState(r) ==
  /\ pc[r] = "locked" /\ ~fenced
  /\ pc' = [pc EXCEPT ![r] = "writable"]
  /\ UNCHANGED <<files, tables, fenced, staging, item, seen, pending, created, faults>>

WorkspaceNotWritable(r) ==
  /\ pc[r] = "locked" /\ fenced
  /\ Fail(r)
  /\ UNCHANGED <<tables, faults>>

InsertManifest(r) ==
  /\ pc[r] = "writable"
  /\ pc' = [pc EXCEPT ![r] = "store"]
  /\ item' = [item EXCEPT ![r] = 1]
  /\ UNCHANGED <<files, tables, fenced, staging, seen, pending, created, faults>>

\* WorkspaceObjectStore.commit sees the content in place and goes on to verify it ...
SeeObject(r) ==
  /\ pc[r] = "store" /\ Remaining(r)
  /\ Current(r).digest \in files
  /\ pc' = [pc EXCEPT ![r] = "verify"]
  /\ UNCHANGED <<files, tables, fenced, staging, item, seen, pending, created, faults>>

\* Mutated form of KeepObject: an object found in place counts as created.
KeepObjectRecorded(r) ==
  /\ pc[r] = "verify" /\ Current(r).digest \in files
  /\ pc' = [pc EXCEPT ![r] = "lookup"]
  /\ staging' = [staging EXCEPT ![r] = @ - 1]
  /\ created' = [created EXCEPT ![r] = Append(@, Current(r).digest)]
  /\ UNCHANGED <<files, tables, fenced, item, seen, pending, faults>>

KeepObject(r) ==
  /\ pc[r] = "verify" /\ Current(r).digest \in files
  /\ pc' = [pc EXCEPT ![r] = "lookup"]
  /\ staging' = [staging EXCEPT ![r] = @ - 1]
  /\ UNCHANGED <<files, tables, fenced, item, seen, pending, created, faults>>

\* The file is gone when its digest, or after the move its mode, is looked at.
ObjectVanished(r) ==
  /\ pc[r] \in {"verify", "sync"} /\ Current(r).digest \notin files
  /\ Fail(r)
  /\ UNCHANGED <<tables, faults>>

\* ... or sees none, and replaces whatever is there by then.
MissObject(r) ==
  /\ pc[r] = "store" /\ Remaining(r)
  /\ Current(r).digest \notin files
  /\ pc' = [pc EXCEPT ![r] = "move"]
  /\ UNCHANGED <<files, tables, fenced, staging, item, seen, pending, created, faults>>

MoveObject(r) ==
  /\ pc[r] = "move"
  /\ files' = files \cup {Current(r).digest}
  /\ staging' = [staging EXCEPT ![r] = @ - 1]
  /\ pc' = [pc EXCEPT ![r] = "sync"]
  /\ UNCHANGED <<tables, fenced, item, seen, pending, created, faults>>

\* Mutated form of RecordObject: the object is not remembered for the compensation.
RecordObjectForgotten(r) ==
  /\ pc[r] = "sync" /\ Current(r).digest \in files
  /\ pc' = [pc EXCEPT ![r] = "lookup"]
  /\ UNCHANGED <<files, tables, fenced, staging, item, seen, pending, created, faults>>

\* The mode is set and the directory synced; only then is the object remembered.
RecordObject(r) ==
  /\ pc[r] = "sync" /\ Current(r).digest \in files
  /\ created' = [created EXCEPT ![r] = Append(@, Current(r).digest)]
  /\ pc' = [pc EXCEPT ![r] = "lookup"]
  /\ UNCHANGED <<files, tables, fenced, staging, item, seen, pending, faults>>

NextItem(r) ==
  /\ item' = [item EXCEPT ![r] = @ + 1]
  /\ pc' = [pc EXCEPT ![r] = "store"]

FindDuplicate(r) ==
  /\ pc[r] = "lookup"
  /\ Current(r).digest \in Contents(Seen(r, Current(r).path))
  /\ NextItem(r)
  /\ UNCHANGED <<files, tables, fenced, staging, seen, pending, created, faults>>

FindNothing(r) ==
  /\ pc[r] = "lookup"
  /\ Current(r).digest \notin Contents(Seen(r, Current(r).path))
  /\ seen' = [seen EXCEPT ![r] = Len(Seen(r, Current(r).path))]
  /\ pc' = [pc EXCEPT ![r] = "insert"]
  /\ UNCHANGED <<files, tables, fenced, staging, item, pending, created, faults>>

\* The rows of one new version: document, object, receipt, source version, document
\* version, state, activation and jobs. The document and the version carry the unique
\* keys, the object and the source rows the write fence.
InsertVersion(r) ==
  /\ pc[r] = "insert" /\ ~fenced /\ ~Taken(r)
  /\ ~\E q \in Requests : Blocks(q, r)
  /\ pending' = [pending EXCEPT ![r][Current(r).path] = Append(@, Current(r).digest)]
  /\ NextItem(r)
  /\ UNCHANGED <<files, tables, fenced, staging, seen, created, faults>>

UniqueViolation(r) ==
  /\ pc[r] = "insert" /\ Taken(r)
  /\ Fail(r)
  /\ UNCHANGED <<tables, faults>>

WriteFenceRejects(r) ==
  /\ pc[r] = "insert" /\ fenced
  /\ Fail(r)
  /\ UNCHANGED <<tables, faults>>

DeadlockVictim(r) ==
  /\ Deadlocked(r)
  /\ Fail(r)
  /\ UNCHANGED <<tables, faults>>

--------------------------------------------------------------------------------
(* The environment *)

\* transition_lifecycle takes the workspace out of ACTIVE, or back.
MoveFence ==
  /\ ~\E r \in Requests : HoldsWorkspaceRow(r)
  /\ fenced' = ~fenced
  /\ UNCHANGED <<files, tables, request, faults>>

Fault == faults > 0 /\ faults' = faults - 1

\* A statement or a file operation fails: the connection is lost, the disk is full.
StatementFails(r) ==
  /\ Fault
  /\ pc[r] \in InTransaction
  /\ Fail(r)
  /\ UNCHANGED tables

\* A deletion of the compensation fails for another reason than a collision.
DeletionFails(r) ==
  /\ Fault
  /\ pc[r] \in {"undo", "unlink"} /\ created[r] # <<>>
  /\ AbandonUndo(r)

\* The connection is lost while COMMIT is answered: the batch is committed, and the
\* request fails.
CommitAnswerLost(r) ==
  /\ Fault
  /\ pc[r] = "store" /\ ~Remaining(r)
  /\ CommitRows(r)
  /\ Fail(r)

\* The API process dies with all its requests; the server rolls their transactions back.
ProcessLost ==
  /\ Fault
  /\ \E r \in Requests : pc[r] \notin Settled \cup {"new"}
  /\ pc' = [r \in Requests |-> IF pc[r] \in Settled \cup {"new"} THEN pc[r] ELSE "crashed"]
  /\ pending' = [r \in Requests |-> NoRows]
  /\ created' = [r \in Requests |-> <<>>]
  /\ UNCHANGED <<files, tables, fenced, staging, item, seen>>

--------------------------------------------------------------------------------

Init ==
  /\ files = {}
  /\ versions = NoRows
  /\ manifests = {}
  /\ fenced = FALSE
  /\ pc = [r \in Requests |-> "new"]
  /\ staging = [r \in Requests |-> 0]
  /\ item = [r \in Requests |-> 1]
  /\ seen = [r \in Requests |-> 0]
  /\ pending = [r \in Requests |-> NoRows]
  /\ created = [r \in Requests |-> <<>>]
  /\ faults = MaxFaults

Step(r) ==
  \/ Stage(r) \/ StageDamagedArchive(r)
  \/ OpenBatch(r) \/ ReplayBatch(r)
  \/ ReadWorkspaceState(r) \/ WorkspaceNotWritable(r) \/ InsertManifest(r)
  \/ SeeObject(r) \/ KeepObject(r) \/ ObjectVanished(r)
  \/ MissObject(r) \/ MoveObject(r) \/ RecordObject(r)
  \/ FindDuplicate(r) \/ FindNothing(r) \/ InsertVersion(r)
  \/ UniqueViolation(r) \/ WriteFenceRejects(r) \/ DeadlockVictim(r)
  \/ CommitBatch(r)
  \/ SkipObject(r) \/ FindObject(r) \/ UndoObject(r) \/ UndoCollides(r) \/ RaiseFailure(r)

Disturbance ==
  \/ MoveFence \/ ProcessLost
  \/ \E r \in Requests : StatementFails(r) \/ DeletionFails(r) \/ CommitAnswerLost(r)

Next == Disturbance \/ \E r \in Requests : Step(r)

Spec == Init /\ [][Next]_vars

\* Threads of the pool and the server run; PostgreSQL looks for deadlocks.
FairSpec == Spec /\ \A r \in Requests : WF_vars(Step(r))

--------------------------------------------------------------------------------
(* Properties *)

\* Every variable stays in its domain.
TypeOK ==
  /\ files \in SUBSET Digests
  /\ versions \in [Paths -> Seq(Digests)]
  /\ manifests \subseteq {Manifest(r) : r \in Requests}
  /\ fenced \in BOOLEAN
  /\ pc \in [Requests -> Stages]
  /\ staging \in [Requests -> Nat]
  /\ item \in [Requests -> Nat \ {0}]
  /\ seen \in [Requests -> Nat]
  /\ pending \in [Requests -> [Paths -> Seq(Digests)]]
  /\ created \in [Requests -> Seq(Digests)]
  /\ faults \in 0..MaxFaults

\* Two requests that read a document before either has committed never both add to it:
\* no document carries the same content in two versions, whatever register_batch read.
OneVersionPerContent ==
  \A p \in Paths : \A i, j \in DOMAIN versions[p] :
    versions[p][i] = versions[p][j] => i = j

\* A batch is in the registry as a whole or not at all, even when its commit was not
\* answered: its manifest is there exactly when its documents are, and there is no
\* version that no registered manifest brought.
BatchesAreAtomic ==
  /\ \A m \in manifests : \A k \in DOMAIN m.uploads :
       m.uploads[k].digest \in Contents(versions[m.uploads[k].path])
  /\ \A p \in Paths : \A d \in Contents(versions[p]) :
       \E m \in manifests : [path |-> p, digest |-> d] \in Contents(m.uploads)

\* Some version refers to the content.
Published(d) == \E p \in Paths : d \in Contents(versions[p])

\* r has replaced the object by its own upload, and has not yet recorded that.
Moved(r, d) == pc[r] = "sync" /\ Current(r).digest = d

\* No version refers to the object, and no request is going to publish or to delete it.
Orphans ==
  {d \in files : /\ ~Published(d)
                 /\ \A r \in Requests : ~Moved(r, d) /\ d \notin Contents(created[r])}

\* The step makes r give up an object it is responsible for: the process is lost, a file
\* operation fails between the move and its recording or in the compensation, or the
\* compensation collides with another one over the first of several objects.
GivesUp(r, d) ==
  \/ /\ faults' < faults
     /\ \/ pc[r] # "crashed" /\ pc'[r] = "crashed"
        \/ Moved(r, d) /\ pc'[r] = "undo"
        \/ d \in Contents(created[r]) /\ pc'[r] = "failed"
  \/ /\ pc[r] = "unlink" /\ pc'[r] = "failed" /\ Head(created[r]) \notin files
     /\ d \in Contents(Tail(created[r]))

\* The compensation of register_batch leaves nothing behind, however requests with the same
\* contents overlap, except in those three cases: no other step turns an object into one
\* that nobody refers to and nobody is going to delete.
OrphansHaveCauses == [][\A d \in Orphans' \ Orphans : \E r \in Requests : GivesUp(r, d)]_vars

\* Published, present, and created by no request that may still delete or replace it.
Safe(d) ==
  /\ Published(d) /\ d \in files
  /\ \A r \in Requests : /\ d \notin Contents(created[r])
                         /\ ~(pc[r] \in {"move", "sync"} /\ Current(r).digest = d)

\* Once the requests that raced to create an object are over, the bytes of its documents
\* are there for good: a request that finds content in place never deletes it, whatever
\* becomes of its batch.
PublishedBytesStay == [][\A d \in Digests : Safe(d) => Safe(d)']_vars

\* No version is committed into a workspace that has left ACTIVE, though the state is read
\* without a lock: the foreign key of the manifest keeps the transition waiting.
FenceHolds == [][fenced => UNCHANGED versions]_vars

Registry == INSTANCE DocumentRegistry WITH Manifests <- {Manifest(r) : r \in Requests}

\* Overlapping registrations are serialisable: each batch takes effect at its commit as if
\* it had run alone, although it read the registry statement by statement.
RegistersSerially == Registry!Spec

\* Every upload request ends: waits for the manifest lock and for the rows of other
\* requests, deadlocks and compensation included.
RequestsSettle == <>(\A r \in Requests : pc[r] \in Settled)

--------------------------------------------------------------------------------
(* A statement of the repository that the code does not meet *)

\* "transaction failure leaves no visible partial document": the bytes of every registered
\* version are in the object plane.
NoPartialDocument == \A p \in Paths : Contents(versions[p]) \subseteq files
================================================================================
