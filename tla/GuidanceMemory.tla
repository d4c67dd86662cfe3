--------------------------- MODULE GuidanceMemory ---------------------------
(***************************************************************************)
(* The permanent practice memory: candidates that a model extracted from   *)
(* the pages of a guide are verified, corrected and recovered in files;    *)
(* a curator reconciles the files into a coverage manifest, persists the   *)
(* manifest in many transactions, and releases what the database then      *)
(* holds.  The command that persists may stop anywhere and is run again,   *)
(* for this manifest or for an older one.                                  *)
(***************************************************************************)
EXTENDS Naturals, Sequences, FiniteSets

CONSTANTS
  Candidates,    \* logical candidates of the guide
  Pages,         \* pages of the guide
  PageOf,        \* the page each candidate is on
  Illegible,     \* candidates that no extraction reads
  Clashes,       \* pairs {n, o} of versions that cannot both be authoritative
  Answers,       \* bound: what the models may answer on each version
  MaxNodes,      \* bound: CandidateVersions there can be
  MaxManifests,  \* bound: how often the evidence is reconciled
  None           \* no verdict

ASSUME PagesAssumption ==
  Pages # {} /\ PageOf \in [Candidates -> Pages] /\ Illegible \subseteq Candidates

Nodes == Candidates \X {1, 2}          \* CandidateVersions: an original, a successor
First(c) == <<c, 1>>
Second(c) == <<c, 2>>

Dispositions == {"supported", "refuted", "model_failed"}
Statuses == Dispositions \cup {"superseded"}
Kinds == {"absent", "candidate", "failed"}

ASSUME BoundsAssumption == /\ MaxNodes \in Nat /\ MaxManifests \in Nat
                           /\ Answers \in [Nodes -> SUBSET Dispositions]
ASSUME NoneAssumption == None \notin Statuses

VARIABLES
  \* the evidence in files
  kind,            \* what is known of a CandidateVersion
  verdict,         \* its terminal disposition so far
  native,          \* candidates whose original the native recovery supersedes
  manifests,       \* coverage manifests, in the order they were reconciled
  \* the database
  saved,           \* persisted CandidateVersions
  verifications,   \* immutable verifications
  selected,        \* the disposition of the selected verification
  conflicts,       \* open conflicts between candidates
  units,           \* canonical guidance units, by CandidateVersion
  receipts,        \* terminal receipts of a page, oldest first
  reconciliations, \* page reconciliations of the run, oldest first
  coverage,        \* persisted coverage manifests
  lexical,         \* entries of the newest lexical projection
  \* the command that persists
  work,            \* its manifest, 0 when it does not run
  stage,           \* where it is
  todo,            \* what is left of this stage
  \* the release of intelligence
  document,        \* the construction document in a file
  constructions,   \* constructions persisted for a manifest
  active           \* manifest of the active release, 0 when there is none

evidence == <<kind, verdict, native, manifests>>
database == <<saved, verifications, selected, conflicts, units, receipts,
              reconciliations, coverage, lexical>>
command  == <<work, stage, todo>>
release  == <<document, constructions, active>>
vars == <<evidence, database, command, release>>

-----------------------------------------------------------------------------
(* What a reconciliation makes of its evidence. *)

Present(m) == {n \in Nodes : m.kind[n] # "absent"}
Valid(m) == {n \in Nodes : m.kind[n] = "candidate"}

\* latest_candidate_versions
Latest(m, c) == IF Second(c) \in Present(m) THEN Second(c) ELSE First(c)

LatestSupported(m) ==
  {n \in Valid(m) : m.status[n] = "supported" /\ n = Latest(m, n[1])}

\* candidate_conflict_pairs, recorded in both directions
Pairs(m) == {q \in LatestSupported(m) \X LatestSupported(m) : {q[1], q[2]} \in Clashes}
Quarantined(m) == {q[1] : q \in Pairs(m)}
Publishable(m) == LatestSupported(m) \ Quarantined(m)

\* Versions a model was asked about; the verification is named by its result.
Verified(m) == {n \in Valid(m) : m.status[n] \in Dispositions}

PageStateNames == {"verified", "partial_with_gaps", "insufficient_evidence",
                   "model_failed", "technically_blocked"}

PageState(m, p) ==
  LET here     == {c \in Candidates : PageOf[c] = p /\ First(c) \in Present(m)}
      verified == {c \in here : Latest(m, c) \in Publishable(m)}
  IN  IF here = {} THEN "technically_blocked"
      ELSE IF verified = here THEN "verified"
      ELSE IF verified # {} THEN "partial_with_gaps"
      ELSE IF \E c \in here : m.status[Latest(m, c)] = "model_failed" THEN "model_failed"
      ELSE "insufficient_evidence"

PageStates(m) == [p \in Pages |-> PageState(m, p)]

-----------------------------------------------------------------------------
(* The evidence. *)

NoDocument == [manifest |-> 0, units |-> {}]

Init ==
  /\ kind = [n \in Nodes |-> "absent"]
  /\ verdict = [n \in Nodes |-> None]
  /\ native = {}
  /\ manifests = <<>>
  /\ saved = {}
  /\ verifications = {}
  /\ selected = [n \in Nodes |-> None]
  /\ conflicts = {}
  /\ units = {}
  /\ receipts = [p \in Pages |-> <<>>]
  /\ reconciliations = <<>>
  /\ coverage = {}
  /\ lexical = {}
  /\ work = 0
  /\ stage = "idle"
  /\ todo = {}
  /\ document = NoDocument
  /\ constructions = [i \in 1..MaxManifests |-> {}]
  /\ active = 0

Known == {n \in Nodes : kind[n] # "absent"}
Room == Cardinality(Known) < MaxNodes

\* A candidate has one successor.
Succeed(c) ==
  /\ Second(c) \notin Known /\ Room
  /\ kind' = [kind EXCEPT ![Second(c)] = "candidate"]

\* Pass A reads a candidate, or its salvage does, or both fail on it.
Extract(c) ==
  /\ First(c) \notin Known /\ Room
  /\ kind' = [kind EXCEPT ![First(c)] = IF c \in Illegible THEN "failed" ELSE "candidate"]
  /\ UNCHANGED <<verdict, native, manifests, database, command, release>>

\* Pass B, its salvage or the compact verifier settles a version.
Verify(n, d) ==
  /\ kind[n] = "candidate"
  /\ verdict[n] = None
  /\ verdict' = [verdict EXCEPT ![n] = d]
  /\ UNCHANGED <<kind, native, manifests, database, command, release>>

\* Only what failed in the model, not in the evidence, is asked again.
Reopen(n, d) ==
  /\ kind[n] = "candidate"
  /\ verdict[n] = "model_failed"
  /\ verdict' = [verdict EXCEPT ![n] = d]
  /\ UNCHANGED <<kind, native, manifests, database, command, release>>

\* A correction comes with a refutation and is a version of its own.
Correct(c) ==
  /\ kind[First(c)] = "candidate"
  /\ verdict[First(c)] = "refuted"
  /\ Succeed(c)
  /\ UNCHANGED <<verdict, native, manifests, database, command, release>>

Regions(c) == {"superseded"} \cup (Answers[First(c)] \ {"supported"})

\* A failed original is located again on its page, or given up.
RecoverRegion(c, outcome) ==
  /\ kind[First(c)] = "failed"
  /\ verdict[First(c)] = None
  /\ verdict' = [verdict EXCEPT ![First(c)] = outcome]
  /\ IF outcome = "superseded"
       THEN Succeed(c)
       ELSE kind' = kind
  /\ UNCHANGED <<native, manifests, database, command, release>>

\* The native recovery of a page makes successors of whatever was read there.
RecoverNatively(c) ==
  /\ First(c) \in Known
  /\ Succeed(c)
  /\ native' = native \cup {c}
  /\ UNCHANGED <<verdict, manifests, database, command, release>>

Status(n) == IF n[2] = 1 /\ n[1] \in native THEN "superseded" ELSE verdict[n]

\* Mutant: a native successor takes over, whatever the status of its parent.
AgreedAlways == TRUE

\* A native parent that has a status of its own is refused.
Agreed == \A c \in native : verdict[First(c)] \in {None, "superseded"}
Terminal == \A n \in Known : Status(n) # None

\* The curator names the version; equal evidence gives the same manifest.
Reconcile(v) ==
  LET m == [version |-> v, kind |-> kind, status |-> [n \in Nodes |-> Status(n)]]
  IN  /\ Agreed /\ Terminal
      /\ \A i \in 1..Len(manifests) : manifests[i] # m
      /\ manifests' = Append(manifests, m)
      /\ UNCHANGED <<kind, verdict, native, database, command, release>>

-----------------------------------------------------------------------------
(* The command that persists a manifest: each call is one transaction, and a  *)
(* call that is refused raises and ends the command.                            *)

Loops == [candidates    |-> "verifications",
          verifications |-> "conflicts",
          conflicts     |-> "publication",
          publication   |-> "receipts",
          receipts      |-> "reconciliation"]
Stages == DOMAIN Loops \cup {"idle", "reconciliation", "coverage", "lexical", "done"}

Items(s, m) ==
  CASE s = "candidates"    -> Present(m)
    [] s = "verifications" -> Verified(m)
    [] s = "conflicts"     -> Pairs(m)
    [] s = "publication"   -> Publishable(m)
    [] s = "receipts"      -> Pages
    [] OTHER               -> {}

\* Mutant: a repeated call resumes with the receipts when it finds its units.
BeginByUnits(i) ==
  LET s == IF Publishable(manifests[i]) \subseteq units THEN "receipts" ELSE "candidates"
  IN  /\ work = 0
      /\ work' = i
      /\ stage' = s
      /\ todo' = Items(s, manifests[i])
      /\ UNCHANGED <<evidence, database, release>>

Begin(i) ==
  /\ work = 0
  /\ work' = i
  /\ stage' = "candidates"
  /\ todo' = Items("candidates", manifests[i])
  /\ UNCHANGED <<evidence, database, release>>

\* A stage ends with its last item.
Proceed ==
  /\ stage \in DOMAIN Loops
  /\ todo = {}
  /\ stage' = Loops[stage]
  /\ todo' = Items(Loops[stage], manifests[work])
  /\ UNCHANGED <<evidence, database, work, release>>

\* The lists of a manifest have one order.
Next1(s) == CHOOSE x \in s : TRUE

Take(s, x) ==
  /\ stage = s
  /\ todo # {} /\ x = Next1(todo)
  /\ todo' = todo \ {x}
  /\ UNCHANGED <<evidence, work, stage, release>>

SaveCandidate(n) ==
  /\ Take("candidates", n)
  /\ saved' = saved \cup {n}
  /\ UNCHANGED <<verifications, selected, conflicts, units, receipts, reconciliations,
                 coverage, lexical>>

\* Mutant: an existing verification is taken for the selected one.
SelectNew(n, d) ==
  selected' = IF <<n, d>> \in verifications THEN selected ELSE [selected EXCEPT ![n] = d]

\* An existing verification is not stored again, but selected again.
Select(n, d) == selected' = [selected EXCEPT ![n] = d]

SaveVerification(n) ==
  LET d == manifests[work].status[n]
  IN  /\ Take("verifications", n)
      /\ verifications' = verifications \cup {<<n, d>>}
      /\ Select(n, d)
      /\ UNCHANGED <<saved, conflicts, units, receipts, reconciliations, coverage, lexical>>

RecordConflict(q) ==
  /\ Take("conflicts", q)
  /\ conflicts' = conflicts \cup {q}
  /\ UNCHANGED <<saved, verifications, selected, units, receipts, reconciliations,
                 coverage, lexical>>

\* A unit is written once and never withdrawn.  Its verification must be the
\* selected one; with a single command at a time it always is.
Publish(n) ==
  /\ Take("publication", n)
  /\ selected[n] = "supported"
  /\ units' = units \cup {n}
  /\ UNCHANGED <<saved, verifications, selected, conflicts, receipts, reconciliations,
                 coverage, lexical>>

\* Appends x unless it is the newest entry; an older equal entry is a unique violation.
Newest(s, x) == s # <<>> /\ s[Len(s)] = x
Superseded(s, x) == ~Newest(s, x) /\ \E i \in DOMAIN s : s[i] = x
Appended(s, x) == IF Newest(s, x) THEN s ELSE Append(s, x)

SaveReceipt(p) ==
  /\ Take("receipts", p)
  /\ ~Superseded(receipts[p], work)
  /\ receipts' = [receipts EXCEPT ![p] = Appended(@, work)]
  /\ UNCHANGED <<saved, verifications, selected, conflicts, units, reconciliations,
                 coverage, lexical>>

Goto(s) ==
  /\ stage' = s
  /\ UNCHANGED <<evidence, work, todo, release>>

SaveReconciliation ==
  /\ stage = "reconciliation"
  /\ ~Superseded(reconciliations, PageStates(manifests[work]))
  /\ reconciliations' = Appended(reconciliations, PageStates(manifests[work]))
  /\ Goto("coverage")
  /\ UNCHANGED <<saved, verifications, selected, conflicts, units, receipts, coverage, lexical>>

\* Mutant: the version is looked up before the identity of the manifest.
TakenByItself(i) == \E j \in coverage : manifests[j].version = manifests[i].version

\* Another manifest has this version of the edition.
Taken(i) == i \notin coverage /\ \E j \in coverage : manifests[j].version = manifests[i].version

SaveCoverage ==
  /\ stage = "coverage"
  /\ ~Taken(work)
  /\ coverage' = coverage \cup {work}
  /\ Goto("lexical")
  /\ UNCHANGED <<saved, verifications, selected, conflicts, units, receipts,
                 reconciliations, lexical>>

Retrievable == units

RebuildLexical ==
  /\ stage = "lexical"
  /\ lexical' = Retrievable
  /\ Goto("done")
  /\ UNCHANGED <<saved, verifications, selected, conflicts, units, receipts,
                 reconciliations, coverage>>

\* The process ends, by its own end, by a refused call or by a crash anywhere.
End ==
  /\ work # 0
  /\ work' = 0
  /\ stage' = "idle"
  /\ todo' = {}
  /\ UNCHANGED <<evidence, database, release>>

-----------------------------------------------------------------------------
(* The release. *)

\* Mutant: a manifest is constructed from its file, before it is recorded.
ConstructEarly(i) ==
  /\ document' = [manifest |-> i, units |-> Retrievable]
  /\ UNCHANGED <<evidence, database, command, constructions, active>>

\* construct_manifest reads the units of the edition, whoever published them.
Construct(i) ==
  /\ i \in coverage
  /\ document' = [manifest |-> i, units |-> Retrievable]
  /\ UNCHANGED <<evidence, database, command, constructions, active>>

\* The construction of a manifest has one content; its release becomes the active one.
Activate ==
  /\ document.units # {}
  /\ constructions[document.manifest] \in {{}, document.units}
  /\ constructions' = [constructions EXCEPT ![document.manifest] = document.units]
  /\ active' = document.manifest
  /\ UNCHANGED <<evidence, database, command, document>>

-----------------------------------------------------------------------------
Gather ==
  /\ Len(manifests) < MaxManifests /\ work = 0
  /\ \/ \E c \in Candidates : \/ Extract(c)
                              \/ Correct(c)
                              \/ \E o \in Regions(c) : RecoverRegion(c, o)
                              \/ RecoverNatively(c)
     \/ \E n \in Nodes : \/ \E d \in Answers[n] : Verify(n, d)
                         \/ \E d \in Answers[n] \ {"model_failed"} : Reopen(n, d)
     \/ \E v \in 1..Len(manifests) + 1 : Reconcile(v)

Persist ==
  \/ \E i \in 1..Len(manifests) : Begin(i)
  \/ Proceed
  \/ \E n \in Nodes : \/ SaveCandidate(n)
                      \/ SaveVerification(n)
                      \/ Publish(n)
  \/ \E q \in Nodes \X Nodes : RecordConflict(q)
  \/ \E p \in Pages : SaveReceipt(p)
  \/ SaveReconciliation
  \/ SaveCoverage
  \/ RebuildLexical
  \/ End

ReleaseStep ==
  /\ work = 0
  /\ \/ \E i \in 1..Len(manifests) : Construct(i)
     \/ Activate

Next == Gather \/ Persist \/ ReleaseStep
Spec == Init /\ [][Next]_vars

-----------------------------------------------------------------------------
Manifests == [version : 1..MaxManifests, kind : [Nodes -> Kinds],
              status : [Nodes -> Statuses \cup {None}]]

(* Types.  What holds of the values alone. *)
TypeOK ==
  /\ kind \in [Nodes -> Kinds]
  /\ verdict \in [Nodes -> Statuses \cup {None}]
  /\ native \subseteq Candidates
  /\ manifests \in Seq(Manifests) /\ Len(manifests) <= MaxManifests
  /\ saved \subseteq Nodes
  /\ verifications \subseteq Nodes \X Dispositions
  /\ selected \in [Nodes -> Dispositions \cup {None}]
  /\ conflicts \subseteq Nodes \X Nodes
  /\ units \subseteq Nodes
  /\ receipts \in [Pages -> Seq(1..MaxManifests)]
  /\ reconciliations \in Seq([Pages -> PageStateNames])
  /\ coverage \subseteq 1..Len(manifests)
  /\ lexical \subseteq Nodes
  /\ work \in 0..Len(manifests)
  /\ stage \in Stages
  /\ document \in [manifest : 0..Len(manifests), units : SUBSET Nodes]
  /\ constructions \in [1..MaxManifests -> SUBSET Nodes]
  /\ active \in 0..Len(manifests)

\* A logical candidate has one authoritative version.  A corrected or recovered
\* version and the original it comes from are never both canonical guidance, however
\* often the evidence is reconciled and persisted in between.
OneVersionIsAuthoritative == \A c \in Candidates : ~ {First(c), Second(c)} \subseteq units

\* The coverage manifest is the commit point of a persist: the transactions before it
\* may stop anywhere and be repeated for any manifest, but once a manifest is
\* recorded, everything it names is in the database.
IsPersisted(i) ==
  /\ Present(manifests[i]) \subseteq saved
  /\ \A n \in Verified(manifests[i]) : <<n, manifests[i].status[n]>> \in verifications
  /\ Pairs(manifests[i]) \subseteq conflicts
  /\ Publishable(manifests[i]) \subseteq units
  /\ \A p \in Pages : \E k \in DOMAIN receipts[p] : receipts[p][k] = i
  /\ \E k \in DOMAIN reconciliations : reconciliations[k] = PageStates(manifests[i])
CoverageIsCommitPoint == \A i \in coverage : IsPersisted(i)

\* A persist that ends normally leaves the database telling its own manifest and no
\* other, whatever was persisted before and wherever it stopped: the newest receipt of
\* each page, the newest reconciliation, the selected verifications and the projection.
CompletedPersistIsCoherent ==
  stage = "done" =>
    /\ work \in coverage
    /\ \A n \in Verified(manifests[work]) : selected[n] = manifests[work].status[n]
    /\ \A p \in Pages : Newest(receipts[p], work)
    /\ Newest(reconciliations, PageStates(manifests[work]))
    /\ lexical = units

\* The active release holds all guidance its coverage manifest publishes, although
\* construct_manifest takes the units of the edition and not those of the manifest.
ReleaseCoversManifest ==
  active # 0 => Publishable(manifests[active]) \subseteq constructions[active]

\* A persist that stopped can be repeated: it is refused, anywhere on its way, only
\* where another manifest has been persisted, at least in part, in between.
Refusing ==
  \/ stage = "receipts" /\ \E p \in todo : Superseded(receipts[p], work)
  \/ stage = "reconciliation" /\ Superseded(reconciliations, PageStates(manifests[work]))
  \/ stage = "coverage" /\ Taken(work)
RestartIsSafe ==
  Refusing => \E p \in Pages : \E k \in DOMAIN receipts[p] : receipts[p][k] # work

\* KG_ID_PRACTICE_GUIDE_INGESTION_v0.1.md: a quarantined conflict cannot enter
\* authoritative retrieval.
QuarantinedIsNotRetrieved ==
  stage = "done" => lexical \cap Quarantined(manifests[work]) = {}
=============================================================================
