----------------------- MODULE GuidanceMemory_proofs ------------------------
(***************************************************************************)
(* Proofs about GuidanceMemory, for every set of candidates and pages,     *)
(* every clash between versions and any number of manifests.               *)
(***************************************************************************)
EXTENDS GuidanceMemory, TLAPS

\* A version of a candidate is its original or its successor.
LEMMA NodeShape ==
  /\ \A c \in Candidates : /\ First(c) \in Nodes /\ Second(c) \in Nodes
                           /\ First(c) # Second(c)
                           /\ First(c)[1] = c /\ Second(c)[1] = c
                           /\ First(c)[2] = 1 /\ Second(c)[2] = 2
  /\ \A n \in Nodes : n[1] \in Candidates /\ n[2] \in {1, 2} /\ n = <<n[1], n[2]>>
BY DEF Nodes, First, Second

\* The next item of a list is one of its items.
LEMMA NextIsItem == \A S : S # {} => Next1(S) \in S
BY DEF Next1

\* A page state is one of the terminal states.
LEMMA PageStatesType == \A m : PageStates(m) \in [Pages -> PageStateNames]
BY DEF PageStates, PageState, PageStateNames

\* What a manifest names consists of versions.
LEMMA ManifestParts ==
  \A m : /\ Present(m) \subseteq Nodes /\ Verified(m) \subseteq Nodes
         /\ Pairs(m) \subseteq Nodes \X Nodes /\ Publishable(m) \subseteq Nodes
         /\ \A n \in Verified(m) : m.status[n] \in Dispositions
         /\ \A n \in Publishable(m) : /\ m.kind[n] = "candidate" /\ m.status[n] = "supported"
                                      /\ n = Latest(m, n[1])
BY DEF Present, Verified, Pairs, Publishable, LatestSupported, Valid

\* Appending keeps the entries there are.
LEMMA AppendKeeps ==
  ASSUME NEW S, NEW s \in Seq(S), NEW x \in S
  PROVE  /\ Append(s, x) \in Seq(S) /\ Len(Append(s, x)) = Len(s) + 1
         /\ \A i \in 1..Len(s) : Append(s, x)[i] = s[i]
         /\ Append(s, x)[Len(s) + 1] = x
  OBVIOUS

\* An entry that is saved is the newest afterwards and displaces none.
LEMMA AppendedIsNewest ==
  ASSUME NEW S, NEW s \in Seq(S), NEW x \in S
  PROVE  /\ Appended(s, x) \in Seq(S)
         /\ Newest(Appended(s, x), x)
         /\ \A k \in DOMAIN s : k \in DOMAIN Appended(s, x) /\ Appended(s, x)[k] = s[k]
         /\ \A k \in DOMAIN Appended(s, x) :
              Appended(s, x)[k] = x \/ (k \in DOMAIN s /\ Appended(s, x)[k] = s[k])
<1>1. CASE Newest(s, x)
  BY <1>1 DEF Appended
<1>2. CASE ~Newest(s, x)
  <2>1. Appended(s, x) = Append(s, x)
    BY <1>2 DEF Appended
  <2>2. DOMAIN s = 1..Len(s) /\ DOMAIN Append(s, x) = 1..Len(s) + 1
    OBVIOUS
  <2>3. Append(s, x) # <<>> /\ Len(Append(s, x)) = Len(s) + 1
    BY <2>2
  <2>4. Newest(Append(s, x), x)
    BY <2>3, AppendKeeps DEF Newest
  <2> QED BY <2>1, <2>2, <2>3, <2>4, AppendKeeps
<1> QED BY <1>1, <1>2

\* A newest entry is an entry.
LEMMA NewestIsEntry ==
  ASSUME NEW S, NEW s \in Seq(S), NEW x, Newest(s, x)
  PROVE  Len(s) \in DOMAIN s /\ s[Len(s)] = x
BY DEF Newest

-----------------------------------------------------------------------------
(* Types. *)

LEMMA TypeInit == Init => TypeOK
<1> SUFFICES ASSUME Init PROVE TypeOK
  OBVIOUS
<1> USE BoundsAssumption DEF Init
<1>1. kind \in [Nodes -> Kinds] /\ verdict \in [Nodes -> Statuses \cup {None}]
  BY DEF Kinds
<1>2. manifests \in Seq(Manifests) /\ Len(manifests) <= MaxManifests
  OBVIOUS
<1>3. receipts \in [Pages -> Seq(1..MaxManifests)]
      /\ reconciliations \in Seq([Pages -> PageStateNames])
  OBVIOUS
<1>4. /\ document \in [manifest : 0..Len(manifests), units : SUBSET Nodes]
      /\ constructions \in [1..MaxManifests -> SUBSET Nodes]
  BY <1>2 DEF NoDocument
<1> QED BY <1>1, <1>2, <1>3, <1>4 DEF TypeOK, Stages

LEMMA TypeGather ==
  ASSUME TypeOK, Gather PROVE TypeOK'
<1> USE NodeShape, BoundsAssumption DEF TypeOK, database, command, release
<1>1. ASSUME NEW c \in Candidates, Extract(c) PROVE TypeOK'
  BY <1>1 DEF Extract, Kinds
<1>2. ASSUME NEW c \in Candidates, Succeed(c) PROVE kind' \in [Nodes -> Kinds]
  BY <1>2 DEF Succeed, Kinds
<1>3. ASSUME NEW c \in Candidates, Correct(c) PROVE TypeOK'
  BY <1>2, <1>3 DEF Correct
<1>4. ASSUME NEW c \in Candidates, NEW o \in Regions(c), RecoverRegion(c, o) PROVE TypeOK'
  <2>1. o \in Statuses
    BY DEF Regions, Statuses, Dispositions
  <2>2. kind' \in [Nodes -> Kinds]
    BY <1>2, <1>4 DEF RecoverRegion
  <2> QED BY <1>4, <2>1, <2>2 DEF RecoverRegion
<1>5. ASSUME NEW c \in Candidates, RecoverNatively(c) PROVE TypeOK'
  BY <1>2, <1>5 DEF RecoverNatively
<1>6. ASSUME NEW n \in Nodes, NEW d \in Answers[n], Verify(n, d) PROVE TypeOK'
  BY <1>6 DEF Verify, Statuses
<1>7. ASSUME NEW n \in Nodes, NEW d \in Answers[n], Reopen(n, d) PROVE TypeOK'
  BY <1>7 DEF Reopen, Statuses
<1>8. ASSUME NEW v \in 1..Len(manifests) + 1, Reconcile(v) PROVE TypeOK'
  <2> DEFINE m == [version |-> v, kind |-> kind, status |-> [n \in Nodes |-> Status(n)]]
  <2>1. Len(manifests) < MaxManifests
    BY DEF Gather
  <2>2. \A n \in Nodes : Status(n) \in Statuses \cup {None}
    BY DEF Status, Statuses
  <2>3. m \in Manifests
    BY <2>1, <2>2 DEF Manifests
  <2>4. manifests' = Append(manifests, m)
    BY <1>8 DEF Reconcile
  <2>5. manifests' \in Seq(Manifests) /\ Len(manifests') = Len(manifests) + 1
    BY <2>3, <2>4, AppendKeeps
  <2> QED BY <1>8, <2>1, <2>5 DEF Reconcile
<1> QED BY <1>1, <1>3, <1>4, <1>5, <1>6, <1>7, <1>8 DEF Gather

-----------------------------------------------------------------------------
(* The order of a persist. *)

\* The command has a manifest exactly while it is at work, and what is left of a
\* stage belongs to that manifest.
CommandShape ==
  /\ (work = 0) <=> (stage = "idle")
  /\ stage # "idle" => todo \subseteq Items(stage, manifests[work])

Rank == [idle |-> 0, candidates |-> 1, verifications |-> 2, conflicts |-> 3, publication |-> 4,
         receipts |-> 5, reconciliation |-> 6, coverage |-> 7, lexical |-> 8, done |-> 9]

\* What the command has still to do of the items of a stage.
Left(s) == IF stage = s THEN todo
           ELSE IF Rank[stage] < Rank[s] THEN Items(s, manifests[work])
           ELSE {}

\* What the stages up to here have handled is in the database.
PersistInOrder ==
  stage # "idle" =>
    /\ Present(manifests[work]) \ Left("candidates") \subseteq saved
    /\ \A n \in Verified(manifests[work]) \ Left("verifications") :
         /\ <<n, manifests[work].status[n]>> \in verifications
         /\ selected[n] = manifests[work].status[n]
    /\ Pairs(manifests[work]) \ Left("conflicts") \subseteq conflicts
    /\ Publishable(manifests[work]) \ Left("publication") \subseteq units
    /\ \A p \in Pages \ Left("receipts") : Newest(receipts[p], work)
    /\ stage \in {"coverage", "lexical", "done"} =>
         Newest(reconciliations, PageStates(manifests[work]))
    /\ stage \in {"lexical", "done"} => work \in coverage
    /\ stage = "done" => lexical = units

\* The items of each stage.
LEMMA ItemsOf ==
  \A m : /\ Items("candidates", m) = Present(m)
         /\ Items("verifications", m) = Verified(m)
         /\ Items("conflicts", m) = Pairs(m)
         /\ Items("publication", m) = Publishable(m)
         /\ Items("receipts", m) = Pages
         /\ Items("reconciliation", m) = {} /\ Items("coverage", m) = {}
         /\ Items("lexical", m) = {} /\ Items("done", m) = {}
BY DEF Items

\* A running command works on a manifest there is.
LEMMA WorkIsManifest ==
  ASSUME TypeOK, CommandShape, stage # "idle"
  PROVE  work \in 1..Len(manifests) /\ work \in 1..MaxManifests
BY BoundsAssumption DEF TypeOK, CommandShape

LEMMA TypePersist ==
  ASSUME TypeOK, CommandShape, Persist PROVE TypeOK'
<1> USE BoundsAssumption DEF TypeOK, evidence, database, release
<1>1. ASSUME NEW i \in 1..Len(manifests), Begin(i) PROVE TypeOK'
  BY <1>1 DEF Begin, Stages, Loops
<1>2. ASSUME Proceed PROVE TypeOK'
  BY <1>2 DEF Proceed, Stages, Loops
<1>3. ASSUME NEW n \in Nodes, SaveCandidate(n) PROVE TypeOK'
  BY <1>3 DEF SaveCandidate, Take
<1>4. ASSUME NEW n \in Nodes, SaveVerification(n) PROVE TypeOK'
  <2>1. n \in Verified(manifests[work])
    BY <1>4, NextIsItem, ItemsOf DEF SaveVerification, Take, CommandShape
  <2>2. manifests[work].status[n] \in Dispositions
    BY <2>1, ManifestParts
  <2>3. /\ verifications' = verifications \cup {<<n, manifests[work].status[n]>>}
        /\ selected' = [selected EXCEPT ![n] = manifests[work].status[n]]
        /\ UNCHANGED <<evidence, work, stage, release, saved, conflicts, units, receipts,
                       reconciliations, coverage, lexical>>
    BY <1>4 DEF SaveVerification, Take, Select
  <2>4. verifications' \subseteq Nodes \X Dispositions
    BY <2>2, <2>3
  <2>5. selected' \in [Nodes -> Dispositions \cup {None}]
    BY <2>2, <2>3
  <2> QED BY <2>3, <2>4, <2>5
<1>5. ASSUME NEW x \in Nodes \X Nodes, RecordConflict(x) PROVE TypeOK'
  BY <1>5 DEF RecordConflict, Take
<1>6. ASSUME NEW n \in Nodes, Publish(n) PROVE TypeOK'
  BY <1>6 DEF Publish, Take
<1>7. ASSUME NEW p \in Pages, SaveReceipt(p) PROVE TypeOK'
  <2>1. work \in 1..MaxManifests
    BY <1>7, WorkIsManifest DEF SaveReceipt, Take
  <2>2. Appended(receipts[p], work) \in Seq(1..MaxManifests)
    BY <2>1, AppendedIsNewest
  <2>3. /\ receipts' = [receipts EXCEPT ![p] = Appended(@, work)]
        /\ UNCHANGED <<evidence, work, stage, release, saved, verifications, selected, conflicts,
                       units, reconciliations, coverage, lexical>>
    BY <1>7 DEF SaveReceipt, Take
  <2>4. receipts' \in [Pages -> Seq(1..MaxManifests)]
    BY <2>2, <2>3
  <2> QED BY <2>3, <2>4
<1>8. ASSUME SaveReconciliation PROVE TypeOK'
  <2>1. reconciliations' \in Seq([Pages -> PageStateNames])
    BY <1>8, PageStatesType, AppendedIsNewest DEF SaveReconciliation
  <2> QED BY <1>8, <2>1 DEF SaveReconciliation, Goto, Stages
<1>9. ASSUME SaveCoverage PROVE TypeOK'
  <2>1. work \in 1..Len(manifests)
    BY <1>9, WorkIsManifest DEF SaveCoverage
  <2> QED BY <1>9, <2>1 DEF SaveCoverage, Goto, Stages
<1>10. ASSUME RebuildLexical PROVE TypeOK'
  BY <1>10 DEF RebuildLexical, Goto, Stages, Retrievable
<1>11. ASSUME End PROVE TypeOK'
  BY <1>11 DEF End, Stages
<1> QED BY <1>1, <1>2, <1>3, <1>4, <1>5, <1>6, <1>7, <1>8, <1>9, <1>10, <1>11 DEF Persist

LEMMA TypeRelease ==
  ASSUME TypeOK, ReleaseStep PROVE TypeOK'
<1> USE BoundsAssumption DEF TypeOK, evidence, database, command
<1>1. ASSUME NEW i \in 1..Len(manifests), Construct(i) PROVE TypeOK'
  BY <1>1 DEF Construct, Retrievable
<1>2. ASSUME Activate PROVE TypeOK'
  <2>1. document.manifest \in 0..Len(manifests) /\ document.units \in SUBSET Nodes
    OBVIOUS
  <2>2. constructions' \in [1..MaxManifests -> SUBSET Nodes]
    BY <1>2, <2>1 DEF Activate
  <2> QED BY <1>2, <2>1, <2>2 DEF Activate
<1> QED BY <1>1, <1>2 DEF ReleaseStep

\* The evidence may grow only between the commands, and a manifest stays as it is.
LEMMA ManifestsAreKept ==
  ASSUME TypeOK, [Next]_vars
  PROVE  /\ Len(manifests) <= Len(manifests')
         /\ \A i \in 1..Len(manifests) : manifests'[i] = manifests[i]
         /\ Gather => work = 0 /\ UNCHANGED <<database, command, release>>
         /\ ReleaseStep => UNCHANGED <<evidence, database, command>>
         /\ Persist => UNCHANGED <<evidence, release>>
<1> USE DEF evidence, database, command, release, vars
<1>1. CASE Gather
  <2>1. work = 0 /\ UNCHANGED <<database, command, release>>
    BY <1>1 DEF Gather, Extract, Correct, RecoverRegion, RecoverNatively, Verify, Reopen, Reconcile
  <2>2. \/ UNCHANGED manifests
        \/ \E v \in 1..Len(manifests) + 1 : Reconcile(v)
    BY <1>1 DEF Gather, Extract, Correct, RecoverRegion, RecoverNatively, Verify, Reopen
  <2>3. ASSUME NEW v \in 1..Len(manifests) + 1, Reconcile(v)
        PROVE  /\ Len(manifests) <= Len(manifests')
               /\ \A i \in 1..Len(manifests) : manifests'[i] = manifests[i]
    <3> DEFINE m == [version |-> v, kind |-> kind, status |-> [n \in Nodes |-> Status(n)]]
    <3>1. manifests' = Append(manifests, m) /\ manifests \in Seq(Manifests)
      BY <2>3 DEF Reconcile, TypeOK
    <3> HIDE DEF m
    <3> QED BY <3>1
  <2>4. Len(manifests) \in Nat
    BY DEF TypeOK
  <2>5. ReleaseStep => UNCHANGED <<evidence, database, command>>
    BY DEF ReleaseStep, Construct, Activate
  <2>6. ~Persist \/ UNCHANGED <<evidence, release>>
    BY DEF Persist, Begin, Proceed, SaveCandidate, SaveVerification, RecordConflict, Publish,
           SaveReceipt, SaveReconciliation, SaveCoverage, RebuildLexical, End, Take, Goto
  <2> QED BY <2>1, <2>2, <2>3, <2>4, <2>5, <2>6
<1>2. CASE ~Gather
  <2>1. ReleaseStep => UNCHANGED <<evidence, database, command>>
    BY DEF ReleaseStep, Construct, Activate
  <2>2. Persist => UNCHANGED <<evidence, release>>
    BY DEF Persist, Begin, Proceed, SaveCandidate, SaveVerification, RecordConflict, Publish,
           SaveReceipt, SaveReconciliation, SaveCoverage, RebuildLexical, End, Take, Goto
  <2>3. UNCHANGED manifests
    BY <1>2, <2>1, <2>2 DEF Next
  <2> QED BY <1>2, <2>1, <2>2, <2>3 DEF TypeOK
<1> QED BY <1>1, <1>2

-----------------------------------------------------------------------------
(* A persist handles what its manifest names, stage by stage. *)

LEMMA PersistStep ==
  ASSUME TypeOK, CommandShape, PersistInOrder, Persist
  PROVE  CommandShape' /\ PersistInOrder'
<1> DEFINE m == manifests[work]
<1>0. TypeOK' /\ UNCHANGED manifests
  BY TypePersist, ManifestsAreKept DEF Next, evidence
<1>1. ASSUME NEW i \in 1..Len(manifests), Begin(i) PROVE CommandShape' /\ PersistInOrder'
  <2>1. work' = i /\ stage' = "candidates" /\ todo' = Items("candidates", manifests[i])
    BY <1>1 DEF Begin
  <2>2. i # 0 /\ manifests'[work'] = manifests[i]
    BY <1>0, <2>1 DEF TypeOK
  <2>3. CommandShape'
    BY <2>1, <2>2 DEF CommandShape
  <2>4. /\ Left("candidates")' = Present(manifests[i])
        /\ Left("verifications")' = Verified(manifests[i])
        /\ Left("conflicts")' = Pairs(manifests[i])
        /\ Left("publication")' = Publishable(manifests[i])
        /\ Left("receipts")' = Pages
    BY <2>1, <2>2, ItemsOf DEF Left, Rank
  <2>5. PersistInOrder'
    BY <2>1, <2>2, <2>4 DEF PersistInOrder
  <2> QED BY <2>3, <2>5
<1>2. ASSUME Proceed PROVE CommandShape' /\ PersistInOrder'
  <2>1. /\ stage \in DOMAIN Loops /\ todo = {} /\ stage' = Loops[stage]
        /\ todo' = Items(Loops[stage], m)
        /\ UNCHANGED <<database, work, manifests>>
    BY <1>2 DEF Proceed, evidence
  <2>2. stage # "idle" /\ stage' \notin {"idle", "coverage", "lexical", "done"} /\ work # 0
    BY <2>1 DEF Loops, CommandShape
  <2>3. CommandShape'
    BY <2>1, <2>2 DEF CommandShape
  <2>4. \A s \in DOMAIN Loops : Left(s)' = Left(s)
    BY <2>1 DEF Left, Rank, Loops
  <2>5. PersistInOrder'
    BY <2>1, <2>2, <2>4 DEF PersistInOrder, Loops, database
  <2> QED BY <2>3, <2>5
<1>3. ASSUME NEW s, NEW x, Take(s, x), s \in DOMAIN Loops
      PROVE  /\ CommandShape' /\ stage = s /\ x \in Items(s, m) /\ stage # "idle"
             /\ stage' \notin {"idle", "coverage", "lexical", "done"}
             /\ Left(s)' = Left(s) \ {x}
             /\ \A r \in DOMAIN Loops \ {s} : Left(r)' = Left(r)
             /\ UNCHANGED <<work, manifests>>
  <2>1. /\ stage = s /\ stage' = s /\ x \in todo /\ todo' = todo \ {x}
        /\ UNCHANGED <<work, manifests>>
    BY <1>3, NextIsItem DEF Take, evidence
  <2>2. s \notin {"idle", "coverage", "lexical", "done"} /\ work # 0
    BY <1>3, <2>1 DEF Loops, CommandShape
  <2>3. CommandShape' /\ x \in Items(s, m)
    BY <2>1, <2>2 DEF CommandShape
  <2>4. Left(s)' = Left(s) \ {x} /\ \A r \in DOMAIN Loops \ {s} : Left(r)' = Left(r)
    BY <2>1 DEF Left
  <2> QED BY <2>1, <2>2, <2>3, <2>4
<1>4. ASSUME NEW n \in Nodes, SaveCandidate(n) PROVE CommandShape' /\ PersistInOrder'
  <2>1. /\ Take("candidates", n) /\ saved' = saved \cup {n}
        /\ UNCHANGED <<verifications, selected, conflicts, units, receipts, reconciliations,
                       coverage, lexical>>
    BY <1>4 DEF SaveCandidate
  <2> QED BY <1>3, <2>1 DEF PersistInOrder, Loops
<1>5. ASSUME NEW n \in Nodes, SaveVerification(n) PROVE CommandShape' /\ PersistInOrder'
  <2>1. /\ Take("verifications", n) /\ verifications' = verifications \cup {<<n, m.status[n]>>}
        /\ selected' = [selected EXCEPT ![n] = m.status[n]]
        /\ UNCHANGED <<saved, conflicts, units, receipts, reconciliations, coverage, lexical>>
    BY <1>5 DEF SaveVerification, Select
  <2>2. CommandShape' /\ UNCHANGED <<work, manifests>> /\ stage # "idle"
        /\ stage' \notin {"idle", "coverage", "lexical", "done"}
        /\ Left("verifications")' = Left("verifications") \ {n}
        /\ Left("candidates")' = Left("candidates") /\ Left("conflicts")' = Left("conflicts")
        /\ Left("publication")' = Left("publication") /\ Left("receipts")' = Left("receipts")
    BY <1>3, <2>1 DEF Loops
  <2>3. \A k \in Verified(m) \ Left("verifications")' :
          <<k, m.status[k]>> \in verifications' /\ selected'[k] = m.status[k]
    BY <2>1, <2>2, ManifestParts DEF PersistInOrder, TypeOK
  <2> QED BY <2>1, <2>2, <2>3 DEF PersistInOrder
<1>6. ASSUME NEW x \in Nodes \X Nodes, RecordConflict(x) PROVE CommandShape' /\ PersistInOrder'
  <2>1. /\ Take("conflicts", x) /\ conflicts' = conflicts \cup {x}
        /\ UNCHANGED <<saved, verifications, selected, units, receipts, reconciliations,
                       coverage, lexical>>
    BY <1>6 DEF RecordConflict
  <2> QED BY <1>3, <2>1 DEF PersistInOrder, Loops
<1>7. ASSUME NEW n \in Nodes, Publish(n) PROVE CommandShape' /\ PersistInOrder'
  <2>1. /\ Take("publication", n) /\ units' = units \cup {n}
        /\ UNCHANGED <<saved, verifications, selected, conflicts, receipts, reconciliations,
                       coverage, lexical>>
    BY <1>7 DEF Publish
  <2> QED BY <1>3, <2>1 DEF PersistInOrder, Loops
<1>8. ASSUME NEW p \in Pages, SaveReceipt(p) PROVE CommandShape' /\ PersistInOrder'
  <2>1. /\ Take("receipts", p) /\ receipts' = [receipts EXCEPT ![p] = Appended(@, work)]
        /\ UNCHANGED <<saved, verifications, selected, conflicts, units, reconciliations,
                       coverage, lexical>>
    BY <1>8 DEF SaveReceipt
  <2>2. CommandShape' /\ UNCHANGED <<work, manifests>> /\ stage # "idle"
        /\ stage' \notin {"idle", "coverage", "lexical", "done"}
        /\ Left("receipts")' = Left("receipts") \ {p}
        /\ Left("candidates")' = Left("candidates") /\ Left("conflicts")' = Left("conflicts")
        /\ Left("publication")' = Left("publication")
        /\ Left("verifications")' = Left("verifications")
    BY <1>3, <2>1 DEF Loops
  <2>3. receipts'[p] = Appended(receipts[p], work)
        /\ \A r \in Pages \ {p} : receipts'[r] = receipts[r]
    BY <2>1 DEF TypeOK
  <2>4. Newest(receipts'[p], work)
    <3>1. work \in 1..MaxManifests /\ receipts[p] \in Seq(1..MaxManifests)
      BY <2>2, WorkIsManifest DEF TypeOK
    <3>2. Newest(Appended(receipts[p], work), work)
      BY <3>1, AppendedIsNewest
    <3> QED BY <2>3, <3>2
  <2>5. \A r \in Pages \ Left("receipts")' : Newest(receipts'[r], work)
    BY <2>2, <2>3, <2>4 DEF PersistInOrder
  <2> QED BY <2>1, <2>2, <2>5 DEF PersistInOrder
<1>9. ASSUME stage \in {"reconciliation", "coverage", "lexical"},
             stage' \in {"coverage", "lexical", "done"}, UNCHANGED <<work, todo, manifests>>
      PROVE  /\ CommandShape' /\ stage # "idle"
             /\ \A r \in DOMAIN Loops : Left(r) = {} /\ Left(r)' = {}
  <2>1. stage # "idle" /\ work # 0 /\ todo = {}
    BY <1>9, ItemsOf DEF CommandShape
  <2> QED BY <1>9, <2>1 DEF CommandShape, Left, Rank, Loops
<1>10. ASSUME SaveReconciliation PROVE CommandShape' /\ PersistInOrder'
  <2>1. /\ stage = "reconciliation" /\ stage' = "coverage" /\ UNCHANGED <<work, todo, manifests>>
        /\ reconciliations' = Appended(reconciliations, PageStates(m))
        /\ UNCHANGED <<saved, verifications, selected, conflicts, units, receipts, coverage, lexical>>
    BY <1>10 DEF SaveReconciliation, Goto, evidence
  <2>2. Newest(reconciliations', PageStates(m))
    BY <2>1, PageStatesType, AppendedIsNewest DEF TypeOK
  <2> QED BY <1>9, <2>1, <2>2 DEF PersistInOrder, Loops
<1>11. ASSUME SaveCoverage PROVE CommandShape' /\ PersistInOrder'
  <2>1. /\ stage = "coverage" /\ stage' = "lexical" /\ UNCHANGED <<work, todo, manifests>>
        /\ coverage' = coverage \cup {work}
        /\ UNCHANGED <<saved, verifications, selected, conflicts, units, receipts,
                       reconciliations, lexical>>
    BY <1>11 DEF SaveCoverage, Goto, evidence
  <2> QED BY <1>9, <2>1 DEF PersistInOrder, Loops
<1>12. ASSUME RebuildLexical PROVE CommandShape' /\ PersistInOrder'
  <2>1. /\ stage = "lexical" /\ stage' = "done" /\ UNCHANGED <<work, todo, manifests>>
        /\ lexical' = units
        /\ UNCHANGED <<saved, verifications, selected, conflicts, units, receipts,
                       reconciliations, coverage>>
    BY <1>12 DEF RebuildLexical, Goto, evidence, Retrievable
  <2> QED BY <1>9, <2>1 DEF PersistInOrder, Loops
<1>13. ASSUME End PROVE CommandShape' /\ PersistInOrder'
  BY <1>13 DEF End, CommandShape, PersistInOrder
<1> QED BY <1>1, <1>2, <1>4, <1>5, <1>6, <1>7, <1>8, <1>10, <1>11, <1>12, <1>13 DEF Persist

-----------------------------------------------------------------------------
(* What the database keeps. *)

\* Every reconciliation of the run is that of a manifest with all its receipts.
ReconciledHaveReceipts ==
  \A k \in DOMAIN reconciliations : \E j \in 1..Len(manifests) :
    /\ reconciliations[k] = PageStates(manifests[j])
    /\ \A p \in Pages : \E l \in DOMAIN receipts[p] : receipts[p][l] = j

\* A unit is the publishable version of a manifest.
UnitsArePublished ==
  \A n \in units : \E i \in 1..Len(manifests) : n \in Publishable(manifests[i])

\* Nothing that a persist has written is lost by another step.
LEMMA DatabaseGrows ==
  ASSUME TypeOK, [Next]_vars
  PROVE  /\ saved \subseteq saved' /\ verifications \subseteq verifications'
         /\ conflicts \subseteq conflicts' /\ units \subseteq units'
         /\ \A p \in Pages : \A k \in DOMAIN receipts[p] :
              k \in DOMAIN receipts'[p] /\ receipts'[p][k] = receipts[p][k]
         /\ \A k \in DOMAIN reconciliations :
              k \in DOMAIN reconciliations' /\ reconciliations'[k] = reconciliations[k]
<1> DEFINE Goal ==
       /\ saved \subseteq saved' /\ verifications \subseteq verifications'
       /\ conflicts \subseteq conflicts' /\ units \subseteq units'
       /\ \A p \in Pages : \A k \in DOMAIN receipts[p] :
            k \in DOMAIN receipts'[p] /\ receipts'[p][k] = receipts[p][k]
       /\ \A k \in DOMAIN reconciliations :
            k \in DOMAIN reconciliations' /\ reconciliations'[k] = reconciliations[k]
<1>1. ASSUME UNCHANGED database PROVE Goal
  BY <1>1 DEF database
<1>2. ASSUME NEW n \in Nodes, SaveCandidate(n) \/ SaveVerification(n) \/ Publish(n) PROVE Goal
  BY <1>2 DEF SaveCandidate, SaveVerification, Publish
<1>3. ASSUME NEW x \in Nodes \X Nodes, RecordConflict(x) PROVE Goal
  BY <1>3 DEF RecordConflict
<1>4. ASSUME NEW p \in Pages, SaveReceipt(p) PROVE Goal
  <2>1. /\ receipts' = [receipts EXCEPT ![p] = Appended(@, work)]
        /\ UNCHANGED <<saved, verifications, conflicts, units, reconciliations>>
    BY <1>4 DEF SaveReceipt
  <2>2. receipts'[p] = Appended(receipts[p], work) /\ \A r \in Pages \ {p} : receipts'[r] = receipts[r]
    BY <2>1 DEF TypeOK
  <2>3. \A k \in DOMAIN receipts[p] : k \in DOMAIN Appended(receipts[p], work)
                                      /\ Appended(receipts[p], work)[k] = receipts[p][k]
    <3>1. receipts[p] \in Seq(1..MaxManifests)
      BY DEF TypeOK
    <3>2. CASE Newest(receipts[p], work)
      BY <3>2 DEF Appended
    <3>3. CASE ~Newest(receipts[p], work)
      BY <3>1, <3>3 DEF Appended
    <3> QED BY <3>2, <3>3
  <2> QED BY <2>1, <2>2, <2>3
<1>5. ASSUME SaveReconciliation PROVE Goal
  <2>1. /\ reconciliations' = Appended(reconciliations, PageStates(manifests[work]))
        /\ UNCHANGED <<saved, verifications, conflicts, units, receipts>>
    BY <1>5 DEF SaveReconciliation
  <2> DEFINE x == PageStates(manifests[work])
  <2> DEFINE S == [Pages -> PageStateNames]
  <2>2. x \in S /\ reconciliations \in Seq(S)
    BY PageStatesType DEF TypeOK
  <2> HIDE DEF x, S
  <2>3. \A k \in DOMAIN reconciliations :
          /\ k \in DOMAIN Appended(reconciliations, x)
          /\ Appended(reconciliations, x)[k] = reconciliations[k]
    BY <2>2, AppendedIsNewest
  <2>4. reconciliations' = Appended(reconciliations, x)
    BY <2>1 DEF x
  <2> QED BY <2>1, <2>3, <2>4
<1>6. ASSUME SaveCoverage \/ RebuildLexical PROVE Goal
  BY <1>6 DEF SaveCoverage, RebuildLexical
<1>7. ASSUME (\E i \in 1..Len(manifests) : Begin(i)) \/ Proceed \/ End PROVE UNCHANGED database
  BY <1>7 DEF Begin, Proceed, End
<1>8. CASE Persist
  BY <1>1, <1>2, <1>3, <1>4, <1>5, <1>6, <1>7, <1>8 DEF Persist
<1>9. CASE ~Persist
  BY <1>1, <1>9, ManifestsAreKept DEF Next, vars
<1> QED BY <1>8, <1>9

\* A manifest that is in the database stays there.
LEMMA PersistedStays ==
  ASSUME TypeOK, [Next]_vars, NEW i \in 1..Len(manifests), IsPersisted(i)
  PROVE  IsPersisted(i)'
<1>1. manifests'[i] = manifests[i]
  BY ManifestsAreKept
<1>2. \A p \in Pages : \E k \in DOMAIN receipts'[p] : receipts'[p][k] = i
  BY DatabaseGrows DEF IsPersisted
<1>3. \E k \in DOMAIN reconciliations' : reconciliations'[k] = PageStates(manifests[i])
  BY DatabaseGrows DEF IsPersisted
<1> QED BY <1>1, <1>2, <1>3, DatabaseGrows DEF IsPersisted

LEMMA CoverageStep ==
  ASSUME TypeOK, CommandShape, PersistInOrder, CoverageIsCommitPoint, [Next]_vars
  PROVE  CoverageIsCommitPoint'
<1> SUFFICES ASSUME NEW i \in coverage' PROVE IsPersisted(i)'
  BY DEF CoverageIsCommitPoint
<1>1. CASE i \in coverage
  <2>1. i \in 1..Len(manifests)
    BY <1>1 DEF TypeOK
  <2> QED BY <1>1, <2>1, PersistedStays DEF CoverageIsCommitPoint
<1>2. CASE i \notin coverage
  <2>1. SaveCoverage
    <3>1. Persist
      BY <1>2, ManifestsAreKept DEF Next, vars, database
    <3> QED BY <1>2, <3>1 DEF Persist, Begin, Proceed, SaveCandidate, SaveVerification, RecordConflict,
                     Publish, SaveReceipt, SaveReconciliation, RebuildLexical, End, database
  <2>2. stage = "coverage" /\ i = work
    BY <1>2, <2>1 DEF SaveCoverage
  <2>3. i \in 1..Len(manifests) /\ i \in 1..MaxManifests
    BY <2>2, WorkIsManifest
  <2>4. \A r \in DOMAIN Loops : Left(r) = {}
    BY <2>2 DEF Left, Rank, Loops
  <2>5. /\ Present(manifests[i]) \subseteq saved
        /\ \A n \in Verified(manifests[i]) : <<n, manifests[i].status[n]>> \in verifications
        /\ Pairs(manifests[i]) \subseteq conflicts
        /\ Publishable(manifests[i]) \subseteq units
        /\ \A p \in Pages : Newest(receipts[p], i)
        /\ Newest(reconciliations, PageStates(manifests[i]))
    BY <2>2, <2>4 DEF PersistInOrder, Loops
  <2>6. ASSUME NEW p \in Pages PROVE \E k \in DOMAIN receipts[p] : receipts[p][k] = i
    <3>1. receipts[p] \in Seq(1..MaxManifests) /\ Newest(receipts[p], i)
      BY <2>5 DEF TypeOK
    <3> QED BY <3>1, NewestIsEntry
  <2>7. \E k \in DOMAIN reconciliations : reconciliations[k] = PageStates(manifests[i])
    BY <2>5, NewestIsEntry DEF TypeOK
  <2>8. IsPersisted(i)
    BY <2>5, <2>6, <2>7 DEF IsPersisted
  <2> QED BY <2>3, <2>8, PersistedStays
<1> QED BY <1>1, <1>2

LEMMA ReconciledStep ==
  ASSUME TypeOK, CommandShape, PersistInOrder, ReconciledHaveReceipts, [Next]_vars
  PROVE  ReconciledHaveReceipts'
<1> SUFFICES ASSUME NEW k \in DOMAIN reconciliations'
             PROVE  \E j \in 1..Len(manifests') :
                      /\ reconciliations'[k] = PageStates(manifests'[j])
                      /\ \A p \in Pages : \E l \in DOMAIN receipts'[p] : receipts'[p][l] = j
  BY DEF ReconciledHaveReceipts
<1>1. CASE k \in DOMAIN reconciliations
  <2>1. PICK j \in 1..Len(manifests) :
               /\ reconciliations[k] = PageStates(manifests[j])
               /\ \A p \in Pages : \E l \in DOMAIN receipts[p] : receipts[p][l] = j
    BY <1>1 DEF ReconciledHaveReceipts
  <2>2. reconciliations'[k] = reconciliations[k] /\ manifests'[j] = manifests[j]
        /\ j \in 1..Len(manifests')
    BY <1>1, ManifestsAreKept, DatabaseGrows DEF TypeOK
  <2>3. \A p \in Pages : \E l \in DOMAIN receipts'[p] : receipts'[p][l] = j
    BY <2>1, DatabaseGrows
  <2> QED BY <2>1, <2>2, <2>3
<1>2. CASE k \notin DOMAIN reconciliations
  <2>1. SaveReconciliation
    <3>1. reconciliations' # reconciliations
      BY <1>2
    <3>2. Persist
      BY <3>1, ManifestsAreKept DEF Next, vars, database
    <3> QED BY <3>1, <3>2 DEF Persist, Begin, Proceed, SaveCandidate, SaveVerification, RecordConflict,
                     Publish, SaveReceipt, SaveCoverage, RebuildLexical, End, database
  <2>2. /\ stage = "reconciliation"
        /\ reconciliations' = Appended(reconciliations, PageStates(manifests[work]))
        /\ UNCHANGED <<manifests, receipts>>
    BY <2>1 DEF SaveReconciliation, Goto, evidence
  <2>3. work \in 1..Len(manifests) /\ work \in 1..MaxManifests
    BY <2>2, WorkIsManifest
  <2>4. reconciliations'[k] = PageStates(manifests[work])
    BY <1>2, <2>2, PageStatesType, AppendedIsNewest DEF TypeOK
  <2>5. \A p \in Pages : Newest(receipts[p], work)
    BY <2>2 DEF PersistInOrder, Left, Rank
  <2>6. ASSUME NEW p \in Pages PROVE \E l \in DOMAIN receipts'[p] : receipts'[p][l] = work
    <3>1. receipts[p] \in Seq(1..MaxManifests) /\ Newest(receipts[p], work)
      BY <2>5 DEF TypeOK
    <3> QED BY <2>2, <3>1, NewestIsEntry
  <2> QED BY <2>2, <2>3, <2>4, <2>6
<1> QED BY <1>1, <1>2

LEMMA UnitsStep ==
  ASSUME TypeOK, CommandShape, UnitsArePublished, [Next]_vars
  PROVE  UnitsArePublished'
<1> SUFFICES ASSUME NEW n \in units'
             PROVE  \E i \in 1..Len(manifests') : n \in Publishable(manifests'[i])
  BY DEF UnitsArePublished
<1>1. CASE n \in units
  <2>1. PICK i \in 1..Len(manifests) : n \in Publishable(manifests[i])
    BY <1>1 DEF UnitsArePublished
  <2> QED BY <2>1, ManifestsAreKept DEF TypeOK
<1>2. CASE n \notin units
  <2>1. Publish(n) /\ UNCHANGED manifests
    <3>1. Persist
      BY <1>2, ManifestsAreKept DEF Next, vars, database
    <3>2. UNCHANGED manifests
      BY <3>1, ManifestsAreKept DEF evidence
    <3>3. ASSUME NEW x \in Nodes, Publish(x) PROVE x = n
      BY <1>2, <3>3 DEF Publish
    <3>4. \E x \in Nodes : Publish(x)
      BY <1>2, <3>1 DEF Persist, Begin, Proceed, SaveCandidate, SaveVerification, RecordConflict,
         SaveReceipt, SaveReconciliation, SaveCoverage, RebuildLexical, End, database
    <3> QED BY <3>2, <3>3, <3>4
  <2>2. stage = "publication" /\ n \in todo
    BY <2>1, NextIsItem DEF Publish, Take
  <2>3. n \in Publishable(manifests[work]) /\ work \in 1..Len(manifests)
    BY <2>2, ItemsOf, WorkIsManifest DEF CommandShape
  <2> QED BY <2>1, <2>3
<1> QED BY <1>1, <1>2

-----------------------------------------------------------------------------
(* The release. *)

\* What has been constructed for a manifest holds what the manifest publishes.
ReleaseIsBacked ==
  /\ document.units # {} =>
       /\ document.manifest \in 1..Len(manifests)
       /\ Publishable(manifests[document.manifest]) \subseteq document.units
  /\ \A i \in 1..Len(manifests) :
       constructions[i] # {} => Publishable(manifests[i]) \subseteq constructions[i]
  /\ active # 0 => constructions[active] # {}
  /\ \A i \in 1..MaxManifests : i > Len(manifests) => constructions[i] = {}

LEMMA ReleaseStepIsBacked ==
  ASSUME TypeOK, CoverageIsCommitPoint, ReleaseIsBacked, [Next]_vars
  PROVE  ReleaseIsBacked'
<1> USE BoundsAssumption
<1>1. CASE UNCHANGED release
  <2>1. /\ UNCHANGED <<document, constructions, active>>
        /\ Len(manifests) <= Len(manifests')
        /\ \A i \in 1..Len(manifests) : manifests'[i] = manifests[i]
        /\ Len(manifests) \in Nat /\ Len(manifests') \in Nat /\ Len(manifests') <= MaxManifests
    <3>1. Len(manifests') \in Nat /\ Len(manifests') <= MaxManifests
      <4>1. CASE Gather
        BY <4>1, TypeGather DEF TypeOK
      <4>2. CASE ~Gather
        <5>1. UNCHANGED manifests
          BY <4>2, ManifestsAreKept DEF Next, vars, evidence
        <5> QED BY <5>1 DEF TypeOK
      <4> QED BY <4>1, <4>2
    <3> QED BY <1>1, <3>1, ManifestsAreKept DEF release, TypeOK
  <2>2. \A i \in 1..MaxManifests : i > Len(manifests) => constructions'[i] = {}
    BY <2>1 DEF ReleaseIsBacked
  <2>3. \A i \in 1..Len(manifests') :
          constructions'[i] # {} => Publishable(manifests'[i]) \subseteq constructions'[i]
    <3> SUFFICES ASSUME NEW i \in 1..Len(manifests'), constructions'[i] # {}
                 PROVE  Publishable(manifests'[i]) \subseteq constructions'[i]
      OBVIOUS
    <3>1. i \in 1..Len(manifests)
      BY <2>1, <2>2
    <3> QED BY <2>1, <3>1 DEF ReleaseIsBacked
  <2> QED BY <2>1, <2>2, <2>3 DEF ReleaseIsBacked
<1>2. CASE ReleaseStep
  <2>0. UNCHANGED <<manifests, units>>
    BY <1>2, ManifestsAreKept DEF evidence, database
  <2>1. ASSUME NEW i \in 1..Len(manifests), Construct(i) PROVE ReleaseIsBacked'
    <3>1. /\ i \in coverage /\ document' = [manifest |-> i, units |-> units]
          /\ UNCHANGED <<constructions, active>>
      BY <2>1 DEF Construct, Retrievable
    <3>2. Publishable(manifests[i]) \subseteq units
      BY <3>1 DEF CoverageIsCommitPoint, IsPersisted
    <3> QED BY <2>0, <3>1, <3>2 DEF ReleaseIsBacked
  <2>2. ASSUME Activate PROVE ReleaseIsBacked'
    <3> DEFINE d == document.manifest
    <3>1. /\ document.units # {} /\ active' = d /\ UNCHANGED document
          /\ constructions' = [constructions EXCEPT ![d] = document.units]
      BY <2>2 DEF Activate
    <3>2. d \in 1..Len(manifests) /\ Publishable(manifests[d]) \subseteq document.units
      BY <3>1 DEF ReleaseIsBacked
    <3>3. d \in 1..MaxManifests
      BY <3>2 DEF TypeOK
    <3>4. constructions'[d] = document.units
          /\ \A i \in 1..MaxManifests : i # d => constructions'[i] = constructions[i]
      BY <3>1, <3>3 DEF TypeOK
    <3>5. 1..Len(manifests) \subseteq 1..MaxManifests /\ Len(manifests) \in Nat
      BY DEF TypeOK
    <3> HIDE DEF d
    <3>6. \A i \in 1..Len(manifests) :
            constructions'[i] # {} => Publishable(manifests[i]) \subseteq constructions'[i]
      BY <3>2, <3>4, <3>5 DEF ReleaseIsBacked
    <3>7. \A i \in 1..MaxManifests : i > Len(manifests) => constructions'[i] = {}
      BY <3>2, <3>4, <3>5 DEF ReleaseIsBacked
    <3>8. document'.units # {} =>
            /\ document'.manifest \in 1..Len(manifests')
            /\ Publishable(manifests'[document'.manifest]) \subseteq document'.units
      BY <2>0, <3>1 DEF ReleaseIsBacked
    <3>9. constructions'[active'] # {}
      BY <3>1, <3>4 DEF d
    <3> QED BY <2>0, <3>6, <3>7, <3>8, <3>9 DEF ReleaseIsBacked
  <2> QED BY <1>2, <2>1, <2>2 DEF ReleaseStep
<1> QED BY <1>1, <1>2, ManifestsAreKept DEF Next, vars, release

-----------------------------------------------------------------------------
(* The evidence. *)

\* A supported original was read, and a successor has a reason to be there.
EvidenceIsSettled ==
  \A c \in Candidates :
    /\ verdict[First(c)] = "supported" => kind[First(c)] = "candidate"
    /\ kind[First(c)] = "absent" => verdict[First(c)] = None
    /\ kind[Second(c)] # "absent" =>
         c \in native \/ verdict[First(c)] = "refuted" \/ kind[First(c)] = "failed"

\* What the manifests say of an original stands, and no two of them publish an original
\* and have its successor.
ManifestsAgree ==
  /\ \A i \in 1..Len(manifests) : \A c \in Candidates :
       /\ manifests[i].status[First(c)] = "supported" => verdict[First(c)] = "supported"
       /\ manifests[i].kind[Second(c)] # "absent" => kind[Second(c)] # "absent"
  /\ \A i, j \in 1..Len(manifests) : \A c \in Candidates :
       ~ (manifests[i].status[First(c)] = "supported" /\ manifests[j].kind[Second(c)] # "absent")

LEMMA EvidenceStep ==
  ASSUME TypeOK, EvidenceIsSettled, ManifestsAgree, [Next]_vars
  PROVE  EvidenceIsSettled' /\ ManifestsAgree'
<1> USE NodeShape
<1>0. None # "supported" /\ None # "refuted" /\ None # "model_failed"
  BY NoneAssumption DEF Statuses, Dispositions
<1>1. ASSUME UNCHANGED manifests, EvidenceIsSettled',
             \A c \in Candidates : verdict[First(c)] = "supported" => verdict'[First(c)] = "supported",
             \A c \in Candidates : kind[Second(c)] # "absent" => kind'[Second(c)] # "absent"
      PROVE  EvidenceIsSettled' /\ ManifestsAgree'
  BY <1>1 DEF ManifestsAgree
<1>2. ASSUME UNCHANGED evidence PROVE EvidenceIsSettled' /\ ManifestsAgree'
  BY <1>2 DEF evidence, EvidenceIsSettled, ManifestsAgree
<1>3. ASSUME NEW c \in Candidates, Extract(c) PROVE EvidenceIsSettled' /\ ManifestsAgree'
  <2>1. /\ kind[First(c)] = "absent" /\ kind'[First(c)] \in {"candidate", "failed"}
        /\ \A n \in Nodes \ {First(c)} : kind'[n] = kind[n]
        /\ UNCHANGED <<verdict, native, manifests>>
    BY <1>3 DEF Extract, Known, TypeOK
  <2>2. EvidenceIsSettled'
    <3> SUFFICES ASSUME NEW e \in Candidates
                 PROVE  /\ verdict[First(e)] = "supported" => kind'[First(e)] = "candidate"
                        /\ kind'[First(e)] = "absent" => verdict[First(e)] = None
                        /\ kind'[Second(e)] # "absent" =>
                             e \in native \/ verdict[First(e)] = "refuted" \/ kind'[First(e)] = "failed"
      BY <2>1 DEF EvidenceIsSettled
    <3>1. Second(e) # First(c) /\ kind'[Second(e)] = kind[Second(e)]
      BY <2>1
    <3>2. CASE e = c
      BY <1>0, <2>1, <3>1, <3>2 DEF EvidenceIsSettled
    <3>3. CASE e # c
      BY <2>1, <3>1, <3>3 DEF EvidenceIsSettled
    <3> QED BY <3>2, <3>3
  <2> QED BY <1>1, <2>1, <2>2
<1>4. ASSUME NEW c \in Candidates, Succeed(c)
      PROVE  /\ kind'[Second(c)] = "candidate"
             /\ \A n \in Nodes \ {Second(c)} : kind'[n] = kind[n]
             /\ \A e \in Candidates : kind'[First(e)] = kind[First(e)]
             /\ \A e \in Candidates : kind[Second(e)] # "absent" => kind'[Second(e)] # "absent"
             /\ \A e \in Candidates \ {c} : kind'[Second(e)] = kind[Second(e)]
  BY <1>4 DEF Succeed, TypeOK
<1>5. ASSUME NEW c \in Candidates, Correct(c) PROVE EvidenceIsSettled' /\ ManifestsAgree'
  <2>1. verdict[First(c)] = "refuted" /\ UNCHANGED <<verdict, native, manifests>> /\ Succeed(c)
    BY <1>5 DEF Correct
  <2>2. EvidenceIsSettled'
    BY <1>4, <2>1 DEF EvidenceIsSettled
  <2> QED BY <1>1, <1>4, <2>1, <2>2
<1>6. ASSUME NEW c \in Candidates, NEW o \in Regions(c), RecoverRegion(c, o)
      PROVE  EvidenceIsSettled' /\ ManifestsAgree'
  <2>1. /\ kind[First(c)] = "failed" /\ verdict[First(c)] = None /\ o # "supported"
        /\ verdict'[First(c)] = o
        /\ \A n \in Nodes \ {First(c)} : verdict'[n] = verdict[n]
        /\ UNCHANGED <<native, manifests>>
        /\ Succeed(c) \/ kind' = kind
    BY <1>6 DEF RecoverRegion, Regions, TypeOK
  <2>2. \A e \in Candidates : kind'[First(e)] = kind[First(e)]
    BY <1>4, <2>1
  <2>3. \A e \in Candidates \ {c} : kind'[Second(e)] = kind[Second(e)]
    BY <1>4, <2>1
  <2>4. \A e \in Candidates \ {c} : verdict'[First(e)] = verdict[First(e)]
    BY <2>1
  <2>5. EvidenceIsSettled'
    BY <2>1, <2>2, <2>3, <2>4 DEF EvidenceIsSettled
  <2>6. \A e \in Candidates : verdict[First(e)] = "supported" => verdict'[First(e)] = "supported"
    BY <1>0, <2>1, <2>4
  <2>7. \A e \in Candidates : kind[Second(e)] # "absent" => kind'[Second(e)] # "absent"
    BY <1>4, <2>1
  <2> QED BY <1>1, <2>1, <2>5, <2>6, <2>7
<1>7. ASSUME NEW c \in Candidates, RecoverNatively(c) PROVE EvidenceIsSettled' /\ ManifestsAgree'
  <2>1. native' = native \cup {c} /\ UNCHANGED <<verdict, manifests>> /\ Succeed(c)
    BY <1>7 DEF RecoverNatively
  <2>2. EvidenceIsSettled'
    BY <1>4, <2>1 DEF EvidenceIsSettled
  <2> QED BY <1>1, <1>4, <2>1, <2>2
<1>8. ASSUME NEW n \in Nodes, NEW d, Verify(n, d) \/ Reopen(n, d)
      PROVE  EvidenceIsSettled' /\ ManifestsAgree'
  <2>1. /\ kind[n] = "candidate" /\ verdict[n] \in {None, "model_failed"}
        /\ \A x \in Nodes \ {n} : verdict'[x] = verdict[x]
        /\ UNCHANGED <<kind, native, manifests>>
    BY <1>8 DEF Verify, Reopen, TypeOK
  <2>2. \A e \in Candidates : First(e) # n => verdict'[First(e)] = verdict[First(e)]
    BY <2>1
  <2>3. EvidenceIsSettled'
    BY <1>0, <2>1, <2>2 DEF EvidenceIsSettled
  <2>4. \A e \in Candidates : verdict[First(e)] = "supported" => verdict'[First(e)] = "supported"
    BY <1>0, <2>1, <2>2
  <2> QED BY <1>1, <2>1, <2>3, <2>4
<1>9. ASSUME NEW v \in 1..Len(manifests) + 1, Reconcile(v) PROVE EvidenceIsSettled' /\ ManifestsAgree'
  <2> DEFINE m == [version |-> v, kind |-> kind, status |-> [n \in Nodes |-> Status(n)]]
  <2>1. manifests' = Append(manifests, m) /\ UNCHANGED <<kind, verdict, native>> /\ Agreed
    BY <1>9 DEF Reconcile
  <2>2. \A c \in Candidates : m.status[First(c)] = Status(First(c))
                              /\ m.kind[Second(c)] = kind[Second(c)]
    OBVIOUS
  <2>3. ASSUME NEW c \in Candidates, m.status[First(c)] = "supported"
        PROVE  verdict[First(c)] = "supported" /\ kind[Second(c)] = "absent"
    <3>1. c \notin native /\ verdict[First(c)] = "supported"
      BY <2>2, <2>3 DEF Status
    <3>2. kind[First(c)] = "candidate"
      BY <3>1 DEF EvidenceIsSettled
    <3> QED BY <3>1, <3>2 DEF EvidenceIsSettled
  <2>4. ASSUME NEW c \in Candidates, verdict[First(c)] = "supported"
        PROVE  kind[Second(c)] = "absent"
    <3>1. c \notin native
      BY <1>0, <2>1, <2>4 DEF Agreed
    <3> QED BY <2>4, <3>1 DEF EvidenceIsSettled
  <2> HIDE DEF m
  <2>5. /\ Len(manifests') = Len(manifests) + 1 /\ Len(manifests) \in Nat
        /\ \A i \in 1..Len(manifests) : manifests'[i] = manifests[i]
        /\ manifests'[Len(manifests) + 1] = m
    BY <2>1 DEF TypeOK
  <2>6. EvidenceIsSettled'
    BY <2>1 DEF EvidenceIsSettled
  <2>7. ASSUME NEW i \in 1..Len(manifests'), NEW c \in Candidates
        PROVE  /\ manifests'[i].status[First(c)] = "supported" => verdict[First(c)] = "supported"
               /\ manifests'[i].kind[Second(c)] # "absent" => kind[Second(c)] # "absent"
    <3>1. CASE i = Len(manifests) + 1
      BY <2>2, <2>3, <2>5, <3>1
    <3>2. CASE i # Len(manifests) + 1
      BY <2>5, <3>2 DEF ManifestsAgree
    <3> QED BY <3>1, <3>2
  <2>8. ASSUME NEW i \in 1..Len(manifests'), NEW j \in 1..Len(manifests'), NEW c \in Candidates
        PROVE  ~ (manifests'[i].status[First(c)] = "supported"
                  /\ manifests'[j].kind[Second(c)] # "absent")
    BY <2>4, <2>7
  <2> QED BY <2>1, <2>6, <2>7, <2>8 DEF ManifestsAgree
<1>10. CASE Gather
  BY <1>3, <1>5, <1>6, <1>7, <1>8, <1>9, <1>10 DEF Gather
<1>11. CASE ~Gather
  BY <1>2, <1>11, ManifestsAreKept DEF Next, vars
<1> QED BY <1>10, <1>11

-----------------------------------------------------------------------------
(* The theorems. *)

IInv ==
  /\ TypeOK
  /\ CommandShape
  /\ PersistInOrder
  /\ CoverageIsCommitPoint
  /\ ReconciledHaveReceipts
  /\ UnitsArePublished
  /\ ReleaseIsBacked
  /\ EvidenceIsSettled
  /\ ManifestsAgree

LEMMA Initial == Init => IInv
<1> SUFFICES ASSUME Init PROVE IInv
  OBVIOUS
<1>1. CommandShape /\ PersistInOrder
  BY DEF Init, CommandShape, PersistInOrder
<1>2. CoverageIsCommitPoint /\ ReconciledHaveReceipts /\ UnitsArePublished
  BY DEF Init, CoverageIsCommitPoint, ReconciledHaveReceipts, UnitsArePublished
<1>3. ReleaseIsBacked
  BY BoundsAssumption DEF Init, ReleaseIsBacked, NoDocument
<1>4. EvidenceIsSettled /\ ManifestsAgree
  BY NodeShape, NoneAssumption DEF Init, EvidenceIsSettled, ManifestsAgree, Statuses, Dispositions
<1> QED BY <1>1, <1>2, <1>3, <1>4, TypeInit DEF IInv

LEMMA Inductive == IInv /\ [Next]_vars => IInv'
<1> SUFFICES ASSUME IInv, [Next]_vars PROVE IInv'
  OBVIOUS
<1>1. TypeOK'
  <2>1. CASE UNCHANGED vars
    BY <2>1 DEF IInv, TypeOK, vars, evidence, database, command, release
  <2> QED BY <2>1, TypeGather, TypePersist, TypeRelease DEF IInv, Next
<1>2. CommandShape' /\ PersistInOrder'
  <2>1. CASE Persist
    BY <2>1, PersistStep DEF IInv
  <2>2. CASE Gather
    <3>1. work = 0 /\ UNCHANGED <<work, stage, todo>>
      BY <2>2, ManifestsAreKept DEF IInv, command
    <3> QED BY <3>1 DEF IInv, CommandShape, PersistInOrder
  <2>3. CASE ReleaseStep \/ UNCHANGED vars
    <3>1. UNCHANGED <<manifests, work, stage, todo, saved, verifications, selected, conflicts, units,
                      receipts, reconciliations, coverage, lexical>>
      BY <2>3, ManifestsAreKept DEF IInv, vars, evidence, database, command
    <3>2. \A s : Left(s)' = Left(s)
      BY <3>1 DEF Left
    <3> QED BY <3>1, <3>2 DEF IInv, CommandShape, PersistInOrder
  <2> QED BY <2>1, <2>2, <2>3 DEF Next
<1>3. CoverageIsCommitPoint' /\ ReconciledHaveReceipts' /\ UnitsArePublished'
  BY CoverageStep, ReconciledStep, UnitsStep DEF IInv
<1>4. ReleaseIsBacked'
  BY ReleaseStepIsBacked DEF IInv
<1>5. EvidenceIsSettled' /\ ManifestsAgree'
  BY EvidenceStep DEF IInv
<1> QED BY <1>1, <1>2, <1>3, <1>4, <1>5 DEF IInv

\* The invariant of practice_guidance as a whole: a persist works through its manifest
\* in order, the manifests agree on every original, and releases are backed by them.
THEOREM Invariance == Spec => []IInv
<1>1. Init => IInv
  BY Initial
<1>2. IInv /\ [Next]_vars => IInv'
  BY Inductive
<1> QED BY <1>1, <1>2, PTL DEF Spec

\* Every variable of the evidence, the database, the command and the release keeps its
\* type.
THEOREM TypeCorrect == Spec => []TypeOK
<1>1. IInv => TypeOK
  BY DEF IInv
<1> QED BY <1>1, Invariance, PTL

\* A logical candidate never has units for its original and for its successor: an
\* original that was supported blocks the reconciliation of a successor, and a refuted
\* or failed one is never supported later (reconcile_bounded_recovery_command).
THEOREM OneVersion == Spec => []OneVersionIsAuthoritative
<1>1. IInv => OneVersionIsAuthoritative
  <2> SUFFICES ASSUME IInv, NEW c \in Candidates, First(c) \in units, Second(c) \in units
               PROVE  FALSE
    BY DEF OneVersionIsAuthoritative
  <2>1. PICK i \in 1..Len(manifests) : First(c) \in Publishable(manifests[i])
    BY DEF IInv, UnitsArePublished
  <2>2. PICK j \in 1..Len(manifests) : Second(c) \in Publishable(manifests[j])
    BY DEF IInv, UnitsArePublished
  <2>3. manifests[i].status[First(c)] = "supported" /\ manifests[j].kind[Second(c)] = "candidate"
    BY <2>1, <2>2, ManifestParts
  <2> QED BY <2>3 DEF IInv, ManifestsAgree
<1> QED BY <1>1, Invariance, PTL

\* Wherever persist_verified_guidance_command stops and whatever is persisted again, a
\* recorded coverage manifest has everything it names in the database.
THEOREM CommitPoint == Spec => []CoverageIsCommitPoint
<1>1. IInv => CoverageIsCommitPoint
  BY DEF IInv
<1> QED BY <1>1, Invariance, PTL

\* A persist that ends normally leaves its own manifest as the newest account.
THEOREM Coherent == Spec => []CompletedPersistIsCoherent
<1>1. IInv => CompletedPersistIsCoherent
  <2> SUFFICES ASSUME IInv, stage = "done" PROVE CompletedPersistIsCoherent
    BY DEF CompletedPersistIsCoherent
  <2>1. Left("verifications") = {} /\ Left("receipts") = {}
    BY DEF Left, Rank
  <2> QED BY <2>1 DEF IInv, PersistInOrder, CompletedPersistIsCoherent
<1> QED BY <1>1, Invariance, PTL

\* construct_manifest reads the units of the edition, and yet the active release has all
\* that its coverage manifest publishes.
THEOREM ReleaseIsComplete == Spec => []ReleaseCoversManifest
<1>1. IInv => ReleaseCoversManifest
  <2> SUFFICES ASSUME IInv, active # 0
               PROVE  Publishable(manifests[active]) \subseteq constructions[active]
    BY DEF ReleaseCoversManifest
  <2>1. active \in 1..Len(manifests) /\ constructions[active] # {}
    BY DEF IInv, ReleaseIsBacked, TypeOK
  <2> QED BY <2>1 DEF IInv, ReleaseIsBacked
<1> QED BY <1>1, Invariance, PTL

\* A persist is refused on its way only where another manifest has left receipts: alone,
\* it can be repeated from any point.
THEOREM Restartable == Spec => []RestartIsSafe
<1>1. IInv => RestartIsSafe
  <2> SUFFICES ASSUME IInv, Refusing
               PROVE  \E p \in Pages : \E k \in DOMAIN receipts[p] : receipts[p][k] # work
    BY DEF RestartIsSafe
  <2>0. PICK q \in Pages : TRUE
    BY PagesAssumption
  <2>1. ASSUME stage = "receipts", NEW p \in todo, Superseded(receipts[p], work)
        PROVE  \E x \in Pages : \E k \in DOMAIN receipts[x] : receipts[x][k] # work
    <3>1. p \in Pages
      BY <2>1, ItemsOf DEF IInv, CommandShape
    <3>2. receipts[p] \in Seq(1..MaxManifests)
      BY <3>1 DEF IInv, TypeOK
    <3>3. receipts[p] # <<>> /\ receipts[p][Len(receipts[p])] # work
      BY <2>1, <3>2 DEF Superseded, Newest
    <3>4. Len(receipts[p]) \in DOMAIN receipts[p]
      BY <3>2, <3>3
    <3> QED BY <3>1, <3>3, <3>4
  <2>2. ASSUME stage = "reconciliation", Superseded(reconciliations, PageStates(manifests[work]))
        PROVE  \E x \in Pages : \E k \in DOMAIN receipts[x] : receipts[x][k] # work
    <3>1. reconciliations \in Seq([Pages -> PageStateNames])
      BY DEF IInv, TypeOK
    <3>2. /\ reconciliations # <<>>
          /\ reconciliations[Len(reconciliations)] # PageStates(manifests[work])
      BY <2>2, <3>1 DEF Superseded, Newest
    <3>3. Len(reconciliations) \in DOMAIN reconciliations
      BY <3>1, <3>2
    <3>4. PICK j \in 1..Len(manifests) :
                 /\ reconciliations[Len(reconciliations)] = PageStates(manifests[j])
                 /\ \A p \in Pages : \E l \in DOMAIN receipts[p] : receipts[p][l] = j
      BY <3>3 DEF IInv, ReconciledHaveReceipts
    <3> QED BY <2>0, <3>2, <3>4
  <2>3. ASSUME stage = "coverage", Taken(work)
        PROVE  \E x \in Pages : \E k \in DOMAIN receipts[x] : receipts[x][k] # work
    <3>1. PICK j \in coverage : j # work
      BY <2>3 DEF Taken
    <3>2. \A p \in Pages : \E k \in DOMAIN receipts[p] : receipts[p][k] = j
      BY DEF IInv, CoverageIsCommitPoint, IsPersisted
    <3> QED BY <2>0, <3>1, <3>2
  <2> QED BY <2>1, <2>2, <2>3 DEF Refusing
<1> QED BY <1>1, Invariance, PTL
=============================================================================
