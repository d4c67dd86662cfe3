------------------------ MODULE PackageProduction_proofs ------------------------
(***************************************************************************)
(* Theorems about PackageProduction, for every set of documents, any       *)
(* number of workers, owners and attempts, and packages of any length.     *)
(***************************************************************************)
EXTENDS PackageProduction, TLAPS

USE MembersAssumption, BoundsAssumption, NoneAssumption

--------------------------------------------------------------------------------
(* The inductive invariant *)

\* Whoever publishes next has a whole file.
PublishersHaveBytes ==
  \A w \in Workers : stage[w] = "publish" => bytes[File(run[w])] = "whole"

\* A document names a run while it is a candidate or finalized, and then one of its own that
\* has a candidate.
DocumentsHaveCandidates ==
  \A v \in 1..Version, m \in Members :
    LET d == package[v].docs[m]
    IN /\ d.run # None <=> d.state \in {"generated_candidate", "finalized"}
       /\ d.run # None => d.run.m = m /\ candidate[d.run] # "none"

\* The outcome of a candidate is that of its document's template.
OutcomesAreFixed ==
  \A r \in Runs : candidate[r] # "none" => candidate[r] = Outcome(r.m)

IInv ==
  /\ TypeOK
  /\ PublishersHaveBytes
  /\ DocumentsHaveCandidates
  /\ OutcomesAreFixed
  /\ CandidateHasBytes
  /\ FinalizedIsApproved

--------------------------------------------------------------------------------
(* Packages *)

PackageVersions == [formed : BOOLEAN, docs : [Members -> Documents]]

\* The versions there are stay as they are when another one is appended.
LEMMA AppendedVersion ==
  ASSUME package \in Seq(PackageVersions), NEW p \in PackageVersions,
         package' = Append(package, p)
  PROVE  /\ Version \in Nat /\ Version' = Version + 1
         /\ package' \in Seq(PackageVersions)
         /\ \A v \in 1..Version : package'[v] = package[v] /\ v \in 1..Version'
         /\ package'[Version + 1] = p /\ Latest' = p
         /\ \A v \in 1..Version' : v \in 1..Version \/ v = Version + 1
BY DEF Version, Latest

\* A version with one document replaced.
LEMMA EvolvedVersion ==
  ASSUME NEW p \in PackageVersions, NEW m \in Members, NEW d \in Documents
  PROVE  /\ Evolved(p, m, d) \in PackageVersions
         /\ Evolved(p, m, d).docs[m] = d
         /\ \A n \in Members \ {m} : Evolved(p, m, d).docs[n] = p.docs[n]
BY DEF Evolved, PackageVersions

\* A new package has no runs and nothing finalized.
LEMMA FormedVersion ==
  /\ NewPackage \in PackageVersions
  /\ \A m \in Members : /\ NewPackage.docs[m].run = None
                        /\ NewPackage.docs[m].state \in {"missing", "blocked"}
BY DEF NewPackage, FirstDocument, Document, PackageVersions, Documents

\* The latest version is one of the versions.
LEMMA LatestVersion ==
  ASSUME package \in Seq(PackageVersions), Version > 0
  PROVE  Version \in 1..Version /\ Latest \in PackageVersions
         /\ \A m \in Members : Latest.docs[m] \in Documents
<1>1. Version \in 1..Version /\ package[Version] \in PackageVersions
  BY DEF Version
<1> QED
  BY <1>1 DEF Latest, PackageVersions

\* The file of a run is one of the files.
LEMMA FilesOfRuns == \A r \in Runs : File(r) \in Files
BY DEF Runs, Files, File

--------------------------------------------------------------------------------
(* Steps *)

\* Nothing is produced at first.
LEMMA InitInvariant == Init => IInv
<1> SUFFICES ASSUME Init PROVE IInv
  OBVIOUS
<1>1. Version = 0
  BY DEF Init, Version
<1>2. PackageTypes
  BY <1>1 DEF Init, PackageTypes
<1>3. QueueTypes
  BY DEF Init, QueueTypes, Stages
<1>4. PublishersHaveBytes /\ OutcomesAreFixed /\ CandidateHasBytes
  BY DEF Init, PublishersHaveBytes, OutcomesAreFixed, CandidateHasBytes
<1>5. DocumentsHaveCandidates /\ FinalizedIsApproved
  BY <1>1 DEF DocumentsHaveCandidates, FinalizedIsApproved
<1> QED
  BY <1>2, <1>3, <1>4, <1>5 DEF IInv, TypeOK

\* Steps of the queue and of an execution that produce nothing.
LEMMA QueueStep ==
  ASSUME IInv, QueueTypes', UNCHANGED <<package, bytes, candidate, approval>>,
         \A w \in Workers : stage'[w] = "publish" => stage[w] = "publish" /\ run'[w] = run[w]
  PROVE  IInv'
<1> USE DEF IInv, TypeOK
<1>1. UNCHANGED <<approvals, final>>
  BY DEF approval
<1>2. PackageTypes'
  BY <1>1 DEF PackageTypes, Version
<1>3. PublishersHaveBytes'
  BY DEF PublishersHaveBytes
<1>4. DocumentsHaveCandidates'
  BY DEF DocumentsHaveCandidates, Version
<1>5. OutcomesAreFixed' /\ CandidateHasBytes'
  BY DEF OutcomesAreFixed, CandidateHasBytes
<1>6. FinalizedIsApproved'
  BY <1>1 DEF FinalizedIsApproved, Version, ReviewedBy
<1> QED
  BY <1>2, <1>3, <1>4, <1>5, <1>6

\* The queue, the stages of an execution and the loss of a worker.
LEMMA QueueInvariant ==
  ASSUME IInv,
         \/ \E m \in Members, f \in 1..MaxFacts : StartGeneration(m, f)
         \/ \E r \in Runs : Reconcile(r)
         \/ \E w \in Workers : \/ ExistingCandidate(w) \/ AdvanceGeneration(w) \/ RenderLater(w)
                               \/ RenderFails(w) \/ FinishJob(w) \/ Crash(w)
                               \/ \E r \in Runs : Claim(w, r)
  PROVE  IInv'
<1> USE DEF IInv, TypeOK, QueueTypes
<1>1. CASE \E m \in Members, f \in 1..MaxFacts : StartGeneration(m, f)
  <2>1. QueueTypes'
    BY <1>1 DEF StartGeneration, execution
  <2> QED
    BY <1>1, <2>1, QueueStep DEF StartGeneration, execution
<1>2. CASE \E r \in Runs : Reconcile(r)
  <2>1. QueueTypes'
    BY <1>2 DEF Reconcile, execution, Settled
  <2> QED
    BY <1>2, <2>1, QueueStep DEF Reconcile, execution
<1>3. ASSUME NEW w \in Workers, NEW r \in Runs, Claim(w, r) PROVE IInv'
  <2>1. QueueTypes'
    BY <1>3 DEF Claim, Stages
  <2> QED
    BY <1>3, <2>1, QueueStep DEF Claim
<1>4. ASSUME NEW w \in Workers, ExistingCandidate(w) PROVE IInv'
  <2>1. QueueTypes'
    BY <1>4 DEF ExistingCandidate, Goto, Stages, Settled, queue
  <2> QED
    BY <1>4, <2>1, QueueStep DEF ExistingCandidate, Goto
<1>5. ASSUME NEW w \in Workers, AdvanceGeneration(w) PROVE IInv'
  <2>1. /\ stage[w] \in {"rendering", "validating"}
        /\ Then[stage[w]] \in {"validating", "put"}
    BY <1>5 DEF AdvanceGeneration, Before, Then
  <2>2. /\ \E s \in {"validating", "put", "failed"} : Goto(w, s)
        /\ status' = status \/ status' = [status EXCEPT ![run[w]] = stage[w]]
        /\ UNCHANGED <<package, queue, bytes, candidate, approval, crashes>>
    BY <1>5, <2>1 DEF AdvanceGeneration
  <2>3. QueueTypes'
    BY <2>1, <2>2 DEF Goto, Stages, Settled, queue
  <2> QED
    BY <2>2, <2>3, QueueStep DEF Goto
<1>6. ASSUME NEW w \in Workers, RenderLater(w) \/ RenderFails(w) PROVE IInv'
  <2>1. QueueTypes'
    BY <1>6 DEF RenderLater, RenderFails, Goto, Stages, Settled, queue
  <2> QED
    BY <1>6, <2>1, QueueStep DEF RenderLater, RenderFails, Goto
<1>7. ASSUME NEW w \in Workers, FinishJob(w) PROVE IInv'
  <2>1. job' \in [Runs -> {"none", "queued", "held"} \cup Settled]
    BY <1>7 DEF FinishJob, Settled
  <2>2. holder' \in [Runs -> Workers \cup {None}]
    BY <1>7 DEF FinishJob
  <2>3. QueueTypes'
    BY <1>7, <2>1, <2>2 DEF FinishJob, Leave, Stages
  <2> QED
    BY <1>7, <2>3, QueueStep DEF FinishJob, Leave
<1>8. ASSUME NEW w \in Workers, Crash(w) PROVE IInv'
  <2>1. QueueTypes'
    BY <1>8 DEF Crash, Leave, Stages, queue
  <2> QED
    BY <1>8, <2>1, QueueStep DEF Crash, Leave
<1> QED
  BY <1>1, <1>2, <1>3, <1>4, <1>5, <1>6, <1>7, <1>8

\* A file is created, compared or written; one that is whole stays so.
LEMMA FileStep ==
  ASSUME IInv, NEW w \in Workers, PutDerived(w) \/ WriteBytes(w)
  PROVE  IInv'
<1> USE DEF IInv, TypeOK
<1>1. /\ stage[w] \in {"put", "write"} /\ run[w] \in Runs /\ File(run[w]) \in Files
      /\ UNCHANGED <<package, queue, status, candidate, approvals, final, crashes>>
  BY FilesOfRuns DEF PutDerived, WriteBytes, QueueTypes, approval
<1>2. /\ bytes' \in [Files -> {"absent", "partial", "whole"}]
      /\ \A f \in Files : bytes[f] = "whole" => bytes'[f] = "whole"
      /\ \/ Goto(w, "write")
         \/ Goto(w, "publish") /\ bytes'[File(run[w])] = "whole"
         \/ Leave(w)
  <2>1. CASE PutDerived(w)
    <3>1. bytes[File(run[w])] \in {"absent", "partial", "whole"}
      BY <1>1 DEF PackageTypes
    <3> QED
      BY <1>1, <2>1, <3>1 DEF PutDerived, PackageTypes
  <2>2. CASE WriteBytes(w)
    BY <1>1, <2>2 DEF WriteBytes, PackageTypes
  <2> QED
    BY <2>1, <2>2
<1>3. PackageTypes'
  BY <1>1, <1>2 DEF PackageTypes, Version
<1>4. QueueTypes'
  BY <1>1, <1>2 DEF QueueTypes, queue, Goto, Leave, Stages
<1>5. PublishersHaveBytes'
  <2>1. \A v \in Workers : stage'[v] = "publish" =>
          run'[v] = run[v] /\ run[v] \in Runs
            /\ (stage[v] = "publish" \/ (v = w /\ bytes'[File(run[w])] = "whole"))
    BY <1>1, <1>2 DEF Goto, Leave, QueueTypes, Stages
  <2> QED
    BY <1>2, <2>1, FilesOfRuns DEF PublishersHaveBytes
<1>6. DocumentsHaveCandidates' /\ OutcomesAreFixed'
  BY <1>1 DEF DocumentsHaveCandidates, OutcomesAreFixed, Version
<1>7. CandidateHasBytes'
  BY <1>1, <1>2, FilesOfRuns DEF CandidateHasBytes
<1>8. FinalizedIsApproved'
  BY <1>1 DEF FinalizedIsApproved, Version, ReviewedBy
<1> QED
  BY <1>3, <1>4, <1>5, <1>6, <1>7, <1>8

\* A document of the next version: unchanged, without a run, or with one that bears it.
Sound(m, d) ==
  \/ d.run = None /\ d.state \in {"missing", "blocked"}
  \/ /\ d.run \in Runs /\ d.run.m = m /\ candidate[d.run] # "none"
     /\ \/ d.state = "generated_candidate"
        \/ /\ d.state = "finalized" /\ candidate[d.run] = "print_ready" /\ final[d.run] # None
           /\ final[d.run].by # final[d.run].reviewer
           /\ final[d.run].reviewer \in ReviewedBy(d.run)

\* Candidates, finalizations and approvals only become more.
Kept ==
  \A r \in Runs : /\ candidate[r] # "none" => candidate'[r] = candidate[r]
                  /\ final[r] # None => final'[r] = final[r]
                  /\ ReviewedBy(r) \subseteq ReviewedBy(r)'

\* The documents of all versions are sound.
LEMMA SoundDocuments ==
  ASSUME PackageTypes, DocumentsHaveCandidates, FinalizedIsApproved
  PROVE  \A v \in 1..Version, m \in Members : Sound(m, package[v].docs[m])
<1>1. TAKE v \in 1..Version, m \in Members
<1>2. package \in Seq(PackageVersions)
  BY DEF PackageTypes, PackageVersions
<1>3. package[v] \in PackageVersions
  BY <1>2 DEF Version
<1>4. package[v].docs[m] \in Documents
  BY <1>3 DEF PackageVersions
<1> QED
  BY <1>4 DEF Documents, DocumentsHaveCandidates, FinalizedIsApproved, Sound

\* Sound documents of the next state are all that the invariant asks for.
LEMMA SoundVersions ==
  ASSUME \A v \in 1..Version', m \in Members : Sound(m, package[v].docs[m])'
  PROVE  DocumentsHaveCandidates' /\ FinalizedIsApproved'
BY DEF Sound, DocumentsHaveCandidates, FinalizedIsApproved

\* A version is appended, of documents of the latest one and others that are sound.
LEMMA VersionStep ==
  ASSUME IInv, NEW p \in PackageVersions, package' = Append(package, p), Kept,
         \A m \in Members : (Version > 0 /\ p.docs[m] = Latest.docs[m]) \/ Sound(m, p.docs[m])'
  PROVE  DocumentsHaveCandidates' /\ FinalizedIsApproved'
<1>1. package \in Seq(PackageVersions)
  BY DEF IInv, TypeOK, PackageTypes, PackageVersions
<1>2. \A v \in 1..Version, m \in Members : Sound(m, package[v].docs[m])
  BY SoundDocuments DEF IInv, TypeOK
<1>3. \A v \in 1..Version, m \in Members : Sound(m, package[v].docs[m])'
  <2>1. TAKE v \in 1..Version, m \in Members
  <2>2. Sound(m, package[v].docs[m])
    BY <1>2
  <2>3. package'[v] = package[v]
    BY <1>1, AppendedVersion
  <2> QED
    BY <2>2, <2>3 DEF Sound, Kept
<1>4. \A m \in Members : Sound(m, p.docs[m])'
  <2>1. TAKE m \in Members
  <2>2. CASE Version > 0 /\ p.docs[m] = Latest.docs[m]
    <3>1. Sound(m, p.docs[m])
      BY <1>1, <1>2, <2>2, LatestVersion DEF Latest
    <3> QED
      BY <3>1 DEF Sound, Kept
  <2> QED
    BY <2>2
<1>5. \A v \in 1..Version', m \in Members : Sound(m, package[v].docs[m])'
  <2>1. TAKE v \in 1..Version', m \in Members
  <2>2. CASE v \in 1..Version
    BY <1>3, <2>2
  <2>3. CASE v = Version + 1
    <3>1. package'[v] = p
      BY <1>1, <2>3, AppendedVersion
    <3> QED
      BY <1>4, <3>1 DEF Sound
  <2> QED
    BY <1>1, <2>2, <2>3, AppendedVersion
<1> QED
  BY <1>5, SoundVersions

\* The package stays as it is.
LEMMA SamePackage ==
  ASSUME IInv, UNCHANGED package, Kept
  PROVE  DocumentsHaveCandidates' /\ FinalizedIsApproved'
<1>1. Version' = Version
  BY DEF Version
<1>2. \A v \in 1..Version, m \in Members : Sound(m, package[v].docs[m])
  BY SoundDocuments DEF IInv, TypeOK
<1>3. \A v \in 1..Version', m \in Members : Sound(m, package[v].docs[m])'
  BY <1>1, <1>2 DEF Sound, Kept
<1> QED
  BY <1>3, SoundVersions

\* A worker publishes its candidate: nothing, the candidate alone, or a version of the package.
LEMMA PublishInvariant ==
  ASSUME IInv, NEW w \in Workers, PublishCandidate(w)
  PROVE  IInv'
<1> USE DEF IInv, TypeOK
<1>0. PICK r \in Runs : r = run[w]
  BY DEF PublishCandidate, QueueTypes
<1>1. /\ stage[w] = "publish" /\ r \in Runs /\ r = run[w] /\ bytes[File(r)] = "whole"
      /\ UNCHANGED <<queue, bytes, approvals, final, crashes>>
  BY <1>0 DEF PublishCandidate, QueueTypes, PublishersHaveBytes, approval
<1>2. r.m \in Members /\ r.v \in 1..MaxVersion
  BY <1>1 DEF Runs
<1>3. package \in Seq(PackageVersions) /\ Version \in Nat
  BY DEF PackageTypes, PackageVersions, Version
<1>4. CASE ~Packaged(r) /\ r.v # Version
  <2>1. Goto(w, "reconciliation_required") /\ UNCHANGED <<candidate, package, status>>
    BY <1>1, <1>4 DEF PublishCandidate
  <2>2. QueueTypes'
    BY <1>1, <2>1 DEF QueueTypes, queue, Goto, Stages, Settled
  <2> QED
    BY <1>1, <2>1, <2>2, QueueStep DEF Goto, approval
<1>5. CASE Packaged(r) \/ r.v = Version
  <2>1. /\ candidate' = [candidate EXCEPT ![r] = Outcome(r.m)]
        /\ package' = IF Packaged(r) THEN package
                      ELSE Append(package, Evolved(package[r.v], r.m, Candidate(r)))
        /\ status' = [status EXCEPT ![r] =
                        IF @ = "validating" THEN "candidate_created" ELSE @]
        /\ Goto(w, "succeeded")
    BY <1>1, <1>5 DEF PublishCandidate
  <2>2. Outcome(r.m) \in {"blocked", "print_ready"}
    BY DEF Outcome
  <2>3. /\ candidate' \in [Runs -> {"none", "blocked", "print_ready"}]
        /\ candidate'[r] # "none"
    BY <1>1, <2>1, <2>2 DEF PackageTypes
  <2>4. Kept
    BY <1>1, <2>1 DEF Kept, OutcomesAreFixed, PackageTypes, ReviewedBy
  <2>5. /\ package' \in Seq(PackageVersions)
        /\ DocumentsHaveCandidates' /\ FinalizedIsApproved'
    <3>1. CASE Packaged(r)
      BY <1>3, <2>1, <2>4, <3>1, SamePackage
    <3>2. CASE ~Packaged(r)
      <4>1. Version > 0 /\ package' = Append(package, Evolved(Latest, r.m, Candidate(r)))
        BY <1>2, <1>3, <1>5, <2>1, <3>2 DEF Latest
      <4>2. Latest \in PackageVersions
        BY <1>3, <4>1, LatestVersion
      <4>3. Candidate(r) \in Documents
        BY <1>1 DEF Candidate, Document, Documents
      <4>4. PICK p \in PackageVersions : p = Evolved(Latest, r.m, Candidate(r))
        BY <1>2, <4>2, <4>3, EvolvedVersion
      <4>5. /\ p.docs[r.m] = Candidate(r)
            /\ \A m \in Members \ {r.m} : p.docs[m] = Latest.docs[m]
        BY <1>2, <4>2, <4>3, <4>4, EvolvedVersion
      <4>6. Sound(r.m, Candidate(r))'
        BY <1>1, <2>3 DEF Sound, Candidate, Document
      <4>7. \A m \in Members :
              (Version > 0 /\ p.docs[m] = Latest.docs[m]) \/ Sound(m, p.docs[m])'
        <5>1. Sound(r.m, p.docs[r.m])'
          BY <4>5, <4>6 DEF Sound, Candidate
        <5> QED
          BY <4>1, <4>5, <5>1
      <4> QED
        BY <1>3, <2>4, <4>1, <4>4, <4>7, VersionStep, AppendedVersion
    <3> QED
      BY <3>1, <3>2
  <2>6. PackageTypes'
    BY <1>1, <2>3, <2>5 DEF PackageTypes, PackageVersions
  <2>7. QueueTypes'
    BY <1>1, <2>1 DEF QueueTypes, queue, Goto, Stages, Settled
  <2>8. PublishersHaveBytes'
    BY <1>1, <2>1 DEF PublishersHaveBytes, Goto, QueueTypes
  <2>9. OutcomesAreFixed' /\ CandidateHasBytes'
    BY <1>1, <2>1 DEF OutcomesAreFixed, CandidateHasBytes, PackageTypes
  <2> QED
    BY <2>5, <2>6, <2>7, <2>8, <2>9
<1> QED
  BY <1>4, <1>5

\* A package is formed, all its documents without a run.
LEMMA FormInvariant ==
  ASSUME IInv, FormPackage
  PROVE  IInv'
<1> USE DEF IInv, TypeOK
<1>1. /\ package' = Append(package, NewPackage)
      /\ UNCHANGED <<queue, status, execution, bytes, candidate, approvals, final, crashes>>
  BY DEF FormPackage, approval
<1>2. package \in Seq(PackageVersions)
  BY DEF PackageTypes, PackageVersions
<1>3. Kept
  BY <1>1 DEF Kept, ReviewedBy
<1>4. PICK p \in PackageVersions :
        p = NewPackage /\ \A m \in Members : /\ p.docs[m].run = None
                                             /\ p.docs[m].state \in {"missing", "blocked"}
  BY FormedVersion
<1>5. \A m \in Members : Sound(m, p.docs[m])'
  BY <1>4 DEF Sound
<1>6. DocumentsHaveCandidates' /\ FinalizedIsApproved'
  BY <1>1, <1>3, <1>4, <1>5, VersionStep
<1>7. PackageTypes'
  BY <1>1, <1>2, <1>4, AppendedVersion DEF PackageTypes, PackageVersions
<1>8. QueueTypes' /\ PublishersHaveBytes'
  BY <1>1 DEF QueueTypes, PublishersHaveBytes, queue, execution
<1>9. OutcomesAreFixed' /\ CandidateHasBytes'
  BY <1>1 DEF OutcomesAreFixed, CandidateHasBytes
<1> QED
  BY <1>6, <1>7, <1>8, <1>9

\* One more owner has approved the candidate.
LEMMA ReviewInvariant ==
  ASSUME IInv, NEW o \in Owners, NEW r \in Runs, ReviewCandidate(o, r)
  PROVE  IInv'
<1> USE DEF IInv, TypeOK
<1>1. /\ approvals' = [approvals EXCEPT ![r] = Append(@, o)]
      /\ UNCHANGED <<package, queue, status, execution, bytes, candidate, final, crashes>>
  BY DEF ReviewCandidate
<1>2. approvals \in [Runs -> Seq(Owners)] /\ approvals' \in [Runs -> Seq(Owners)]
  BY <1>1 DEF PackageTypes
<1>3. Kept
  <2>1. \A q \in Runs : ReviewedBy(q) \subseteq ReviewedBy(q)'
    BY <1>1, <1>2 DEF ReviewedBy
  <2> QED
    BY <1>1, <2>1 DEF Kept
<1>4. DocumentsHaveCandidates' /\ FinalizedIsApproved'
  BY <1>1, <1>3, SamePackage
<1>5. PackageTypes'
  BY <1>1, <1>2 DEF PackageTypes
<1>6. QueueTypes' /\ PublishersHaveBytes'
  BY <1>1 DEF QueueTypes, PublishersHaveBytes, queue, execution
<1>7. OutcomesAreFixed' /\ CandidateHasBytes'
  BY <1>1 DEF OutcomesAreFixed, CandidateHasBytes
<1> QED
  BY <1>4, <1>5, <1>6, <1>7

\* The reviewer of a candidate is one of those who approved it.
LEMMA ReviewerApproved ==
  ASSUME PackageTypes, NEW r \in Runs, Reviewer(r) # None
  PROVE  Reviewer(r) \in ReviewedBy(r) /\ Reviewer(r) \in Owners
<1>1. approvals[r] \in Seq(Owners) /\ approvals[r] # <<>>
  BY DEF PackageTypes, Reviewer
<1>2. Len(approvals[r]) \in DOMAIN approvals[r]
  BY <1>1
<1> QED
  BY <1>1, <1>2 DEF Reviewer, ReviewedBy

\* The version in which a candidate is finalized, and who did it.
LEMMA FinalizedVersion ==
  ASSUME IInv, NEW o \in Owners, NEW r \in Runs, FinalizeCandidate(o, r)
  PROVE  /\ Version \in 1..Version /\ Latest \in PackageVersions /\ r.m \in Members
         /\ Latest.docs[r.m] = Candidate(r) /\ candidate[r] = "print_ready"
         /\ package' = Append(package, Evolved(Latest, r.m, Document("finalized", r)))
         /\ final[r] = None /\ final' \in [Runs -> Finalizations \cup {None}]
         /\ \A q \in Runs \ {r} : final'[q] = final[q]
         /\ final'[r] # None /\ final'[r].by # final'[r].reviewer
         /\ final'[r].reviewer \in ReviewedBy(r)
         /\ UNCHANGED <<queue, status, execution, bytes, candidate, approvals, crashes>>
<1> USE DEF IInv, TypeOK
<1>1. /\ candidate[r] = "print_ready" /\ final[r] = None /\ Reviewer(r) \notin {None, o}
      /\ final' = [final EXCEPT ![r] = [by |-> o, reviewer |-> Reviewer(r)]]
      /\ package' = Append(package, Evolved(Latest, r.m, Document("finalized", r)))
      /\ UNCHANGED <<queue, status, execution, bytes, candidate, approvals, crashes>>
  BY DEF FinalizeCandidate, Independent
<1>2. /\ Version \in 1..Version /\ package[Version].docs[r.m].run = r
      /\ package[Version].docs[r.m].state = "generated_candidate"
  BY DEF FinalizeCandidate
<1>3. r.m \in Members
  BY DEF Runs
<1>4. package \in Seq(PackageVersions)
  BY DEF PackageTypes, PackageVersions
<1>5. Latest \in PackageVersions /\ Latest.docs[r.m] \in Documents
  BY <1>2, <1>3, <1>4, LatestVersion
<1>6. Latest.docs[r.m] = Candidate(r)
  BY <1>2, <1>5 DEF Latest, Documents, Candidate, Document
<1>7. Reviewer(r) \in ReviewedBy(r) /\ Reviewer(r) \in Owners
  BY <1>1, ReviewerApproved
<1>8. PICK f \in Finalizations : f = [by |-> o, reviewer |-> Reviewer(r)]
  BY <1>7 DEF Finalizations
<1>9. /\ final' \in [Runs -> Finalizations \cup {None}] /\ final'[r] = f
      /\ \A q \in Runs \ {r} : final'[q] = final[q]
  BY <1>1, <1>8 DEF PackageTypes
<1>10. f # None /\ f.by # f.reviewer /\ f.reviewer \in ReviewedBy(r)
  BY <1>1, <1>7, <1>8
<1> QED
  BY <1>1, <1>2, <1>3, <1>5, <1>6, <1>9, <1>10

\* A candidate is finalized, and bears what it needs.
LEMMA FinalizeInvariant ==
  ASSUME IInv, NEW o \in Owners, NEW r \in Runs, FinalizeCandidate(o, r)
  PROVE  IInv'
<1> USE DEF IInv, TypeOK
<1> DEFINE d == Document("finalized", r)
<1>1. /\ Version \in 1..Version /\ Latest \in PackageVersions /\ r.m \in Members
      /\ candidate[r] = "print_ready" /\ package' = Append(package, Evolved(Latest, r.m, d))
      /\ final[r] = None /\ final' \in [Runs -> Finalizations \cup {None}]
      /\ \A q \in Runs \ {r} : final'[q] = final[q]
      /\ final'[r] # None /\ final'[r].by # final'[r].reviewer
      /\ final'[r].reviewer \in ReviewedBy(r)
      /\ UNCHANGED <<queue, status, execution, bytes, candidate, approvals, crashes>>
  BY FinalizedVersion
<1>2. package \in Seq(PackageVersions)
  BY DEF PackageTypes, PackageVersions
<1>3. Kept
  BY <1>1 DEF Kept, ReviewedBy
<1>4. d \in Documents
  BY DEF Document, Documents
<1>5. PICK p \in PackageVersions : p = Evolved(Latest, r.m, d)
  BY <1>1, <1>4, EvolvedVersion
<1>6. p.docs[r.m] = d /\ \A m \in Members \ {r.m} : p.docs[m] = Latest.docs[m]
  BY <1>1, <1>4, <1>5, EvolvedVersion
<1>7. Sound(r.m, d)'
  BY <1>1 DEF Sound, Document, ReviewedBy
<1>8. \A m \in Members :
        (Version > 0 /\ p.docs[m] = Latest.docs[m]) \/ Sound(m, p.docs[m])'
  <2>1. Sound(r.m, p.docs[r.m])'
    BY <1>6, <1>7 DEF Sound
  <2> QED
    BY <1>1, <1>6, <2>1
<1>9. DocumentsHaveCandidates' /\ FinalizedIsApproved'
  BY <1>1, <1>3, <1>5, <1>8, VersionStep
<1>10. PackageTypes'
  BY <1>1, <1>2, <1>5, AppendedVersion DEF PackageTypes, PackageVersions
<1>11. QueueTypes' /\ PublishersHaveBytes'
  BY <1>1 DEF QueueTypes, PublishersHaveBytes, queue, execution
<1>12. OutcomesAreFixed' /\ CandidateHasBytes'
  BY <1>1 DEF OutcomesAreFixed, CandidateHasBytes
<1> QED
  BY <1>9, <1>10, <1>11, <1>12

\* Every step.
LEMMA NextInvariant == IInv /\ [Next]_vars => IInv'
<1> SUFFICES ASSUME IInv, [Next]_vars PROVE IInv'
  OBVIOUS
<1>1. CASE OwnerCommand
  BY <1>1, FormInvariant, QueueInvariant, FinalizeInvariant, ReviewInvariant DEF OwnerCommand
<1>2. ASSUME NEW w \in Workers, Execute(w) \/ Crash(w) \/ \E r \in Runs : Claim(w, r)
      PROVE  IInv'
  BY <1>2, QueueInvariant, FileStep, PublishInvariant DEF Execute
<1>3. CASE \E r \in Runs : Reconcile(r)
  BY <1>3, QueueInvariant
<1>4. CASE UNCHANGED vars
  <2>1. UNCHANGED <<package, bytes, candidate, approval, stage, run, status, job, attempts,
                    holder, crashes>>
    BY <1>4 DEF vars, queue, execution
  <2>2. QueueTypes'
    BY <2>1 DEF IInv, TypeOK, QueueTypes
  <2> QED
    BY <2>1, <2>2, QueueStep
<1> QED
  BY <1>1, <1>2, <1>3, <1>4 DEF Next

--------------------------------------------------------------------------------
(* Theorems *)

\* The invariant holds in every behaviour of the generations, the reviews and the package.
THEOREM Invariance == Spec => []IInv
BY InitInvariant, NextInvariant, PTL DEF Spec

\* Types of the variables; a worker has a run unless it is idle.
THEOREM TypeCorrect == Spec => []TypeOK
BY Invariance, PTL DEF IInv

\* A candidate's file is there in full, whatever workers were lost while they wrote files.
THEOREM CandidatesCanBeRead == Spec => []CandidateHasBytes
BY Invariance, PTL DEF IInv

\* What is finalized was approved by another owner than the one who finalized it.
THEOREM FinalizationIsIndependent == Spec => []FinalizedIsApproved
BY Invariance, PTL DEF IInv

--------------------------------------------------------------------------------
(* The package *)

\* The latest version after one was appended, as the package of the abstract specification.
LEMMA AppendedPackage ==
  ASSUME package \in Seq(PackageVersions), NEW p \in PackageVersions,
         package' = Append(package, p)
  PROVE  /\ Version' > 0
         /\ \A m \in Members : Standing(m)' = p.docs[m].run
         /\ {m \in Members : Version > 0 /\ Latest.docs[m].state = "finalized"}'
              = {m \in Members : p.docs[m].state = "finalized"}
<1>1. Version' = Version + 1 /\ Version \in Nat /\ Latest' = p
  BY AppendedVersion
<1> QED
  BY <1>1 DEF Standing

\* No version, no step of the package.
LEMMA UnchangedPackage ==
  ASSUME UNCHANGED package
  PROVE  UNCHANGED Package!vars
BY DEF Package!vars, Standing, Version, Latest

\* A document is drafted by the publication of a candidate.
LEMMA PublishDrafts ==
  ASSUME IInv, NEW w \in Workers, PublishCandidate(w)
  PROVE  [Package!Next]_(Package!vars)
<1> USE DEF IInv, TypeOK
<1>1. PICK r \in Runs : r = run[w]
  BY DEF PublishCandidate, QueueTypes
<1>2. r.m \in Members /\ r.v \in 1..MaxVersion
  BY <1>1 DEF Runs
<1>3. CASE UNCHANGED package
  BY <1>3, UnchangedPackage
<1>4. CASE /\ ~Packaged(r) /\ r.v = Version
           /\ package' = Append(package, Evolved(package[r.v], r.m, Candidate(r)))
  <2>1. package \in Seq(PackageVersions) /\ Version \in 1..Version
    BY <1>2, <1>4 DEF PackageTypes, PackageVersions, Version
  <2>2. Latest \in PackageVersions /\ Latest.docs[r.m] \in Documents
    BY <1>2, <2>1, LatestVersion
  <2>3. Candidate(r) \in Documents
    BY DEF Candidate, Document, Documents
  <2>4. PICK p \in PackageVersions :
          p = Evolved(Latest, r.m, Candidate(r)) /\ package' = Append(package, p)
    BY <1>2, <1>4, <2>2, <2>3, EvolvedVersion DEF Latest
  <2>5. p.docs[r.m] = Candidate(r) /\ \A m \in Members \ {r.m} : p.docs[m] = Latest.docs[m]
    BY <1>2, <2>2, <2>3, <2>4, EvolvedVersion
  <2>6. Standing(r.m) # r
    BY <1>2, <1>4, <2>1 DEF Standing, Packaged, Latest
  <2>7. [m \in Members |-> Standing(m)]' = [[m \in Members |-> Standing(m)] EXCEPT ![r.m] = r]
    <3>1. \A m \in Members : Standing(m)' = p.docs[m].run
      BY <2>1, <2>4, AppendedPackage
    <3>2. \A m \in Members \ {r.m} : p.docs[m].run = Standing(m)
      BY <2>1, <2>5 DEF Standing
    <3>3. p.docs[r.m].run = r
      BY <2>5 DEF Candidate, Document
    <3> QED
      BY <1>2, <3>1, <3>2, <3>3
  <2>8. {m \in Members : Version > 0 /\ Latest.docs[m].state = "finalized"}'
          = {m \in Members : Version > 0 /\ Latest.docs[m].state = "finalized"} \ {r.m}
    BY <1>2, <2>1, <2>4, <2>5, AppendedPackage DEF Candidate, Document
  <2> QED
    BY <1>2, <2>6, <2>7, <2>8 DEF Package!Next, Package!Draft
<1> QED
  BY <1>1, <1>3, <1>4 DEF PublishCandidate

\* A drafted document is finalized.
LEMMA FinalizeFinalizes ==
  ASSUME IInv, NEW o \in Owners, NEW r \in Runs, FinalizeCandidate(o, r)
  PROVE  Package!Next
<1> DEFINE d == Document("finalized", r)
<1>1. /\ Version \in 1..Version /\ Latest \in PackageVersions /\ r.m \in Members
      /\ Latest.docs[r.m] = Candidate(r) /\ package' = Append(package, Evolved(Latest, r.m, d))
  BY FinalizedVersion
<1>2. package \in Seq(PackageVersions)
  BY DEF IInv, TypeOK, PackageTypes, PackageVersions
<1>3. d \in Documents
  BY DEF Document, Documents
<1>4. PICK p \in PackageVersions : p = Evolved(Latest, r.m, d)
  BY <1>1, <1>3, EvolvedVersion
<1>5. p.docs[r.m] = d /\ \A m \in Members \ {r.m} : p.docs[m] = Latest.docs[m]
  BY <1>1, <1>3, <1>4, EvolvedVersion
<1>6. Standing(r.m) = r /\ r # None
  BY <1>1 DEF Standing, Candidate, Document
<1>7. UNCHANGED [m \in Members |-> Standing(m)]
  BY <1>1, <1>2, <1>4, <1>5, <1>6, AppendedPackage DEF Standing, Document
<1>8. r.m \notin {m \in Members : Version > 0 /\ Latest.docs[m].state = "finalized"}
  BY <1>1 DEF Candidate, Document
<1>9. {m \in Members : Version > 0 /\ Latest.docs[m].state = "finalized"}'
        = {m \in Members : Version > 0 /\ Latest.docs[m].state = "finalized"} \cup {r.m}
  BY <1>1, <1>2, <1>4, <1>5, AppendedPackage DEF Document
<1> QED
  BY <1>1, <1>6, <1>7, <1>8, <1>9 DEF Package!Next, Package!Finalize

\* A new package starts all documents again.
LEMMA FormForms ==
  ASSUME IInv, FormPackage
  PROVE  Package!Next
<1>1. package \in Seq(PackageVersions) /\ package' = Append(package, NewPackage)
  BY DEF IInv, TypeOK, PackageTypes, PackageVersions, FormPackage
<1>2. PICK p \in PackageVersions :
        p = NewPackage /\ \A m \in Members : /\ p.docs[m].run = None
                                             /\ p.docs[m].state \in {"missing", "blocked"}
  BY FormedVersion
<1> QED
  BY <1>1, <1>2, AppendedPackage DEF Package!Next, Package!Form

\* Whatever workers do at the same time and however often, the package is one whose documents
\* are drafted and finalized one by one.
THEOREM ImplementsPackage == Spec => FollowsPackage
<1>1. Init => Package!Init
  BY DEF Init, Package!Init, Standing, Version
<1>2. IInv /\ [Next]_vars => [Package!Next]_(Package!vars)
  <2> SUFFICES ASSUME IInv, [Next]_vars PROVE [Package!Next]_(Package!vars)
    OBVIOUS
  <2>1. CASE FormPackage
    BY <2>1, FormForms
  <2>2. ASSUME NEW o \in Owners, NEW r \in Runs, FinalizeCandidate(o, r)
        PROVE  [Package!Next]_(Package!vars)
    BY <2>2, FinalizeFinalizes
  <2>3. ASSUME NEW w \in Workers, PublishCandidate(w) PROVE [Package!Next]_(Package!vars)
    BY <2>3, PublishDrafts
  <2>4. CASE UNCHANGED package
    BY <2>4, UnchangedPackage
  <2>5. \/ FormPackage \/ UNCHANGED package
        \/ \E o \in Owners, r \in Runs : FinalizeCandidate(o, r)
        \/ \E w \in Workers : PublishCandidate(w)
    <3>1. ASSUME NEW w \in Workers, Execute(w), ~PublishCandidate(w) PROVE UNCHANGED package
      BY <3>1 DEF Execute, ExistingCandidate, AdvanceGeneration, RenderLater, RenderFails,
                  PutDerived, WriteBytes, FinishJob
    <3> QED
      BY <3>1 DEF Next, vars, OwnerCommand, StartGeneration, ReviewCandidate, Crash, Claim,
                  Reconcile
  <2> QED
    BY <2>1, <2>2, <2>3, <2>4, <2>5
<1> QED
  BY <1>1, <1>2, Invariance, PTL DEF Spec, FollowsPackage, Package!Spec
================================================================================
