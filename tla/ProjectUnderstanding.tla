--------------------------- MODULE ProjectUnderstanding ----------------------------
(***************************************************************************)
(* The model of a construction object that a workspace derives from its    *)
(* documents. Every document has a chain of jobs: two write what was found *)
(* in it (a project field, a work), three assemble the model of the whole  *)
(* workspace, in one transaction each. The owner reviews what was found    *)
(* and asks for a new model. A model is named by its corpus: the active    *)
(* sources and the reviews at the moment its transaction read them.        *)
(*                                                                         *)
(* Any unfinished chain may be executed next: a pause, a delayed retry or  *)
(* a second worker makes every order of the queue possible.                *)
(***************************************************************************)
EXTENDS Naturals, Sequences, FiniteSets, SequencesExt

CONSTANTS Documents, Workers, None, Values,
          ValueOf,    \* value of the project field that is found in a document
          Replaces,   \* document version that another one replaces, or None
          Chain,      \* stages of a document's jobs, in their order
          Reviewable, \* what was found and the owner may review
          MaxReviews, MaxRequests, MaxCrashes \* bounds of the model

Kinds      == {"field", "work"}
Candidates == Documents \X Kinds

ASSUME ValuesAssumption == ValueOf \in [Documents -> Values] /\ "corrected" \notin Values
ASSUME ReplacesAssumption == Replaces \in [Documents -> Documents \cup {None}] /\ None \notin Documents
ASSUME ChainAssumption ==
  Len(Chain) > 2 /\ IsInjective(Chain) /\ SubSeq(Chain, 1, 2) = <<"fields", "works">>
ASSUME ReviewsAssumption == Reviewable \subseteq Candidates 
ASSUME BoundsAssumption == {MaxReviews, MaxRequests, MaxCrashes} \subseteq Nat

VARIABLES
  stage,     \* place of each document in its chain, "none" before it is registered
  found,     \* candidates that are stored
  log,       \* review decisions, in the order of their commit
  formation, \* jobs by which the owner asked for a model
  asked,     \* reviews there were when the owner asked last
  job,       \* what a worker executes
  tx,        \* its open transaction
  defined,   \* project definition of each corpus
  packages,  \* work packages of each corpus
  matrix,    \* rows of the requirement matrix of each corpus
  entries,   \* projection of each corpus
  requests, crashes

owner == <<log, formation, asked, requests>>
model == <<defined, packages, matrix, entries>>
vars  == <<stage, found, owner, job, tx, model, crashes>>

Actions == {"confirmed", "rejected", "corrected"}

\* The stages that write are a part of the chain of JobKind; the others only read and pass on.
NextStage(name) ==
  LET i == CHOOSE i \in DOMAIN Chain : Chain[i] = name
  IN  IF i = Len(Chain) THEN "succeeded" ELSE Chain[i + 1]

Registered == {d \in Documents : stage[d] # "none"}

\* _active_source_ids: the latest activation decision of a document names its newest version.
Active == {d \in Registered : \A e \in Registered : Replaces[e] # d}

Corpus == [sources |-> Active, reviews |-> Len(log)]

\* Latest decision on a candidate, "none" when it was never reviewed.
Latest(c) ==
  LET of == {i \in DOMAIN log : log[i].candidate = c}
  IN  IF of = {} THEN "none" ELSE log[Max(of)].action

\* Mutated form of Accepted: replaced versions count as well.
AcceptedOfAll(corpus, kind) ==
  {d \in Registered : <<d, kind>> \in found /\ Latest(<<d, kind>>) # "rejected"}

\* _current_rows, _work_child_rows and _apply_reviews: what counts in a corpus now.
Accepted(corpus, kind) ==
  {d \in corpus.sources : <<d, kind>> \in found /\ Latest(<<d, kind>>) # "rejected"}

ValueIn(d) == IF Latest(<<d, "field">>) = "corrected" THEN "corrected" ELSE ValueOf[d]

--------------------------------------------------------------------------------
(* The owner *)

\* register_batch: a document version with its chain of jobs, activated at once.
Register(d) ==
  /\ stage[d] = "none"
  /\ Replaces[d] # None => Replaces[d] \in Active
  /\ stage' = [stage EXCEPT ![d] = Head(Chain)]
  /\ UNCHANGED <<found, owner, job, tx, model, crashes>>

Review(c, action) ==
  /\ c \in found \cap Reviewable /\ Len(log) < MaxReviews
  /\ log' = Append(log, [candidate |-> c, action |-> action])
  /\ UNCHANGED <<stage, found, formation, asked, requests, job, tx, model, crashes>>

\* Mutated form of Key: it counts the documents only.
KeyOfDocuments == <<Registered, 0>>

\* start_project_understanding: its key counts every version, replaced ones too.
Key == <<Registered, Len(log)>>

StartProjectUnderstanding ==
  /\ Active # {} /\ requests < MaxRequests
  /\ requests' = requests + 1
  /\ formation' = IF \E f \in formation : f.key = Key THEN formation
                  ELSE formation \cup {[key |-> Key, state |-> "queued"]}
  /\ asked' = Len(log)
  /\ UNCHANGED <<stage, found, log, job, tx, model, crashes>>

--------------------------------------------------------------------------------
(* The workers *)

Idle(w) == job[w] = None /\ tx[w] = None

ClaimDocument(w, d) ==
  /\ Idle(w) /\ stage[d] \in ToSet(Chain)
  /\ \A v \in Workers : job[v] # d
  /\ job' = [job EXCEPT ![w] = d]
  /\ UNCHANGED <<stage, found, owner, tx, model, crashes>>

ClaimFormation(w, f) ==
  /\ Idle(w) /\ f.state = "queued"
  /\ \A v \in Workers : job[v] # f.key
  /\ job' = [job EXCEPT ![w] = f.key]
  /\ UNCHANGED <<stage, found, owner, tx, model, crashes>>

Assembles(w) == job[w] \in Documents => stage[job[w]] \notin {"fields", "works"}

\* finish_job: the receipt of the document's job opens the next one of its chain; a failure
\* closes the rest of it (reconcile_unclaimable_durable_jobs).
Settle(w, outcome) ==
  /\ job' = [job EXCEPT ![w] = None]
  /\ IF job[w] \in Documents
       THEN /\ stage' = [stage EXCEPT ![job[w]] =
                              IF outcome = "failed" THEN "failed" ELSE NextStage(@)]
            /\ UNCHANGED formation
       ELSE /\ formation' = {IF f.key = job[w] THEN [f EXCEPT !.state = outcome] ELSE f :
                               f \in formation}
            /\ UNCHANGED stage

\* _project_fields and _work_values: rows with names of their own, inserted at most once.
Extract(w) ==
  /\ job[w] \in Documents /\ ~Assembles(w)
  /\ found' = found \cup {<<job[w], IF stage[job[w]] = "fields" THEN "field" ELSE "work">>}
  /\ Settle(w, "succeeded")
  /\ UNCHANGED <<log, asked, requests, tx, model, crashes>>

\* An UnderstandingStageFailure before anything was extracted: the chain ends.
Refuse(w) ==
  /\ job[w] \in Documents /\ stage[job[w]] = "fields"
  /\ Settle(w, "failed")
  /\ UNCHANGED <<found, log, asked, requests, tx, model, crashes>>

--------------------------------------------------------------------------------
(* assemble_workspace: one transaction, whose statements see what others have committed *)

Step(w, step) == tx[w] # None /\ tx[w].step = step
SameCorpus(w, v) == v # w /\ tx[v] # None /\ tx[v].corpus = tx[w].corpus

\* The corpus is read and its run row inserted, behind another transaction that inserts the same
\* row.
ReadCorpus(w) ==
  /\ job[w] # None /\ tx[w] = None /\ Assembles(w)
  /\ Active # {}
  /\ \A v \in Workers : tx[v] # None => ~(tx[v].first /\ tx[v].corpus = Corpus)
  /\ tx' = [tx EXCEPT ![w] = [step |-> "corpus", corpus |-> Corpus,
                              first |-> Corpus \notin DOMAIN defined,
                              facts |-> {}, works |-> {}, entries |-> None]]
  /\ UNCHANGED <<stage, found, owner, job, model, crashes>>

\* Candidates and reviews are read again, and the rows are inserted unless they are there, behind
\* another transaction that inserts one of the packages.
Materialize(w) ==
  LET c == tx[w].corpus
      works == Accepted(c, "work")
  IN
  /\ Step(w, "corpus")
  /\ \A v \in Workers : SameCorpus(w, v) => works \cap tx[v].works \subseteq packages[c]
  /\ tx' = [tx EXCEPT ![w].step = "written", ![w].works = works,
                      ![w].facts = {<<d, ValueIn(d)>> : d \in Accepted(c, "field")}]
  /\ UNCHANGED <<stage, found, owner, job, model, crashes>>

\* Rows of the definition and the matrix that a transaction sees: the first ones of the corpus.
Canon(w) ==
  LET c == tx[w].corpus IN
  IF tx[w].first
    THEN [facts |-> tx[w].facts, packages |-> tx[w].works, rows |-> tx[w].works]
    ELSE [facts |-> defined[c], packages |-> packages[c] \cup tx[w].works, rows |-> matrix[c]]

\* Mutated form of Project: entries that are there already are not inserted again.
ProjectOnce(w) ==
  /\ Step(w, "written")
  /\ \A v \in Workers : SameCorpus(w, v) => tx[v].step # "projected"
  /\ tx' = [tx EXCEPT ![w].step = "projected",
                      ![w].entries = IF tx[w].corpus \in DOMAIN entries
                                       THEN entries[tx[w].corpus] ELSE Canon(w)]
  /\ UNCHANGED <<stage, found, owner, job, model, crashes>>

\* _rebuild_projection_in_session
Project(w) ==
  /\ Step(w, "written")
  /\ \A v \in Workers : SameCorpus(w, v) => tx[v].step # "projected"
  /\ tx' = [tx EXCEPT ![w].step = "projected", ![w].entries = Canon(w)]
  /\ UNCHANGED <<stage, found, owner, job, model, crashes>>

\* Another transaction has rebuilt the same entries and is still open.
AwaitProjection(w) ==
  /\ Step(w, "written")
  /\ \E v \in Workers : SameCorpus(w, v) /\ tx[v].step = "projected"
  /\ tx' = [tx EXCEPT ![w].step = "waiting"]
  /\ UNCHANGED <<stage, found, owner, job, model, crashes>>

\* Entries that one transaction has inserted collide with those of the waiting ones.
AfterCommit(w, v) ==
  IF v = w THEN None
  ELSE IF SameCorpus(w, v) /\ tx[v].step = "waiting" THEN [tx[v] EXCEPT !.step = "collided"]
  ELSE tx[v]

Commit(w) ==
  LET c == tx[w].corpus
      canon == Canon(w)
      Put(f, value) == [x \in DOMAIN f \cup {c} |-> IF x = c THEN value ELSE f[x]]
  IN
  /\ Step(w, "projected")
  /\ defined'  = Put(defined, canon.facts)
  /\ packages' = Put(packages, canon.packages)
  /\ matrix'   = Put(matrix, canon.rows)
  /\ entries'  = Put(entries, tx[w].entries)
  /\ tx' = [v \in Workers |-> AfterCommit(w, v)]
  /\ Settle(w, "succeeded")
  /\ UNCHANGED <<found, log, asked, requests, crashes>>

\* The unique violation rolls the transaction back; the worker reports an unknown outcome.
Collide(w) ==
  /\ Step(w, "collided")
  /\ tx' = [tx EXCEPT ![w] = None]
  /\ Settle(w, "failed")
  /\ UNCHANGED <<found, log, asked, requests, model, crashes>>

\* The process is lost: its transaction rolls back, its job is claimed again later.
Crash(w) ==
  /\ job[w] # None /\ crashes < MaxCrashes
  /\ crashes' = crashes + 1
  /\ job' = [job EXCEPT ![w] = None]
  /\ tx' = [v \in Workers |->
             IF v = w THEN None
             ELSE IF Step(w, "projected") /\ SameCorpus(w, v) /\ tx[v].step = "waiting"
               THEN [tx[v] EXCEPT !.step = "written"] ELSE tx[v]]
  /\ UNCHANGED <<stage, found, owner, model>>

--------------------------------------------------------------------------------
Init ==
  /\ stage = [d \in Documents |-> "none"]
  /\ found = {} /\ log = <<>> /\ formation = {} /\ asked = 0 /\ requests = 0
  /\ job = [w \in Workers |-> None] /\ tx = [w \in Workers |-> None]
  /\ defined = <<>> /\ packages = <<>> /\ matrix = <<>> /\ entries = <<>>
  /\ crashes = 0

Execute(w) ==
  \/ Extract(w)
  \/ ReadCorpus(w)
  \/ Materialize(w)
  \/ Project(w)
  \/ Commit(w)
  \/ Collide(w)

ClaimAny(w) ==
  \/ \E d \in Documents : ClaimDocument(w, d)
  \/ \E f \in formation : ClaimFormation(w, f)

Next ==
  \/ \E d \in Documents : Register(d)
  \/ \E c \in Candidates, a \in Actions : Review(c, a)
  \/ StartProjectUnderstanding
  \/ \E w \in Workers : ClaimAny(w) \/ Execute(w) \/ Refuse(w) \/ AwaitProjection(w) \/ Crash(w)

Spec == Init /\ [][Next]_vars

\* Workers poll for ever and PostgreSQL ends every wait for a row. Nobody has to be lost, to fail
\* or to collide, and the owner need not do anything.
FairSpec == Spec /\ \A w \in Workers : WF_vars(ClaimAny(w)) /\ WF_vars(Execute(w))

--------------------------------------------------------------------------------
Corpora == [sources : SUBSET Documents, reviews : 0..MaxReviews]
Facts   == Documents \X (Values \cup {"corrected"})
Stages  == {"corpus", "written", "waiting", "projected", "collided"}
Entries == [facts : SUBSET Facts, packages : SUBSET Documents, rows : SUBSET Documents]

\* Types of the rows and of the workers; a model has its definition, its packages, its matrix and
\* its entries, or nothing of it is there.
TypeOK ==
  /\ stage \in [Documents -> {"none", "failed", "succeeded"} \cup ToSet(Chain)]
  /\ found \subseteq Candidates
  /\ Len(log) <= MaxReviews /\ ToSet(log) \subseteq [candidate : Reviewable, action : Actions]
  /\ formation \subseteq [key : (SUBSET Documents) \X (0..MaxReviews),
                           state : {"queued", "succeeded", "failed"}]
  /\ asked \in 0..Len(log)
  /\ \A w \in Workers :
       /\ job[w] \in Documents \cup {None} \cup {f.key : f \in formation}
       /\ \/ tx[w] = None
          \/ /\ job[w] # None
             /\ tx[w].step \in Stages
             /\ tx[w].corpus \in Corpora /\ tx[w].first \in BOOLEAN
             /\ tx[w].facts \subseteq Facts /\ tx[w].works \subseteq Documents
             /\ tx[w].entries \in Entries \cup {None}
  /\ DOMAIN defined \subseteq Corpora
  /\ {DOMAIN packages, DOMAIN matrix, DOMAIN entries} \subseteq {DOMAIN defined}
  /\ \A c \in DOMAIN defined :
       defined[c] \subseteq Facts /\ packages[c] \subseteq Documents
         /\ matrix[c] \subseteq Documents /\ entries[c] \in Entries
  /\ requests \in 0..MaxRequests /\ crashes \in 0..MaxCrashes

\* What the owner had decided when the corpus was read has effect in its model, and so has nothing
\* outside its sources: candidates and decisions are read by later statements than the corpus, and
\* what they bring may be newer but never older.
Decides(c, candidate, action) ==
  Latest(candidate) = action
    /\ \A i \in (c.reviews + 1)..Len(log) : log[i].candidate # candidate

ModelIsOfItsCorpus ==
  \A c \in DOMAIN defined :
    /\ \A fact \in defined[c] :
         /\ fact[1] \in c.sources
         /\ ~Decides(c, <<fact[1], "field">>, "rejected")
         /\ Decides(c, <<fact[1], "field">>, "corrected") => fact[2] = "corrected"
    /\ \A d \in packages[c] : d \in c.sources /\ ~Decides(c, <<d, "work">>, "rejected")

\* The projection of a model is what its rows say, whoever has rebuilt it last: transactions that
\* add packages to one model rebuild it after each other.
ProjectionIsCanonical ==
  \A c \in DOMAIN defined :
    entries[c] = [facts |-> defined[c], packages |-> packages[c], rows |-> matrix[c]]

\* Whatever the owner had decided before asking for a model gets into one, unless the job that was
\* to form it ended in a collision: the job that an earlier request left behind does not stand in
\* for it.
RequestsAreHeard ==
  \A n \in 1..MaxReviews :
    asked >= n ~> \/ \E c \in DOMAIN defined : c.reviews >= n
                  \/ \E f \in formation : f.state = "failed"

--------------------------------------------------------------------------------
(* A statement of the repository that the code does not meet *)

\* After all the jobs of all documents have succeeded there is a model that holds what was found in
\* each of them.
ModelIsWhole ==
  (/\ log = <<>> /\ Active # {} /\ \A d \in Registered : stage[d] = "succeeded"
   /\ \A w \in Workers : Idle(w))
    => \E c \in DOMAIN defined : \A d \in Active : <<d, ValueOf[d]>> \in defined[c]

====
