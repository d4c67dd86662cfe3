-------------------------- MODULE TenderProcess_proofs --------------------------
(***************************************************************************)
(* Theorems about TenderProcess, for any number of sessions, authors, keys *)
(* and records.                                                            *)
(***************************************************************************)
EXTENDS TenderProcess, FiniteSetTheorems, TLAPS

USE BoundsAssumption, NoneAssumption

--------------------------------------------------------------------------------
(* The inductive invariant *)

\* The row of the process has one holder, and while it has one nobody shares it.
RowIsLocked ==
  /\ \A r, s \in Holders : r = s
  /\ Holders # {} => Sharers = {}

\* What the holder has compared and checked is still so.
ChecksStand ==
  /\ \A s \in Holders : ~Stale(s)
  /\ \A s \in Sessions : pc[s] \in {"write", "commit"} => Acceptable(call[s].command)

\* A running command has its key for itself, and it has not taken effect yet.
KeysAreHeld ==
  /\ \A r, s \in Sessions :
       pc[r] \in Running /\ pc[s] \in Running /\ call[r].token = call[s].token => r = s
  /\ \A s \in Sessions : pc[s] \in Running => call[s].token \notin done

IInv ==
  /\ TypeOK
  /\ EventsTellTheProcess
  /\ RowIsLocked
  /\ ChecksStand
  /\ KeysAreHeld

--------------------------------------------------------------------------------
(* The table of transitions *)

\* The states of the chain, one by one.
LEMMA ChainStates ==
  /\ Chain[1] = "requested" /\ Chain[2] = "corpus_assessed"
  /\ Chain[3] = "requirements_determined" /\ Chain[4] = "analyzed" /\ Chain[5] = "drafted"
  /\ Chain[6] = "waiting_for_authority" /\ Chain[7] = "finalized"
BY DEF Chain

\* No edge leads back to where it begins.
LEMMA Edges ==
  ASSUME NEW e \in AllowedTransitions
  PROVE  /\ e[1] \in States /\ e[2] \in States /\ e[1] # e[2]
         /\ e = <<e[1], e[2]>>
<1>1. CASE \E i \in 1..6 : e = <<Chain[i], Chain[i + 1]>>
  <2>1. PICK i \in 1..6 : e = <<Chain[i], Chain[i + 1]>>
    BY <1>1
  <2>2. i = 1 \/ i = 2 \/ i = 3 \/ i = 4 \/ i = 5 \/ i = 6
    BY SMT
  <2>3. Chain[i] \in States /\ Chain[i + 1] \in States /\ Chain[i] # Chain[i + 1]
    BY <2>2, ChainStates DEF States, Working
  <2> QED
    BY <2>1, <2>3
<1>2. CASE e \in Working \X {"blocked"}
  <2>1. e[1] \in Working /\ e[2] = "blocked" /\ e = <<e[1], e[2]>>
    BY <1>2
  <2>2. "blocked" \notin Working
    BY ChainStates, SMT DEF Working
  <2> QED
    BY <2>1, <2>2 DEF States
<1> QED
  BY <1>1, <1>2 DEF AllowedTransitions

\* A command goes along an edge of the table.
LEMMA CommandsFollowEdges ==
  ASSUME NEW c \in Commands
  PROVE  /\ <<c.from, c.to>> \in AllowedTransitions
         /\ c.to \in States /\ c.from # c.to
         /\ c.op = "finalize" => c.to = "finalized"
<1>1. CASE \E e \in AllowedTransitions : c = [op |-> "transition", from |-> e[1], to |-> e[2]]
  BY <1>1, Edges
<1>2. CASE /\ c \in [op : {"finalize"}, from : {"waiting_for_authority"}, to : {"finalized"}, ids : Lists]
  <2>1. <<Chain[6], Chain[6 + 1]>> \in AllowedTransitions
    BY DEF AllowedTransitions
  <2>2. <<"waiting_for_authority", "finalized">> \in AllowedTransitions
    BY <2>1, ChainStates
  <2>3. "finalized" \in States
    BY DEF States
  <2> QED
    BY <1>2, <2>2, <2>3
<1> QED
  BY <1>1, <1>2 DEF Commands

--------------------------------------------------------------------------------
(* Initial states *)

\* The invariant holds of a process that was just requested.
LEMMA InitInvariant == Init => IInv
<1> SUFFICES ASSUME Init PROVE IInv
  OBVIOUS
<1>1. "requested" \in States
  BY ChainStates DEF States, Working
<1>2. TypeOK
  <2>1. <<[revision |-> 1, state |-> "requested"]>> \in Seq([revision : Nat, state : States])
    BY <1>1
  <2>2. <<>> \in Seq({"draft", "blocked", "finalized"})
    OBVIOUS
  <2>3. ProcessTypes
    BY <1>1, <2>1, <2>2 DEF Init, ProcessTypes
  <2>4. SessionTypes
    BY DEF Init, SessionTypes
  <2>5. AuthorTypes
    BY DEF Init, AuthorTypes
  <2> QED
    BY <2>3, <2>4, <2>5 DEF TypeOK
<1>3. EventsTellTheProcess
  BY DEF Init, EventsTellTheProcess
<1>4. RowIsLocked /\ ChecksStand /\ KeysAreHeld
  BY DEF Init, RowIsLocked, ChecksStand, KeysAreHeld, Holders, Sharers, Running
<1> QED
  BY <1>2, <1>3, <1>4 DEF IInv

--------------------------------------------------------------------------------
(* Steps of sessions *)

\* What a finalization adds to an output is a finite list of versions.
LEMMA FinalizedType ==
  ASSUME NEW c, NEW k \in Kinds
  PROVE  Finalized(c, k) \in Seq({"draft", "blocked", "finalized"})
<1>1. IsFiniteSet(Kinds)
  BY FS_Interval, SMT DEF Kinds
<1>2. Cardinality({i \in Kinds : c.ids[i] = k}) \in Nat
  BY <1>1, FS_Subset, FS_CardinalityType
<1> QED
  BY <1>2 DEF Finalized

\* A key that is carried belongs to a session with a command.
LEMMA CarriedKeys ==
  ASSUME NEW calls \in [Sessions -> Calls \cup {None}], NEW r \in Sessions, calls[r] # None
  PROVE  calls[r].token \in Carried(calls)
BY DEF Carried

\* A session takes a new command, or one that is on its way.
LEMMA CallStep ==
  ASSUME IInv, NEW s \in Sessions, Call(s)
  PROVE  IInv'
<1> USE DEF IInv, TypeOK
<1>1. PICK c \in Calls : call' = [call EXCEPT ![s] = c]
  <2>1. PICK c \in [command : Commands, expected : {revision}, token : Tokens]
                     \cup {call[r] : r \in {q \in Sessions : pc[q] # "idle"}} :
           call' = [call EXCEPT ![s] = c]
    BY DEF Call
  <2>2. c \in Calls
    BY <2>1 DEF Calls, ProcessTypes, SessionTypes
  <2> QED
    BY <2>1, <2>2
<1>2. /\ pc[s] \in {"idle", "lost"} /\ pc' = [pc EXCEPT ![s] = "claim"]
      /\ done' = done \cap Carried(call')
      /\ UNCHANGED <<process, records, next, author, faults>>
  BY DEF Call
<1>3. \A r \in Sessions : pc'[r] \in Running <=> pc[r] \in Running
  BY <1>2 DEF SessionTypes, Running
<1>4. \A r \in Sessions : pc[r] \in Running => call'[r] = call[r] /\ pc'[r] = pc[r]
  BY <1>1, <1>2 DEF SessionTypes, Running
<1>5. Holders' = Holders /\ Sharers' = Sharers
  BY <1>2 DEF SessionTypes, Holders, Sharers, Running, author
<1>6. TypeOK'
  <2>1. ProcessTypes'
    BY <1>2 DEF ProcessTypes, process, records
  <2>2. SessionTypes'
    BY <1>1, <1>2 DEF SessionTypes
  <2>3. AuthorTypes'
    BY <1>2 DEF AuthorTypes, author
  <2> QED
    BY <2>1, <2>2, <2>3
<1>7. EventsTellTheProcess'
  BY <1>2 DEF EventsTellTheProcess, process
<1>8. RowIsLocked'
  BY <1>5 DEF RowIsLocked
<1>9. ChecksStand'
  BY <1>2, <1>3, <1>4, <1>5 DEF ChecksStand, Stale, Acceptable, Finalizable, Prepared, Blockers,
       Usable, Holders, Running, process, records
<1>10. KeysAreHeld'
  BY <1>2, <1>3, <1>4 DEF KeysAreHeld
<1> QED
  BY <1>6, <1>7, <1>8, <1>9, <1>10

\* A session ends its call without an effect, or loses its connection.
LEMMA EndStep ==
  ASSUME IInv, NEW s \in Sessions,
         NEW step \in {"idle", "lost"}, pc' = [pc EXCEPT ![s] = step],
         \/ step = "idle" /\ call' = [call EXCEPT ![s] = None]
         \/ step = "lost" /\ call' = call /\ pc[s] # "idle",
         next' = [next EXCEPT ![s] = 1],
         done' \subseteq done \cap Carried(call'),
         faults' \in 0..MaxFaults,
         UNCHANGED <<process, records, author>>
  PROVE  IInv'
<1> USE DEF IInv, TypeOK
<1>1. \A r \in Sessions : pc'[r] \in Running =>
        pc[r] \in Running /\ pc'[r] = pc[r] /\ call'[r] = call[r]
  BY DEF SessionTypes, Running
<1>2. Holders' \subseteq Holders /\ Sharers' = Sharers
  BY <1>1 DEF SessionTypes, Holders, Sharers, Running, author
<1>3. TypeOK'
  <2>1. ProcessTypes'
    BY DEF ProcessTypes, process, records
  <2>2. SessionTypes'
    BY DEF SessionTypes
  <2>3. AuthorTypes'
    BY DEF AuthorTypes, author
  <2> QED
    BY <2>1, <2>2, <2>3
<1>4. EventsTellTheProcess'
  BY DEF EventsTellTheProcess, process
<1>5. RowIsLocked'
  BY <1>2 DEF RowIsLocked
<1>6. ChecksStand'
  BY <1>1, <1>2 DEF ChecksStand, Stale, Acceptable, Finalizable, Prepared, Blockers,
       Usable, Holders, Running, process, records
<1>7. KeysAreHeld'
  BY <1>1 DEF KeysAreHeld
<1> QED
  BY <1>3, <1>4, <1>5, <1>6, <1>7

\* A transaction goes to its next step: it has its key, the row once it has passed the
\* lock, and what its command needs once it has passed the check.
LEMMA MoveStep ==
  ASSUME IInv, NEW s \in Sessions, pc[s] # "idle",
         NEW step \in Running, pc' = [pc EXCEPT ![s] = step],
         next' \in [Sessions -> Nat \ {0}],
         UNCHANGED <<process, records, done, call, author, faults>>,
         pc[s] \in Running \/ (~Claimed(s) /\ call[s].token \notin done),
         \/ step = "lock"
         \/ s \in Holders
         \/ Holders = {} /\ Sharers = {} /\ ~Stale(s),
         step \in {"write", "commit"} => Acceptable(call[s].command)
  PROVE  IInv'
<1> USE DEF IInv, TypeOK
<1>1. Sharers' = Sharers /\ \A r \in Holders' : r \in Holders \/ r = s
  BY DEF SessionTypes, Holders, Sharers, Running, author
<1>2. TypeOK'
  <2>1. ProcessTypes'
    BY DEF ProcessTypes, process, records
  <2>2. SessionTypes'
    BY DEF SessionTypes, Running
  <2>3. AuthorTypes'
    BY DEF AuthorTypes, author
  <2> QED
    BY <2>1, <2>2, <2>3
<1>3. EventsTellTheProcess'
  BY DEF EventsTellTheProcess, process
<1>4. step = "lock" => s \notin Holders'
  BY DEF SessionTypes, Holders
<1>5. RowIsLocked'
  BY <1>1, <1>4 DEF RowIsLocked
<1>6. ChecksStand'
  <2>1. \A r \in Holders' : ~Stale(r)'
    BY <1>1, <1>4 DEF ChecksStand, Stale, process
  <2>2. \A r \in Sessions : pc'[r] \in {"write", "commit"} => Acceptable(call[r].command)
    BY DEF ChecksStand, SessionTypes
  <2>3. \A r \in Sessions : Acceptable(call[r].command) => Acceptable(call[r].command)'
    BY DEF Acceptable, Finalizable, Prepared, Blockers, Usable, records
  <2> QED
    BY <2>1, <2>2, <2>3 DEF ChecksStand
<1>7. KeysAreHeld'
  <2>1. \A r \in Sessions : pc'[r] \in Running => pc[r] \in Running \/ r = s
    BY DEF SessionTypes
  <2> QED
    BY <2>1 DEF KeysAreHeld, Claimed
<1> QED
  BY <1>2, <1>3, <1>5, <1>6, <1>7

\* A command takes effect: it was the only one that held the row, and follows an edge.
LEMMA CommitStep ==
  ASSUME IInv, NEW s \in Sessions, Commit(s)
  PROVE  /\ IInv'
         /\ outcome' = "successful" /\ outcome # "successful" =>
              /\ Finalizable /\ UNCHANGED issues
              /\ versions' = [k \in Kinds |-> versions[k] \o Finalized(call[s].command, k)]
<1> DEFINE c == call[s].command
<1> USE DEF IInv, TypeOK
<1>1. /\ s \in Holders /\ \A r \in Holders : r = s
      /\ Sharers = {}
      /\ Acceptable(c)
  BY DEF Commit, Holders, Running, RowIsLocked, ChecksStand
<1>2. /\ call[s] \in Calls /\ c \in Commands
      /\ c.from = state /\ call[s].expected = revision /\ revision \in Nat
  <2>1. call[s] \in Calls
    BY DEF Commit, SessionTypes
  <2> QED
    BY <1>1, <2>1 DEF ChecksStand, Stale, Calls, ProcessTypes
<1>3. <<state, c.to>> \in AllowedTransitions /\ c.to \in States
  BY <1>2, CommandsFollowEdges
<1>4. /\ state' = c.to /\ revision' = revision + 1 /\ outcome' = Outcome(c)
      /\ events' = Append(events, [revision |-> revision + 1, state |-> c.to])
      /\ versions' = IF c.op = "finalize"
                     THEN [k \in Kinds |-> versions[k] \o Finalized(c, k)] ELSE versions
      /\ UNCHANGED <<assessed, issues, author>>
  BY <1>2 DEF Commit
<1>5. PICK step \in {"idle", "lost"} :
        /\ pc' = [pc EXCEPT ![s] = step]
        /\ \/ step = "idle" /\ call' = [call EXCEPT ![s] = None]
           \/ step = "lost" /\ call' = call
        /\ next' = [next EXCEPT ![s] = 1]
        /\ done' \subseteq (done \cup {call[s].token}) \cap Carried(call')
        /\ faults' \in 0..MaxFaults
  <2>1. CASE End(s, done \cup {call[s].token}) /\ UNCHANGED faults
    BY <2>1 DEF End, SessionTypes
  <2>2. CASE /\ faults < MaxFaults
             /\ pc' = [pc EXCEPT ![s] = "lost"]
             /\ next' = [next EXCEPT ![s] = 1]
             /\ done' = done \cup {call[s].token}
             /\ faults' = faults + 1
             /\ UNCHANGED call
    <3>1. call[s].token \in Carried(call)
      BY <1>2, CarriedKeys DEF SessionTypes
    <3> QED
      BY <2>2, <3>1 DEF SessionTypes
  <2> QED
    BY <2>1, <2>2 DEF Commit
<1>6. \A r \in Sessions : pc'[r] \in Running =>
        r # s /\ pc[r] \in Running /\ pc'[r] = pc[r] /\ call'[r] = call[r]
  BY <1>5 DEF SessionTypes, Running
<1>7. Holders' = {} /\ Sharers' = {}
  BY <1>1, <1>4, <1>6 DEF Holders, Sharers, Running, author
<1>8. TypeOK'
  <2>1. Outcome(c) \in {None, "successful", "blocked"}
    BY DEF Outcome, ProcessTypes
  <2>2. events' \in Seq([revision : Nat, state : States])
    BY <1>2, <1>3, <1>4 DEF ProcessTypes
  <2>3. versions' \in [Kinds -> Seq({"draft", "blocked", "finalized"})]
    BY <1>4, FinalizedType DEF ProcessTypes
  <2>4. ProcessTypes'
    BY <1>2, <1>3, <1>4, <2>1, <2>2, <2>3 DEF ProcessTypes
  <2>5. SessionTypes'
    <3>1. pc' \in [Sessions -> {"idle", "claim", "lost"} \cup Running]
      BY <1>5 DEF SessionTypes
    <3>2. call' \in [Sessions -> Calls \cup {None}]
      BY <1>5 DEF SessionTypes
    <3>3. \A r \in Sessions : pc'[r] = "idle" <=> call'[r] = None
      <4>1. pc[s] # "idle"
        BY DEF Commit
      <4> QED
        BY <1>5, <4>1 DEF SessionTypes
    <3>4. done' \subseteq Carried(call)'
      BY <1>5 DEF Carried
    <3>5. next' \in [Sessions -> Nat \ {0}] /\ faults' \in 0..MaxFaults
      BY <1>5 DEF SessionTypes
    <3> QED
      BY <3>1, <3>2, <3>3, <3>4, <3>5 DEF SessionTypes
  <2>6. AuthorTypes'
    BY <1>4 DEF AuthorTypes, author
  <2> QED
    BY <2>4, <2>5, <2>6
<1>9. EventsTellTheProcess'
  <2> DEFINE e == [revision |-> revision + 1, state |-> c.to]
  <2>1. events \in Seq([revision : Nat, state : States]) /\ e \in [revision : Nat, state : States]
    BY <1>2, <1>3 DEF ProcessTypes
  <2>2. /\ Len(events') = Len(events) + 1 /\ DOMAIN events' = 1..(Len(events) + 1)
        /\ \A i \in 1..Len(events) : events'[i] = events[i]
        /\ events'[Len(events) + 1] = e
    BY <1>4, <2>1
  <2>3. revision = Len(events) /\ DOMAIN events = 1..Len(events) /\ events[revision].state = state
    BY <2>1 DEF EventsTellTheProcess
  <2>4. \A i \in DOMAIN events' : events'[i].revision = i
    BY <2>2, <2>3 DEF EventsTellTheProcess
  <2>5. \A i \in 2..Len(events') : <<events'[i - 1].state, events'[i].state>> \in AllowedTransitions
    <3>1. TAKE i \in 2..Len(events')
    <3>2. CASE i = Len(events) + 1
      <4>1. i - 1 = revision /\ i - 1 \in 1..Len(events)
        BY <2>2, <2>3, <3>2
      <4>2. events'[i - 1].state = state /\ events'[i].state = c.to
        BY <2>2, <2>3, <3>2, <4>1
      <4> QED
        BY <1>3, <4>2
    <3>3. CASE i # Len(events) + 1
      <4>1. i \in 2..Len(events) /\ i \in 1..Len(events) /\ i - 1 \in 1..Len(events)
        BY <2>1, <2>2, <3>1, <3>3
      <4> QED
        BY <2>2, <4>1 DEF EventsTellTheProcess
    <3> QED
      BY <3>2, <3>3
  <2>6. revision' = Len(events') /\ events'[revision'].state = state'
    BY <1>4, <2>2, <2>3
  <2> QED
    BY <2>4, <2>5, <2>6 DEF EventsTellTheProcess
<1>10. RowIsLocked'
  BY <1>7 DEF RowIsLocked
<1>11. ChecksStand'
  BY <1>7 DEF ChecksStand, Holders, Running
<1>12. KeysAreHeld'
  BY <1>5, <1>6, <1>1 DEF KeysAreHeld, Commit, Running
<1>13. outcome' = "successful" /\ outcome # "successful" => c.op = "finalize"
  BY <1>4 DEF Outcome
<1> QED
  BY <1>1, <1>4, <1>8, <1>9, <1>10, <1>11, <1>12, <1>13 DEF Acceptable

\* Every other step of a session, too, keeps the invariant, and grants no success.
LEMMA SessionInvariant ==
  ASSUME IInv, NEW s \in Sessions, Call(s) \/ SessionStep(s) \/ Break(s)
  PROVE  IInv'
<1> USE DEF IInv, TypeOK
<1>1. ASSUME Refuse(s) PROVE IInv'
  <2>1. done' \subseteq done \cap Carried(call')
    BY <1>1 DEF Refuse, End
  <2> QED
    BY <1>1, <2>1, EndStep DEF Refuse, End, SessionTypes
<1>2. CASE Call(s)
  BY <1>2, CallStep
<1>3. CASE Claim(s)
  <2>1. CASE Refuse(s)
    BY <1>1, <2>1
  <2>2. CASE Goto(s, "lock") /\ call[s].token \notin done
    BY <1>3, <2>2, MoveStep DEF Claim, Goto, Running, SessionTypes
  <2> QED
    BY <1>3, <2>1, <2>2 DEF Claim
<1>4. CASE Lock(s)
  <2>1. CASE Refuse(s)
    BY <1>1, <2>1
  <2>2. CASE Goto(s, "check") /\ ~Stale(s)
    BY <1>4, <2>2, MoveStep DEF Lock, Goto, Running, SessionTypes
  <2> QED
    BY <1>4, <2>1, <2>2 DEF Lock
<1>5. CASE Check(s)
  <2>1. CASE Refuse(s)
    BY <1>1, <2>1
  <2>2. CASE /\ Acceptable(call[s].command)
             /\ Goto(s, IF call[s].command.op = "finalize" THEN "write" ELSE "commit")
    <3>1. s \in Holders /\ pc[s] \in Running /\ pc[s] # "idle"
      BY <1>5 DEF Check, Holders, Running
    <3>2. PICK step \in {"write", "commit"} : Goto(s, step)
      BY <2>2
    <3> QED
      BY <2>2, <3>1, <3>2, MoveStep DEF Goto, Running, SessionTypes
  <2> QED
    BY <1>5, <2>1, <2>2 DEF Check
<1>6. CASE WriteOutput(s)
  <2>1. s \in Holders /\ pc[s] \in Running /\ pc[s] # "idle" /\ Acceptable(call[s].command)
    BY <1>6 DEF WriteOutput, Holders, Running, ChecksStand
  <2>2. PICK step \in {"write", "commit"} : pc' = [pc EXCEPT ![s] = step]
    BY <1>6 DEF WriteOutput
  <2>3. next' \in [Sessions -> Nat \ {0}]
    BY <1>6 DEF WriteOutput, SessionTypes
  <2> QED
    BY <1>6, <2>1, <2>2, <2>3, MoveStep DEF WriteOutput, Running
<1>7. CASE LoseToAuthor(s)
  BY <1>1, <1>7 DEF LoseToAuthor
<1>8. CASE Commit(s)
  BY <1>8, CommitStep
<1>9. CASE Break(s)
  <2>1. faults' \in 0..MaxFaults
    BY <1>9 DEF Break, SessionTypes
  <2>2. done' \subseteq done \cap Carried(call')
    BY <1>9 DEF Break, SessionTypes
  <2> QED
    BY <1>9, <2>1, <2>2, EndStep DEF Break, Running
<1> QED
  BY <1>2, <1>3, <1>4, <1>5, <1>6, <1>7, <1>8, <1>9 DEF SessionStep

--------------------------------------------------------------------------------
(* Steps of authors *)

\* What is committed of an author's record does not meet a command that has passed its lock.
LEMMA AuthorInvariant ==
  ASSUME IInv, NEW a \in Authors, Insert(a) \/ AuthorStep(a)
  PROVE  IInv'
<1> USE DEF IInv, TypeOK
<1>1. UNCHANGED <<process, session, faults>>
  BY DEF Insert, AuthorStep, Share, LoseToSession, Publish
<1>2. Holders' = Holders /\ SessionTypes' /\ EventsTellTheProcess' /\ KeysAreHeld'
  BY <1>1 DEF Holders, SessionTypes, EventsTellTheProcess, KeysAreHeld, process, session
<1>3. ASSUME UNCHANGED records, Sharers' \subseteq Sharers \/ Holders = {}, AuthorTypes'
      PROVE  IInv'
  <2>1. ProcessTypes'
    BY <1>1, <1>3 DEF ProcessTypes, process, records
  <2>2. RowIsLocked'
    BY <1>2, <1>3 DEF RowIsLocked
  <2>3. ChecksStand'
    BY <1>1, <1>2, <1>3 DEF ChecksStand, Stale, Acceptable, Finalizable, Prepared, Blockers, Usable,
         process, session, records
  <2> QED
    BY <1>2, <1>3, <2>1, <2>2, <2>3
<1>4. CASE Insert(a)
  <2>1. PICK w \in Appends : work' = [work EXCEPT ![a] = w]
    BY <1>4 DEF Insert
  <2>2. w \in Appended
    BY <2>1 DEF Appends, Appended, NextIssue, Issues, Kinds
  <2>3. AuthorTypes'
    BY <1>4, <2>1, <2>2 DEF Insert, AuthorTypes
  <2>4. Sharers' \subseteq Sharers
    BY <1>4 DEF Insert, Sharers, AuthorTypes
  <2> QED
    BY <1>3, <1>4, <2>3, <2>4 DEF Insert
<1>5. CASE Share(a)
  <2>1. AuthorTypes' /\ Holders = {}
    BY <1>5 DEF Share, AuthorTypes
  <2> QED
    BY <1>3, <1>5, <2>1 DEF Share
<1>6. ASSUME Leave(a) PROVE AuthorTypes' /\ Sharers' \subseteq Sharers
  BY <1>6 DEF Leave, AuthorTypes, Sharers
<1>7. CASE LoseToSession(a)
  BY <1>3, <1>6, <1>7 DEF LoseToSession
<1>8. CASE Publish(a)
  <2>1. a \in Sharers /\ Holders = {} /\ work[a] \in Appended
    BY <1>8 DEF Publish, Sharers, RowIsLocked, AuthorTypes
  <2>2. ProcessTypes'
    <3>1. issues' \in [Issues -> {"absent", "open", "harmless", "confirmed"}]
      BY <1>8, <2>1 DEF Publish, ProcessTypes, Appended
    <3>2. versions' \in [Kinds -> Seq({"draft", "blocked", "finalized"})]
      BY <1>8, <2>1 DEF Publish, ProcessTypes, Appended
    <3>3. assessed' \in BOOLEAN
      BY <1>8 DEF Publish, ProcessTypes
    <3> QED
      BY <1>1, <3>1, <3>2, <3>3 DEF ProcessTypes, process
  <2>3. RowIsLocked' /\ ChecksStand'
    BY <1>1, <1>2, <2>1 DEF RowIsLocked, ChecksStand, Holders, Running, session
  <2> QED
    BY <1>2, <1>6, <1>8, <2>2, <2>3 DEF Publish
<1> QED
  BY <1>4, <1>5, <1>7, <1>8 DEF AuthorStep

--------------------------------------------------------------------------------
(* Theorems *)

\* The invariant is inductive.
LEMMA NextInvariant == IInv /\ [Next]_vars => IInv'
<1> SUFFICES ASSUME IInv, [Next]_vars PROVE IInv'
  OBVIOUS
<1>1. CASE Next
  BY <1>1, SessionInvariant, AuthorInvariant DEF Next
<1>2. CASE UNCHANGED vars
  BY <1>2 DEF vars, process, records, session, author, IInv, TypeOK, ProcessTypes, SessionTypes,
       AuthorTypes, EventsTellTheProcess, RowIsLocked, ChecksStand, KeysAreHeld, Stale, Acceptable,
       Finalizable, Prepared, Blockers, Usable, Holders, Sharers
<1> QED
  BY <1>1, <1>2

\* Commands and appends, interleaved by any number of sessions and authors, keep the
\* row, the checks and the keys of running transactions as they rely on them.
THEOREM Invariance == Spec => []IInv
BY InitInvariant, NextInvariant, PTL DEF Spec

\* Every variable keeps its type.
THEOREM TypeCorrect == Spec => []TypeOK
BY Invariance, PTL DEF IInv

\* The outbox of the process tells its whole history, along the edges of the table, in
\* spite of races, repeated commands, lost answers and deadlocks.
THEOREM OutboxIsHistory == Spec => []EventsTellTheProcess
BY Invariance, PTL DEF IInv

\* Success is granted on records that hold no open blocker, and a usable output of every
\* kind, at that very moment.
THEOREM SuccessRestsOnRecords == Spec => SuccessIsSound
<1>1. ASSUME IInv, [Next]_vars, outcome # "successful", outcome' = "successful"
      PROVE  (Blockers = {} /\ \A k \in Kinds : Usable(k))'
  <2>1. PICK s \in Sessions : Commit(s)
    BY <1>1 DEF Next, Call, SessionStep, Claim, Lock, Check, WriteOutput, LoseToAuthor, Break, Refuse,
         Goto, Insert, AuthorStep, Share, LoseToSession, Publish, vars, process
  <2>2. /\ Finalizable /\ UNCHANGED issues
        /\ versions' = [k \in Kinds |-> versions[k] \o Finalized(call[s].command, k)]
    BY <1>1, <2>1, CommitStep
  <2>3. Blockers' = {}
    BY <2>2 DEF Finalizable, Blockers
  <2>4. ASSUME NEW k \in Kinds
        PROVE  Usable(k)'
    <3>1. /\ versions[k] \in Seq({"draft", "blocked", "finalized"})
          /\ Finalized(call[s].command, k) \in Seq({"draft", "blocked", "finalized"})
      BY <1>1, FinalizedType DEF IInv, TypeOK, ProcessTypes
    <3>2. PICK i \in DOMAIN versions[k] : versions[k][i] # "blocked"
      BY <2>2 DEF Finalizable, Usable
    <3>3. \A a, b \in Seq({"draft", "blocked", "finalized"}) : i \in DOMAIN a =>
            i \in DOMAIN (a \o b) /\ (a \o b)[i] = a[i]
      OBVIOUS
    <3>4. versions'[k] = versions[k] \o Finalized(call[s].command, k)
      BY <2>2
    <3>5. i \in DOMAIN versions'[k] /\ versions'[k][i] = versions[k][i]
      BY <3>1, <3>2, <3>3, <3>4, Zenon
    <3> QED
      BY <3>2, <3>5 DEF Usable
  <2> QED
    BY <2>3, <2>4
<1> QED
  BY <1>1, Invariance, PTL DEF Spec, SuccessIsSound

\* No applied command is refused when it is sent again: a running one has not taken effect.
THEOREM RetriesAreSafe == Spec => AppliedIsNotRefused
<1>1. ASSUME IInv
      PROVE  \A s \in Sessions : pc[s] \in Running /\ pc'[s] = "idle" /\ state' = state =>
               call[s].token \notin done
  BY <1>1 DEF IInv, KeysAreHeld
<1> QED
  BY <1>1, Invariance, PTL DEF Spec, AppliedIsNotRefused
================================================================================
