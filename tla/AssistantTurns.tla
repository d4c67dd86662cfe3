------------------------------ MODULE AssistantTurns -------------------------------
(***************************************************************************)
(* One conversation with the professional assistant. The owner's requests  *)
(* append questions to it, workers claim them, stream an answer and append *)
(* it. A turn is claimed once and its lease is never taken over: a lapsed  *)
(* one is closed by whoever polls next, while its worker may still be at   *)
(* it. Other conversations share nothing with this one but the workers.    *)
(***************************************************************************)
EXTENDS Naturals, Sequences, FiniteSets

CONSTANTS Turns, Workers, None,
          MaxDeltas, MaxCrashes \* bounds of the model

ASSUME BoundsAssumption == MaxDeltas \in Nat /\ MaxCrashes \in Nat
ASSUME NoneAssumption == None \notin Turns

VARIABLES
  asking,   \* request for each turn: its stage and the ordinal it has read last
  state, cancel, lapsed, \* each turn: its state, a requested cancellation, an expired lease
  events,   \* types of the events of each turn
  messages, \* messages of the conversation: their turn and role
  pc, turn, \* each worker's step and the turn it claimed
  target,   \* state that a failing worker is going to report
  ordinal,  \* message ordinal that a completing worker has read
  crashes

request == <<asking>>
rows    == <<state, cancel, lapsed>>
log     == <<events, messages>>
worker  == <<pc, turn, target, ordinal>>
vars == <<request, rows, log, worker, crashes>>

Held     == {"leased", "running"}
Terminal == {"succeeded", "failed", "cancelled", "reconciliation_required"}

Event(t, type) == events' = [events EXCEPT ![t] = Append(@, type)]

\* The transaction of complete() holds the row of the turn from its first statement on.
Locked(t) == \E w \in Workers : pc[w] = "committing" /\ turn[w] = t

--------------------------------------------------------------------------------
(* The owner *)

Asked == {t \in Turns : state[t] # "unasked"}

\* enqueue_turn reads max(turn_ordinal) first.
BeginAsk(t) ==
  /\ asking[t].stage = "none" /\ state[t] = "unasked"
  /\ asking' = [asking EXCEPT ![t] = [stage |-> "turn", ordinal |-> Cardinality(Asked) + 1]]
  /\ UNCHANGED <<rows, log, worker, crashes>>

NoRequest == [stage |-> "none", ordinal |-> 0]

\* The turn is inserted, behind another one with its ordinal; then the message ordinal is read.
InsertTurn(t) ==
  /\ asking[t].stage = "turn"
  /\ \A u \in Turns : asking[u].stage # "message"
  /\ asking' = [asking EXCEPT ![t] =
                  IF @.ordinal = Cardinality(Asked) + 1
                    THEN [stage |-> "message", ordinal |-> Len(messages) + 1] ELSE NoRequest]
  /\ UNCHANGED <<rows, log, worker, crashes>>

\* The question is a message with that ordinal, or everything is rolled back.
CommitAsk(t) ==
  /\ asking[t].stage = "message"
  /\ asking' = [asking EXCEPT ![t] = NoRequest]
  /\ IF asking[t].ordinal = Len(messages) + 1
       THEN /\ state' = [state EXCEPT ![t] = "queued"]
            /\ Event(t, "queued")
            /\ messages' = Append(messages, [turn |-> t, role |-> "user"])
       ELSE UNCHANGED <<state, log>>
  /\ UNCHANGED <<cancel, lapsed, worker, crashes>>

Cancel(t) ==
  /\ state[t] \in {"queued"} \cup Held /\ ~Locked(t)
  /\ cancel' = [cancel EXCEPT ![t] = TRUE]
  /\ IF state[t] = "queued"
       THEN state' = [state EXCEPT ![t] = "cancelled"] /\ Event(t, "cancelled")
       ELSE UNCHANGED <<state, events>>
  /\ UNCHANGED <<request, lapsed, messages, worker, crashes>>

--------------------------------------------------------------------------------
(* The workers *)

Expired == {t \in Turns : state[t] \in Held /\ lapsed[t]}

\* Mutated form of Closed: expired leases are left to their workers.
ClosedByWorker == state

\* claim_next_assistant_turn closes every expired turn first, without an event.
Closed == [t \in Turns |-> IF t \in Expired THEN "reconciliation_required" ELSE state[t]]

\* Then it takes a queued turn that is not cancelled. The age that orders the queue is the
\* time at which the transaction of the question began, so any turn may be the oldest.
Claim(w) ==
  /\ pc[w] = "idle" /\ \A t \in Expired : ~Locked(t)
  /\ LET queue == {t \in Turns : state[t] = "queued" /\ ~cancel[t]}
     IN \/ /\ queue = {}
           /\ state' = Closed
           /\ UNCHANGED <<worker, lapsed>>
        \/ \E t \in queue :
             /\ state' = [Closed EXCEPT ![t] = "leased"]
             /\ lapsed' = [lapsed EXCEPT ![t] = FALSE]
             /\ pc' = [pc EXCEPT ![w] = "start"]
             /\ turn' = [turn EXCEPT ![w] = t]
             /\ UNCHANGED <<target, ordinal>>
  /\ UNCHANGED <<request, cancel, log, crashes>>

Goto(w, s) == pc' = [pc EXCEPT ![w] = s]

Leave(w) ==
  /\ Goto(w, "idle")
  /\ turn' = [turn EXCEPT ![w] = None]
  /\ target' = [target EXCEPT ![w] = None]
  /\ ordinal' = [ordinal EXCEPT ![w] = 0]

\* start() is outside of the handler: a lost lease ends the process.
Start(w) ==
  /\ pc[w] = "start"
  /\ IF state[turn[w]] = "leased"
       THEN /\ state' = [state EXCEPT ![turn[w]] = "running"]
            /\ Event(turn[w], "running")
            /\ Goto(w, "generate")
            /\ UNCHANGED <<turn, target, ordinal>>
       ELSE Leave(w) /\ UNCHANGED <<state, events>>
  /\ UNCHANGED <<request, cancel, lapsed, messages, crashes>>

Deltas(t) == Len(SelectSeq(events[t], LAMBDA e : e = "delta"))

\* append_delta asks for no lease.
AppendDelta(w) ==
  /\ pc[w] = "generate" /\ Deltas(turn[w]) < MaxDeltas
  /\ Event(turn[w], "delta")
  /\ Goto(w, "beat")
  /\ UNCHANGED <<request, rows, messages, turn, target, ordinal, crashes>>

FailWith(w, s) == Goto(w, "fail") /\ target' = [target EXCEPT ![w] = s]

StreamEnds(w) ==
  /\ pc[w] = "generate"
  /\ Goto(w, "last_beat")
  /\ UNCHANGED <<request, rows, log, turn, target, ordinal, crashes>>

\* The gateway refuses the query or the model's server is busy, or the stream is interrupted.
GenerationFails(w) ==
  /\ pc[w] = "generate"
  /\ \E s \in {"failed", "reconciliation_required"} : FailWith(w, s)
  /\ UNCHANGED <<request, rows, log, turn, ordinal, crashes>>

\* A heartbeat finds the turn running and renews its lease, or raises; what is raised in the
\* stream counts as its interruption.
Heartbeat(w) ==
  LET t == turn[w]
  IN /\ pc[w] \in {"beat", "last_beat"}
     /\ lapsed' = [lapsed EXCEPT ![t] = IF state[t] = "running" THEN FALSE ELSE @]
     /\ \/ /\ state[t] = "running" /\ cancel[t]
           /\ FailWith(w, "cancelled")
        \/ /\ state[t] = "running" /\ ~cancel[t]
           /\ Goto(w, IF pc[w] = "beat" THEN "generate" ELSE "complete")
           /\ UNCHANGED target
        \/ /\ state[t] # "running"
           /\ FailWith(w, IF pc[w] = "beat" THEN "reconciliation_required" ELSE "failed")
     /\ UNCHANGED <<request, state, cancel, log, turn, ordinal, crashes>>

\* An answer of blanks.
AnswerIsEmpty(w) ==
  /\ pc[w] = "complete"
  /\ FailWith(w, "failed")
  /\ UNCHANGED <<request, rows, log, turn, ordinal, crashes>>

\* complete() updates the turn under its generation, which only a claim changes and a turn is
\* claimed once: the update always finds its row.
BeginComplete(w) ==
  /\ pc[w] = "complete"
  /\ ordinal' = [ordinal EXCEPT ![w] = Len(messages) + 1]
  /\ Goto(w, "committing")
  /\ UNCHANGED <<request, rows, log, turn, target, crashes>>

\* Mutated form of CommitComplete: the update asks for a running turn, nobody for its count.
CommitUncounted(w) ==
  LET t == turn[w]
  IN /\ pc[w] = "committing"
     /\ IF ordinal[w] = Len(messages) + 1
          THEN /\ state' = [state EXCEPT ![t] = IF @ = "running" THEN "succeeded" ELSE @]
               /\ messages' = Append(messages, [turn |-> t, role |-> "assistant"])
               /\ Event(t, "completed")
               /\ Leave(w)
          ELSE FailWith(w, "failed") /\ UNCHANGED <<state, log, turn, ordinal>>
     /\ UNCHANGED <<request, cancel, lapsed, crashes>>

\* A question that took the ordinal in between makes the answer fail.
CommitComplete(w) ==
  LET t == turn[w]
  IN /\ pc[w] = "committing"
     /\ IF ordinal[w] = Len(messages) + 1
          THEN /\ state' = [state EXCEPT ![t] = "succeeded"]
               /\ messages' = Append(messages, [turn |-> t, role |-> "assistant"])
               /\ Event(t, "completed")
               /\ Leave(w)
          ELSE FailWith(w, "failed") /\ UNCHANGED <<state, log, turn, ordinal>>
     /\ UNCHANGED <<request, cancel, lapsed, crashes>>

\* Mutated form of Fail: the turn is updated only while it is running, the event says so anyhow.
FailRunning(w) ==
  LET t == turn[w]
  IN /\ pc[w] = "fail"
     /\ state' = [state EXCEPT ![t] = IF @ = "running" THEN target[w] ELSE @]
     /\ Event(t, target[w])
     /\ Leave(w)
     /\ UNCHANGED <<request, cancel, lapsed, messages, crashes>>

\* fail() is fenced by the generation only, too.
Fail(w) ==
  LET t == turn[w]
  IN /\ pc[w] = "fail"
     /\ state' = [state EXCEPT ![t] = target[w]]
     /\ Event(t, target[w])
     /\ Leave(w)
     /\ UNCHANGED <<request, cancel, lapsed, messages, crashes>>

Crash(w) ==
  /\ crashes < MaxCrashes /\ pc[w] # "idle"
  /\ crashes' = crashes + 1
  /\ Leave(w)
  /\ UNCHANGED <<request, rows, log>>

\* Time passes; a worker that is slow or stuck, or gone, loses its lease.
Lapse(t) ==
  /\ state[t] \in Held /\ ~lapsed[t]
  /\ lapsed' = [lapsed EXCEPT ![t] = TRUE]
  /\ UNCHANGED <<request, state, cancel, log, worker, crashes>>

Init ==
  /\ asking = [t \in Turns |-> NoRequest]
  /\ state = [t \in Turns |-> "unasked"]
  /\ cancel = [t \in Turns |-> FALSE] /\ lapsed = [t \in Turns |-> FALSE]
  /\ events = [t \in Turns |-> <<>>]
  /\ messages = <<>>
  /\ pc = [w \in Workers |-> "idle"]
  /\ turn = [w \in Workers |-> None] /\ target = [w \in Workers |-> None]
  /\ ordinal = [w \in Workers |-> 0]
  /\ crashes = 0

Answer(w) ==
  \/ Start(w) \/ AppendDelta(w) \/ StreamEnds(w) \/ GenerationFails(w) \/ Heartbeat(w)
  \/ AnswerIsEmpty(w) \/ BeginComplete(w) \/ CommitComplete(w) \/ Fail(w)

Next ==
  \/ \E t \in Turns : BeginAsk(t) \/ InsertTurn(t) \/ CommitAsk(t) \/ Cancel(t) \/ Lapse(t)
  \/ \E w \in Workers : Claim(w) \/ Answer(w) \/ Crash(w)

Spec == Init /\ [][Next]_vars

\* A worker's loop goes on, and a lease that nobody renews lapses.
FairSpec ==
  /\ Spec
  /\ \A w \in Workers : WF_vars(Claim(w)) /\ WF_vars(Answer(w))
  /\ \A t \in Turns : WF_vars((\A w \in Workers : turn[w] # t) /\ Lapse(t))

--------------------------------------------------------------------------------
(* Properties *)

EventTypes == {"queued", "running", "delta", "completed", "failed", "cancelled",
               "reconciliation_required"}

\* Types of the variables; the event types are those the table admits.
TypeOK ==
  /\ asking \in [Turns -> [stage : {"none", "turn", "message"}, ordinal : Nat]]
  /\ state \in [Turns -> {"unasked", "queued"} \cup Held \cup Terminal]
  /\ cancel \in [Turns -> BOOLEAN] /\ lapsed \in [Turns -> BOOLEAN]
  /\ events \in [Turns -> Seq(EventTypes)]
  /\ messages \in Seq([turn : Turns, role : {"user", "assistant"}])
  /\ pc \in [Workers -> {"idle", "start", "generate", "beat", "last_beat", "complete",
                         "committing", "fail"}]
  /\ turn \in [Workers -> Turns \cup {None}]
  /\ target \in [Workers -> Terminal \cup {None}]
  /\ ordinal \in [Workers -> Nat]
  /\ crashes \in 0..MaxCrashes

Told(t)    == {events[t][i] : i \in DOMAIN events[t]}
Answers(t) == {i \in DOMAIN messages : messages[i].turn = t /\ messages[i].role = "assistant"}
Questions(t) == {i \in DOMAIN messages : messages[i].turn = t /\ messages[i].role = "user"}

\* The conversation holds one question for each turn and one answer, after it, for exactly
\* those that succeeded, although answers come from workers whose lease may be gone and whose
\* commit may lose its ordinal to another question.
AnswerIsOutcome ==
  \A t \in Turns :
    /\ Cardinality(Questions(t)) = (IF t \in Asked THEN 1 ELSE 0)
    /\ Cardinality(Answers(t)) = (IF state[t] = "succeeded" THEN 1 ELSE 0)
    /\ \A q \in Questions(t), a \in Answers(t) : q < a

Outcome(e) == IF e = "completed" THEN "succeeded" ELSE e

\* The event stream ends at the first outcome it sends: that outcome is the turn's, then and
\* later, and no other one follows it.
ToldOutcomeStands ==
  \A t \in Turns :
    /\ \A e \in Told(t) : Outcome(e) \in Terminal => state[t] = Outcome(e)
    /\ Cardinality({i \in DOMAIN events[t] : Outcome(events[t][i]) \in Terminal}) <= 1

\* Every question that was asked gets an outcome, whatever becomes of its worker.
TurnsSettle == \A t \in Turns : state[t] = "queued" ~> state[t] \in Terminal
================================================================================
