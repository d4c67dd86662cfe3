------------------------------ MODULE TenderProcess ------------------------------
(***************************************************************************)
(* One tender process: its chain of states, the records its authors append *)
(* to it and the finalization that turns them into a successful outcome.   *)
(* Every command is one transaction that claims an idempotency key, locks  *)
(* the row of the process and compares state and revision. Authors lock    *)
(* nothing themselves: each of their inserts takes a key share lock on the *)
(* process through its foreign key, after the row is in the table and its  *)
(* unique index, and keeps it to the end of the transaction.               *)
(***************************************************************************)
EXTENDS Naturals, Sequences, FiniteSets

CONSTANTS Sessions,                \* database sessions that run commands
          Authors,                 \* sessions that append records
          Tokens,                  \* idempotency keys, one for each session at least
          None,
          Outputs,                 \* kinds of outputs, numbered; the code has five
          Lists,                   \* what callers name as the outputs to finalize
          MaxIssues, MaxAppends, MaxLag, MaxFaults   \* bounds of the model

ASSUME BoundsAssumption == Outputs \in Nat \ {0} /\ {MaxIssues, MaxAppends, MaxLag, MaxFaults} \subseteq Nat

Issues  == 1..MaxIssues
Kinds   == 1..Outputs
Foreign == 0  \* an output of another process

\* A finalization names as many outputs as there are kinds: outputs of this process, which
\* has one of each kind, or of another one, in any order and with repetitions.
ASSUME ListsAssumption == Lists \subseteq [Kinds -> Kinds \cup {Foreign}]

VARIABLES
  state, revision, outcome, \* the process and its terminal outcome, if it has one
  events,                   \* its outbox: a record for each revision
  assessed, issues,         \* committed records: the assessment, each issue,
  versions,                 \* the states of the versions of each kind of output
  done,                     \* keys of completed commands that a session still carries
  pc, call, next,           \* each session: its step, its command, the next output to write
  work, stage,              \* each author: what it appends, how far it is
  appends, faults

process == <<state, revision, outcome, events>>
records == <<assessed, issues, versions>>
session == <<done, pc, call, next>>
author  == <<work, stage, appends>>
vars == <<process, records, session, author, faults>>

Chain   == <<"requested", "corpus_assessed", "requirements_determined", "analyzed", "drafted",
             "waiting_for_authority", "finalized">>
Working == {Chain[i] : i \in 1..6}
States  == Working \cup {"blocked", "finalized"}

\* Commands that are accepted for execution: a transition along the chain or to
\* blocked, or the finalization.
AllowedTransitions == {<<Chain[i], Chain[i + 1]>> : i \in 1..6} \cup (Working \X {"blocked"})
Commands == {[op |-> "transition", from |-> e[1], to |-> e[2]] : e \in AllowedTransitions}
              \cup [op : {"finalize"}, from : {"waiting_for_authority"}, to : {"finalized"}, ids : Lists]

\* A command under its key, for the revision its caller saw.
Calls == [command : Commands, expected : Nat, token : Tokens]

\* A record to append: what it is, its place among its kind, and what it says.
Appended ==
  {[what |-> "assessment", at |-> 0, as |-> "recorded"]}
    \cup [what : {"issue"}, at : Issues, as : {"open", "harmless"}]
    \cup [what : {"confirmation"}, at : Issues, as : {"confirmed"}]
    \cup [what : {"output"}, at : Kinds, as : {"draft", "blocked"}]

ASSUME NoneAssumption == None \notin Calls \cup Appended

Usable(k) == \E i \in DOMAIN versions[k] : versions[k][i] # "blocked"
Blockers  == {i \in Issues : issues[i] = "open"}

Running    == {"lock", "check", "write", "commit"}   \* steps of a transaction that has its key
Holders    == {s \in Sessions : pc[s] \in Running \ {"lock"}}   \* they hold the row of the process
Sharers    == {a \in Authors : stage[a] = "shared"}             \* they hold a share of it

--------------------------------------------------------------------------------
(* Commands *)

Carried(calls) == {calls[s].token : s \in {r \in Sessions : calls[r] # None}}

\* A caller reads the process and issues a command, under a new key, for the
\* state and revision it saw; or it sends again, on this or another connection,
\* a command that got no answer yet. Bound: no new command while one is on its
\* way for a process more than MaxLag revisions ago.
Call(s) ==
  /\ pc[s] \in {"idle", "lost"}
  /\ \E c \in [command : Commands, expected : {revision}, token : Tokens \ Carried(call)]
                \cup {call[r] : r \in {q \in Sessions : pc[q] # "idle"}} :
       /\ c.token \notin Carried(call) =>
            /\ c.command.from = state
            /\ \A r \in Sessions : call[r] # None => revision <= call[r].expected + MaxLag
            /\ c.token = CHOOSE t \in Tokens : t \notin Carried(call)
       /\ call' = [call EXCEPT ![s] = c]
  /\ pc' = [pc EXCEPT ![s] = "claim"]
  /\ done' = done \cap Carried(call')
  /\ UNCHANGED <<process, records, next, author, faults>>

\* The session ends its call. Keys that no caller will send again are forgotten.
End(s, keys) ==
  /\ pc' = [pc EXCEPT ![s] = "idle"]
  /\ call' = [call EXCEPT ![s] = None]
  /\ next' = [next EXCEPT ![s] = 1]
  /\ done' = keys \cap Carried(call')

\* The transaction is rolled back and its key is free again.
Refuse(s) == End(s, done) /\ UNCHANGED <<process, records, author, faults>>

Goto(s, step) ==
  /\ pc' = [pc EXCEPT ![s] = step]
  /\ UNCHANGED <<process, records, done, call, next, author, faults>>

\* Mutated form of Claimed: a key is looked up, and not waited for.
ClaimedNever(s) == FALSE

\* A running transaction has inserted the key: another insert waits for its end.
Claimed(s) == \E r \in Sessions : pc[r] \in Running /\ call[r].token = call[s].token

\* The key of a completed command gives its caller the process as it is now.
Claim(s) ==
  /\ pc[s] = "claim" /\ ~Claimed(s)
  /\ IF call[s].token \in done THEN Refuse(s) ELSE Goto(s, "lock")

\* Mutated form of Stale: state and revision are not compared.
StaleNever(s) == FALSE

Stale(s) == state # call[s].command.from \/ revision # call[s].expected

\* SELECT ... FOR UPDATE waits for other commands and for appended rows.
Lock(s) ==
  /\ pc[s] = "lock" /\ Holders = {} /\ Sharers = {}
  /\ IF Stale(s) THEN Refuse(s) ELSE Goto(s, "check")

\* What a transition needs, and what a finalization needs.
Prepared(c)   == /\ c.to = "corpus_assessed" => assessed
                 /\ c.to = "analyzed" => \E i \in Issues : issues[i] # "absent"
Finalizable   == Blockers = {} /\ \A k \in Kinds : Usable(k)
Acceptable(c) == IF c.op = "finalize" THEN Finalizable ELSE Prepared(c)

\* A blocking command without a typed reason, or a finalization whose grants
\* do not hold, is refused in any case.
Deniable(c) == c.op = "finalize" \/ c.to = "blocked"

\* Mutated form of Check: a transition waits, with the row locked, for what it needs.
CheckByWaiting(s) ==
  /\ pc[s] = "check"
  /\ LET c == call[s].command IN
     \/ Deniable(c) /\ Refuse(s)
     \/ Acceptable(c) /\ Goto(s, IF c.op = "finalize" THEN "write" ELSE "commit")

Check(s) ==
  /\ pc[s] = "check"
  /\ LET c == call[s].command IN
     \/ (Deniable(c) \/ ~Acceptable(c)) /\ Refuse(s)
     \/ Acceptable(c) /\ Goto(s, IF c.op = "finalize" THEN "write" ELSE "commit")

\* Authors whose uncommitted row is the next version of the output.
Contenders(k) == {a \in Authors : stage[a] = "inserted" /\ work[a].what = "output" /\ work[a].at = k}

\* The output that a finalization has reached, and those it has written a version of.
Reached(s) == call[s].command.ids[next[s]]
Written(s) == {call[s].command.ids[n] : n \in 1..(next[s] - 1)}

\* A finalized version after the latest one, for one named output after the other: what is
\* named is not compared with anything. The unique index makes it wait for a row that an
\* author has inserted.
WriteOutput(s) ==
  /\ pc[s] = "write" /\ Contenders(Reached(s)) = {}
  /\ next' = [next EXCEPT ![s] = next[s] + 1]
  /\ pc' = [pc EXCEPT ![s] = IF next[s] + 1 \in Kinds THEN "write" ELSE "commit"]
  /\ UNCHANGED <<process, records, done, call, author, faults>>

\* External: session and author wait for each other until the database fails
\* one of the two transactions.
Deadlocked(s, a) == pc[s] = "write" /\ a \in Contenders(Reached(s))

LoseToAuthor(s) == (\E a \in Authors : Deadlocked(s, a)) /\ Refuse(s)

Outcome(c) == IF c.op = "finalize" THEN "successful"
              ELSE IF c.to = "blocked" THEN "blocked" ELSE outcome

\* The versions a finalization adds to the output of a kind, as often as it names it.
Finalized(c, k) == [n \in 1..Cardinality({i \in Kinds : c.ids[i] = k}) |-> "finalized"]

\* State, event, outcome, outputs and completed key become visible together.
\* The answer may be lost on its way.
Commit(s) ==
  LET c == call[s].command IN
  /\ pc[s] = "commit"
  /\ state' = c.to
  /\ revision' = call[s].expected + 1
  /\ outcome' = Outcome(c)
  /\ events' = Append(events, [revision |-> revision', state |-> state'])
  /\ versions' = IF c.op = "finalize"
                 THEN [k \in Kinds |-> versions[k] \o Finalized(c, k)] ELSE versions
  /\ \/ End(s, done \cup {call[s].token}) /\ UNCHANGED faults
     \/ /\ faults < MaxFaults
        /\ pc' = [pc EXCEPT ![s] = "lost"]
        /\ next' = [next EXCEPT ![s] = 1]
        /\ done' = done \cup {call[s].token}
        /\ faults' = faults + 1
        /\ UNCHANGED call
  /\ UNCHANGED <<assessed, issues, author>>

\* External: the connection breaks before the commit, and the server rolls back.
Break(s) ==
  /\ pc[s] \in Running /\ faults < MaxFaults
  /\ pc' = [pc EXCEPT ![s] = "lost"]
  /\ next' = [next EXCEPT ![s] = 1]
  /\ faults' = faults + 1
  /\ UNCHANGED <<process, records, done, call, author>>

--------------------------------------------------------------------------------
(* Appended records *)

\* An issue, the confirmation of an applicable one, the assessment, or the next
\* version of an output. The state of the process is not asked for.
NextIssue == {i \in Issues : issues[i] = "absent" /\ \A h \in 1..(i - 1) : issues[h] # "absent"}
Appends ==
  {[what |-> "assessment", at |-> 0, as |-> "recorded"]}
    \cup [what : {"issue"}, at : NextIssue, as : {"open", "harmless"}]
    \cup [what : {"confirmation"}, at : {i \in Issues : issues[i] = "open"}, as : {"confirmed"}]
    \cup [what : {"output"}, at : Kinds, as : {"draft", "blocked"}]

\* The new row is in its table and its unique indexes, where an output waits for
\* the same version that a finalization has written.
Insert(a) ==
  /\ stage[a] = "idle" /\ appends < MaxAppends
  /\ \E w \in Appends :
       /\ w.what = "assessment" => ~assessed
       /\ \A b \in Authors : work[b] # None => <<work[b].what, work[b].at>> # <<w.what, w.at>>
       /\ w.what = "output" => \A s \in Sessions : w.at \notin Written(s)
       /\ work' = [work EXCEPT ![a] = w]
  /\ stage' = [stage EXCEPT ![a] = "inserted"]
  /\ appends' = appends + 1
  /\ UNCHANGED <<process, records, session, faults>>

\* Mutated form of Share: without the foreign key, nothing locks the process.
ShareNothing(a) ==
  /\ stage[a] = "inserted"
  /\ stage' = [stage EXCEPT ![a] = "shared"]
  /\ UNCHANGED <<process, records, session, work, appends, faults>>

\* The foreign key locks the row of the process: it waits for a command that holds it.
Share(a) ==
  /\ stage[a] = "inserted" /\ Holders = {}
  /\ stage' = [stage EXCEPT ![a] = "shared"]
  /\ UNCHANGED <<process, records, session, work, appends, faults>>

Leave(a) ==
  /\ stage' = [stage EXCEPT ![a] = "idle"]
  /\ work' = [work EXCEPT ![a] = None]
  /\ UNCHANGED appends

LoseToSession(a) ==
  /\ \E s \in Sessions : Deadlocked(s, a)
  /\ Leave(a)
  /\ UNCHANGED <<process, records, session, faults>>

Publish(a) ==
  LET w == work[a] IN
  /\ stage[a] = "shared"
  /\ assessed' = (assessed \/ w.what = "assessment")
  /\ issues' = IF w.what \in {"issue", "confirmation"} THEN [issues EXCEPT ![w.at] = w.as]
               ELSE issues
  /\ versions' = IF w.what = "output" THEN [versions EXCEPT ![w.at] = Append(@, w.as)]
                 ELSE versions
  /\ Leave(a)
  /\ UNCHANGED <<process, session, faults>>

--------------------------------------------------------------------------------
(* Specification *)

Init ==
  /\ state = "requested" /\ revision = 1 /\ outcome = None
  /\ events = <<[revision |-> 1, state |-> "requested"]>>
  /\ assessed = FALSE
  /\ issues = [i \in Issues |-> "absent"]
  /\ versions = [k \in Kinds |-> <<>>]
  /\ done = {}
  /\ pc = [s \in Sessions |-> "idle"]
  /\ call = [s \in Sessions |-> None]
  /\ next = [s \in Sessions |-> 1]
  /\ work = [a \in Authors |-> None]
  /\ stage = [a \in Authors |-> "idle"]
  /\ appends = 0 /\ faults = 0

\* Steps of transactions that have begun.
SessionStep(s) == Claim(s) \/ Lock(s) \/ Check(s) \/ WriteOutput(s) \/ LoseToAuthor(s) \/ Commit(s)
AuthorStep(a)  == Share(a) \/ LoseToSession(a) \/ Publish(a)

Next ==
  \/ \E s \in Sessions : Call(s) \/ SessionStep(s) \/ Break(s)
  \/ \E a \in Authors : Insert(a) \/ AuthorStep(a)

Spec == Init /\ [][Next]_vars

--------------------------------------------------------------------------------
(* Properties *)

ProcessTypes ==
  /\ state \in States /\ revision \in Nat /\ outcome \in {None, "successful", "blocked"}
  /\ events \in Seq([revision : Nat, state : States])
  /\ assessed \in BOOLEAN
  /\ issues \in [Issues -> {"absent", "open", "harmless", "confirmed"}]
  /\ versions \in [Kinds -> Seq({"draft", "blocked", "finalized"})]

SessionTypes ==
  /\ done \subseteq Carried(call)
  /\ pc \in [Sessions -> {"idle", "claim", "lost"} \cup Running]
  /\ call \in [Sessions -> Calls \cup {None}]
  /\ \A s \in Sessions : pc[s] = "idle" <=> call[s] = None
  /\ next \in [Sessions -> Nat \ {0}]
  /\ faults \in 0..MaxFaults

AuthorTypes ==
  /\ stage \in [Authors -> {"idle", "inserted", "shared"}]
  /\ work \in [Authors -> Appended \cup {None}]
  /\ \A a \in Authors : stage[a] = "idle" <=> work[a] = None
  /\ appends \in 0..MaxAppends

\* Types of the variables; a session has a command unless it is idle, an author
\* has a record unless it is idle.
TypeOK == ProcessTypes /\ SessionTypes /\ AuthorTypes

\* The outbox tells the history of the process without a gap or a double: one
\* event for each revision, each an allowed transition from the one before, and
\* the last one is what the process is now.
EventsTellTheProcess ==
  /\ \A i \in DOMAIN events : events[i].revision = i
  /\ \A i \in 2..Len(events) : <<events[i - 1].state, events[i].state>> \in AllowedTransitions
  /\ revision = Len(events) /\ events[revision].state = state

\* Commands change the process and authors append at the same time; a successful outcome is
\* given only when the records committed at that moment hold no open blocker and an output of
\* every kind that is not blocked, although both were looked at steps before.
SuccessIsSound ==
  [][outcome # "successful" /\ outcome' = "successful" =>
       (Blockers = {} /\ \A k \in Kinds : Usable(k))']_vars

\* A command that took effect is not refused to its caller as a conflict when it
\* is sent again, after a lost answer or while the first call still runs.
AppliedIsNotRefused ==
  [][\A s \in Sessions : pc[s] \in Running /\ pc'[s] = "idle" /\ state' = state =>
       call[s].token \notin done]_vars

\* Sessions wait for keys, for the row of the process and for the index entries
\* of authors, authors wait for the row of the process; but while a transaction
\* is open, one that is open can go on: a call or a new record is never needed
\* to set the others free.
NoStandstill ==
  (\E s \in Sessions : pc[s] \in Running) \/ (\E a \in Authors : stage[a] # "idle")
    => ENABLED ((\E s \in Sessions : SessionStep(s)) \/ \E a \in Authors : AuthorStep(a))

--------------------------------------------------------------------------------
(* A statement of the repository that the code does not meet *)

\* "Successful Tender completion requires professional finalization.": a process
\* that is finalized has the successful outcome that only a finalization gives it.
FinalizedHasOutcome == state = "finalized" => outcome = "successful"
================================================================================
