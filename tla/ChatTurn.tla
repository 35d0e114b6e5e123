------------------------------ MODULE ChatTurn ------------------------------
(***************************************************************************)
(* Turns of the interactive chat.  A request to the turn route claims its  *)
(* thread in the database, takes a slot in the registry of running turns   *)
(* (lib/server/chat/runs.ts), and starts a loop (lib/server/chat/run.ts)   *)
(* that outlives it: read the thread, ask the model, append what it said,  *)
(* append an answer to every tool call, again.  Meanwhile people open the  *)
(* thread, send, steer, stop and delete.                                   *)
(*                                                                         *)
(* One person's threads, in one process: the registry is in its memory.    *)
(* A step is whatever runs between two awaits, with the statement it waits *)
(* for.  A message is its role; a tool call is known by the place of the   *)
(* row that asked for it.  Rows are never removed while their thread lives *)
(* and [threadId, seq] is unique, so an append that succeeds is an append  *)
(* at the end, and the seq of a row is its place.                          *)
(***************************************************************************)
EXTENDS Naturals, Sequences, FiniteSets

CONSTANTS
    Thread,
    Request,        \* POSTs to the turn route, and the turns they start
    Steerer,        \* calls of steerTurn
    Cap,            \* MAX_CONCURRENT_TURNS_PER_USER
    MaxSteps,       \* MAX_STEPS
    MaxCalls,       \* bound: tool calls in one reply
    MaxActs,        \* bound: sends, visits and steers
    MaxTroubles,    \* bound: deaths of the process, failed statements
    None

ASSUME ThreadAssumption == IsFiniteSet(Thread)
ASSUME CapAssumption == Cap \in Nat \ {0}
ASSUME BoundsAssumption ==
    /\ MaxSteps \in Nat \ {0} /\ MaxCalls \in Nat
    /\ MaxActs \in Nat /\ MaxTroubles \in Nat
ASSUME NoneAssumption == None \notin Request /\ None \notin Thread

VARIABLES
    exists,     \* per thread
    log,        \* its messages, by seq
    claim,      \* runningSince is set
    registry,   \* per thread: the request whose turn holds its entry
    pc, thread, \* per request: where it is, and on which thread
    message,    \* it carries a message it has yet to append
    cancelled,  \* the turn's cancel signal is aborted
    signal,     \* the signal of its last completion: "none", "armed", "aborted"
    round,      \* rounds of the loop begun
    seen,       \* how much of the log the model has been shown
    reply,      \* the calls the completion came back with, and whether it was cut off
    asker, left,\* the row whose calls are being answered, and how many still
    spoke,      \* per steerer: the thread it has written to, before it interrupts
    acts, troubles

threadVars == <<exists, log, claim>>
turnVars == <<pc, thread, message, cancelled, signal, round, seen, reply, asker, left>>
boundVars == <<acts, troubles>>
vars == <<threadVars, registry, turnVars, spoke, boundVars>>

Message == [role : {"user", "assistant", "tool"}, calls : 0..MaxCalls, to : Nat]
Reply == [calls : 0..MaxCalls, cut : BOOLEAN]
Nothing == [calls |-> 0, cut |-> FALSE]

\* Before the registry, holding its slot, and in the loop.
Asking == {"opened", "checked", "claimed", "losing", "failing"}
Setup == {"reserved", "asked"}
Loop == {"reading", "read", "model", "replied", "answering", "settled", "ending", "leaving"}
Stage == {"idle"} \cup Asking \cup Setup \cup Loop

TypeOK ==
    /\ exists \in [Thread -> BOOLEAN] /\ claim \in [Thread -> BOOLEAN]
    /\ log \in [Thread -> Seq(Message)]
    /\ registry \in [Thread -> Request \cup {None}]
    /\ pc \in [Request -> Stage]
    /\ thread \in [Request -> Thread \cup {None}]
    /\ \A q \in Request : thread[q] = None <=> pc[q] = "idle"
    /\ message \in [Request -> BOOLEAN] /\ cancelled \in [Request -> BOOLEAN]
    /\ signal \in [Request -> {"none", "armed", "aborted"}]
    /\ round \in [Request -> 0..MaxSteps]
    /\ seen \in [Request -> Nat]
    /\ reply \in [Request -> Reply]
    /\ asker \in [Request -> Nat] /\ left \in [Request -> 0..MaxCalls]
    /\ spoke \in [Steerer -> Thread \cup {None}]
    /\ acts \in Nat /\ troubles \in Nat

UserRow == [role |-> "user", calls |-> 0, to |-> 0]

\* createThread: a thread starts empty or on a question.
Init ==
    /\ exists = [t \in Thread |-> TRUE] /\ claim = [t \in Thread |-> FALSE]
    /\ log \in [Thread -> {<<>>, <<UserRow>>}]
    /\ registry = [t \in Thread |-> None]
    /\ pc = [q \in Request |-> "idle"] /\ thread = [q \in Request |-> None]
    /\ message = [q \in Request |-> FALSE] /\ cancelled = [q \in Request |-> FALSE]
    /\ signal = [q \in Request |-> "none"] /\ round = [q \in Request |-> 0]
    /\ seen = [q \in Request |-> 0] /\ reply = [q \in Request |-> Nothing]
    /\ asker = [q \in Request |-> 0] /\ left = [q \in Request |-> 0]
    /\ spoke = [s \in Steerer |-> None]
    /\ acts = 0 /\ troubles = 0

Goto(q, stage) == pc' = [pc EXCEPT ![q] = stage]

\* The place is read and then written, and a writer who lost it to another looks
\* again: a row of a thread that is there goes to its end.
AppendMessage(t, row) == exists[t] /\ log' = [log EXCEPT ![t] = Append(@, row)]

Act == acts < MaxActs /\ acts' = acts + 1

Trouble == troubles < MaxTroubles /\ troubles' = troubles + 1

\* The request is over, or its turn is: nothing of it is left in memory.
Rest(q) ==
    /\ Goto(q, "idle")
    /\ thread' = [thread EXCEPT ![q] = None]
    /\ message' = [message EXCEPT ![q] = FALSE]
    /\ cancelled' = [cancelled EXCEPT ![q] = FALSE]
    /\ signal' = [signal EXCEPT ![q] = "none"]
    /\ round' = [round EXCEPT ![q] = 0]
    /\ seen' = [seen EXCEPT ![q] = 0]
    /\ reply' = [reply EXCEPT ![q] = Nothing]
    /\ asker' = [asker EXCEPT ![q] = 0]
    /\ left' = [left EXCEPT ![q] = 0]

-----------------------------------------------------------------------------
(* The page: useTurnStream.                                                  *)

Unfinished(t) == log[t] # <<>> /\ log[t][Len(log[t])].role \in {"user", "tool"}

Open(q, t, sends) ==
    /\ pc[q] = "idle" /\ exists[t]
    /\ Goto(q, "opened")
    /\ thread' = [thread EXCEPT ![q] = t]
    /\ message' = [message EXCEPT ![q] = sends]
    /\ UNCHANGED <<threadVars, registry, cancelled, signal, round, seen, reply,
                   asker, left, spoke>>

\* A person sends a message.
Send(q, t) == Act /\ Open(q, t, TRUE) /\ UNCHANGED troubles

\* A person opens a thread that stopped mid-answer, and the page asks for the
\* rest.  A thread that is claimed is only watched.
Visit(q, t) == Unfinished(t) /\ ~claim[t] /\ Act /\ Open(q, t, FALSE) /\ UNCHANGED troubles

-----------------------------------------------------------------------------
(* The route: POST.                                                          *)

\* A turn is running: watch it, or be told to steer it.
Attach(q) ==
    /\ pc[q] = "opened" /\ registry[thread[q]] # None
    /\ Rest(q)
    /\ UNCHANGED <<threadVars, registry, spoke, boundVars>>

Free(q) ==
    /\ pc[q] = "opened" /\ registry[thread[q]] = None
    /\ Goto(q, "checked")
    /\ UNCHANGED <<threadVars, registry, thread, message, cancelled, signal, round,
                   seen, reply, asker, left, spoke, boundVars>>

Claim(q) ==
    /\ pc[q] = "checked"
    /\ IF exists[thread[q]]
       THEN /\ claim' = [claim EXCEPT ![thread[q]] = TRUE]
            /\ Goto(q, "claimed")
            /\ UNCHANGED <<thread, message, cancelled, signal, round, seen, reply, asker, left>>
       ELSE Rest(q) /\ UNCHANGED claim
    /\ UNCHANGED <<exists, log, registry, spoke, boundVars>>

\* Mutant of Slot: the thread's own entry is what counts.
SlotForThread(t) == registry[t] = None

\* reserveRun: the count and the entry in one synchronous step.
Slot(t) ==
    /\ registry[t] = None
    /\ Cardinality({u \in Thread : registry[u] # None}) < Cap

Reserve(q) ==
    /\ pc[q] = "claimed"
    /\ IF Slot(thread[q])
       THEN registry' = [registry EXCEPT ![thread[q]] = q] /\ Goto(q, "reserved")
       ELSE Goto(q, "losing") /\ UNCHANGED registry
    /\ UNCHANGED <<threadVars, thread, message, cancelled, signal, round, seen,
                   reply, asker, left, spoke, boundVars>>

Unclaim(q) == claim' = [claim EXCEPT ![thread[q]] = FALSE]

\* release, swallowing its own failure: 429, or a setup that threw.
GiveUp(q) ==
    /\ pc[q] \in {"losing", "failing"}
    /\ \/ Unclaim(q) /\ UNCHANGED troubles
       \/ Trouble /\ UNCHANGED claim
    /\ Rest(q)
    /\ UNCHANGED <<exists, log, registry, spoke, acts>>

\* The question becomes a row before anything else happens.
Ask(q) ==
    /\ pc[q] = "reserved"
    /\ IF message[q] THEN AppendMessage(thread[q], UserRow) ELSE UNCHANGED log
    /\ message' = [message EXCEPT ![q] = FALSE]
    /\ Goto(q, "asked")
    /\ UNCHANGED <<exists, claim, registry, thread, cancelled, signal, round,
                   seen, reply, asker, left, spoke, boundVars>>

\* Something on the way to startRun threw: the slot goes at once, the claim next.
SetupFails(q) ==
    /\ pc[q] \in Setup
    /\ \/ ~exists[thread[q]] /\ message[q] /\ pc[q] = "reserved" /\ UNCHANGED troubles
       \/ Trouble
    /\ registry' = [registry EXCEPT ![thread[q]] = None]
    /\ Goto(q, "failing")
    /\ UNCHANGED <<threadVars, thread, message, cancelled, signal, round, seen,
                   reply, asker, left, spoke, acts>>

-----------------------------------------------------------------------------
(* The loop: startRun, runTurn, runStep.                                     *)

\* The top of the loop: stopped, out of steps, or round again.
Onward(q) ==
    IF cancelled[q] \/ round[q] = MaxSteps
    THEN Goto(q, "ending") /\ UNCHANGED round
    ELSE Goto(q, "reading") /\ round' = [round EXCEPT ![q] = @ + 1]

Start(q) ==
    /\ pc[q] = "asked"
    /\ Onward(q)
    /\ UNCHANGED <<threadVars, registry, thread, message, cancelled, signal, seen,
                   reply, asker, left, spoke, boundVars>>

\* conversationFor: the rows, as they are now.
Read(q) ==
    /\ pc[q] = "reading"
    /\ seen' = [seen EXCEPT ![q] = Len(log[thread[q]])]
    /\ Goto(q, "read")
    /\ UNCHANGED <<threadVars, registry, thread, message, cancelled, signal, round,
                   reply, asker, left, spoke, boundVars>>

\* Mutant of Signal: a round's signal is a fresh one.
FreshSignal(q) == "armed"

\* control.step(): a fresh signal for this completion, or for the whole turn's.
Signal(q) == IF cancelled[q] THEN "aborted" ELSE "armed"

\* What the elisions cost is one more await; then the model is asked.
Complete(q) ==
    /\ pc[q] = "read"
    /\ signal' = [signal EXCEPT ![q] = Signal(q)]
    /\ Goto(q, "model")
    /\ UNCHANGED <<threadVars, registry, thread, message, cancelled, round, seen,
                   reply, asker, left, spoke, boundVars>>

\* The completion ran to its end.  A reply with nothing in it ends the turn.
Answered(q, text, n) ==
    /\ pc[q] = "model" /\ signal[q] = "armed"
    /\ reply' = [reply EXCEPT ![q] = [calls |-> n, cut |-> FALSE]]
    /\ Goto(q, IF text \/ n > 0 THEN "replied" ELSE "settled")
    /\ UNCHANGED <<threadVars, registry, thread, message, cancelled, signal, round,
                   seen, asker, left, spoke, boundVars>>

\* A stop or a steer ended it.  What it said is kept, what it asked for is not.
Interrupted(q, text) ==
    /\ pc[q] = "model" /\ signal[q] = "aborted"
    /\ IF text
       THEN /\ reply' = [reply EXCEPT ![q] = [calls |-> 0, cut |-> TRUE]]
            /\ Goto(q, "replied") /\ UNCHANGED round
       ELSE Onward(q) /\ UNCHANGED reply
    /\ UNCHANGED <<threadVars, registry, thread, message, cancelled, signal, seen,
                   asker, left, spoke, boundVars>>

ModelFails(q) ==
    /\ pc[q] = "model"
    /\ Goto(q, "ending")
    /\ UNCHANGED <<threadVars, registry, thread, message, cancelled, signal, round,
                   seen, reply, asker, left, spoke, boundVars>>

\* The reply becomes a row.
Say(q) ==
    /\ pc[q] = "replied"
    /\ LET t == thread[q]
           n == reply[q].calls
       IN /\ AppendMessage(t, [role |-> "assistant", calls |-> n, to |-> 0])
          /\ asker' = [asker EXCEPT ![q] = IF n = 0 THEN 0 ELSE Len(log[t]) + 1]
          /\ left' = [left EXCEPT ![q] = n]
          /\ IF reply[q].cut THEN Onward(q)
             ELSE Goto(q, IF n = 0 THEN "settled" ELSE "answering") /\ UNCHANGED round
    /\ reply' = [reply EXCEPT ![q] = Nothing]
    /\ UNCHANGED <<exists, claim, registry, thread, message, cancelled, signal, seen,
                   spoke, boundVars>>

\* Mutant of Answer: a stopped turn answers no more.
AnswerUnlessStopped(q) ==
    /\ pc[q] = "answering"
    /\ IF cancelled[q] THEN Goto(q, "ending") /\ UNCHANGED <<log, left, round, asker>>
       ELSE /\ AppendMessage(thread[q], [role |-> "tool", calls |-> 0, to |-> asker[q]])
            /\ left' = [left EXCEPT ![q] = @ - 1]
            /\ IF left[q] > 1 THEN UNCHANGED <<pc, round, asker>>
               ELSE Onward(q) /\ asker' = [asker EXCEPT ![q] = 0]
    /\ UNCHANGED <<exists, claim, registry, thread, message, cancelled, signal, seen,
                   reply, spoke, boundVars>>

\* Every call gets a row, stopped or not.
Answer(q) ==
    /\ pc[q] = "answering"
    /\ AppendMessage(thread[q], [role |-> "tool", calls |-> 0, to |-> asker[q]])
    /\ left' = [left EXCEPT ![q] = @ - 1]
    /\ IF left[q] > 1 THEN UNCHANGED <<pc, round, asker>>
       ELSE Onward(q) /\ asker' = [asker EXCEPT ![q] = 0]
    /\ UNCHANGED <<exists, claim, registry, thread, message, cancelled, signal, seen,
                   reply, spoke, boundVars>>

\* A statement failed, or the thread has gone: startRun reports it and moves on.
Throws(q) ==
    /\ \/ pc[q] \in {"replied", "answering"} /\ ~exists[thread[q]] /\ UNCHANGED troubles
       \/ pc[q] \in {"reading", "read", "replied", "answering"} /\ Trouble
    /\ Goto(q, "ending")
    /\ UNCHANGED <<threadVars, registry, thread, message, cancelled, signal, round,
                   seen, reply, asker, left, spoke, acts>>

\* Mutant of Release: the slot goes, and the claim with nobody to clear it.
NeverReleases(q) ==
    /\ pc[q] \in {"settled", "ending"}
    /\ Goto(q, "leaving")
    /\ UNCHANGED <<threadVars, registry, thread, message, cancelled, signal, round,
                   seen, reply, asker, left, spoke, boundVars>>

\* The claim first, and then, when that is through, the slot.
Release(q) ==
    /\ pc[q] \in {"settled", "ending"}
    /\ \/ Unclaim(q) /\ UNCHANGED troubles
       \/ Trouble /\ UNCHANGED claim
    /\ Goto(q, "leaving")
    /\ UNCHANGED <<exists, log, registry, thread, message, cancelled, signal, round,
                   seen, reply, asker, left, spoke, acts>>

Deregister(q) ==
    /\ pc[q] = "leaving"
    /\ registry' = [registry EXCEPT ![thread[q]] = None]
    /\ Rest(q)
    /\ UNCHANGED <<threadVars, spoke, boundVars>>

-----------------------------------------------------------------------------
(* People, while a turn runs; and the process.                               *)

\* stopTurn.  The thread was there when it asked whose it is, an await earlier.
Stop(t) ==
    /\ registry[t] # None
    /\ LET q == registry[t] IN
        /\ cancelled' = [cancelled EXCEPT ![q] = TRUE]
        /\ signal' = [signal EXCEPT ![q] = IF @ = "none" THEN @ ELSE "aborted"]
    /\ UNCHANGED <<threadVars, registry, pc, thread, message, round, seen, reply,
                   asker, left, spoke, boundVars>>

\* steerTurn: the row, whether or not a turn is there ...
Speak(s, t) ==
    /\ spoke[s] = None /\ Act
    /\ AppendMessage(t, UserRow)
    /\ spoke' = [spoke EXCEPT ![s] = t]
    /\ UNCHANGED <<exists, claim, registry, turnVars, troubles>>

\* ... then steerRun, which ends the completion in flight, if there is one.
Steer(s) ==
    /\ spoke[s] # None
    /\ LET q == registry[spoke[s]] IN
        signal' = IF q # None /\ signal[q] # "none"
                  THEN [signal EXCEPT ![q] = "aborted"] ELSE signal
    /\ spoke' = [spoke EXCEPT ![s] = None]
    /\ UNCHANGED <<threadVars, registry, pc, thread, message, cancelled, round, seen,
                   reply, asker, left, boundVars>>

\* deleteThread, whatever is running on it; the messages go with it.
Delete(t) ==
    /\ exists[t]
    /\ exists' = [exists EXCEPT ![t] = FALSE]
    /\ log' = [log EXCEPT ![t] = <<>>]
    /\ claim' = [claim EXCEPT ![t] = FALSE]
    /\ UNCHANGED <<registry, turnVars, spoke, boundVars>>

\* The process dies: the registry, the turns and the requests with it.
Crash ==
    /\ Trouble
    /\ registry' = [t \in Thread |-> None]
    /\ pc' = [q \in Request |-> "idle"] /\ thread' = [q \in Request |-> None]
    /\ message' = [q \in Request |-> FALSE] /\ cancelled' = [q \in Request |-> FALSE]
    /\ signal' = [q \in Request |-> "none"] /\ round' = [q \in Request |-> 0]
    /\ seen' = [q \in Request |-> 0] /\ reply' = [q \in Request |-> Nothing]
    /\ asker' = [q \in Request |-> 0] /\ left' = [q \in Request |-> 0]
    /\ spoke' = [s \in Steerer |-> None]
    /\ UNCHANGED <<threadVars, acts>>

-----------------------------------------------------------------------------
Post(q) == Attach(q) \/ Free(q) \/ Claim(q) \/ Reserve(q) \/ GiveUp(q) \/ Ask(q)
           \/ SetupFails(q)

Run(q) == Start(q) \/ Read(q) \/ Complete(q) \/ ModelFails(q) \/ Say(q) \/ Answer(q)
          \/ Throws(q) \/ Release(q) \/ Deregister(q)
          \/ \E text \in BOOLEAN : Interrupted(q, text)
                                   \/ \E n \in 0..MaxCalls : Answered(q, text, n)

Page(q) == \E t \in Thread : Send(q, t) \/ Visit(q, t)

People == \/ \E t \in Thread : Stop(t) \/ Delete(t)
          \/ \E s \in Steerer : Steer(s) \/ \E t \in Thread : Speak(s, t)

Next == People \/ Crash \/ \E q \in Request : Page(q) \/ Post(q) \/ Run(q)

Spec == Init /\ [][Next]_vars

-----------------------------------------------------------------------------
(* Properties.                                                               *)

\* A slot belongs to one turn from reserveRun to its last event, through every
\* way a setup or a turn can fail: so a thread has one turn, and a person no
\* more than the cap.
OneTurnEach ==
    /\ \A q \in Request : pc[q] \in Setup \cup Loop => registry[thread[q]] = q
    /\ Cardinality({q \in Request : pc[q] \in Setup \cup Loop}) <= Cap

\* The converse: no slot is leaked, so none is refused for a turn that is over.
NoSlotLeaked ==
    \A t \in Thread : registry[t] # None =>
        thread[registry[t]] = t /\ pc[registry[t]] \in Setup \cup Loop

\* "the claim on the thread and the slot in the registry are two locks, and a
\* path out of this function that drops one but not the other leaves a
\* conversation nobody can send to" (route.ts): a claimed thread has a request
\* that is still going to release it, until a statement or the process failed.
NoOrphanClaim ==
    \A t \in Thread : troubles = 0 /\ claim[t] =>
        \E q \in Request : thread[q] = t
            /\ pc[q] \notin {"idle", "opened", "checked", "leaving"}

Answers(t, i) == {j \in 1..Len(log[t]) : log[t][j].role = "tool" /\ log[t][j].to = i}

\* "A stopped turn still leaves a conversation that can be continued" (run.ts):
\* whatever is stopped, steered, interleaved or deleted, a call is answered as
\* often as it was made, or its turn is at it.
AnsweredOrAnswering ==
    troubles = 0 => \A t \in Thread : \A i \in 1..Len(log[t]) :
        \/ Cardinality(Answers(t, i)) = log[t][i].calls
        \/ \E q \in Request : /\ pc[q] = "answering" /\ thread[q] = t /\ asker[q] = i
                              /\ Cardinality(Answers(t, i)) + left[q] = log[t][i].calls

\* Once a turn is stopped its model asks for nothing more, however the stop falls
\* between the rounds' signals.
StopHolds ==
    [][\A q \in Request :
        cancelled[q] /\ pc[q] = "model" /\ pc'[q] = "replied" => reply'[q].calls = 0]_vars

-----------------------------------------------------------------------------
(* What the comments of the repository say, and the code does not do.        *)

\* "Every call gets a row" (run.ts); "What a restart loses is the streaming of an
\* in-flight turn; the messages up to that point are already rows" (runs.ts).
EveryCallAnswered ==
    \A t \in Thread : \A i \in 1..Len(log[t]) :
        \/ Cardinality(Answers(t, i)) = log[t][i].calls
        \/ \E q \in Request : pc[q] = "answering" /\ thread[q] = t

\* "Every round already rebuilds the conversation from the database, so an
\* instruction appended by someone watching would be obeyed eventually"
\* (runs.ts): a turn that ends of its own accord has shown its model everything
\* people had said.
InstructionsHeard ==
    [][\A q \in Request : pc[q] # "settled" /\ pc'[q] = "settled" =>
        \A i \in 1..Len(log'[thread[q]]) :
            log'[thread[q]][i].role = "user" => i <= seen[q]]_vars
=============================================================================
