--------------------------- MODULE ChatTurnProofs ---------------------------
(* Turns and their slots, proved for any number of threads, requests and     *)
(* people, and any limit on steps, calls and slots.                          *)
EXTENDS ChatTurn, FiniteSetTheorems, TLAPS

LEMMA RowTypes ==
    /\ UserRow \in Message /\ Nothing \in Reply
    /\ \A n \in 0..MaxCalls : [role |-> "assistant", calls |-> n, to |-> 0] \in Message
    /\ \A a \in Nat : [role |-> "tool", calls |-> 0, to |-> a] \in Message
    /\ \A n \in 0..MaxCalls : [calls |-> n, cut |-> FALSE] \in Reply
    /\ [calls |-> 0, cut |-> TRUE] \in Reply
  BY BoundsAssumption DEF UserRow, Message, Nothing, Reply

\* An appended log is a log.
LEMMA AppendType ==
  ASSUME log \in [Thread -> Seq(Message)], NEW t \in Thread, NEW row \in Message,
         AppendMessage(t, row)
  PROVE  log' \in [Thread -> Seq(Message)]
<1>1. Append(log[t], row) \in Seq(Message)
  OBVIOUS
<1> QED
  BY <1>1 DEF AppendMessage

\* A request that rests leaves the types as they were.
LEMMA RestType ==
  ASSUME TypeOK, NEW q \in Request, Rest(q)
  PROVE  /\ pc' \in [Request -> Stage]
         /\ thread' \in [Request -> Thread \cup {None}]
         /\ \A r \in Request : thread'[r] = None <=> pc'[r] = "idle"
         /\ message' \in [Request -> BOOLEAN] /\ cancelled' \in [Request -> BOOLEAN]
         /\ signal' \in [Request -> {"none", "armed", "aborted"}]
         /\ round' \in [Request -> 0..MaxSteps]
         /\ seen' \in [Request -> Nat]
         /\ reply' \in [Request -> Reply]
         /\ asker' \in [Request -> Nat] /\ left' \in [Request -> 0..MaxCalls]
  BY RowTypes, NoneAssumption, BoundsAssumption DEF TypeOK, Rest, Goto, Stage

\* So does a turn at the top of its loop.
LEMMA OnwardType ==
  ASSUME TypeOK, NEW q \in Request, pc[q] # "idle", Onward(q)
  PROVE  /\ pc' \in [Request -> Stage]
         /\ round' \in [Request -> 0..MaxSteps]
         /\ \A r \in Request : pc'[r] = "idle" <=> pc[r] = "idle"
<1> USE DEF TypeOK
<1>1. CASE cancelled[q] \/ round[q] = MaxSteps
  BY <1>1 DEF Onward, Goto, Stage, Loop
<1>2. CASE ~(cancelled[q] \/ round[q] = MaxSteps)
  <2>1. round[q] + 1 \in 0..MaxSteps
    BY <1>2, BoundsAssumption
  <2> QED
    BY <1>2, <2>1 DEF Onward, Goto, Stage, Loop
<1> QED
  BY <1>1, <1>2

\* A request that is not idle is about a thread.
LEMMA AboutThread ==
  ASSUME TypeOK, NEW q \in Request, pc[q] # "idle"
  PROVE  thread[q] \in Thread
  BY DEF TypeOK

\* What TypeOK lacks to be inductive: answers are appended while calls are left.
Pending == \A q \in Request : pc[q] = "answering" => left[q] > 0

LEMMA PendingKept == TypeOK /\ Pending /\ [Next]_vars => Pending'
<1> SUFFICES ASSUME TypeOK, Pending, [Next]_vars PROVE Pending'
  OBVIOUS
<1> USE DEF TypeOK, Pending, threadVars, turnVars, boundVars, Goto
<1>1. ASSUME NEW q \in Request, NEW t \in Thread, NEW b \in BOOLEAN, Open(q, t, b)
      PROVE  Pending'
  BY <1>1 DEF Open
<1>2. ASSUME NEW q \in Request, Page(q) PROVE Pending'
  <2>1. PICK t \in Thread : Open(q, t, TRUE) \/ Open(q, t, FALSE)
    BY <1>2, Zenon DEF Page, Send, Visit
  <2> QED
    BY <2>1, <1>1, Zenon
<1>3. ASSUME NEW q \in Request, Rest(q) PROVE Pending'
  BY <1>3 DEF Rest
<1>4. ASSUME NEW q \in Request, Onward(q), UNCHANGED left PROVE Pending'
  BY <1>4 DEF Onward
<1>5. ASSUME NEW q \in Request, Post(q) PROVE Pending'
  <2>1. CASE Attach(q) \/ GiveUp(q)
    BY <2>1, <1>3 DEF Attach, GiveUp
  <2>2. CASE Claim(q)
    BY <2>2, <1>3 DEF Claim
  <2>3. CASE Free(q) \/ Reserve(q) \/ Ask(q) \/ SetupFails(q)
    BY <2>3 DEF Free, Reserve, Ask, SetupFails
  <2> QED
    BY <1>5, <2>1, <2>2, <2>3 DEF Post
<1>6. ASSUME NEW q \in Request, Run(q) PROVE Pending'
  <2>1. CASE Start(q)
    BY <2>1, <1>4 DEF Start
  <2>2. CASE Read(q) \/ Complete(q) \/ ModelFails(q) \/ Throws(q) \/ Release(q)
    BY <2>2 DEF Read, Complete, ModelFails, Throws, Release
  <2>3. CASE Say(q)
    <3>1. reply[q].calls \in 0..MaxCalls
      BY DEF Reply
    <3>2. CASE reply[q].cut
      BY <2>3, <3>2 DEF Say, Onward
    <3>3. CASE ~reply[q].cut
      BY <2>3, <3>1, <3>3, BoundsAssumption DEF Say
    <3> QED
      BY <3>2, <3>3
  <2>4. CASE Answer(q)
    <3>1. left[q] \in 0..MaxCalls
      OBVIOUS
    <3>2. CASE left[q] > 1
      BY <2>4, <3>1, <3>2, BoundsAssumption DEF Answer
    <3>3. CASE ~(left[q] > 1)
      BY <2>4, <3>1, <3>3 DEF Answer, Onward
    <3> QED
      BY <3>2, <3>3
  <2>5. CASE Deregister(q)
    BY <2>5, <1>3 DEF Deregister
  <2>6. ASSUME NEW text \in BOOLEAN, NEW n \in 0..MaxCalls, Answered(q, text, n)
        PROVE  Pending'
    BY <2>6 DEF Answered
  <2>7. ASSUME NEW text \in BOOLEAN, Interrupted(q, text) PROVE Pending'
    BY <2>7 DEF Interrupted, Onward
  <2> QED
    BY <1>6, <2>1, <2>2, <2>3, <2>4, <2>5, <2>6, <2>7 DEF Run
<1>7. ASSUME People PROVE Pending'
  BY <1>7 DEF People, Stop, Delete, Speak, Steer
<1>8. ASSUME Crash PROVE Pending'
  BY <1>8 DEF Crash
<1>9. ASSUME UNCHANGED vars PROVE Pending'
  BY <1>9 DEF vars
<1> QED
  BY <1>2, <1>5, <1>6, <1>7, <1>8, <1>9 DEF Next

\* Every variable keeps its type.
LEMMA TypeKept == TypeOK /\ Pending /\ [Next]_vars => TypeOK'
<1> SUFFICES ASSUME TypeOK, Pending, [Next]_vars PROVE TypeOK'
  OBVIOUS
<1> USE DEF TypeOK, threadVars, turnVars, boundVars
<1>1. ASSUME NEW q \in Request, NEW t \in Thread, NEW b \in BOOLEAN, Open(q, t, b),
             acts' \in Nat, troubles' \in Nat
      PROVE  TypeOK'
  BY <1>1, NoneAssumption DEF Open, Goto, Stage, Asking
<1>2. ASSUME NEW q \in Request, Page(q) PROVE TypeOK'
  <2>1. PICK t \in Thread : Send(q, t) \/ Visit(q, t)
    BY <1>2 DEF Page
  <2>2. Act /\ troubles' = troubles /\ (Open(q, t, TRUE) \/ Open(q, t, FALSE))
    BY <2>1, Zenon DEF Send, Visit
  <2>3. acts' \in Nat /\ troubles' \in Nat
    BY <2>2 DEF Act
  <2> QED
    BY <2>2, <2>3, <1>1, Zenon
<1>3. ASSUME NEW q \in Request, Attach(q) \/ GiveUp(q) PROVE TypeOK'
  <2>1. Rest(q)
    BY <1>3 DEF Attach, GiveUp
  <2>2. thread[q] \in Thread
    BY <1>3, AboutThread DEF Attach, GiveUp
  <2>3. claim' \in [Thread -> BOOLEAN] /\ acts' \in Nat /\ troubles' \in Nat
    <3>1. CASE Attach(q)
      BY <3>1 DEF Attach
    <3>2. CASE GiveUp(q)
      <4>1. acts' = acts
        BY <3>2 DEF GiveUp
      <4>2. (Unclaim(q) /\ troubles' = troubles) \/ (Trouble /\ claim' = claim)
        BY <3>2 DEF GiveUp
      <4>3. CASE Unclaim(q) /\ troubles' = troubles
        BY <2>2, <4>1, <4>3 DEF Unclaim
      <4>4. CASE Trouble /\ claim' = claim
        BY <4>1, <4>4 DEF Trouble
      <4> QED
        BY <4>2, <4>3, <4>4
    <3> QED
      BY <1>3, <3>1, <3>2
  <2> QED
    BY <1>3, <2>1, <2>3, RestType DEF Attach, GiveUp
<1>4. ASSUME NEW q \in Request, Claim(q) PROVE TypeOK'
  <2>1. CASE exists[thread[q]]
    BY <1>4, <2>1 DEF Claim, Goto, Stage, Asking
  <2>2. CASE ~exists[thread[q]]
    BY <1>4, <2>2, RestType DEF Claim
  <2> QED
    BY <2>1, <2>2
<1>5. ASSUME NEW q \in Request, Free(q) \/ Reserve(q) \/ SetupFails(q) PROVE TypeOK'
  <2>1. CASE Free(q)
    BY <2>1 DEF Free, Goto, Stage, Asking
  <2>2. CASE Reserve(q)
    BY <2>2 DEF Reserve, Goto, Stage, Asking, Setup
  <2>3. CASE SetupFails(q)
    BY <2>3 DEF SetupFails, Goto, Trouble, Stage, Asking, Setup
  <2> QED
    BY <1>5, <2>1, <2>2, <2>3
<1>6. ASSUME NEW q \in Request, Ask(q) PROVE TypeOK'
  <2>1. thread[q] \in Thread
    BY <1>6 DEF Ask
  <2>2. log' \in [Thread -> Seq(Message)]
    BY <1>6, <2>1, RowTypes, AppendType DEF Ask
  <2> QED
    BY <1>6, <2>2 DEF Ask, Goto, Stage, Setup
<1>7. ASSUME NEW q \in Request, Start(q) PROVE TypeOK'
  BY <1>7, OnwardType DEF Start
<1>8. ASSUME NEW q \in Request, Read(q) \/ Complete(q) \/ ModelFails(q) \/ Throws(q)
      PROVE  TypeOK'
  <2>1. thread[q] \in Thread
    BY <1>8, AboutThread DEF Read, Complete, ModelFails, Throws
  <2>2. Len(log[thread[q]]) \in Nat /\ Signal(q) \in {"armed", "aborted"}
    BY <2>1 DEF Signal
  <2>3. CASE Read(q)
    BY <2>2, <2>3 DEF Read, Goto, Stage, Loop
  <2>4. CASE Complete(q)
    BY <2>2, <2>4 DEF Complete, Goto, Stage, Loop
  <2>5. CASE ModelFails(q)
    BY <2>5 DEF ModelFails, Goto, Stage, Loop
  <2>6. CASE Throws(q)
    <3>1. troubles' \in Nat /\ pc[q] # "idle" /\ pc' = [pc EXCEPT ![q] = "ending"]
      BY <2>6 DEF Throws, Trouble, Goto
    <3> QED
      BY <2>6, <3>1 DEF Throws, Stage, Loop
  <2> QED
    BY <1>8, <2>3, <2>4, <2>5, <2>6
<1>9. ASSUME NEW q \in Request, NEW text \in BOOLEAN, NEW n \in 0..MaxCalls,
             Answered(q, text, n)
      PROVE  TypeOK'
  BY <1>9, RowTypes DEF Answered, Goto, Stage, Loop
<1>10. ASSUME NEW q \in Request, NEW text \in BOOLEAN, Interrupted(q, text) PROVE TypeOK'
  <2>1. CASE text
    BY <1>10, <2>1, RowTypes DEF Interrupted, Goto, Stage, Loop
  <2>2. CASE ~text
    BY <1>10, <2>2, OnwardType DEF Interrupted
  <2> QED
    BY <2>1, <2>2
<1>11. ASSUME NEW q \in Request, Say(q) PROVE TypeOK'
  <2>1. thread[q] \in Thread /\ reply[q].calls \in 0..MaxCalls
    BY <1>11 DEF Say, Reply
  <2>2. Len(log[thread[q]]) + 1 \in Nat
    BY <2>1
  <2>3. log' \in [Thread -> Seq(Message)]
    BY <1>11, <2>1, RowTypes, AppendType DEF Say
  <2>4. /\ asker' \in [Request -> Nat] /\ left' \in [Request -> 0..MaxCalls]
        /\ reply' \in [Request -> Reply]
    BY <1>11, <2>1, <2>2, RowTypes DEF Say
  <2>5. /\ pc' \in [Request -> Stage]
        /\ round' \in [Request -> 0..MaxSteps]
        /\ \A r \in Request : pc'[r] = "idle" <=> pc[r] = "idle"
    <3>1. CASE reply[q].cut
      BY <1>11, <3>1, OnwardType DEF Say
    <3>2. CASE ~reply[q].cut
      BY <1>11, <3>2 DEF Say, Goto, Stage, Loop
    <3> QED
      BY <3>1, <3>2
  <2> QED
    BY <1>11, <2>3, <2>4, <2>5 DEF Say
<1>12. ASSUME NEW q \in Request, Answer(q) PROVE TypeOK'
  <2>1. thread[q] \in Thread /\ left[q] \in 0..MaxCalls /\ asker[q] \in Nat
    BY <1>12, AboutThread DEF Answer
  <2>2. log' \in [Thread -> Seq(Message)]
    BY <1>12, <2>1, RowTypes, AppendType DEF Answer
  <2>3. left' \in [Request -> 0..MaxCalls]
    <3>1. left' = [left EXCEPT ![q] = @ - 1] /\ left[q] > 0
      BY <1>12 DEF Answer, Pending
    <3> QED
      BY <2>1, <3>1, BoundsAssumption
  <2>4. /\ pc' \in [Request -> Stage] /\ asker' \in [Request -> Nat]
        /\ round' \in [Request -> 0..MaxSteps]
        /\ \A r \in Request : pc'[r] = "idle" <=> pc[r] = "idle"
    <3>1. CASE left[q] > 1
      BY <1>12, <3>1 DEF Answer
    <3>2. CASE ~(left[q] > 1)
      <4>1. Onward(q) /\ pc[q] # "idle" /\ asker' = [asker EXCEPT ![q] = 0]
        BY <1>12, <3>2 DEF Answer
      <4> QED
        BY <4>1, OnwardType
    <3> QED
      BY <3>1, <3>2
  <2> QED
    BY <1>12, <2>2, <2>3, <2>4 DEF Answer
<1>13. ASSUME NEW q \in Request, Release(q) PROVE TypeOK'
  <2>1. thread[q] \in Thread /\ pc[q] # "idle"
    BY <1>13, AboutThread DEF Release
  <2>2. claim' \in [Thread -> BOOLEAN] /\ troubles' \in Nat
    <3>1. (Unclaim(q) /\ troubles' = troubles) \/ (Trouble /\ claim' = claim)
      BY <1>13 DEF Release
    <3>2. CASE Unclaim(q) /\ troubles' = troubles
      BY <2>1, <3>2 DEF Unclaim
    <3>3. CASE Trouble /\ claim' = claim
      BY <3>3 DEF Trouble
    <3> QED
      BY <3>1, <3>2, <3>3
  <2>3. pc' = [pc EXCEPT ![q] = "leaving"]
    BY <1>13 DEF Release, Goto
  <2> QED
    BY <1>13, <2>1, <2>2, <2>3 DEF Release, Stage, Loop
<1>14. ASSUME NEW q \in Request, Deregister(q) PROVE TypeOK'
  BY <1>14, RestType DEF Deregister
<1>15. ASSUME NEW t \in Thread, Stop(t) PROVE TypeOK'
  BY <1>15 DEF Stop
<1>16. ASSUME NEW t \in Thread, Delete(t) PROVE TypeOK'
  BY <1>16 DEF Delete
<1>17. ASSUME NEW s \in Steerer, NEW t \in Thread, Speak(s, t) PROVE TypeOK'
  BY <1>17, RowTypes, AppendType DEF Speak, Act
<1>18. ASSUME NEW s \in Steerer, Steer(s) PROVE TypeOK'
  BY <1>18 DEF Steer
<1>19. ASSUME Crash PROVE TypeOK'
  BY <1>19, RowTypes, BoundsAssumption DEF Crash, Trouble, Stage
<1>20. ASSUME UNCHANGED vars PROVE TypeOK'
  BY <1>20 DEF vars
<1> QED
  BY <1>2, <1>3, <1>4, <1>5, <1>6, <1>7, <1>8, <1>9, <1>10, <1>11, <1>12, <1>13, <1>14,
     <1>15, <1>16, <1>17, <1>18, <1>19, <1>20 DEF Next, People, Post, Run

LEMMA TypeInit == Init => TypeOK /\ Pending
<1> SUFFICES ASSUME Init PROVE TypeOK /\ Pending
  OBVIOUS
<1>1. log \in [Thread -> Seq(Message)]
  <2>1. <<>> \in Seq(Message) /\ <<UserRow>> \in Seq(Message)
    BY RowTypes
  <2> QED
    BY <2>1 DEF Init
<1>2. Pending
  BY DEF Init, Pending
<1> QED
  BY <1>1, <1>2, RowTypes, BoundsAssumption DEF Init, TypeOK, Stage

LEMMA Typed == Spec => [](TypeOK /\ Pending)
  BY TypeInit, PendingKept, TypeKept, PTL DEF Spec

\* The types, for every number of threads, requests and people.
THEOREM TypeCorrect == Spec => []TypeOK
  BY Typed, PTL

-----------------------------------------------------------------------------
(* Slots.  OneTurnEach and NoSlotLeaked are two directions of one fact: the  *)
(* entries of the registry and the turns that are on are in correspondence.  *)
(* The number of entries is what reserveRun counts; the number of turns      *)
(* follows from it, since a turn's thread is another one for each.           *)

Active == Setup \cup Loop
Held == {t \in Thread : registry[t] # None}

Slots ==
    /\ \A q \in Request : pc[q] \in Active => registry[thread[q]] = q
    /\ NoSlotLeaked
    /\ Cardinality(Held) <= Cap

LEMMA HeldFinite == IsFiniteSet(Held) /\ Cardinality(Held) \in Nat
  BY ThreadAssumption, FS_Subset, FS_CardinalityType DEF Held

LEMMA ActiveNotIdle == "idle" \notin Active /\ Asking \cap Active = {}
  BY DEF Active, Asking, Setup, Loop

\* A step that gives no slot and takes none, and starts and ends no turn.
LEMMA SlotsUntouched ==
  ASSUME TypeOK, Slots, UNCHANGED registry,
         \A q \in Request : pc'[q] \in Active <=> pc[q] \in Active,
         \A q \in Request : pc[q] \in Active => thread'[q] = thread[q]
  PROVE  Slots'
<1>1. Held' = Held
  BY DEF Held
<1> QED
  BY <1>1 DEF Slots, NoSlotLeaked, TypeOK, Active

\* A request that is not a turn yet may come and go.
LEMMA SlotsOthers ==
  ASSUME TypeOK, Slots, UNCHANGED registry, NEW q \in Request, pc[q] \notin Active,
         \/ Rest(q)
         \/ \E s \in Asking : Goto(q, s) /\ \A r \in Request \ {q} : thread'[r] = thread[r]
  PROVE  Slots'
<1>1. /\ pc'[q] \notin Active
      /\ \A r \in Request \ {q} : pc'[r] = pc[r] /\ thread'[r] = thread[r]
  BY ActiveNotIdle DEF TypeOK, Rest, Goto
<1> QED
  BY <1>1, SlotsUntouched

\* A turn may go from one stage to another.
LEMMA SlotsOnward ==
  ASSUME TypeOK, Slots, UNCHANGED <<registry, thread>>, NEW q \in Request, pc[q] \in Active,
         NEW s \in Active, Goto(q, s)
  PROVE  Slots'
<1>1. \A r \in Request : pc'[r] \in Active <=> pc[r] \in Active
  BY DEF TypeOK, Goto
<1> QED
  BY <1>1, SlotsUntouched

\* A turn that leaves takes its slot with it.
LEMMA SlotsFreed ==
  ASSUME TypeOK, Slots, NEW q \in Request, pc[q] \in Active,
         registry' = [registry EXCEPT ![thread[q]] = None],
         Rest(q) \/ (Goto(q, "failing") /\ UNCHANGED thread)
  PROVE  Slots'
<1>1. thread[q] \in Thread /\ registry[thread[q]] = q
  BY AboutThread, ActiveNotIdle DEF Slots
<1>2. pc'[q] \notin Active /\ \A r \in Request \ {q} : pc'[r] = pc[r] /\ thread'[r] = thread[r]
  BY ActiveNotIdle DEF TypeOK, Rest, Goto, Asking
<1>3. Cardinality(Held') <= Cap
  <2>1. Held' \in SUBSET Held
    BY <1>1 DEF Held, TypeOK
  <2>2. Cardinality(Held') <= Cardinality(Held) /\ Cardinality(Held') \in Nat
    BY <2>1, HeldFinite, FS_Subset, FS_CardinalityType
  <2> QED
    BY <2>2, HeldFinite, CapAssumption DEF Slots
<1>4. \A r \in Request : pc'[r] \in Active => registry'[thread'[r]] = r
  <2> SUFFICES ASSUME NEW r \in Request, pc'[r] \in Active PROVE registry'[thread'[r]] = r
    OBVIOUS
  <2>1. r # q /\ pc[r] \in Active /\ thread'[r] = thread[r]
    BY <1>2
  <2>2. registry[thread[r]] = r /\ thread[r] \in Thread
    BY <2>1, AboutThread, ActiveNotIdle DEF Slots
  <2> QED
    BY <1>1, <2>1, <2>2 DEF TypeOK
<1>5. NoSlotLeaked'
  <2> SUFFICES ASSUME NEW t \in Thread, registry'[t] # None
               PROVE  thread'[registry'[t]] = t /\ pc'[registry'[t]] \in Active
    BY DEF NoSlotLeaked, Active
  <2>1. t # thread[q] /\ registry'[t] = registry[t]
    BY <1>1 DEF TypeOK
  <2>2. thread[registry[t]] = t /\ pc[registry[t]] \in Active /\ registry[t] \in Request
    BY <2>1 DEF Slots, NoSlotLeaked, Active, TypeOK
  <2> QED
    BY <1>2, <2>1, <2>2
<1> QED
  BY <1>3, <1>4, <1>5 DEF Slots, Held

\* reserveRun: the slot is there, and there is one fewer.
LEMMA SlotsReserved ==
  ASSUME TypeOK, Slots, NEW q \in Request, Reserve(q)
  PROVE  Slots'
<1>1. thread[q] \in Thread /\ pc[q] \notin Active /\ q # None /\ UNCHANGED thread
  BY AboutThread, ActiveNotIdle, NoneAssumption DEF Reserve, Asking
<1>2. CASE ~Slot(thread[q])
  <2>1. UNCHANGED registry /\ Goto(q, "losing") /\ "losing" \in Asking
    BY <1>2 DEF Reserve, Asking
  <2> QED
    BY <1>1, <2>1, SlotsOthers
<1>3. CASE Slot(thread[q])
  <2>1. /\ registry' = [registry EXCEPT ![thread[q]] = q]
        /\ pc' = [pc EXCEPT ![q] = "reserved"]
        /\ registry[thread[q]] = None /\ Cardinality(Held) < Cap
    BY <1>3 DEF Reserve, Goto, Slot, Held
  <2>2. Cardinality(Held') <= Cap
    <3>1. Held' = Held \cup {thread[q]}
      BY <1>1, <2>1 DEF Held, TypeOK
    <3>2. thread[q] \notin Held
      BY <2>1 DEF Held
    <3>3. Cardinality(Held \cup {thread[q]}) = Cardinality(Held) + 1
      BY <3>2, HeldFinite, FS_AddElement
    <3> QED
      BY <2>1, <3>1, <3>3, HeldFinite, CapAssumption
  <2>3. "reserved" \in Active
    BY DEF Active, Setup
  <2>4. \A r \in Request : pc'[r] \in Active => registry'[thread'[r]] = r
    <3> SUFFICES ASSUME NEW r \in Request, pc'[r] \in Active PROVE registry'[thread[r]] = r
      BY <1>1
    <3>1. CASE r = q
      BY <3>1, <1>1, <2>1 DEF TypeOK
    <3>2. CASE r # q
      <4>1. pc[r] \in Active /\ registry[thread[r]] = r /\ thread[r] \in Thread
        BY <3>2, <2>1, AboutThread, ActiveNotIdle DEF Slots, TypeOK
      <4>2. thread[r] # thread[q]
        BY <4>1, <2>1, NoneAssumption
      <4> QED
        BY <4>1, <4>2, <1>1, <2>1 DEF TypeOK
    <3> QED
      BY <3>1, <3>2
  <2>5. NoSlotLeaked'
    <3> SUFFICES ASSUME NEW t \in Thread, registry'[t] # None
                 PROVE  thread[registry'[t]] = t /\ pc'[registry'[t]] \in Active
      BY <1>1 DEF NoSlotLeaked, Active
    <3>1. CASE t = thread[q]
      BY <3>1, <1>1, <2>1, <2>3 DEF TypeOK
    <3>2. CASE t # thread[q]
      <4>1. registry'[t] = registry[t] /\ registry[t] \in Request
        BY <3>2, <1>1, <2>1 DEF TypeOK
      <4>2. thread[registry[t]] = t /\ pc[registry[t]] \in Active
        BY <4>1 DEF Slots, NoSlotLeaked, Active
      <4> QED
        BY <4>1, <4>2, <1>1, <2>1 DEF TypeOK
    <3> QED
      BY <3>1, <3>2
  <2> QED
    BY <2>2, <2>4, <2>5 DEF Slots, Held
<1> QED
  BY <1>2, <1>3

\* The slots are kept in order by every step.
LEMMA SlotsKept == TypeOK /\ Slots /\ [Next]_vars => Slots'
<1> SUFFICES ASSUME TypeOK, Slots, [Next]_vars PROVE Slots'
  OBVIOUS
<1> USE DEF threadVars, turnVars, boundVars
<1>0. /\ {"reserved", "asked"} \subseteq Active /\ Loop \subseteq Active
      /\ \A s \in Asking \cup {"idle"} : s \notin Active
      /\ {"opened", "checked", "claimed", "losing", "failing"} = Asking
  BY ActiveNotIdle DEF Active, Setup, Asking
<1>1. ASSUME NEW q \in Request, Page(q) PROVE Slots'
  <2>1. PICK t \in Thread : Open(q, t, TRUE) \/ Open(q, t, FALSE)
    BY <1>1, Zenon DEF Page, Send, Visit
  <2>2. /\ pc[q] = "idle" /\ Goto(q, "opened") /\ UNCHANGED registry
        /\ thread' = [thread EXCEPT ![q] = t]
    BY <2>1 DEF Open
  <2> QED
    BY <1>0, <2>2, SlotsOthers DEF TypeOK
<1>2. ASSUME NEW q \in Request, Attach(q) \/ GiveUp(q) \/ Free(q) \/ Claim(q) PROVE Slots'
  <2>1. pc[q] \in Asking /\ UNCHANGED registry
    BY <1>2, <1>0 DEF Attach, GiveUp, Free, Claim
  <2>2. Rest(q) \/ (UNCHANGED thread /\ (Goto(q, "checked") \/ Goto(q, "claimed")))
    BY <1>2 DEF Attach, GiveUp, Free, Claim
  <2> QED
    BY <1>0, <2>1, <2>2, SlotsOthers
<1>3. ASSUME NEW q \in Request, Ask(q) PROVE Slots'
  BY <1>0, <1>3, SlotsOnward DEF Ask
<1>4. ASSUME NEW q \in Request, SetupFails(q) PROVE Slots'
  BY <1>0, <1>4, SlotsFreed DEF SetupFails, Setup
<1>5. ASSUME NEW q \in Request, NEW s \in Loop, pc[q] \in Active, Goto(q, s),
             UNCHANGED <<registry, thread>>
      PROVE  Slots'
  BY <1>0, <1>5, SlotsOnward
<1>6. ASSUME NEW q \in Request, Onward(q), pc[q] \in Active, UNCHANGED <<registry, thread>>
      PROVE  Slots'
  <2>1. (Goto(q, "ending") \/ Goto(q, "reading")) /\ {"ending", "reading"} \subseteq Loop
    BY <1>6 DEF Onward, Loop
  <2> QED
    BY <1>5, <1>6, <2>1
<1>7. ASSUME NEW q \in Request, Start(q) PROVE Slots'
  BY <1>0, <1>6, <1>7 DEF Start
<1>8. ASSUME NEW q \in Request,
             \/ Read(q) \/ Complete(q) \/ ModelFails(q) \/ Throws(q) \/ Release(q)
             \/ \E text \in BOOLEAN, n \in 0..MaxCalls : Answered(q, text, n)
      PROVE  Slots'
  <2>1. pc[q] \in Loop /\ UNCHANGED <<registry, thread>>
    BY <1>8 DEF Read, Complete, ModelFails, Throws, Release, Answered, Loop
  <2>2. \E s \in {"read", "model", "ending", "leaving", "replied", "settled"} : Goto(q, s)
    BY <1>8 DEF Read, Complete, ModelFails, Throws, Release, Answered
  <2>3. {"read", "model", "ending", "leaving", "replied", "settled"} \subseteq Loop
    BY DEF Loop
  <2> QED
    BY <1>0, <1>5, <2>1, <2>2, <2>3
<1>9. ASSUME NEW q \in Request,
             Say(q) \/ Answer(q) \/ \E text \in BOOLEAN : Interrupted(q, text)
      PROVE  Slots'
  <2>1. pc[q] \in Loop /\ UNCHANGED <<registry, thread>>
    BY <1>9 DEF Say, Answer, Interrupted, Loop
  <2>2. \/ Onward(q) \/ UNCHANGED pc
        \/ \E s \in {"replied", "settled", "answering"} : Goto(q, s)
    BY <1>9 DEF Say, Answer, Interrupted
  <2>3. {"replied", "settled", "answering"} \subseteq Loop
    BY DEF Loop
  <2>4. CASE UNCHANGED pc
    BY <2>1, <2>4, SlotsUntouched
  <2> QED
    BY <1>0, <1>5, <1>6, <2>1, <2>2, <2>3, <2>4
<1>10. ASSUME NEW q \in Request, Deregister(q) PROVE Slots'
  BY <1>0, <1>10, SlotsFreed DEF Deregister, Loop
<1>11. ASSUME People PROVE Slots'
  <2>1. UNCHANGED <<registry, pc, thread>>
    BY <1>11 DEF People, Stop, Delete, Speak, Steer
  <2> QED
    BY <2>1, SlotsUntouched
<1>12. ASSUME Crash PROVE Slots'
  <2>1. Held' = {}
    BY <1>12 DEF Crash, Held
  <2>2. Cardinality(Held') <= Cap
    BY <2>1, FS_EmptySet, CapAssumption
  <2>3. \A q \in Request : pc'[q] \notin Active
    BY <1>0, <1>12 DEF Crash
  <2>4. NoSlotLeaked'
    BY <1>12 DEF Crash, NoSlotLeaked
  <2> QED
    BY <2>2, <2>3, <2>4 DEF Slots, Held
<1>13. ASSUME UNCHANGED vars PROVE Slots'
  BY <1>13, SlotsUntouched DEF vars
<1> QED
  BY <1>1, <1>2, <1>3, <1>4, <1>7, <1>8, <1>9, <1>10, <1>11, <1>12, <1>13, SlotsReserved
     DEF Next, Post, Run

LEMMA SlotsInit == Init => Slots
<1> SUFFICES ASSUME Init PROVE Slots
  OBVIOUS
<1>1. Held = {}
  BY DEF Init, Held
<1> QED
  BY <1>1, ActiveNotIdle, FS_EmptySet, CapAssumption DEF Init, Slots, NoSlotLeaked

\* What the invariant says of turns: threads tell them apart, so they are as few.
LEMMA SlotsCount == TypeOK /\ Slots => OneTurnEach
<1> SUFFICES ASSUME TypeOK, Slots PROVE OneTurnEach
  OBVIOUS
<1> DEFINE Turns == {q \in Request : pc[q] \in Active}
           f == [q \in Turns |-> thread[q]]
<1>1. f \in Injection(Turns, Held)
  <2>1. \A q \in Turns : thread[q] \in Held /\ registry[thread[q]] = q
    BY AboutThread, ActiveNotIdle, NoneAssumption DEF Slots, Held
  <2> QED
    BY <2>1 DEF Injection, IsInjective
<1>2. IsFiniteSet(Turns) /\ Cardinality(Turns) <= Cardinality(Held)
  BY <1>1, HeldFinite, FS_Injection
<1>3. Cardinality(Turns) <= Cap
  BY <1>2, HeldFinite, FS_CardinalityType, CapAssumption DEF Slots
<1> QED
  BY <1>3 DEF OneTurnEach, Slots, Active

\* reserveRun and startRun: a thread has one turn and a person at most the cap,
\* whatever fails, stops, is deleted or dies on the way.
THEOREM OneTurn == Spec => []OneTurnEach
<1>1. Spec => []Slots
  BY SlotsInit, SlotsKept, Typed, PTL DEF Spec
<1> QED
  BY <1>1, Typed, SlotsCount, PTL

\* cancelReservation and the finally of startRun: every entry of the registry is
\* that of a turn on that very thread.
THEOREM NoLeak == Spec => []NoSlotLeaked
<1>1. Spec => []Slots
  BY SlotsInit, SlotsKept, Typed, PTL DEF Spec
<1>2. Slots => NoSlotLeaked
  BY DEF Slots
<1> QED
  BY <1>1, <1>2, PTL

-----------------------------------------------------------------------------
(* The claim.  NoOrphanClaim is inductive as it stands: the stages after the *)
(* claim and before the release lead to nowhere but a release.               *)

Keepers == Stage \ {"idle", "opened", "checked", "leaving"}

\* Claims are only dropped, and nobody who keeps one lets go of it.
LEMMA ClaimsHeld ==
  ASSUME TypeOK, NoOrphanClaim, troubles' = 0 => troubles = 0,
         \A t \in Thread : claim'[t] => claim[t],
         \A q \in Request : pc[q] \in Keepers => pc'[q] \in Keepers /\ thread'[q] = thread[q]
  PROVE  NoOrphanClaim'
<1> SUFFICES ASSUME NEW t \in Thread, troubles' = 0, claim'[t]
             PROVE  \E q \in Request : thread'[q] = t
                        /\ pc'[q] \notin {"idle", "opened", "checked", "leaving"}
  BY DEF NoOrphanClaim
<1>1. PICK q \in Request :
        thread[q] = t /\ pc[q] \notin {"idle", "opened", "checked", "leaving"}
  BY DEF NoOrphanClaim
<1>2. pc[q] \in Keepers
  BY <1>1 DEF TypeOK, Keepers
<1> QED
  BY <1>1, <1>2 DEF Keepers

\* Nobody lets go of one but by releasing it.
LEMMA ClaimReleased ==
  ASSUME TypeOK, NoOrphanClaim, NEW q \in Request, pc[q] \in Keepers,
         \A r \in Request \ {q} : pc'[r] = pc[r] /\ thread'[r] = thread[r],
         \/ Unclaim(q) /\ UNCHANGED troubles
         \/ Trouble
  PROVE  NoOrphanClaim'
<1>1. CASE Trouble
  BY <1>1 DEF Trouble, NoOrphanClaim, TypeOK
<1>2. CASE Unclaim(q) /\ UNCHANGED troubles
  <2> SUFFICES ASSUME NEW t \in Thread, troubles = 0, claim'[t]
               PROVE  \E r \in Request : thread'[r] = t
                          /\ pc'[r] \notin {"idle", "opened", "checked", "leaving"}
    BY <1>2 DEF NoOrphanClaim
  <2>1. t # thread[q] /\ claim[t]
    BY <1>2 DEF Unclaim, TypeOK
  <2>2. PICK r \in Request :
          thread[r] = t /\ pc[r] \notin {"idle", "opened", "checked", "leaving"}
    BY <2>1 DEF NoOrphanClaim
  <2> QED
    BY <2>1, <2>2
<1> QED
  BY <1>1, <1>2

\* A request at rest leaves the others where they are.
LEMMA RestsAlone ==
    ASSUME TypeOK, NEW q \in Request, Rest(q)
    PROVE  \A r \in Request \ {q} : pc'[r] = pc[r] /\ thread'[r] = thread[r]
BY DEF Rest, Goto, TypeOK

LEMMA ClaimsKept == TypeOK /\ NoOrphanClaim /\ [Next]_vars => NoOrphanClaim'
<1> SUFFICES ASSUME TypeOK, NoOrphanClaim, [Next]_vars PROVE NoOrphanClaim'
  OBVIOUS
<1> USE DEF threadVars, turnVars, boundVars
<1>0. /\ Keepers = {"claimed", "losing", "failing", "reserved", "asked", "reading", "read",
                    "model", "replied", "answering", "settled", "ending"}
      /\ Loop \ {"leaving"} \subseteq Keepers
  BY DEF Keepers, Stage, Asking, Setup, Loop
<1>1. ASSUME NEW q \in Request, NEW s \in Keepers, Goto(q, s), UNCHANGED <<claim, thread>>,
             troubles' = 0 => troubles = 0
      PROVE  NoOrphanClaim'
  <2>1. \A r \in Request : pc[r] \in Keepers => pc'[r] \in Keepers
    BY <1>1 DEF Goto, TypeOK
  <2> QED
    BY <1>1, <2>1, ClaimsHeld
<1>2. ASSUME NEW q \in Request, pc[q] \notin Keepers, UNCHANGED claim,
             \A r \in Request \ {q} : pc'[r] = pc[r] /\ thread'[r] = thread[r],
             troubles' = 0 => troubles = 0
      PROVE  NoOrphanClaim'
  BY <1>2, ClaimsHeld
<1>3. ASSUME NEW q \in Request, Onward(q), UNCHANGED <<claim, thread, troubles>>
      PROVE  NoOrphanClaim'
  BY <1>0, <1>1, <1>3 DEF Onward
<1>4. ASSUME NEW q \in Request, Page(q) PROVE NoOrphanClaim'
  <2>1. PICK t \in Thread : (Open(q, t, TRUE) \/ Open(q, t, FALSE)) /\ troubles' = troubles
    BY <1>4, Zenon DEF Page, Send, Visit
  <2>2. /\ pc[q] = "idle" /\ Goto(q, "opened") /\ UNCHANGED claim
        /\ thread' = [thread EXCEPT ![q] = t]
    BY <2>1 DEF Open
  <2> QED
    BY <1>0, <1>2, <2>1, <2>2 DEF Goto, TypeOK
<1>5. ASSUME NEW q \in Request, Attach(q) \/ Free(q) \/ Deregister(q) PROVE NoOrphanClaim'
  <2>1. pc[q] \in {"opened", "leaving"} /\ UNCHANGED <<claim, troubles>>
    BY <1>5 DEF Attach, Free, Deregister
  <2>2. \A r \in Request \ {q} : pc'[r] = pc[r] /\ thread'[r] = thread[r]
    <3>1. CASE Attach(q) BY <3>1, RestsAlone DEF Attach
    <3>2. CASE Free(q) BY <3>2 DEF Free, Goto, TypeOK
    <3>3. CASE Deregister(q) BY <3>3, RestsAlone DEF Deregister
    <3> QED BY <1>5, <3>1, <3>2, <3>3
  <2> QED BY <1>0, <1>2, <2>1, <2>2
<1>6. ASSUME NEW q \in Request, Claim(q) PROVE NoOrphanClaim'
  <2>1. CASE ~exists[thread[q]]
    <3>1. pc[q] = "checked" /\ Rest(q) /\ UNCHANGED <<claim, troubles>>
      BY <1>6, <2>1 DEF Claim
    <3> QED BY <1>0, <1>2, <3>1, RestsAlone
  <2>2. CASE exists[thread[q]]
    <3>1. /\ pc[q] = "checked" /\ pc' = [pc EXCEPT ![q] = "claimed"]
          /\ claim' = [claim EXCEPT ![thread[q]] = TRUE] /\ UNCHANGED <<thread, troubles>>
      BY <1>6, <2>2 DEF Claim, Goto
    <3> SUFFICES ASSUME NEW t \in Thread, troubles = 0, claim'[t]
                 PROVE  \E r \in Request : thread[r] = t
                            /\ pc'[r] \notin {"idle", "opened", "checked", "leaving"}
      BY <3>1 DEF NoOrphanClaim
    <3>2. CASE t = thread[q]
      BY <3>1, <3>2 DEF TypeOK
    <3>3. CASE t # thread[q]
      <4>1. claim[t]
        BY <3>1, <3>3 DEF TypeOK
      <4> QED
        BY <3>1, <4>1 DEF NoOrphanClaim, TypeOK
    <3> QED
      BY <3>2, <3>3
  <2> QED
    BY <2>1, <2>2
<1>7. ASSUME NEW q \in Request, Reserve(q) \/ Ask(q) \/ SetupFails(q) PROVE NoOrphanClaim'
  <2>1. UNCHANGED <<claim, thread>> /\ (troubles' = 0 => troubles = 0)
    BY <1>7 DEF Reserve, Ask, SetupFails, Trouble, TypeOK
  <2>2. \E s \in {"reserved", "losing", "asked", "failing"} : Goto(q, s)
    BY <1>7 DEF Reserve, Ask, SetupFails
  <2> QED
    BY <1>0, <1>1, <2>1, <2>2
<1>8. ASSUME NEW q \in Request, GiveUp(q) \/ Release(q) PROVE NoOrphanClaim'
  <2>1. pc[q] \in Keepers
    BY <1>0, <1>8 DEF GiveUp, Release
  <2>2. (Unclaim(q) /\ UNCHANGED troubles) \/ Trouble
    BY <1>8 DEF GiveUp, Release
  <2>3. \A r \in Request \ {q} : pc'[r] = pc[r] /\ thread'[r] = thread[r]
    BY <1>8, RestsAlone DEF GiveUp, Release, Goto, TypeOK
  <2> QED
    BY <2>1, <2>2, <2>3, ClaimReleased
<1>9. ASSUME NEW q \in Request, Start(q) PROVE NoOrphanClaim'
  BY <1>3, <1>9 DEF Start
<1>10. ASSUME NEW q \in Request,
              \/ Read(q) \/ Complete(q) \/ ModelFails(q) \/ Throws(q)
              \/ \E text \in BOOLEAN, n \in 0..MaxCalls : Answered(q, text, n)
       PROVE  NoOrphanClaim'
  <2>1. UNCHANGED <<claim, thread>> /\ (troubles' = 0 => troubles = 0)
    BY <1>10 DEF Read, Complete, ModelFails, Throws, Answered, Trouble, TypeOK
  <2>2. \E s \in {"read", "model", "ending", "replied", "settled"} : Goto(q, s)
    BY <1>10 DEF Read, Complete, ModelFails, Throws, Answered
  <2> QED
    BY <1>0, <1>1, <2>1, <2>2
<1>11. ASSUME NEW q \in Request,
              Say(q) \/ Answer(q) \/ \E text \in BOOLEAN : Interrupted(q, text)
       PROVE  NoOrphanClaim'
  <2>1. UNCHANGED <<claim, thread, troubles>>
    BY <1>11 DEF Say, Answer, Interrupted
  <2>2. \/ Onward(q) \/ UNCHANGED pc
        \/ \E s \in {"replied", "settled", "answering"} : Goto(q, s)
    BY <1>11 DEF Say, Answer, Interrupted
  <2>3. CASE UNCHANGED pc
    BY <2>1, <2>3, ClaimsHeld
  <2> QED
    BY <1>0, <1>1, <1>3, <2>1, <2>2, <2>3
<1>12. ASSUME People PROVE NoOrphanClaim'
  <2>1. UNCHANGED <<pc, thread, troubles>> /\ \A t \in Thread : claim'[t] => claim[t]
    BY <1>12 DEF People, Stop, Delete, Speak, Steer, Act, TypeOK
  <2> QED
    BY <2>1, ClaimsHeld
<1>13. ASSUME Crash PROVE NoOrphanClaim'
  BY <1>13 DEF Crash, Trouble, NoOrphanClaim, TypeOK
<1>14. ASSUME UNCHANGED vars PROVE NoOrphanClaim'
  BY <1>14 DEF vars, NoOrphanClaim
<1> QED
  BY <1>4, <1>5, <1>6, <1>7, <1>8, <1>9, <1>10, <1>11, <1>12, <1>13, <1>14
     DEF Next, Post, Run

\* release: until a statement or the process fails, a thread that is claimed has
\* somebody on the way to releasing it.
THEOREM ClaimsEnd == Spec => []NoOrphanClaim
<1>1. Init => NoOrphanClaim
  BY DEF Init, NoOrphanClaim
<1> QED
  BY <1>1, ClaimsKept, Typed, PTL DEF Spec

-----------------------------------------------------------------------------
(* The calls.  AnsweredOrAnswering needs to know that the row a turn is      *)
(* answering is really there, that no row answers a later one, and that one  *)
(* turn answers it: that is OneTurnEach, by way of Slots.                    *)

\* A reply that was cut off asks for nothing.
CutAsksNothing == \A q \in Request : reply[q].cut => reply[q].calls = 0

LEMMA CutKept == TypeOK /\ CutAsksNothing /\ [Next]_vars => CutAsksNothing'
<1> SUFFICES ASSUME TypeOK, CutAsksNothing, [Next]_vars PROVE CutAsksNothing'
  OBVIOUS
<1> USE DEF CutAsksNothing, threadVars, turnVars, boundVars
<1>0. ASSUME UNCHANGED reply PROVE CutAsksNothing'
  BY <1>0
<1>1. ASSUME NEW q \in Request, Rest(q) PROVE CutAsksNothing'
  BY <1>1 DEF Rest, Nothing, TypeOK
<1>2. ASSUME NEW q \in Request, Page(q) PROVE CutAsksNothing'
  <2>1. PICK t \in Thread : Open(q, t, TRUE) \/ Open(q, t, FALSE)
    BY <1>2, Zenon DEF Page, Send, Visit
  <2> QED
    BY <2>1 DEF Open
<1>3. ASSUME NEW q \in Request, Post(q) PROVE CutAsksNothing'
  <2>1. Rest(q) \/ UNCHANGED reply
    BY <1>3 DEF Post, Attach, GiveUp, Claim, Free, Reserve, Ask, SetupFails
  <2> QED
    BY <2>1, <1>1
<1>4. ASSUME NEW q \in Request, Run(q) PROVE CutAsksNothing'
  <2>1. CASE \/ Start(q) \/ Read(q) \/ Complete(q) \/ ModelFails(q) \/ Throws(q)
             \/ Release(q) \/ Answer(q)
    BY <2>1 DEF Start, Read, Complete, ModelFails, Throws, Release, Answer
  <2>2. CASE Deregister(q)
    BY <2>2, <1>1 DEF Deregister
  <2>3. CASE Say(q)
    BY <2>3 DEF Say, Nothing, TypeOK
  <2>4. ASSUME NEW text \in BOOLEAN, NEW n \in 0..MaxCalls, Answered(q, text, n)
        PROVE  CutAsksNothing'
    BY <2>4 DEF Answered, TypeOK
  <2>5. ASSUME NEW text \in BOOLEAN, Interrupted(q, text) PROVE CutAsksNothing'
    <3> DEFINE cutOff == [calls |-> 0, cut |-> TRUE]
    <3>1. UNCHANGED reply \/ reply' = [reply EXCEPT ![q] = cutOff]
      BY <2>5 DEF Interrupted
    <3>2. cutOff.calls = 0
      OBVIOUS
    <3> HIDE DEF cutOff
    <3>3. CASE reply' = [reply EXCEPT ![q] = cutOff]
      BY <3>2, <3>3 DEF TypeOK
    <3> QED
      BY <3>1, <3>3
  <2> QED
    BY <1>4, <2>1, <2>2, <2>3, <2>4, <2>5 DEF Run
<1>5. ASSUME People PROVE CutAsksNothing'
  BY <1>5 DEF People, Stop, Delete, Speak, Steer
<1>6. ASSUME Crash PROVE CutAsksNothing'
  BY <1>6 DEF Crash, Nothing
<1> QED
  BY <1>0, <1>2, <1>3, <1>4, <1>5, <1>6 DEF Next, vars

Answering(q) == pc[q] = "answering"

\* The rows a turn writes are where they should be ...
RowsInPlace ==
    /\ \A t \in Thread : ~exists[t] => log[t] = <<>>
    /\ \A t \in Thread : \A j \in 1..Len(log[t]) : log[t][j].to < j
    /\ \A q \in Request : Answering(q) /\ exists[thread[q]] => asker[q] \in 1..Len(log[thread[q]])

\* ... and as many as they should be.
CallsCounted ==
    /\ \A q \in Request, t \in Thread : \A i \in 1..Len(log[t]) :
          Answering(q) /\ thread[q] = t /\ asker[q] = i =>
             Cardinality(Answers(t, i)) + left[q] = log[t][i].calls
    /\ \A t \in Thread : \A i \in 1..Len(log[t]) :
          \/ Cardinality(Answers(t, i)) = log[t][i].calls
          \/ \E q \in Request : Answering(q) /\ thread[q] = t /\ asker[q] = i

CallsInv == RowsInPlace /\ (troubles = 0 => CallsCounted)

LEMMA AnswersFinite ==
  ASSUME TypeOK, NEW t \in Thread, NEW i
  PROVE  IsFiniteSet(Answers(t, i)) /\ Cardinality(Answers(t, i)) \in Nat
<1>1. Len(log[t]) \in Nat
  BY DEF TypeOK
<1>2. IsFiniteSet(1..Len(log[t])) /\ Answers(t, i) \in SUBSET (1..Len(log[t]))
  BY <1>1, FS_Interval DEF Answers
<1> QED
  BY <1>2, FS_Subset, FS_CardinalityType

\* A row goes to the end of its log and to no other.
LEMMA RowAppended ==
  ASSUME TypeOK, NEW t \in Thread, NEW row \in Message, AppendMessage(t, row)
  PROVE  /\ Len(log'[t]) = Len(log[t]) + 1
         /\ log'[t][Len(log[t]) + 1] = row
         /\ \A j \in 1..Len(log[t]) : log'[t][j] = log[t][j]
         /\ \A u \in Thread \ {t} : log'[u] = log[u]
<1>1. log[t] \in Seq(Message) /\ log'[t] = Append(log[t], row) /\ Len(log[t]) \in Nat
  BY DEF TypeOK, AppendMessage
<1>2. /\ Len(log'[t]) = Len(log[t]) + 1
      /\ log'[t][Len(log[t]) + 1] = row
      /\ \A j \in 1..Len(log[t]) : log'[t][j] = log[t][j]
  BY <1>1
<1>3. \A u \in Thread \ {t} : log'[u] = log[u]
  BY DEF TypeOK, AppendMessage
<1> QED
  BY <1>2, <1>3

\* It is one more answer to the row it names, if it answers one.
LEMMA AnswersAppended ==
  ASSUME TypeOK, NEW t \in Thread, NEW row \in Message, AppendMessage(t, row), NEW i
  PROVE  Answers(t, i)' = IF row.role = "tool" /\ row.to = i
                          THEN Answers(t, i) \cup {Len(log[t]) + 1} ELSE Answers(t, i)
<1>1. 1..(Len(log[t]) + 1) = (1..Len(log[t])) \cup {Len(log[t]) + 1}
  BY DEF TypeOK
<1> QED
  BY <1>1, RowAppended DEF Answers

\* Nothing is written and nobody starts or stops answering.
LEMMA CallsUntouched ==
  ASSUME TypeOK, CallsInv, UNCHANGED <<exists, log>>, troubles' = 0 => troubles = 0,
         \A q \in Request : Answering(q)' <=> Answering(q),
         \A q \in Request : Answering(q) =>
            thread'[q] = thread[q] /\ asker'[q] = asker[q] /\ left'[q] = left[q]
  PROVE  CallsInv'
<1>1. \A t \in Thread : \A i : Answers(t, i)' = Answers(t, i)
  BY DEF Answers
<1>2. RowsInPlace'
  BY DEF CallsInv, RowsInPlace, Answering
<1>3. ASSUME CallsCounted PROVE CallsCounted'
  <2>1. ASSUME NEW q \in Request, NEW t \in Thread, NEW i \in 1..Len(log'[t]),
               Answering(q)', thread'[q] = t, asker'[q] = i
        PROVE  Cardinality(Answers(t, i)') + left'[q] = log'[t][i].calls
    <3>1. Answering(q) /\ thread[q] = t /\ asker[q] = i /\ left'[q] = left[q]
      BY <2>1
    <3> QED
      BY <1>1, <1>3, <3>1 DEF CallsCounted
  <2>2. ASSUME NEW t \in Thread, NEW i \in 1..Len(log'[t])
        PROVE  \/ Cardinality(Answers(t, i)') = log'[t][i].calls
               \/ \E q \in Request : Answering(q)' /\ thread'[q] = t /\ asker'[q] = i
    <3>1. Answers(t, i)' = Answers(t, i) /\ log'[t] = log[t]
      BY <1>1
    <3>2. CASE Cardinality(Answers(t, i)) = log[t][i].calls
      BY <3>1, <3>2
    <3>3. CASE \E q \in Request : Answering(q) /\ thread[q] = t /\ asker[q] = i
      BY <3>3
    <3> QED
      BY <1>3, <3>1, <3>2, <3>3 DEF CallsCounted
  <2> QED
    BY <2>1, <2>2 DEF CallsCounted
<1> QED
  BY <1>2, <1>3 DEF CallsInv

\* A row that answers nothing, with a turn to answer it if it asks for something.
LEMMA CallsAsked ==
  ASSUME TypeOK, CallsInv, NEW t \in Thread, NEW row \in Message, AppendMessage(t, row),
         row.role # "tool", row.to = 0, UNCHANGED <<exists, troubles>>,
         \A q \in Request : Answering(q) => /\ Answering(q)' /\ thread'[q] = thread[q]
                                          /\ asker'[q] = asker[q] /\ left'[q] = left[q],
         \A q \in Request : Answering(q)' /\ ~Answering(q) =>
            thread'[q] = t /\ asker'[q] = Len(log[t]) + 1 /\ left'[q] = row.calls,
         row.calls # 0 => \E q \in Request : /\ Answering(q)' /\ thread'[q] = t
                                             /\ asker'[q] = Len(log[t]) + 1
  PROVE  CallsInv'
<1> DEFINE n == Len(log[t])
<1>0. n \in Nat /\ exists[t] /\ row.calls \in Nat
  BY BoundsAssumption DEF TypeOK, AppendMessage, Message
<1>1. /\ Len(log'[t]) = n + 1 /\ log'[t][n + 1] = row
      /\ \A j \in 1..n : log'[t][j] = log[t][j]
      /\ \A u \in Thread \ {t} : log'[u] = log[u]
  BY RowAppended
<1>2. ASSUME NEW u \in Thread, NEW i PROVE Answers(u, i)' = Answers(u, i)
  <2>1. CASE u = t
    BY <2>1, AnswersAppended
  <2>2. CASE u # t
    BY <1>1, <2>2 DEF Answers
  <2> QED
    BY <2>1, <2>2
<1>3. RowsInPlace'
  <2>1. \A u \in Thread : ~exists'[u] => log'[u] = <<>>
    BY <1>0, <1>1 DEF CallsInv, RowsInPlace
  <2>2. ASSUME NEW u \in Thread, NEW j \in 1..Len(log'[u]) PROVE log'[u][j].to < j
    <3>1. CASE u # t
      BY <1>1, <3>1 DEF CallsInv, RowsInPlace
    <3>2. CASE u = t /\ j = n + 1
      BY <1>0, <1>1, <3>2
    <3>3. CASE u = t /\ j # n + 1
      <4>1. j \in 1..n
        BY <1>0, <1>1, <3>3
      <4> QED
        BY <1>1, <3>3, <4>1 DEF CallsInv, RowsInPlace
    <3> QED
      BY <3>1, <3>2, <3>3
  <2>3. ASSUME NEW q \in Request, Answering(q)', exists'[thread'[q]]
        PROVE  asker'[q] \in 1..Len(log'[thread'[q]])
    <3>1. CASE ~Answering(q)
      BY <1>0, <1>1, <2>3, <3>1
    <3>2. CASE Answering(q)
      <4>1. thread[q] \in Thread /\ exists[thread[q]] /\ thread'[q] = thread[q]
            /\ asker'[q] = asker[q]
        BY <2>3, <3>2, AboutThread DEF Answering
      <4>2. asker[q] \in 1..Len(log[thread[q]])
        BY <3>2, <4>1 DEF CallsInv, RowsInPlace
      <4>3. CASE thread[q] = t
        BY <1>0, <1>1, <4>1, <4>2, <4>3
      <4>4. CASE thread[q] # t
        BY <1>1, <4>1, <4>2, <4>4
      <4> QED
        BY <4>3, <4>4
    <3> QED
      BY <3>1, <3>2
  <2> QED
    BY <2>1, <2>2, <2>3 DEF RowsInPlace
<1>4. Answers(t, n + 1) = {}
  <2>1. \A j \in 1..n : log[t][j].to < j
    BY DEF CallsInv, RowsInPlace
  <2>2. \A j \in 1..n : log[t][j].to # n + 1
    <3> SUFFICES ASSUME NEW j \in 1..n PROVE log[t][j].to # n + 1
      OBVIOUS
    <3>1. log[t][j].to \in Nat /\ log[t][j].to < j
      <4>1. log[t][j] \in Message
        BY <1>0 DEF TypeOK
      <4> QED
        BY <2>1, <4>1 DEF Message
    <3> QED
      BY <1>0, <3>1
  <2> QED
    BY <2>2 DEF Answers
<1>5. ASSUME CallsCounted PROVE CallsCounted'
  <2>1. ASSUME NEW q \in Request, NEW u \in Thread, NEW i \in 1..Len(log'[u]),
               Answering(q)', thread'[q] = u, asker'[q] = i
        PROVE  Cardinality(Answers(u, i)') + left'[q] = log'[u][i].calls
    <3>1. CASE ~Answering(q)
      <4>1. u = t /\ i = n + 1 /\ left'[q] = row.calls
        BY <2>1, <3>1
      <4>2. Cardinality(Answers(u, i)') = 0
        BY <1>2, <1>4, <4>1, FS_EmptySet
      <4> QED
        BY <1>0, <1>1, <4>1, <4>2
    <3>2. CASE Answering(q)
      <4>1. thread[q] = u /\ asker[q] = i /\ left'[q] = left[q] /\ exists[u]
        <5>1. thread[q] = u /\ asker[q] = i /\ left'[q] = left[q]
          BY <2>1, <3>2
        <5>2. exists[u]
          BY <1>0, <1>1 DEF CallsInv, RowsInPlace
        <5> QED
          BY <5>1, <5>2
      <4>2. i \in 1..Len(log[u])
        BY <3>2, <4>1 DEF CallsInv, RowsInPlace
      <4>3. log'[u][i] = log[u][i]
        BY <1>1, <4>2
      <4> QED
        BY <1>2, <1>5, <3>2, <4>1, <4>2, <4>3 DEF CallsCounted
    <3> QED
      BY <3>1, <3>2
  <2>2. ASSUME NEW u \in Thread, NEW i \in 1..Len(log'[u])
        PROVE  \/ Cardinality(Answers(u, i)') = log'[u][i].calls
               \/ \E q \in Request : Answering(q)' /\ thread'[q] = u /\ asker'[q] = i
    <3>1. CASE u = t /\ i = n + 1
      BY <1>1, <1>2, <1>4, <3>1, FS_EmptySet
    <3>2. CASE ~(u = t /\ i = n + 1)
      <4>1. i \in 1..Len(log[u]) /\ log'[u][i] = log[u][i]
        BY <1>0, <1>1, <3>2
      <4>2. CASE Cardinality(Answers(u, i)) = log[u][i].calls
        BY <1>2, <4>1, <4>2
      <4>3. CASE \E q \in Request : Answering(q) /\ thread[q] = u /\ asker[q] = i
        BY <4>3
      <4> QED
        BY <1>5, <4>1, <4>2, <4>3 DEF CallsCounted
    <3> QED
      BY <3>1, <3>2
  <2> QED
    BY <2>1, <2>2 DEF CallsCounted
<1> QED
  BY <1>3, <1>5 DEF CallsInv

\* A turn that answers is the only one on its thread.
LEMMA OneAnswers ==
  ASSUME TypeOK, Slots, NEW q \in Request, NEW r \in Request,
         Answering(q), Answering(r), thread[q] = thread[r]
  PROVE  q = r
<1>1. pc[q] \in Active /\ pc[r] \in Active
  BY DEF Answering, Active, Loop
<1> QED
  BY <1>1 DEF Slots

\* One answer more, one left fewer.
LEMMA CallsAnswered ==
  ASSUME TypeOK, Pending, Slots, CallsInv, NEW q \in Request, Answer(q)
  PROVE  CallsInv'
<1>00. thread[q] \in Thread /\ asker[q] \in Nat /\ Len(log[thread[q]]) \in Nat
  BY AboutThread DEF Answer, TypeOK
<1> SUFFICES ASSUME NEW t \in Thread, NEW a \in Nat, NEW n \in Nat,
                    t = thread[q], a = asker[q], n = Len(log[t])
             PROVE  CallsInv'
  BY <1>00
<1> DEFINE row == [role |-> "tool", calls |-> 0, to |-> a]
<1>0. /\ Answering(q) /\ t \in Thread /\ n \in Nat /\ a \in Nat /\ row \in Message
      /\ left[q] \in Nat /\ left[q] > 0 /\ n = Len(log[t]) /\ t = thread[q] /\ a = asker[q]
  BY RowTypes, BoundsAssumption DEF Answer, Answering, TypeOK, Pending
<1>1. /\ AppendMessage(t, row) /\ UNCHANGED <<exists, thread, troubles>>
      /\ left' = [left EXCEPT ![q] = @ - 1]
      /\ \/ left[q] > 1 /\ UNCHANGED <<pc, asker>>
         \/ left[q] = 1 /\ asker' = [asker EXCEPT ![q] = 0]
            /\ pc' \in {[pc EXCEPT ![q] = "ending"], [pc EXCEPT ![q] = "reading"]}
  <2>1. /\ AppendMessage(t, row) /\ UNCHANGED <<exists, thread, troubles>>
        /\ left' = [left EXCEPT ![q] = @ - 1]
    BY <1>0 DEF Answer, boundVars
  <2>2. CASE left[q] > 1
    BY <2>1, <2>2 DEF Answer
  <2>3. CASE ~(left[q] > 1)
    <3>1. Onward(q) /\ asker' = [asker EXCEPT ![q] = 0] /\ left[q] = 1
      BY <2>3, <1>0 DEF Answer
    <3>2. pc' \in {[pc EXCEPT ![q] = "ending"], [pc EXCEPT ![q] = "reading"]}
      BY <3>1 DEF Onward, Goto
    <3> QED
      BY <2>1, <3>1, <3>2
  <2> QED
    BY <2>2, <2>3
<1>2. /\ Len(log'[t]) = n + 1 /\ log'[t][n + 1] = row /\ exists[t]
      /\ \A j \in 1..n : log'[t][j] = log[t][j]
      /\ \A u \in Thread \ {t} : log'[u] = log[u]
  <2>1. t \in Thread /\ row \in Message /\ AppendMessage(t, row)
    BY <1>0, <1>1
  <2> HIDE DEF row
  <2>2. exists[t]
    BY <2>1 DEF AppendMessage
  <2> QED
    BY <1>0, <2>1, <2>2, RowAppended
<1>3. ASSUME NEW u \in Thread, NEW i
      PROVE  Answers(u, i)' = IF u = t /\ i = a THEN Answers(u, i) \cup {n + 1}
                              ELSE Answers(u, i)
  <2>1. CASE u = t
    <3>1. /\ row.role = "tool" /\ row.to = a
          /\ t \in Thread /\ row \in Message /\ AppendMessage(t, row)
      BY <1>0, <1>1
    <3> HIDE DEF row
    <3>2. Answers(t, i)' = IF row.role = "tool" /\ row.to = i
                          THEN Answers(t, i) \cup {n + 1} ELSE Answers(t, i)
      BY <1>0, <3>1, AnswersAppended
    <3> QED
      BY <2>1, <3>1, <3>2
  <2>2. CASE u # t
    BY <1>2, <2>2 DEF Answers
  <2> QED
    BY <2>1, <2>2
<1>4. a \in 1..n
  BY <1>0, <1>2 DEF CallsInv, RowsInPlace
<1>5. ASSUME NEW r \in Request, r # q
      PROVE  /\ Answering(r)' <=> Answering(r)
             /\ thread'[r] = thread[r] /\ asker'[r] = asker[r] /\ left'[r] = left[r]
  BY <1>1, <1>5 DEF Answering, TypeOK
<1>6. /\ thread'[q] = t /\ left'[q] = left[q] - 1
      /\ \/ left[q] > 1 /\ Answering(q)' /\ asker'[q] = a
         \/ left[q] = 1 /\ ~Answering(q)'
  BY <1>0, <1>1 DEF Answering, TypeOK
<1> HIDE DEF row
<1>7. RowsInPlace'
  <2>1. \A u \in Thread : ~exists'[u] => log'[u] = <<>>
    BY <1>1, <1>2 DEF CallsInv, RowsInPlace
  <2>2. ASSUME NEW u \in Thread, NEW j \in 1..Len(log'[u]) PROVE log'[u][j].to < j
    <3>1. CASE u # t
      BY <1>2, <3>1 DEF CallsInv, RowsInPlace
    <3>2. CASE u = t /\ j = n + 1
      <4>1. row.to = a
        BY DEF row
      <4> QED
        BY <1>0, <1>2, <1>4, <3>2, <4>1
    <3>3. CASE u = t /\ j # n + 1
      <4>1. j \in 1..n /\ j \in 1..Len(log[t])
        BY <1>0, <1>2, <3>3
      <4> QED
        BY <1>0, <1>2, <3>3, <4>1 DEF CallsInv, RowsInPlace
    <3> QED
      BY <3>1, <3>2, <3>3
  <2>3. ASSUME NEW r \in Request, Answering(r)', exists'[thread'[r]]
        PROVE  asker'[r] \in 1..Len(log'[thread'[r]])
    <3>1. CASE r = q
      BY <1>0, <1>2, <1>4, <1>6, <2>3, <3>1
    <3>2. CASE r # q
      <4>1. /\ Answering(r) /\ thread'[r] = thread[r] /\ asker'[r] = asker[r]
            /\ exists[thread[r]] /\ thread[r] # t
        BY <1>0, <1>1, <1>5, <2>3, <3>2, OneAnswers
      <4>2. thread[r] \in Thread /\ asker[r] \in 1..Len(log[thread[r]])
        BY <4>1, AboutThread DEF Answering, CallsInv, RowsInPlace
      <4> QED
        BY <1>2, <4>1, <4>2
    <3> QED
      BY <3>1, <3>2
  <2> QED
    BY <2>1, <2>2, <2>3 DEF RowsInPlace
<1>8. ASSUME CallsCounted PROVE CallsCounted'
  <2>0. /\ Cardinality(Answers(t, a)) \in Nat
        /\ Cardinality(Answers(t, a)) + left[q] = log[t][a].calls
        /\ Cardinality(Answers(t, a)') = Cardinality(Answers(t, a)) + 1
    <3>1. n + 1 \notin Answers(t, a)
      BY <1>0 DEF Answers
    <3>2. IsFiniteSet(Answers(t, a)) /\ Cardinality(Answers(t, a)) \in Nat
      BY <1>0, AnswersFinite
    <3>3. Cardinality(Answers(t, a) \cup {n + 1}) = Cardinality(Answers(t, a)) + 1
      BY <3>1, <3>2, FS_AddElement
    <3>4. Cardinality(Answers(t, a)) + left[q] = log[t][a].calls
      BY <1>0, <1>4, <1>8 DEF CallsCounted
    <3> QED
      BY <1>0, <1>3, <3>2, <3>3, <3>4
  <2>1. ASSUME NEW r \in Request, NEW u \in Thread, NEW i \in 1..Len(log'[u]),
               Answering(r)', thread'[r] = u, asker'[r] = i
        PROVE  Cardinality(Answers(u, i)') + left'[r] = log'[u][i].calls
    <3>1. CASE r = q
      <4>1. u = t /\ i = a /\ left'[q] = left[q] - 1
        BY <1>0, <1>6, <2>1, <3>1
      <4> QED
        <5>1. log'[u][i] = log[t][a]
          BY <1>2, <1>4, <4>1
        <5>2. Cardinality(Answers(t, a)') + left'[q] = log[t][a].calls
          <6>1. \A x, l \in Nat : (x + 1) + (l - 1) = x + l
            OBVIOUS
          <6>2. Cardinality(Answers(t, a)') + left'[q]
                  = (Cardinality(Answers(t, a)) + 1) + (left[q] - 1)
            BY <2>0, <4>1
          <6>3. (Cardinality(Answers(t, a)) + 1) + (left[q] - 1) = log[t][a].calls
            BY <1>0, <2>0, <6>1
          <6> QED
            BY <6>2, <6>3
        <5> QED
          BY <3>1, <4>1, <5>1, <5>2
    <3>2. CASE r # q
      <4>1. Answering(r) /\ thread[r] = u /\ asker[r] = i /\ left'[r] = left[r] /\ u # t
        BY <1>0, <1>5, <2>1, <3>2, OneAnswers
      <4> QED
        BY <1>2, <1>3, <1>8, <4>1 DEF CallsCounted
    <3> QED
      BY <3>1, <3>2
  <2>2. ASSUME NEW u \in Thread, NEW i \in 1..Len(log'[u])
        PROVE  \/ Cardinality(Answers(u, i)') = log'[u][i].calls
               \/ \E r \in Request : Answering(r)' /\ thread'[r] = u /\ asker'[r] = i
    <3>1. CASE u = t /\ i = n + 1
      <4>1. row.calls = 0 /\ n + 1 # a
        BY <1>0, <1>4 DEF row
      <4>2. Answers(t, n + 1) = {}
        <5>1. ASSUME NEW j \in 1..n PROVE log[t][j].to # n + 1
          <6>1. log[t][j] \in Message /\ log[t][j].to < j
            BY <1>0 DEF TypeOK, CallsInv, RowsInPlace
          <6> QED
            BY <1>0, <6>1 DEF Message
        <5> QED
          BY <1>0, <5>1 DEF Answers
      <4> QED
        <5>1. Answers(t, n + 1)' = {}
          BY <1>3, <4>1, <4>2
        <5> QED
          BY <1>2, <3>1, <4>1, <5>1, FS_EmptySet
    <3>2. CASE u = t /\ i = a
      BY <1>0, <1>2, <1>4, <1>6, <2>0, <3>2
    <3>3. CASE ~(u = t /\ i = n + 1) /\ ~(u = t /\ i = a)
      <4>1. i \in 1..Len(log[u]) /\ log'[u][i] = log[u][i] /\ Answers(u, i)' = Answers(u, i)
        BY <1>0, <1>2, <1>3, <3>3
      <4>2. CASE Cardinality(Answers(u, i)) = log[u][i].calls
        BY <4>1, <4>2
      <4>3. ASSUME NEW r \in Request, Answering(r), thread[r] = u, asker[r] = i
            PROVE  Answering(r)' /\ thread'[r] = u /\ asker'[r] = i
        BY <1>0, <1>5, <3>3, <4>3
      <4> QED
        BY <1>8, <4>1, <4>2, <4>3 DEF CallsCounted
    <3> QED
      BY <3>1, <3>2, <3>3
  <2> QED
    BY <2>1, <2>2 DEF CallsCounted
<1> QED
  BY <1>1, <1>7, <1>8 DEF CallsInv

\* After a failure nothing is counted, and rows stay in their places.
LEMMA CallsLost ==
  ASSUME TypeOK, CallsInv, UNCHANGED <<exists, log>>, Trouble,
         \A q \in Request : Answering(q)' =>
            Answering(q) /\ thread'[q] = thread[q] /\ asker'[q] = asker[q]
  PROVE  CallsInv'
<1>1. troubles' # 0
  BY DEF Trouble, TypeOK
<1>2. RowsInPlace'
  BY DEF CallsInv, RowsInPlace
<1> QED
  BY <1>1, <1>2 DEF CallsInv

\* deleteThread: no rows, and nothing to answer.
LEMMA CallsDeleted ==
  ASSUME TypeOK, CallsInv, NEW t \in Thread, Delete(t)
  PROVE  CallsInv'
<1>1. /\ exists' = [exists EXCEPT ![t] = FALSE] /\ log' = [log EXCEPT ![t] = <<>>]
      /\ UNCHANGED <<pc, thread, asker, left, troubles>>
      /\ \A q \in Request : Answering(q)' <=> Answering(q)
  BY DEF Delete, turnVars, boundVars, Answering
<1>2. log'[t] = <<>> /\ \A u \in Thread \ {t} : log'[u] = log[u] /\ exists'[u] = exists[u]
  BY <1>1 DEF TypeOK
<1>3. 1..Len(log'[t]) = {}
  BY <1>2
<1>4. ASSUME NEW u \in Thread, NEW i \in 1..Len(log'[u])
      PROVE  u # t /\ log'[u] = log[u] /\ Answers(u, i)' = Answers(u, i)
  <2>1. u # t /\ log'[u] = log[u]
    BY <1>2, <1>3
  <2> QED
    BY <2>1 DEF Answers
<1>5. RowsInPlace'
  <2>1. \A u \in Thread : ~exists'[u] => log'[u] = <<>>
    BY <1>2 DEF CallsInv, RowsInPlace
  <2>2. \A u \in Thread : \A j \in 1..Len(log'[u]) : log'[u][j].to < j
    BY <1>4 DEF CallsInv, RowsInPlace
  <2>3. ASSUME NEW q \in Request, Answering(q)', exists'[thread'[q]]
        PROVE  asker'[q] \in 1..Len(log'[thread'[q]])
    <3>1. /\ Answering(q) /\ thread[q] \in Thread /\ thread'[q] = thread[q]
          /\ asker'[q] = asker[q]
      BY <1>1, <2>3, AboutThread DEF Answering
    <3>2. thread[q] # t /\ exists[thread[q]] /\ log'[thread[q]] = log[thread[q]]
      BY <1>1, <1>2, <2>3, <3>1 DEF TypeOK
    <3> QED
      BY <3>1, <3>2 DEF CallsInv, RowsInPlace
  <2> QED
    BY <2>1, <2>2, <2>3 DEF RowsInPlace
<1>6. ASSUME CallsCounted PROVE CallsCounted'
  <2>1. ASSUME NEW q \in Request, NEW u \in Thread, NEW i \in 1..Len(log'[u]),
               Answering(q)', thread'[q] = u, asker'[q] = i
        PROVE  Cardinality(Answers(u, i)') + left'[q] = log'[u][i].calls
    <3>1. Answering(q) /\ thread[q] = u /\ asker[q] = i /\ left'[q] = left[q]
      BY <1>1, <2>1
    <3> QED
      BY <1>4, <1>6, <3>1 DEF CallsCounted
  <2>2. ASSUME NEW u \in Thread, NEW i \in 1..Len(log'[u])
        PROVE  \/ Cardinality(Answers(u, i)') = log'[u][i].calls
               \/ \E q \in Request : Answering(q)' /\ thread'[q] = u /\ asker'[q] = i
    <3>1. log'[u] = log[u] /\ Answers(u, i)' = Answers(u, i)
      BY <1>4
    <3>2. CASE Cardinality(Answers(u, i)) = log[u][i].calls
      BY <3>1, <3>2
    <3>3. CASE \E q \in Request : Answering(q) /\ thread[q] = u /\ asker[q] = i
      BY <1>1, <3>3
    <3> QED
      BY <1>6, <3>1, <3>2, <3>3 DEF CallsCounted
  <2> QED
    BY <2>1, <2>2 DEF CallsCounted
<1> QED
  BY <1>1, <1>5, <1>6 DEF CallsInv

\* A turn says something, and asks for something or does not.
LEMMA CallsSaid ==
  ASSUME TypeOK, CutAsksNothing, CallsInv, NEW q \in Request, Say(q)
  PROVE  CallsInv'
<1> SUFFICES ASSUME NEW t \in Thread, NEW n \in 0..MaxCalls, t = thread[q], n = reply[q].calls
             PROVE  CallsInv'
  <2>1. thread[q] \in Thread /\ reply[q] \in Reply
    BY AboutThread DEF Say, TypeOK
  <2> QED
    BY <2>1 DEF Reply
<1> DEFINE row == [role |-> "assistant", calls |-> n, to |-> 0]
<1>1. /\ row \in Message /\ row.role # "tool" /\ row.to = 0 /\ row.calls = n
      /\ AppendMessage(t, row) /\ UNCHANGED <<exists, thread, troubles>> /\ pc[q] = "replied"
      /\ asker' = [asker EXCEPT ![q] = IF n = 0 THEN 0 ELSE Len(log[t]) + 1]
      /\ left' = [left EXCEPT ![q] = n]
  BY RowTypes DEF Say, boundVars
<1>2. \/ n = 0 /\ pc' \in {[pc EXCEPT ![q] = s] : s \in {"ending", "reading", "settled"}}
      \/ n # 0 /\ pc' = [pc EXCEPT ![q] = "answering"]
  <2>1. CASE reply[q].cut
    BY <2>1 DEF Say, Onward, Goto, CutAsksNothing
  <2>2. CASE ~reply[q].cut
    BY <2>2 DEF Say, Goto
  <2> QED
    BY <2>1, <2>2
<1> HIDE DEF row
<1>3. \A r \in Request \ {q} :
        /\ Answering(r)' <=> Answering(r)
        /\ thread'[r] = thread[r] /\ asker'[r] = asker[r] /\ left'[r] = left[r]
  BY <1>1, <1>2 DEF Answering, TypeOK
<1>4. /\ ~Answering(q) /\ thread'[q] = t
      /\ Answering(q)' <=> n # 0
      /\ n # 0 => asker'[q] = Len(log[t]) + 1 /\ left'[q] = n
  BY <1>1, <1>2 DEF Answering, TypeOK
<1> QED
  BY <1>1, <1>3, <1>4, CallsAsked

LEMMA CallsKept ==
  TypeOK /\ Pending /\ Slots /\ CutAsksNothing /\ CallsInv /\ [Next]_vars => CallsInv'
<1> SUFFICES ASSUME TypeOK, Pending, Slots, CutAsksNothing, CallsInv, [Next]_vars
             PROVE  CallsInv'
  OBVIOUS
<1> USE DEF threadVars, turnVars, boundVars
<1>0. UserRow \in Message /\ UserRow.role = "user" /\ UserRow.to = 0 /\ UserRow.calls = 0
  BY RowTypes DEF UserRow
<1>1. ASSUME NEW q \in Request, ~Answering(q), ~Answering(q)', UNCHANGED <<exists, log>>,
             troubles' = 0 => troubles = 0,
             \A r \in Request \ {q} : /\ pc'[r] = pc[r] /\ thread'[r] = thread[r]
                                     /\ asker'[r] = asker[r] /\ left'[r] = left[r]
      PROVE  CallsInv'
  BY <1>1, CallsUntouched DEF Answering
<1>2. ASSUME NEW q \in Request, Page(q) PROVE CallsInv'
  <2>1. PICK t \in Thread : (Open(q, t, TRUE) \/ Open(q, t, FALSE)) /\ troubles' = troubles
    BY <1>2, Zenon DEF Page, Send, Visit
  <2> QED
    BY <1>1, <2>1 DEF Open, Goto, Answering, TypeOK
<1>3. ASSUME NEW q \in Request,
             Attach(q) \/ Free(q) \/ Claim(q) \/ Reserve(q) \/ GiveUp(q) \/ SetupFails(q)
             \/ Deregister(q)
      PROVE  CallsInv'
  <2>1. ~Answering(q) /\ UNCHANGED <<exists, log>> /\ (troubles' = 0 => troubles = 0)
    BY <1>3 DEF Attach, Free, Claim, Reserve, GiveUp, SetupFails, Deregister, Setup,
                Answering, Trouble, TypeOK
  <2>2. \/ Rest(q)
        \/ /\ \E s \in {"checked", "claimed", "reserved", "losing", "failing"} : Goto(q, s)
           /\ UNCHANGED <<thread, asker, left>>
    BY <1>3 DEF Attach, Free, Claim, Reserve, GiveUp, SetupFails, Deregister
  <2>3. /\ ~Answering(q)'
        /\ \A r \in Request \ {q} : /\ pc'[r] = pc[r] /\ thread'[r] = thread[r]
                                    /\ asker'[r] = asker[r] /\ left'[r] = left[r]
    BY <2>2 DEF Rest, Goto, Answering, TypeOK
  <2> QED
    BY <1>1, <2>1, <2>3
<1>4. ASSUME NEW q \in Request, Ask(q) PROVE CallsInv'
  <2>1. /\ thread[q] \in Thread /\ pc[q] = "reserved" /\ pc' = [pc EXCEPT ![q] = "asked"]
        /\ UNCHANGED <<exists, thread, asker, left, troubles>>
    BY <1>4, AboutThread DEF Ask, Goto
  <2>2. \A r \in Request : Answering(r)' <=> Answering(r)
    BY <2>1 DEF Answering, TypeOK
  <2>3. CASE UNCHANGED log
    BY <2>1, <2>2, <2>3, CallsUntouched
  <2>4. CASE AppendMessage(thread[q], UserRow)
    BY <1>0, <2>1, <2>2, <2>4, CallsAsked
  <2> QED
    BY <1>4, <2>3, <2>4 DEF Ask
<1>5. ASSUME NEW q \in Request,
             \/ Start(q) \/ Read(q) \/ Complete(q) \/ ModelFails(q) \/ Release(q)
             \/ \E text \in BOOLEAN : Interrupted(q, text)
                                    \/ \E n \in 0..MaxCalls : Answered(q, text, n)
      PROVE  CallsInv'
  <2>1. /\ ~Answering(q) /\ UNCHANGED <<exists, log, thread, asker, left>>
        /\ troubles' = 0 => troubles = 0
    BY <1>5 DEF Start, Read, Complete, ModelFails, Release, Interrupted, Answered,
                Answering, Trouble, TypeOK
  <2>2. \E s \in {"ending", "reading", "read", "model", "leaving", "replied", "settled"} :
          Goto(q, s)
    BY <1>5 DEF Start, Read, Complete, ModelFails, Release, Interrupted, Answered, Onward
  <2>3. ~Answering(q)' /\ \A r \in Request \ {q} : pc'[r] = pc[r]
    BY <2>2 DEF Goto, Answering, TypeOK
  <2> QED
    BY <1>1, <2>1, <2>3
<1>6. ASSUME NEW q \in Request, Throws(q) PROVE CallsInv'
  <2>1. /\ UNCHANGED <<exists, log, thread, asker, left>>
        /\ pc' = [pc EXCEPT ![q] = "ending"]
        /\ \/ UNCHANGED troubles /\ pc[q] \in {"replied", "answering"} /\ ~exists[thread[q]]
           \/ Trouble
    BY <1>6 DEF Throws, Goto
  <2>2. ~Answering(q)' /\ \A r \in Request \ {q} : Answering(r)' <=> Answering(r)
    BY <2>1 DEF Answering, TypeOK
  <2>3. CASE Trouble
    BY <2>1, <2>2, <2>3, CallsLost
  <2>4. CASE UNCHANGED troubles /\ pc[q] \in {"replied", "answering"} /\ ~exists[thread[q]]
    <3>1. thread[q] \in Thread /\ log[thread[q]] = <<>>
      BY <2>4, AboutThread DEF CallsInv, RowsInPlace
    <3>2. 1..Len(log[thread[q]]) = {}
      BY <3>1
    <3>3. RowsInPlace'
      BY <2>1, <2>2 DEF CallsInv, RowsInPlace
    <3>4. \A u \in Thread : \A i : Answers(u, i)' = Answers(u, i)
      BY <2>1 DEF Answers
    <3>5. ASSUME CallsCounted PROVE CallsCounted'
      <4>1. ASSUME NEW r \in Request, NEW u \in Thread, NEW i \in 1..Len(log'[u]),
                   Answering(r)', thread'[r] = u, asker'[r] = i
            PROVE  Cardinality(Answers(u, i)') + left'[r] = log'[u][i].calls
        <5>1. Answering(r) /\ thread[r] = u /\ asker[r] = i /\ left'[r] = left[r]
          BY <2>1, <2>2, <4>1
        <5> QED
          BY <2>1, <3>4, <3>5, <5>1 DEF CallsCounted
      <4>2. ASSUME NEW u \in Thread, NEW i \in 1..Len(log'[u])
            PROVE  \/ Cardinality(Answers(u, i)') = log'[u][i].calls
                   \/ \E r \in Request : Answering(r)' /\ thread'[r] = u /\ asker'[r] = i
        <5>1. u # thread[q] /\ Answers(u, i)' = Answers(u, i) /\ log'[u] = log[u]
          BY <2>1, <3>2, <3>4
        <5>2. CASE Cardinality(Answers(u, i)) = log[u][i].calls
          BY <5>1, <5>2
        <5>3. CASE \E r \in Request : Answering(r) /\ thread[r] = u /\ asker[r] = i
          BY <2>1, <2>2, <5>1, <5>3
        <5> QED
          BY <3>5, <5>1, <5>2, <5>3 DEF CallsCounted
      <4> QED
        BY <4>1, <4>2 DEF CallsCounted
    <3> QED
      BY <2>4, <3>3, <3>5 DEF CallsInv
  <2> QED
    BY <2>1, <2>3, <2>4
<1>7. ASSUME NEW s \in Steerer, NEW t \in Thread, Speak(s, t) PROVE CallsInv'
  <2>1. AppendMessage(t, UserRow) /\ UNCHANGED <<exists, pc, thread, asker, left, troubles>>
    BY <1>7 DEF Speak
  <2>2. \A r \in Request : Answering(r)' <=> Answering(r)
    BY <2>1 DEF Answering
  <2> QED
    BY <1>0, <2>1, <2>2, CallsAsked
<1>8. ASSUME (\E t \in Thread : Stop(t)) \/ (\E s \in Steerer : Steer(s)) PROVE CallsInv'
  <2>1. UNCHANGED <<exists, log, pc, thread, asker, left, troubles>>
    BY <1>8 DEF Stop, Steer
  <2> QED
    BY <2>1, CallsUntouched DEF Answering
<1>9. ASSUME Crash PROVE CallsInv'
  <2>1. UNCHANGED <<exists, log>> /\ Trouble /\ \A q \in Request : ~Answering(q)'
    BY <1>9 DEF Crash, Answering
  <2> QED
    BY <2>1, CallsLost
<1>10. ASSUME UNCHANGED vars PROVE CallsInv'
  BY <1>10, CallsUntouched DEF vars, Answering
<1> QED
  BY <1>2, <1>3, <1>4, <1>5, <1>6, <1>7, <1>8, <1>9, <1>10, CallsSaid, CallsAnswered, CallsDeleted
     DEF Next, People, Post, Run

LEMMA CallsInit == Init => CutAsksNothing /\ CallsInv
<1> SUFFICES ASSUME Init PROVE CutAsksNothing /\ CallsInv
  OBVIOUS
<1>1. CutAsksNothing /\ \A q \in Request : ~Answering(q)
  BY DEF Init, CutAsksNothing, Nothing, Answering
<1>2. ASSUME NEW t \in Thread, NEW i \in 1..Len(log[t])
      PROVE  exists[t] /\ log[t][i].to < i /\ Answers(t, i) = {} /\ log[t][i].calls = 0
  <2>1. log[t] = <<>> \/ log[t] = <<UserRow>>
    BY DEF Init
  <2>2. log[t] = <<UserRow>> /\ i = 1 /\ exists[t]
    <3>1. CASE log[t] = <<>>
      <4>1. 1..Len(log[t]) = {}
        BY <3>1
      <4> QED
        BY <4>1
    <3>2. CASE log[t] = <<UserRow>>
      <4>1. Len(log[t]) = 1 /\ exists[t]
        BY <3>2 DEF Init
      <4> QED
        BY <3>2, <4>1
    <3> QED
      BY <2>1, <3>1, <3>2
  <2>3. UserRow.role # "tool" /\ UserRow.to = 0 /\ UserRow.calls = 0
    BY DEF UserRow
  <2> QED
    BY <2>2, <2>3 DEF Answers
<1>3. RowsInPlace
  BY <1>1, <1>2 DEF RowsInPlace, Init
<1>4. CallsCounted
  BY <1>1, <1>2, FS_EmptySet DEF CallsCounted
<1> QED
  BY <1>1, <1>3, <1>4 DEF CallsInv

\* "A stopped turn still leaves a conversation that can be continued" (run.ts):
\* for any number of turns, people and calls in a reply, and whatever is stopped,
\* steered or deleted, every call is answered once or its turn is at it.
THEOREM CallsAreAnswered == Spec => []AnsweredOrAnswering
<1>1. Spec => []Slots
  BY SlotsInit, SlotsKept, Typed, PTL DEF Spec
<1>2. Spec => []CutAsksNothing
  BY CallsInit, CutKept, Typed, PTL DEF Spec
<1>3. Spec => []CallsInv
  BY CallsInit, CallsKept, Typed, <1>1, <1>2, PTL DEF Spec
<1>4. CallsInv => AnsweredOrAnswering
  BY DEF CallsInv, CallsCounted, AnsweredOrAnswering, Answering
<1> QED
  BY <1>3, <1>4, PTL

-----------------------------------------------------------------------------
(* The stop.  Every round arms a signal of its own, and a stop may fall      *)
(* before, between or after: what holds is that no completion of a stopped   *)
(* turn runs under a signal that is not aborted.                             *)

Signalled ==
    \A q \in Request : pc[q] = "model" =>
        signal[q] # "none" /\ (cancelled[q] => signal[q] = "aborted")

LEMMA SignalledKept == TypeOK /\ Signalled /\ [Next]_vars => Signalled'
<1> SUFFICES ASSUME TypeOK, Signalled, [Next]_vars PROVE Signalled'
  OBVIOUS
<1> USE DEF Signalled, threadVars, turnVars, boundVars
<1>1. ASSUME NEW q \in Request, Page(q) PROVE Signalled'
  <2>1. PICK t \in Thread : Open(q, t, TRUE) \/ Open(q, t, FALSE)
    BY <1>1, Zenon DEF Page, Send, Visit
  <2> QED
    BY <2>1 DEF Open, Goto, TypeOK
<1>2. ASSUME NEW q \in Request, Rest(q) PROVE Signalled'
  BY <1>2 DEF Rest, Goto, TypeOK
<1>3. ASSUME NEW q \in Request, pc'[q] # "model",
             \A r \in Request \ {q} : pc'[r] = pc[r], UNCHANGED <<signal, cancelled>>
      PROVE  Signalled'
  BY <1>3
<1>4. ASSUME NEW q \in Request, Post(q) PROVE Signalled'
  <2>1. \/ Rest(q)
        \/ /\ \E s \in {"checked", "claimed", "reserved", "losing", "asked", "failing"} : Goto(q, s)
           /\ UNCHANGED <<signal, cancelled>>
    BY <1>4 DEF Post, Attach, Free, Claim, Reserve, GiveUp, Ask, SetupFails
  <2> QED
    BY <1>2, <1>3, <2>1 DEF Goto, TypeOK
<1>5. ASSUME NEW q \in Request, Run(q), ~Complete(q), ~Deregister(q) PROVE Signalled'
  <2>1. /\ UNCHANGED <<signal, cancelled>>
        /\ \/ pc[q] = "answering" /\ UNCHANGED pc
           \/ \E s \in Loop \ {"model"} : Goto(q, s)
    BY <1>5 DEF Run, Start, Read, ModelFails, Throws, Release, Say, Answer, Answered,
                Interrupted, Onward, Loop
  <2> QED
    BY <1>3, <2>1 DEF Goto, TypeOK
<1>6. ASSUME NEW q \in Request, Complete(q) PROVE Signalled'
  BY <1>6 DEF Complete, Goto, Signal, TypeOK
<1>7. ASSUME NEW q \in Request, Deregister(q) PROVE Signalled'
  BY <1>2, <1>7 DEF Deregister
<1>8. ASSUME NEW t \in Thread, Stop(t) PROVE Signalled'
  BY <1>8 DEF Stop, TypeOK
<1>9. ASSUME NEW s \in Steerer, Steer(s) PROVE Signalled'
  BY <1>9 DEF Steer, TypeOK
<1>10. ASSUME (\E t \in Thread : Delete(t)) \/ \E s \in Steerer, t \in Thread : Speak(s, t)
       PROVE  Signalled'
  BY <1>10 DEF Delete, Speak
<1>11. ASSUME Crash \/ UNCHANGED vars PROVE Signalled'
  BY <1>11 DEF Crash, vars
<1> QED
  BY <1>1, <1>4, <1>5, <1>6, <1>7, <1>8, <1>9, <1>10, <1>11 DEF Next, People

\* cancelRun and RunControl: whenever a stop falls, the turn asks for nothing more.
THEOREM StopIsHeard == Spec => StopHolds
<1>1. Init => Signalled
  BY DEF Init, Signalled
<1>2. Spec => [](TypeOK /\ Signalled)
  BY <1>1, SignalledKept, Typed, PTL DEF Spec
<1> DEFINE Quiet == \A q \in Request :
             cancelled[q] /\ pc[q] = "model" /\ pc'[q] = "replied" => reply'[q].calls = 0
<1>3. TypeOK /\ Signalled /\ [Next]_vars => Quiet \/ UNCHANGED vars
  <2> SUFFICES ASSUME TypeOK, Signalled, Next, NEW q \in Request,
                      cancelled[q], pc[q] = "model", pc'[q] = "replied"
               PROVE  reply'[q].calls = 0
    OBVIOUS
  <2>1. signal[q] = "aborted"
    BY DEF Signalled
  <2>2. ASSUME NEW r \in Request, Page(r) \/ Post(r) \/ Run(r) PROVE r = q
    <3>1. pc'[q] # pc[q]
      OBVIOUS
    <3>2. CASE Page(r)
      <4>1. PICK t \in Thread : Open(r, t, TRUE) \/ Open(r, t, FALSE)
        BY <3>2, Zenon DEF Page, Send, Visit
      <4> QED
        BY <3>1, <4>1 DEF Open, Goto, TypeOK
    <3>3. CASE Post(r)
      BY <3>1, <3>3 DEF Post, Attach, Free, Claim, Reserve, GiveUp, Ask, SetupFails, Rest,
                        Goto, TypeOK
    <3>4. CASE Run(r)
      BY <3>1, <3>4 DEF Run, Start, Read, Complete, ModelFails, Throws, Release, Deregister,
                        Say, Answer, Answered, Interrupted, Onward, Rest, Goto, TypeOK
    <3> QED
      BY <2>2, <3>2, <3>3, <3>4
  <2>3. Page(q) \/ Post(q) \/ Run(q)
    <3>1. ~People /\ ~Crash
      BY DEF People, Stop, Delete, Speak, Steer, Crash, turnVars
    <3> QED
      BY <2>2, <3>1 DEF Next
  <2>4. \E text \in BOOLEAN : Interrupted(q, text)
    BY <2>1, <2>3 DEF Page, Send, Visit, Open, Post, Attach, Free, Claim, Reserve, GiveUp, Ask,
       SetupFails, Setup, Run, Start, Read, Complete, ModelFails, Throws, Release, Deregister,
       Say, Answer, Answered, Goto, TypeOK
  <2>5. reply' = [reply EXCEPT ![q] = [calls |-> 0, cut |-> TRUE]]
    BY <2>4 DEF Interrupted, Onward, Goto, TypeOK
  <2> QED
    BY <2>5 DEF TypeOK
<1> QED
  BY <1>2, <1>3, PTL DEF Spec, StopHolds
=============================================================================
