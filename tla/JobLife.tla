------------------------------- MODULE JobLife -------------------------------
(***************************************************************************)
(* What the queue of RunQueue promises about each job, with the drainers,  *)
(* leases, reads and backoffs left out: a job waits, is worked on, and is  *)
(* either done once and for all or given up; and it is given up only after *)
(* it has been tried as often as the cap asks, or when what it was for has *)
(* gone away.                                                              *)
(***************************************************************************)
EXTENDS Naturals

CONSTANTS Job, MaxTries,
          Revocable     \* can what a job is for go away?

VARIABLES job, tries

vars == <<job, tries>>

Init ==
    /\ job = [j \in Job |-> "none"]
    /\ tries = [j \in Job |-> 0]

Move(j, from, to) == job[j] \in from /\ job' = [job EXCEPT ![j] = to]

Post(j) == Move(j, {"none"}, "waiting") /\ UNCHANGED tries

Start(j) ==
    /\ Move(j, {"waiting"}, "active")
    /\ tries' = [tries EXCEPT ![j] = @ + 1]

\* The attempt failed, or its worker died.
Return(j) == Move(j, {"active"}, "waiting") /\ UNCHANGED tries

Complete(j) == Move(j, {"active"}, "done") /\ UNCHANGED tries

GiveUp(j) ==
    /\ tries[j] >= MaxTries
    /\ Move(j, {"active", "waiting"}, "dead")
    /\ UNCHANGED tries

\* Whoever works on it finds that what it was for is gone.
Abandon(j) == Revocable /\ Move(j, {"active"}, "dead") /\ UNCHANGED tries

\* A person starts a job that was given up over again, or takes some jobs away.
Reopen(j) ==
    /\ Move(j, {"dead"}, "waiting")
    /\ tries' = [tries EXCEPT ![j] = 0]

Withdraw(some) ==
    /\ \A j \in some : job[j] \in {"waiting", "active", "done", "dead"}
    /\ job' = [j \in Job |-> IF j \in some THEN "gone" ELSE job[j]]
    /\ UNCHANGED tries

Next ==
    \/ \E j \in Job : \/ Post(j) \/ Start(j) \/ Return(j) \/ Complete(j) \/ GiveUp(j)
                      \/ Abandon(j) \/ Reopen(j)
    \/ \E some \in SUBSET Job : Withdraw(some)

Spec == Init /\ [][Next]_vars
=============================================================================
