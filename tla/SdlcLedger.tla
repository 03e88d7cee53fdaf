----------------------------- MODULE SdlcLedger -----------------------------
(***************************************************************************)
(* What `sdlc transition`, `start`, `archive` and `unarchive` promise of a *)
(* task, as if each move were one atomic act: the status moves along a     *)
(* legal edge and the move is entered in the trail in the same instant; a  *)
(* killed command may lose the entry it was about to make, never an older  *)
(* one; a task leaves the live records only when it is done, and comes     *)
(* back claimed.                                                           *)
(***************************************************************************)
EXTENDS SdlcLifecycle, Integers, Sequences

CONSTANTS
    Task,
    First,      \* the status each task is committed with
    MayForget   \* can a command be killed before it has entered its move?

VARIABLES
    status,     \* status[t], or "archived" once it has left the sources
    trail       \* trail[t], the moves recorded for it

ledger == <<status, trail>>

Init ==
    /\ status = First
    /\ trail = [t \in Task |-> <<>>]

Move(t, to) ==
    /\ <<status[t], to>> \in TaskTransitions
    /\ status' = [status EXCEPT ![t] = to]
    /\ trail' = [trail EXCEPT ![t] = Append(@, [from |-> status[t], to |-> to])]

\* The command is killed after the status was written and before the entry was.
Forget(t) ==
    /\ MayForget
    /\ trail[t] # <<>> /\ trail[t][Len(trail[t])].to = status[t]
    /\ trail' = [trail EXCEPT ![t] = SubSeq(@, 1, Len(@) - 1)]
    /\ UNCHANGED status

Retire(t) ==
    /\ status[t] = "done"
    /\ status' = [status EXCEPT ![t] = "archived"]
    /\ UNCHANGED trail

Revive(t) ==
    /\ status[t] = "archived"
    /\ status' = [status EXCEPT ![t] = ReopenStatus("task")]
    /\ UNCHANGED trail

Next ==
    \E t \in Task :
        \/ \E to \in StatusSet("task") : Move(t, to)
        \/ Forget(t)
        \/ Retire(t)
        \/ Revive(t)

Spec == Init /\ [][Next]_ledger
=============================================================================
