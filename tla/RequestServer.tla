---------------------------- MODULE RequestServer ----------------------------
(***************************************************************************)
(* What MotorService promises its callers, without the queue, the pointers *)
(* and the worker: calls are served one at a time, in the order in which   *)
(* they were admitted, and each is answered once.                          *)
(***************************************************************************)
EXTENDS Sequences, Naturals

CONSTANT Tasks

VARIABLES
    phase,  \* what each task is doing
    order   \* the admitted calls, first admitted first

vars == <<phase, order>>

Init ==
    /\ phase = [task \in Tasks |-> "idle"]
    /\ order = <<>>

Call(task) ==
    /\ phase[task] = "idle"
    /\ phase' = [phase EXCEPT ![task] = "sending"]
    /\ UNCHANGED order

Admit(task) ==
    /\ phase[task] = "sending"
    /\ phase' = [phase EXCEPT ![task] = "waiting"]
    /\ order' = Append(order, task)

Answer ==
    /\ order # <<>>
    /\ phase' = [phase EXCEPT ![Head(order)] = "idle"]
    /\ order' = Tail(order)

Next == Answer \/ \E task \in Tasks : Call(task) \/ Admit(task)

Spec == Init /\ [][Next]_vars
=============================================================================
