------------------------------- MODULE Runner -------------------------------
(***************************************************************************)
(* What a runner promises whoever has it run the tasks of one message       *)
(* (runners/base.py): a task is accepted or refused, its container runs and *)
(* ends once, its caller is told how it ended once, and none is started     *)
(* beside one that was not stopped -- unless something failed.  Nothing is  *)
(* said of backends, polls, records, cancelling or cleaning up.             *)
(***************************************************************************)
EXTENDS Naturals

CONSTANT
    Tasks        \* the tasks, numbered in the order they are launched

VARIABLES
    state,       \* what the container of each task is doing
    told,        \* what the caller was told of each task
    faulted      \* something has failed

promise == <<state, told, faulted>>

Init ==
    /\ state = [t \in Tasks |-> "none"]
    /\ told = [t \in Tasks |-> "none"]
    /\ faulted = FALSE

(* The caller knows of the task, and it has ended or was asked to. *)
Settled(t) == told[t] # "none" /\ state[t] # "running"

(* launch() returns or raises, the latter in vain after a fault.            *)
Launch(t) ==
    /\ state[t] = "none" /\ told[t] = "none"
    /\ \A s \in Tasks : s < t => faulted \/ Settled(s)
    /\ \/ state' = [state EXCEPT ![t] = "running"] /\ UNCHANGED told
       \/ told' = [told EXCEPT ![t] = "refused"] /\ UNCHANGED state
       \/ /\ faulted'
          /\ state' = [state EXCEPT ![t] = "running"]
          /\ told' = [told EXCEPT ![t] = "refused"]

(* The container ends, by itself or killed. *)
Exit(t) ==
    /\ state[t] \in {"running", "stopping"}
    /\ \E how \in {"zero", "nonzero"} : state' = [state EXCEPT ![t] = how]
    /\ UNCHANGED told

(* A container is asked to end because it overran. *)
Stop(t) ==
    /\ state[t] = "running"
    /\ told[t] = "overran" \/ faulted'
    /\ state' = [state EXCEPT ![t] = "stopping"]
    /\ UNCHANGED told

(* The caller is told of a task it was not told of before: that it overran, *)
(* or how it ended.  Only a fault makes a failure of what did not fail.     *)
Tell(t) ==
    /\ state[t] # "none" /\ told[t] = "none"
    /\ \/ told' = [told EXCEPT ![t] = "overran"]
       \/ state[t] = "zero" /\ told' = [told EXCEPT ![t] = "succeeded"]
       \/ (state[t] = "nonzero" \/ faulted') /\ told' = [told EXCEPT ![t] = "failed"]
    /\ UNCHANGED state

Next ==
    /\ faulted' \in {faulted, TRUE}
    /\ \/ \E t \in Tasks : Launch(t) \/ Exit(t) \/ Stop(t) \/ Tell(t)
       \/ UNCHANGED <<state, told>>

Spec == Init /\ [][Next]_promise

=============================================================================
