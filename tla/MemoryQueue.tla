---------------------------- MODULE MemoryQueue ----------------------------
(***************************************************************************)
(* InMemoryQueue (queues/memory.py): the one queue backend whose every      *)
(* operation is a single critical section, and so the reference for what   *)
(* the Queue contract (queues/base.py) promises its callers.               *)
(*                                                                         *)
(* Each operation below is one action over the three containers the class  *)
(* keeps.  A message is its id: ids are unique, and its body is what the   *)
(* modules that use the queue say the id stands for.                       *)
(***************************************************************************)
EXTENDS Maps, Naturals, Sequences, FiniteSets, Functions

CONSTANT Messages          \* the messages that may ever be published

ASSUME MessagesAssumption == IsFiniteSet(Messages)

VARIABLES
    ready,       \* _ready: a deque of entries, the oldest first
    inflight,    \* _inflight: receipt -> the claim held on it
    dead         \* _dead: the deliveries that were parked

queueVars == <<ready, inflight, dead>>

-----------------------------------------------------------------------------
(* A delivery is the Message object receive() hands out: the receipt is the *)
(* message's id, the same for every delivery of it.  An entry of _ready has *)
(* the same two fields, its attempts being the deliveries made so far.      *)
Entry    == [id : Messages, attempts : Nat]
Delivery == [id : Messages, attempts : Nat \ {0}]

(* A claim remembers when it was taken; the model keeps of that time only   *)
(* whether visibility_timeout has passed since.                             *)
Claim == [attempts : Nat \ {0}, expired : BOOLEAN]

QueueTypeOK ==
    /\ ready \in Seq(Entry)
    /\ DOMAIN inflight \subseteq Messages
    /\ inflight \in [DOMAIN inflight -> Claim]
    /\ dead \subseteq Delivery

ReadyIds == {e.id : e \in Range(ready)}

(* The messages the queue still owes someone. *)
Outstanding == ReadyIds \cup DOMAIN inflight

-----------------------------------------------------------------------------
(* Mutant: no deadline is ever seen to pass. *)
NothingExpires == {}

(* _reap, which the caller runs under the lock: every claim past its        *)
(* deadline goes to the back of the queue, with the attempts it had.  They  *)
(* go in the order the dict yields them, which is left open here.           *)
Expired == {m \in DOMAIN inflight : inflight[m].expired}

AfterReap ==
    LET entries == {[id |-> m, attempts |-> inflight[m].attempts] : m \in Expired}
    IN  {ready \o back : back \in Surjection(1..Cardinality(Expired), entries)}

-----------------------------------------------------------------------------
Publish(m) ==
    /\ ready' = Append(ready, [id |-> m, attempts |-> 0])
    /\ UNCHANGED <<inflight, dead>>

(* depth() counts what waits, after a _reap. *)
Depth ==
    /\ ready' \in AfterReap
    /\ inflight' = Without(inflight, Expired)
    /\ UNCHANGED dead

(* Mutant: the delivery is not counted. *)
DeliveringUncounted(q) == Head(q)

(* receive() when it finds a message: the oldest entry becomes a claim.     *)
Delivering(q) == [id |-> Head(q).id, attempts |-> Head(q).attempts + 1]

Receive(q) ==
    /\ q \in AfterReap
    /\ q # <<>>
    /\ ready' = Tail(q)
    /\ inflight' = With(Without(inflight, Expired), Delivering(q).id,
                        [attempts |-> Delivering(q).attempts, expired |-> FALSE])
    /\ UNCHANGED dead

(* receive() when it returns None. *)
ReceiveNone ==
    /\ ready = <<>>
    /\ Expired = {}
    /\ UNCHANGED queueVars

(* ack() forgets whatever claim is on the receipt, even one that belongs to *)
(* a later delivery of the same message.                                    *)
Ack(d) ==
    /\ inflight' = Without(inflight, {d.id})
    /\ UNCHANGED <<ready, dead>>

(* Mutant: the claim is dropped and nothing put back. *)
NackForgotten(d) ==
    /\ inflight' = Without(inflight, {d.id})
    /\ UNCHANGED <<ready, dead>>

(* nack() of a claim that is gone does nothing; otherwise the entry goes    *)
(* back with the attempts the claim had, not those of the caller's copy.    *)
Nack(d) ==
    \/ /\ d.id \in DOMAIN inflight
       /\ ready' = Append(ready, [id |-> d.id, attempts |-> inflight[d.id].attempts])
       /\ inflight' = Without(inflight, {d.id})
       /\ UNCHANGED dead
    \/ /\ d.id \notin DOMAIN inflight
       /\ UNCHANGED queueVars

(* Mutant: the body is parked and the claim kept. *)
DeadLetterClaimed(d) ==
    /\ dead' = dead \cup {d}
    /\ UNCHANGED <<ready, inflight>>

(* dead_letter() parks the body whether or not the claim was still there.   *)
DeadLetter(d) ==
    /\ inflight' = Without(inflight, {d.id})
    /\ dead' = dead \cup {d}
    /\ UNCHANGED ready

(* Time passes: the claim on m is older than visibility_timeout. *)
ClaimExpires(m) ==
    /\ m \in DOMAIN inflight
    /\ ~inflight[m].expired
    /\ inflight' = [inflight EXCEPT ![m].expired = TRUE]
    /\ UNCHANGED <<ready, dead>>

=============================================================================
