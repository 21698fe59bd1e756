------------------------------ MODULE Consume ------------------------------
(***************************************************************************)
(* Queue.consume (queues/base.py) run by several workers over one           *)
(* FileQueue, as the index workers do: receive a message, hand it to the    *)
(* handler, and ack it, or on failure nack it until it is out of attempts   *)
(* and is dead-lettered.  The workers share nothing but the directories.    *)
(***************************************************************************)
EXTENDS FileQueue

CONSTANTS
    MaxAttempts,     \* max_attempts
    MaxMessages,     \* max_messages, when it is one of the Options
    Options,         \* the optional arguments of consume() that are not None
    Faults,          \* the kinds of fault that may happen
    MaxFaults        \* how many of them may

ASSUME ConsumeAssumption ==
    /\ MaxAttempts \in Nat \ {0}
    /\ MaxMessages \in Nat
    /\ MaxFaults \in Nat
    /\ Options \subseteq {"max_messages", "idle_timeout", "should_stop"}
    /\ Faults \subseteq {"backlog", "expiry", "crash"}

VARIABLES
    unsent,      \* messages not published yet
    left,        \* how many messages each worker may still receive
    signalled,   \* the workers that have been asked to stop
    faults,      \* faults so far
    handed,      \* history: how often each message was given to a handler,
                 \* counted as far as MaxAttempts + 1
    worked       \* history: the messages some handler returned from

vars == <<queueVars, unsent, left, signalled, faults, handed, worked>>

-----------------------------------------------------------------------------
Fault(kind) ==
    /\ kind \in Faults
    /\ faults < MaxFaults
    /\ faults' = faults + 1

Init ==
    /\ ready = [m \in {} |-> None]
    /\ inflight = [m \in {} |-> None]
    /\ dead = [m \in {} |-> None]
    /\ file = [f \in {} |-> Published]
    /\ client = [c \in Clients |-> At("down")]
    /\ unsent = Messages
    /\ left = [c \in Clients |-> MaxMessages]
    /\ signalled = {}
    /\ faults = 0
    /\ handed = [m \in Messages |-> 0]
    /\ worked = {}

(* A worker's process starts: depth() for its first log line, then the loop.*)
Start(c) ==
    /\ client[c].pc = "down"
    /\ Reaping(c, "depth")
    /\ left' = [left EXCEPT ![c] = MaxMessages]
    /\ signalled' = signalled \ {c}
    /\ UNCHANGED <<dirs, file, unsent, faults, handed, worked>>

(* Mutants: one message too many; the stop request goes unheard. *)
MayReceiveMore(c) == c \notin signalled /\ ("max_messages" \in Options => left[c] >= 0)
MayReceiveDeaf(c) == "max_messages" \in Options => left[c] > 0

(* The top of the loop, and of poll(): the limit, then the stop request.    *)
(* The question after a message was settled is this one asked twice.        *)
MayReceive(c) ==
    /\ c \notin signalled
    /\ "max_messages" \in Options => left[c] > 0

Receive(c) ==
    /\ client[c].pc = "top"
    /\ \/ MayReceive(c) /\ Reaping(c, "reap")
       \/ ~MayReceive(c) /\ Leaves(c, "done")
    /\ UNCHANGED <<dirs, file, unsent, left, signalled, faults, handed, worked>>

(* receive() had nothing: poll() tries again, or has waited long enough.    *)
Idle(c) ==
    /\ client[c].pc = "empty"
    /\ \/ Leaves(c, "top")
       \/ "idle_timeout" \in Options /\ Leaves(c, "done")
    /\ UNCHANGED <<dirs, file, unsent, left, signalled, faults, handed, worked>>

(* Mutant: a message gets one delivery fewer. *)
OutOfAttemptsEarly(c) == client[c].attempts + 1 >= MaxAttempts

OutOfAttempts(c) == client[c].attempts >= MaxAttempts

(* The handler returns, or raises. *)
Handle(c) ==
    LET m == client[c].cur
    IN  /\ client[c].pc = "handle"
        /\ \/ /\ client' = [client EXCEPT ![c].pc = "ack"]
              /\ worked' = worked \cup {m}
           \/ /\ client' = [client EXCEPT
                    ![c].pc = IF OutOfAttempts(c) THEN "park" ELSE "nack"]
              /\ UNCHANGED worked
        /\ UNCHANGED <<dirs, file, unsent, left, signalled, faults, handed>>

Least(a, b) == IF a <= b THEN a ELSE b

(* A call on the queue goes on; the one that ends receive() is where        *)
(* stats.received is counted and the handler gets the message.              *)
Called(c) ==
    /\ Call(c)
    /\ IF client[c].pc = "write" /\ client[c].doing = "claim"
       THEN /\ left' = [left EXCEPT ![c] = IF "max_messages" \in Options THEN @ - 1 ELSE @]
            /\ handed' = [handed EXCEPT ![client[c].cur] = Least(@ + 1, MaxAttempts + 1)]
       ELSE UNCHANGED <<left, handed>>
    /\ UNCHANGED <<unsent, signalled, faults, worked>>

-----------------------------------------------------------------------------
(* What goes on around the workers. *)
PublishNew(m) ==
    /\ m \in unsent
    /\ unsent' = unsent \ {m}
    /\ Publish(m)
    /\ UNCHANGED <<left, signalled, faults, handed, worked>>

Signal(c) ==
    /\ "should_stop" \in Options
    /\ client[c].pc \notin {"down", "done"}
    /\ signalled' = signalled \cup {c}
    /\ UNCHANGED <<queueVars, unsent, left, faults, handed, worked>>

(* The process is killed where it stands; what it wrote remains.            *)
Crash(c) ==
    /\ client[c].pc \notin {"down", "done"}
    /\ Fault("crash")
    /\ Leaves(c, "down")
    /\ UNCHANGED <<dirs, unsent, left, signalled, handed, worked>>
    /\ Kept(file)

(* The worker c is somewhere between claiming m and giving it up again.     *)
Holds(c, m) ==
    /\ client[c].cur = m
    /\ client[c].pc \notin {"depth", "reap"}

(* visibility_timeout passes for a file.  For one that waits in ready/ the  *)
(* backlog is that long; for a claim somebody works on the work is; for a   *)
(* claim whose worker died it is what must happen.                          *)
Ages(m) ==
    \/ /\ m \in DOMAIN ready /\ ~file[ready[m]].old
       /\ Fault("backlog")
       /\ file' = [file EXCEPT ![ready[m]].old = TRUE]
       /\ UNCHANGED <<dirs, client, unsent, left, signalled, handed, worked>>
    \/ /\ m \in DOMAIN inflight /\ ~file[inflight[m]].old
       /\ IF \E c \in Clients : Holds(c, m) THEN Fault("expiry") ELSE UNCHANGED faults
       /\ file' = [file EXCEPT ![inflight[m]].old = TRUE]
       /\ UNCHANGED <<dirs, client, unsent, left, signalled, handed, worked>>

Worker(c) == Start(c) \/ Receive(c) \/ Idle(c) \/ Handle(c) \/ Called(c)

Next ==
    \/ \E c \in Clients : Worker(c) \/ Signal(c) \/ Crash(c)
    \/ \E m \in Messages : PublishNew(m) \/ Ages(m)

Spec == Init /\ [][Next]_vars

(* Workers keep going, handlers return or raise, and time passes for claims *)
(* nobody works on.                                                         *)
Abandoned(m) == m \in DOMAIN inflight /\ ~\E c \in Clients : Holds(c, m)

Fairness ==
    /\ \A c \in Clients : WF_vars(Worker(c))
    /\ \A m \in Messages : WF_vars(Abandoned(m) /\ Ages(m))

FairSpec == Spec /\ Fairness

-----------------------------------------------------------------------------
(* Properties. *)

(* The variables have the types the code gives them; names and descriptors  *)
(* refer to files that exist.                                               *)
TypeOK ==
    /\ QueueTypeOK
    /\ unsent \subseteq Messages
    /\ left \in [Clients -> Nat]
    /\ signalled \subseteq Clients
    /\ faults \in Nat
    /\ handed \in [Messages -> Nat]
    /\ worked \subseteq Messages

(* The messages the queue still owes someone, and the parked ones.          *)
Owed   == DOMAIN ready \cup DOMAIN inflight
Parked == DOMAIN dead

(* A published message is waiting, claimed, parked or worked off, whatever  *)
(* renames and unlinks of different workers come together on its name.      *)
NoMessageLost == \A m \in Messages \ unsent : m \in Owed \cup Parked \cup worked

(* What a worker knows by where it is: that the message at hand has been    *)
(* worked off, or is in dead/, before it unlinks the claim.                 *)
Busy == {"load", "open", "write", "handle", "ack", "nack", "park", "return", "unlink"}

ClientOK(c) ==
    LET k == client[c]
    IN  /\ k.fd # None <=> k.pc = "write"
        /\ k.pc \in Busy => k.cur \in Messages \ unsent
        /\ k.pc = "ack" => k.cur \in worked
        /\ k.pc = "unlink" \/ (k.pc = "write" /\ k.doing = "park") => k.cur \in Parked

(* A worker inside receive() may still receive one. *)
InReceive(c) ==
    \/ client[c].pc \in {"reap", "claim"}
    \/ client[c].pc \in {"load", "open", "write"} /\ client[c].doing = "claim"

(* Why no message is lost: the name a worker unlinks may by then be the     *)
(* claim of another, but what the worker knows of the message stays true,   *)
(* since nothing removes a name from dead/ or undoes a handler's work; and  *)
(* a worker goes into receive() only while it may take one message more.    *)
IndInv ==
    /\ TypeOK
    /\ unsent \cap (Owed \cup Parked) = {}
    /\ \A c \in Clients : ClientOK(c)
    /\ "max_messages" \in Options => \A c \in Clients : InReceive(c) => left[c] > 0
    /\ NoMessageLost

(* As long as no claim lapses and nobody dies, a claimed message has        *)
(* exactly one worker, from the rename to the settlement, and no claim is   *)
(* left without one: "a message went to two workers" is the test's line.    *)
Exclusive ==
    faults = 0 =>
        /\ \A c, d \in Clients, m \in Messages : Holds(c, m) /\ Holds(d, m) => c = d
        /\ DOMAIN inflight = {m \in Messages : \E c \in Clients : Holds(c, m)}

(* Without faults "the count a retrying consumer sees is the real one", and *)
(* a message is parked after max_attempts deliveries, no more and no fewer. *)
AttemptsReal ==
    faults = 0 =>
        /\ \A c \in Clients : client[c].pc = "handle"
                => client[c].attempts = handed[client[c].cur]
        /\ \A m \in Messages : handed[m] <= MaxAttempts
        /\ \A m \in Parked : handed[m] = MaxAttempts

(* No fault can make a message be parked before its deliveries are used up. *)
ParkedAfterTries == \A m \in Parked : handed[m] >= MaxAttempts

(* A name without a readable file, and nobody about to write one. *)
Lost(m) ==
    /\ m \in Owed
    /\ \A dir \in {ready, inflight} :
        m \in DOMAIN dir => /\ file[dir[m]].shape = "torn"
                            /\ \A c \in Clients : client[c].fd # dir[m]

AllEnded == \A c \in Clients : client[c].pc = "done"

(* Every message is in the end acked or parked, unless its file was torn or *)
(* the workers have been stopped.                                           *)
EventuallySettled ==
    \A m \in Messages : m \in Owed ~> m \notin Owed \/ Lost(m) \/ AllEnded

(* "nack redelivers it with attempts incremented, and so does a passed      *)
(* deadline" (queues/base.py:5): every message is in the end acked or       *)
(* parked, wherever a worker may have died.                                 *)
EverySettled == \A m \in Messages : m \in Owed ~> m \notin Owed \/ AllEnded

(* A worker that is asked to stop settles what it holds and ends.           *)
StopTerminates == \A c \in Clients : c \in signalled ~> client[c].pc \in {"done", "down"}

(* A claimed message stays invisible to other consumers "until acked,       *)
(* nacked, or its visibility deadline passes".                              *)
DeliveredOnce ==
    \A c, d \in Clients :
        client[c].pc = "handle" /\ client[d].pc = "handle" /\ client[c].cur = client[d].cur
            => c = d

-----------------------------------------------------------------------------
(* With one worker a message is forgotten only once it is settled.          *)
Promise == INSTANCE AtLeastOnce WITH
    Items    <- Messages,
    Needs    <- [m \in Messages |-> {m}],
    Workable <- Messages,
    owed     <- Owed,
    parked   <- Parked

KeepsPromise == Promise!Spec

=============================================================================
