-------------------------- MODULE DispatcherLimits --------------------------
(***************************************************************************)
(* Proofs that the dispatcher keeps within its bounds, max_in_flight and    *)
(* max_messages, that its statistics add up (each delivery it receives is   *)
(* settled once), that its loop ends with no message in its hands, and that *)
(* a parked message stays parked; that it starts nothing once it has seen   *)
(* the stop request, that its idle exit leaves nothing on the queue, and    *)
(* that deliveries stay within max_attempts and the faults that happened.   *)
(***************************************************************************)
EXTENDS DispatcherProofs

-----------------------------------------------------------------------------
(* Faults are counted, one at a time. *)
LEMMA FaultsCount ==
    ASSUME IndInv, [Next]_vars
    PROVE  faults \in Nat /\ faults' \in {faults, faults + 1} /\ (faults' = 0 => faults = 0)
<1>1. faults \in Nat
  BY DEF IndInv, TypeOK
<1>2. faults' \in {faults, faults + 1}
  BY DEF Next, Loop, Environment, Start, Begin, ReapEnd, LaunchEnd, ReceiveOne, ReceiveEnd,
     Unpack, UnpackEnd, Check, Signal, PassOver, TaskOverruns, PublishNew, Expires,
     ContainerExits, Reap, ReapExited, ReapOverrun, ReapLost, ReapRaises, Crash, Launch,
     LaunchAccepted, LaunchRefused, LaunchRaises, Fault, vars
<1> QED
  BY <1>1, <1>2

(* max_in_flight: what is tracked never exceeds it; while the runner obeys   *)
(* nothing else exists, and each fault adds a capful at most to what is     *)
(* not tracked.                                                             *)
Untracked == DOMAIN container \ DOMAIN running

CapInv ==
    /\ Cardinality(DOMAIN running) <= MaxInFlight
    /\ RunnerObeys => DOMAIN container = DOMAIN running
    /\ IsFiniteSet(DOMAIN container)
    /\ Cardinality(Untracked) <= MaxInFlight * faults

(* The bound when n more are added to a set. *)
LEMMA AddedTo ==
    ASSUME NEW S, NEW A, NEW T, IsFiniteSet(S), IsFiniteSet(A), T \subseteq S \cup A
    PROVE  /\ IsFiniteSet(T)
           /\ Cardinality(T) <= Cardinality(S) + Cardinality(A)
           /\ Cardinality(S) \in Nat /\ Cardinality(A) \in Nat /\ Cardinality(T) \in Nat
<1>1. /\ IsFiniteSet(S \cup A)
      /\ Cardinality(S \cup A) = Cardinality(S) + Cardinality(A) - Cardinality(S \cap A)
  BY FS_Union
<1>2. IsFiniteSet(T) /\ Cardinality(T) <= Cardinality(S \cup A)
  BY <1>1, FS_Subset
<1>3. IsFiniteSet(S \cap A)
  BY FS_Subset
<1>4. /\ Cardinality(S) \in Nat /\ Cardinality(A) \in Nat /\ Cardinality(T) \in Nat
      /\ Cardinality(S \cap A) \in Nat
  BY <1>2, <1>3, FS_CardinalityType
<1> QED
  BY <1>1, <1>2, <1>4

(* What is not tracked grows only with a fault, and by what was tracked or   *)
(* one container.                                                           *)
LEMMA CapPaid ==
    ASSUME IndInv, CapInv,
           \/ Untracked' \subseteq Untracked /\ faults' = faults
           \/ /\ faults' = faults + 1
              /\ \/ Untracked' \subseteq Untracked \cup DOMAIN running
                 \/ \E h \in Handles : Untracked' \subseteq Untracked \cup {h}
    PROVE  IsFiniteSet(Untracked') /\ Cardinality(Untracked') <= MaxInFlight * faults'
<1>1. /\ MaxInFlight \in Nat \ {0} /\ faults \in Nat
      /\ IsFiniteSet(DOMAIN running) /\ IsFiniteSet(Untracked)
  BY LimitsAssumption, FS_Subset DEF IndInv, TypeOK, Distinct, CapInv, Untracked
<1>2. MaxInFlight * (faults + 1) = MaxInFlight * faults + MaxInFlight
      /\ MaxInFlight * faults \in Nat
  BY <1>1
<1>3. CASE Untracked' \subseteq Untracked /\ faults' = faults
  <2>1. IsFiniteSet(Untracked') /\ Cardinality(Untracked') <= Cardinality(Untracked)
    BY <1>1, <1>3, FS_Subset
  <2>2. Cardinality(Untracked') \in Nat /\ Cardinality(Untracked) \in Nat
    BY <1>1, <2>1, FS_CardinalityType
  <2> QED
    BY <1>2, <1>3, <2>1, <2>2 DEF CapInv
<1>4. ASSUME faults' = faults + 1, NEW A, IsFiniteSet(A), Cardinality(A) <= MaxInFlight,
             Untracked' \subseteq Untracked \cup A
      PROVE  IsFiniteSet(Untracked') /\ Cardinality(Untracked') <= MaxInFlight * faults'
  <2>1. /\ IsFiniteSet(Untracked')
        /\ Cardinality(Untracked') <= Cardinality(Untracked) + Cardinality(A)
        /\ Cardinality(Untracked) \in Nat /\ Cardinality(A) \in Nat
        /\ Cardinality(Untracked') \in Nat
    BY <1>1, <1>4, AddedTo
  <2>2. Cardinality(Untracked) <= MaxInFlight * faults
    BY DEF CapInv
  <2>3. Cardinality(Untracked') <= MaxInFlight * faults + MaxInFlight
    BY <1>1, <1>2, <1>4, <2>1, <2>2
  <2>4. MaxInFlight * faults' = MaxInFlight * faults + MaxInFlight
    BY <1>2, <1>4
  <2> QED
    BY <2>1, <2>3, <2>4
<1>5. \A h \in Handles : IsFiniteSet({h}) /\ Cardinality({h}) <= MaxInFlight
  <2>1. \A h \in Handles : IsFiniteSet({h}) /\ Cardinality({h}) = 1
    BY FS_Singleton
  <2>2. 1 <= MaxInFlight
    BY <1>1
  <2> QED
    BY <2>1, <2>2
<1>6. Cardinality(DOMAIN running) <= MaxInFlight
  BY DEF CapInv
<1> QED
  BY <1>1, <1>3, <1>4, <1>5, <1>6

(* A step keeps the invariant that keeps its first two parts, adds no more   *)
(* containers than one, and leaves no more untracked than faults pay for.   *)
LEMMA CapKept ==
    ASSUME IndInv, CapInv,
           Cardinality(DOMAIN running') <= MaxInFlight,
           RunnerObeys => DOMAIN container' = DOMAIN running',
           IsFiniteSet(DOMAIN running'),
           \/ Untracked' \subseteq Untracked /\ faults' = faults
           \/ /\ faults' = faults + 1
              /\ \/ Untracked' \subseteq Untracked \cup DOMAIN running
                 \/ \E h \in Handles : Untracked' \subseteq Untracked \cup {h}
    PROVE  CapInv'
<1>1. IsFiniteSet(Untracked') /\ Cardinality(Untracked') <= MaxInFlight * faults'
  BY CapPaid
<1>2. IsFiniteSet(Untracked' \cup DOMAIN running')
  BY <1>1, FS_Union
<1>3. DOMAIN container' \subseteq Untracked' \cup DOMAIN running'
  BY DEF Untracked
<1>4. IsFiniteSet(DOMAIN container')
  BY <1>2, <1>3, FS_Subset
<1> QED
  BY <1>1, <1>4 DEF CapInv, RunnerObeys

LEMMA CapReap ==
    ASSUME IndInv, CapInv, NEW h \in Handles, Reap(h)
    PROVE  CapInv'
<1>1. h \in DOMAIN running /\ running' = Without(running, {h})
  BY DEF Reap, ReapExited, ReapOverrun, ReapLost, Reaped, IndInv, TypeOK
<1>2. /\ RunnerObeys => container' = Without(container, {h})
      /\ \/ container' = Without(container, {h}) /\ faults' \in {faults, faults + 1}
         \/ container' = container /\ faults' = faults + 1
  BY DEF Reap, ReapExited, ReapOverrun, ReapLost, Fault, RunnerObeys
<1>3. DOMAIN running' = DOMAIN running \ {h} /\ IsFiniteSet(DOMAIN running)
  BY <1>1 DEF Without, IndInv, Distinct
<1>4. Cardinality(DOMAIN running') = Cardinality(DOMAIN running) - 1
  BY <1>1, <1>3, FS_RemoveElement
<1>5. Cardinality(DOMAIN running) \in Nat /\ IsFiniteSet(DOMAIN running')
  BY <1>3, FS_CardinalityType, FS_Subset
<1>6. Cardinality(DOMAIN running') <= MaxInFlight
  BY <1>4, <1>5, LimitsAssumption DEF CapInv
<1>7. container' = Without(container, {h}) => DOMAIN container' = DOMAIN container \ {h}
  BY DEF Without
<1>8. RunnerObeys => DOMAIN container' = DOMAIN running'
  BY <1>2, <1>3, <1>7 DEF CapInv
<1>9. \/ Untracked' \subseteq Untracked
      \/ Untracked' \subseteq Untracked \cup {h} /\ faults' = faults + 1
  BY <1>2, <1>3, <1>7 DEF Untracked
<1> QED
  BY <1>2, <1>5, <1>6, <1>8, <1>9, CapKept

(* The process ends, and what it tracked runs on. *)
LEMMA CapDies ==
    ASSUME IndInv, CapInv, Die, ~RunnerObeys, faults' = faults + 1
    PROVE  CapInv'
<1>1. DOMAIN running' = {} /\ DOMAIN container' \subseteq DOMAIN container
  BY DEF Die, Without
<1>2. /\ Cardinality(DOMAIN running') <= MaxInFlight /\ IsFiniteSet(DOMAIN running')
      /\ Untracked' \subseteq Untracked \cup DOMAIN running
  BY <1>1, FS_EmptySet, LimitsAssumption DEF Untracked
<1> QED
  BY <1>2, CapKept

LEMMA CapLaunch ==
    ASSUME IndInv, CapInv, Launch
    PROVE  CapInv'
<1>1. ASSUME Handles \ DOMAIN container # {}, LaunchAccepted(Fresh) PROVE CapInv'
  <2>1. PICK h : h = Fresh
    OBVIOUS
  <2>2. h \in Handles /\ h \notin DOMAIN container /\ h \notin DOMAIN running
    BY <1>1, <2>1 DEF Fresh, IndInv, TypeOK
  <2>3. /\ DOMAIN running' = DOMAIN running \cup {h}
        /\ DOMAIN container' = DOMAIN container \cup {h}
        /\ Free > 0 /\ faults' = faults
    BY <1>1, <2>1 DEF LaunchAccepted, LaunchTurn, Started, With
  <2>4. IsFiniteSet(DOMAIN running) /\ Cardinality(DOMAIN running) \in Nat
    BY FS_CardinalityType DEF IndInv, Distinct
  <2>5. Cardinality(DOMAIN running') = Cardinality(DOMAIN running) + 1
        /\ IsFiniteSet(DOMAIN running')
    BY <2>2, <2>3, <2>4, FS_AddElement
  <2>6. Cardinality(DOMAIN running') <= MaxInFlight
    BY <2>3, <2>4, <2>5, LimitsAssumption DEF Free
  <2>7. Untracked' \subseteq Untracked /\ (RunnerObeys => DOMAIN container' = DOMAIN running')
    BY <2>3 DEF Untracked, CapInv
  <2> QED
    BY <2>3, <2>5, <2>6, <2>7, CapKept
<1>2. ASSUME LaunchRefused PROVE CapInv'
  <2>1. /\ running' = running /\ (RunnerObeys => container' = container)
        /\ \/ container' = container /\ faults' = faults
           \/ /\ faults' = faults + 1 /\ Handles \ DOMAIN container # {}
              /\ DOMAIN container' = DOMAIN container \cup {Fresh}
    BY <1>2 DEF LaunchRefused, Fault, RunnerObeys, Started, With
  <2>2. \/ Untracked' \subseteq Untracked /\ faults' = faults
        \/ faults' = faults + 1 /\ \E h \in Handles : Untracked' \subseteq Untracked \cup {h}
    <3>1. Handles \ DOMAIN container # {} => Fresh \in Handles
      BY DEF Fresh
    <3> QED
      BY <2>1, <3>1 DEF Untracked
  <2>3. IsFiniteSet(DOMAIN running)
    BY DEF IndInv, Distinct
  <2> QED
    BY <2>1, <2>2, <2>3, CapKept DEF CapInv
<1>3. ASSUME LaunchRaises PROVE CapInv'
  BY <1>3, CapDies DEF LaunchRaises, Fault, RunnerObeys
<1> QED
  BY <1>1, <1>2, <1>3 DEF Launch

LEMMA CapStep == IndInv /\ CapInv /\ [Next]_vars => CapInv'
<1> SUFFICES ASSUME IndInv, CapInv, [Next]_vars PROVE CapInv'
  OBVIOUS
<1>0. faults \in Nat /\ faults' \in {faults, faults + 1} /\ IsFiniteSet(DOMAIN running)
  BY FaultsCount DEF IndInv, Distinct
<1>1. ASSUME running' = running, DOMAIN container' = DOMAIN container PROVE CapInv'
  <2>1. Untracked' = Untracked
    BY <1>1 DEF Untracked
  <2> QED
    BY <1>0, <1>1, <2>1, CapKept DEF CapInv
<1>2. CASE \/ Start \/ Begin \/ ReapEnd \/ LaunchEnd \/ ReceiveOne \/ ReceiveEnd
           \/ Unpack \/ UnpackEnd \/ Check \/ Signal
           \/ \E h \in Handles : PassOver(h) \/ TaskOverruns(h)
           \/ \E m \in Messages : PublishNew(m) \/ Expires(m)
           \/ UNCHANGED vars
  <2>1. UNCHANGED <<running, container>>
    BY <1>2 DEF Start, Begin, ReapEnd, LaunchEnd, ReceiveOne, ReceiveEnd, Unpack,
       UnpackEnd, Check, Signal, PassOver, TaskOverruns, PublishNew, Expires, vars,
       taskVars, runnerVars
  <2> QED
    BY <1>1, <2>1
<1>3. ASSUME NEW h \in Handles, ContainerExits(h) PROVE CapInv'
  <2>1. running' = running /\ faults' = faults
    BY <1>3 DEF ContainerExits, taskVars
  <2>2. CASE h \in DOMAIN running
    <3>1. DOMAIN container' = DOMAIN container
      BY <1>3, <2>2 DEF ContainerExits, With
    <3> QED
      BY <1>1, <2>1, <3>1
  <2>3. CASE h \notin DOMAIN running
    <3>1. ~RunnerObeys
      BY <1>3, <2>3 DEF ContainerExits, CapInv
    <3>2. Untracked' \subseteq Untracked
      BY <1>3, <2>1, <2>3 DEF ContainerExits, Without, Untracked
    <3> QED
      BY <1>0, <2>1, <3>1, <3>2, CapKept DEF CapInv
  <2> QED
    BY <2>2, <2>3
<1>4. ASSUME Crash \/ ReapRaises PROVE CapInv'
  BY <1>4, CapDies DEF Crash, ReapRaises, Fault, RunnerObeys
<1> QED
  BY <1>2, <1>3, <1>4, CapLaunch, CapReap DEF Next, Loop, Environment

LEMMA CapInit == Init => CapInv
<1> SUFFICES ASSUME Init PROVE CapInv
  OBVIOUS
<1>1. DOMAIN running = {} /\ DOMAIN container = {} /\ faults = 0 /\ Untracked = {}
  BY DEF Init, Untracked
<1>2. IsFiniteSet({}) /\ Cardinality({}) = 0
  BY FS_EmptySet
<1> QED
  BY <1>1, <1>2, LimitsAssumption DEF CapInv

(* As long as the runner obeys, never more than max_in_flight containers     *)
(* exist; and each fault lets that many more exist at most.                 *)
THEOREM CapIsKept == Spec => []CapHolds
<1>1. Init => CapInv
  BY CapInit
<1>2. IndInv /\ CapInv => CapHolds
  <2> SUFFICES ASSUME IndInv, CapInv PROVE CapHolds
    OBVIOUS
  <2>1. /\ MaxInFlight \in Nat /\ faults \in Nat /\ IsFiniteSet(DOMAIN running)
        /\ IsFiniteSet(Untracked) /\ DOMAIN container \subseteq Untracked \cup DOMAIN running
    BY LimitsAssumption, FS_Subset DEF IndInv, TypeOK, Distinct, CapInv, Untracked
  <2>2. /\ Cardinality(DOMAIN container) <= Cardinality(Untracked) + Cardinality(DOMAIN running)
        /\ Cardinality(Untracked) \in Nat /\ Cardinality(DOMAIN running) \in Nat
        /\ Cardinality(DOMAIN container) \in Nat
    BY <2>1, AddedTo
  <2>3. MaxInFlight * (1 + faults) = MaxInFlight * faults + MaxInFlight
        /\ MaxInFlight * faults \in Nat
    BY <2>1
  <2>4. Cardinality(DOMAIN container) <= MaxInFlight * (1 + faults)
    BY <2>1, <2>2, <2>3 DEF CapInv
  <2> QED
    BY <2>4 DEF CapInv, CapHolds
<1> QED
  BY <1>1, <1>2, CapStep, InvariantHolds, PTL DEF Spec

-----------------------------------------------------------------------------
(* max_messages: what is claimed and what is still to be claimed counts      *)
(* against it together with what was received before.                       *)
LimitInv ==
    /\ LimitHolds
    /\ pc # "receive" => want = 0
    /\ pc \notin {"receive", "unpack"} => claimed = <<>>

LEMMA LimitControl ==
    ASSUME IndInv, LimitInv,
           \/ Start \/ Begin \/ ReapEnd \/ ReceiveEnd \/ UnpackEnd \/ Check \/ Signal
           \/ \E h \in Handles : PassOver(h) \/ TaskOverruns(h) \/ ContainerExits(h) \/ Reap(h)
           \/ \E m \in Messages : PublishNew(m) \/ Expires(m)
           \/ LaunchRefused
           \/ \E h : LaunchAccepted(h)
           \/ UNCHANGED vars
    PROVE  LimitInv'
<1>1. CASE \/ Start \/ Begin \/ ReapEnd \/ Check \/ Signal
           \/ \E h \in Handles : PassOver(h) \/ TaskOverruns(h) \/ ContainerExits(h)
           \/ \E m \in Messages : PublishNew(m) \/ Expires(m)
           \/ UNCHANGED vars
  <2>1. /\ UNCHANGED <<want, claimed, stats>>
        /\ pc' = pc \/ (pc \notin {"receive", "unpack"} /\ pc' \notin {"receive", "unpack"})
    BY <1>1 DEF Start, Begin, ReapEnd, Check, Signal, PassOver, TaskOverruns,
       ContainerExits, PublishNew, Expires, vars, loopVars
  <2> QED
    BY <2>1 DEF LimitInv, LimitHolds
<1>2. CASE ReceiveEnd
  BY <1>2 DEF ReceiveEnd, LimitInv, LimitHolds
<1>3. CASE UnpackEnd
  BY <1>3 DEF UnpackEnd, LimitInv, LimitHolds, loopVars
<1>4. CASE \/ \E h \in Handles : Reap(h)
           \/ LaunchRefused
           \/ \E h : LaunchAccepted(h)
  <2>1. /\ UNCHANGED <<pc, want, claimed>>
        /\ \E n, b : Settle(n, b)
    BY <1>4 DEF Reap, ReapExited, ReapOverrun, ReapLost, Reaped, LaunchRefused,
       LaunchAccepted, Popped
  <2>2. stats'.received = stats.received
    BY <2>1 DEF Settle, SettleCounting, Verdict, IndInv, TypeOK, Stats
  <2> QED
    BY <2>1, <2>2 DEF LimitInv, LimitHolds
<1> QED
  BY <1>1, <1>2, <1>3, <1>4

LEMMA LimitLaunchEnd ==
    ASSUME IndInv, LimitInv, LaunchEnd
    PROVE  LimitInv'
<1>1. claimed = <<>> /\ want = 0 /\ claimed' = claimed /\ stats' = stats
  BY DEF LaunchEnd, LimitInv
<1>2. CASE pc' = "check" /\ want' = want
  BY <1>1, <1>2 DEF LimitInv, LimitHolds
<1>3. CASE pc' = "receive" /\ want' = Room
  <2>1. /\ stats.received \in Nat /\ MaxMessages \in Nat
        /\ "max_messages" \in Options => stats.received <= MaxMessages
    BY <1>1, LimitsAssumption DEF LimitInv, LimitHolds, IndInv, TypeOK, Stats
  <2>2. IsFiniteSet(DOMAIN running)
    BY DEF IndInv, Distinct
  <2>3. Free \in Int
    BY <2>2, FS_CardinalityType, LimitsAssumption DEF Free
  <2>4. "max_messages" \in Options => stats.received + Room <= MaxMessages
    BY <2>1, <2>3, LimitsAssumption DEF Room, Least
  <2> QED
    BY <1>1, <1>3, <2>1, <2>3, <2>4, LimitsAssumption DEF LimitInv, LimitHolds, Room, Least
<1> QED
  BY <1>2, <1>3 DEF LaunchEnd

LEMMA LimitReceiving ==
    ASSUME IndInv, LimitInv, ReceiveOne
    PROVE  LimitInv'
<1>1. /\ claimed \in Seq(Delivery) /\ want \in Nat /\ stats.received \in Nat
      /\ pc = "receive" /\ pc' = pc /\ stats' = stats
  BY DEF IndInv, TypeOK, Stats, ReceiveOne
<1>2. CASE want' = 0 /\ claimed' = claimed
  BY <1>1, <1>2, LimitsAssumption DEF LimitInv, LimitHolds
<1>3. CASE want' = want - 1 /\ \E e : claimed' = Append(claimed, e)
  <2>1. Len(claimed') = Len(claimed) + 1
    BY <1>1, <1>3
  <2> QED
    BY <1>1, <1>3, <2>1, LimitsAssumption DEF LimitInv, LimitHolds
<1> QED
  BY <1>2, <1>3 DEF ReceiveOne

LEMMA LimitUnpack ==
    ASSUME IndInv, LimitInv, Unpack
    PROVE  LimitInv'
<1>1. /\ claimed \in Seq(Delivery) /\ want \in Nat /\ stats \in Stats
      /\ pc = "unpack" /\ pc' = pc /\ want' = want
      /\ claimed # <<>> /\ claimed' = Tail(claimed)
  BY DEF IndInv, TypeOK, Unpack
<1>2. Bump("received") \in Stats /\ Bump("received").received = stats.received + 1
  BY <1>1 DEF Bump, Stats
<1>3. stats'.received = stats.received + 1
  <2>1. CASE \E n, b : SettleCounting(n, b, Bump("received"))
    BY <1>2, <2>1 DEF SettleCounting, Verdict, Stats
  <2>2. CASE stats' = Bump("received")
    BY <1>2, <2>2
  <2> QED
    BY <2>1, <2>2 DEF Unpack
<1>4. Len(claimed') = Len(claimed) - 1
  BY <1>1
<1> QED
  BY <1>1, <1>3, <1>4, LimitsAssumption DEF LimitInv, LimitHolds, Stats

LEMMA LimitStep == IndInv /\ LimitInv /\ [Next]_vars => LimitInv'
<1> SUFFICES ASSUME IndInv, LimitInv, [Next]_vars PROVE LimitInv'
  OBVIOUS
<1>1. ASSUME Die PROVE LimitInv'
  BY <1>1, LimitsAssumption DEF Die, LimitInv, LimitHolds, NoStats
<1> QED
  BY <1>1, LimitControl, LimitLaunchEnd, LimitReceiving, LimitUnpack
     DEF Next, Loop, Environment, Launch, LaunchRaises, ReapRaises, Crash

(* One process never claims more than max_messages messages. *)
THEOREM LimitIsKept == Spec => []LimitHolds
<1>1. Init => LimitInv
  BY LimitsAssumption DEF Init, LimitInv, LimitHolds, NoStats
<1>2. LimitInv => LimitHolds
  BY DEF LimitInv
<1> QED
  BY <1>1, <1>2, LimitStep, InvariantHolds, PTL DEF Spec

-----------------------------------------------------------------------------
(* The statistics: what was received is settled, or an open batch. *)
Open == {n \in DOMAIN batches : ~batches[n].settled}

Closed(count) == count.acked + count.retried + count.deadLettered

SettledInv == IsFiniteSet(DOMAIN batches) /\ SettledOnce

(* A call of _settle for a batch that is open, or that has just become one,  *)
(* moves it from the open batches to one counter, or leaves it among them.   *)
LEMMA SettleCounted ==
    ASSUME BatchesTyped, IsFiniteSet(DOMAIN batches),
           NEW n \in Nat, NEW b \in Batch, NEW count \in Stats,
           SettleCounting(n, b, count),
           b.settled => n \notin Open /\ count.received = Closed(count) + Cardinality(Open),
           ~b.settled => count.received = Closed(count) + Cardinality(Open \cup {n})
    PROVE  SettledInv'
<1>1. ASSUME NEW s \in BOOLEAN, Store(n, [b EXCEPT !.settled = s])
      PROVE  /\ IsFiniteSet(DOMAIN batches') /\ IsFiniteSet(Open')
             /\ Open' = IF s THEN Open \ {n} ELSE Open \cup {n}
  <2>1. PICK c \in Batch : c = [b EXCEPT !.settled = s]
    BY DEF Batch
  <2>2. c.settled = s
    BY <2>1 DEF Batch
  <2>3. /\ DOMAIN batches' = IF c.settled /\ c.running = 0
                             THEN DOMAIN batches \ {n} ELSE DOMAIN batches \cup {n}
        /\ \A k \in DOMAIN batches' : batches'[k] = IF k = n THEN c ELSE batches[k]
    BY <1>1, <2>1, StoreEffect
  <2>4. IsFiniteSet(DOMAIN batches')
    BY <2>3, FS_AddElement, FS_RemoveElement
  <2>5. Open' = IF s THEN Open \ {n} ELSE Open \cup {n}
    BY <2>2, <2>3 DEF Open
  <2> QED
    BY <2>4, <2>5, FS_Subset DEF Open
<1>2. IsFiniteSet(Open) /\ IsFiniteSet(Open \cup {n})
  <2>1. IsFiniteSet(Open)
    BY FS_Subset DEF Open
  <2> QED
    BY <2>1, FS_AddElement
<1>3. CASE NotYet(b) /\ Store(n, b) /\ stats' = count
  <2>1. PICK s \in BOOLEAN : s = b.settled /\ b = [b EXCEPT !.settled = s]
    BY DEF Batch
  <2>2. IsFiniteSet(DOMAIN batches') /\ Open' = IF s THEN Open \ {n} ELSE Open \cup {n}
    BY <1>1, <1>3, <2>1
  <2>3. stats'.received = Closed(stats') + Cardinality(Open')
    BY <1>3, <2>1, <2>2
  <2> QED
    BY <2>2, <2>3 DEF SettledInv, SettledOnce, Open, Closed
<1>4. ASSUME ~NotYet(b), NEW field \in {"acked", "retried", "deadLettered"},
             Verdict(n, b, count, field)
      PROVE  SettledInv'
  <2>1. ~b.settled
    BY <1>4 DEF NotYet
  <2>2. IsFiniteSet(DOMAIN batches') /\ IsFiniteSet(Open') /\ Open' = Open \ {n}
    BY <1>1, <1>4 DEF Verdict
  <2>3. Cardinality(Open \cup {n}) = Cardinality(Open') + 1 /\ Cardinality(Open') \in Nat
    <3>1. Open \cup {n} = Open' \cup {n} /\ n \notin Open'
      BY <2>2
    <3> QED
      BY <2>2, <3>1, FS_AddElement, FS_CardinalityType
  <2>4. stats'.received = count.received /\ Closed(stats') = Closed(count) + 1
    BY <1>4 DEF Verdict, Stats, Closed
  <2>5. count.received \in Nat /\ Closed(count) \in Nat
    BY DEF Stats, Closed
  <2>6. stats'.received = Closed(stats') + Cardinality(Open')
    BY <2>1, <2>3, <2>4, <2>5
  <2> QED
    BY <2>2, <2>6 DEF SettledInv, SettledOnce, Open, Closed
<1> QED
  BY <1>3, <1>4 DEF SettleCounting

(* The batch b stands in for batch n, no more and no less settled. *)
LEMMA SettleOldCounted ==
    ASSUME IndInv, SettledInv, NEW n \in DOMAIN batches, NEW b \in Batch,
           b.settled = batches[n].settled, Settle(n, b)
    PROVE  SettledInv'
<1>1. BatchesTyped /\ n \in Nat
  BY DEF IndInv, TypeOK, BatchesTyped
<1>2. PICK count \in Stats : count = stats
  BY DEF IndInv, TypeOK
<1>3. SettleCounting(n, b, count) /\ IsFiniteSet(DOMAIN batches)
  BY <1>2 DEF Settle, SettledInv
<1>4. count.received = Closed(count) + Cardinality(Open)
  BY <1>2 DEF SettledInv, SettledOnce, Closed, Open
<1>5. b.settled => n \notin Open
  BY DEF Open
<1>6. ~b.settled => Open \cup {n} = Open
  BY DEF Open
<1> QED
  BY <1>1, <1>3, <1>4, <1>5, <1>6, SettleCounted

(* The call of _settle in _reap is for a batch that exists. *)
LEMMA ReapedBatch ==
    ASSUME IndInv, NEW h \in Handles, NEW ok \in BOOLEAN, Reaped(h, ok)
    PROVE  \E n \in DOMAIN batches, b \in Batch :
                /\ b.settled = batches[n].settled /\ b.message = batches[n].message
                /\ Settle(n, b)
<1>1. Reaped(h, ok)
  OBVIOUS
<1>2. PICK n : n = running[h].batch
  OBVIOUS
<1>3. h \in DOMAIN running
  BY <1>1 DEF Reaped, IndInv, TypeOK
<1>4. n \in DOMAIN batches
  BY <1>2, <1>3 DEF IndInv, Bookkeeping, Range
<1>5. PICK old \in Batch : old = batches[n]
  BY <1>4 DEF IndInv, TypeOK
<1>6. old.running >= 1
  <2>1. IsFiniteSet(DOMAIN running)
    BY DEF IndInv, Distinct
  <2>2. Cardinality({g \in DOMAIN running : running[g].batch = n}) >= 1
    BY <1>2, <1>3, <2>1, CountHandle
  <2> QED
    BY <1>4, <1>5, <2>2 DEF IndInv, Bookkeeping, RunningTasks
<1>7. PICK b : b = [old EXCEPT !.running = @ - 1, !.failed = @ \/ ~ok]
  OBVIOUS
<1>8. b \in Batch /\ b.settled = old.settled /\ b.message = old.message
  <2>1. b = [message |-> old.message, queued |-> old.queued, running |-> old.running - 1,
             failed |-> old.failed \/ ~ok, settled |-> old.settled]
    BY <1>7 DEF Batch
  <2>2. old.running - 1 \in Nat /\ (old.failed \/ ~ok) \in BOOLEAN
    BY <1>6 DEF Batch
  <2> QED
    BY <2>1, <2>2 DEF Batch
<1>9. Settle(n, b)
  BY <1>1, <1>2, <1>5, <1>7 DEF Reaped
<1> QED
  BY <1>4, <1>5, <1>8, <1>9

LEMMA SettledReap ==
    ASSUME IndInv, SettledInv, NEW h \in Handles, Reap(h)
    PROVE  SettledInv'
<1>1. PICK ok \in BOOLEAN : Reaped(h, ok)
  BY DEF Reap, ReapExited, ReapOverrun, ReapLost
<1> QED
  BY <1>1, ReapedBatch, SettleOldCounted

(* So is the one in _launch. *)
LEMMA LaunchedBatch ==
    ASSUME IndInv, \/ LaunchRefused
                   \/ \E h : LaunchAccepted(h)
    PROVE  \E n \in DOMAIN batches, b \in Batch :
                /\ b.settled = batches[n].settled /\ b.message = batches[n].message
                /\ Settle(n, b)
<1>1. PICK p : p = Head(pending)
  OBVIOUS
<1>2. /\ p.batch \in DOMAIN batches /\ batches[p.batch] \in Batch
      /\ batches[p.batch].queued >= 1
  BY <1>1, PoppedEffect DEF LaunchRefused, LaunchAccepted, LaunchTurn, Popped
<1>3. PICK old \in Batch : old = batches[p.batch]
  BY <1>2
<1>4. Popping = [message |-> old.message, queued |-> old.queued - 1,
                 running |-> old.running, failed |-> old.failed, settled |-> old.settled]
  <2>1. Popping = [old EXCEPT !.queued = @ - 1]
    BY <1>1, <1>3 DEF Popping
  <2> QED
    BY <2>1 DEF Batch
<1>5. old.queued - 1 \in Nat /\ old.running + 1 \in Nat
  BY <1>2, <1>3 DEF Batch
<1>6. CASE LaunchRefused
  <2>1. PICK b : b = [Popping EXCEPT !.failed = TRUE]
    OBVIOUS
  <2>2. b \in Batch /\ b.settled = old.settled /\ b.message = old.message
    <3>1. b = [message |-> old.message, queued |-> old.queued - 1,
               running |-> old.running, failed |-> TRUE, settled |-> old.settled]
      BY <1>4, <2>1
    <3> QED
      BY <1>5, <3>1 DEF Batch
  <2>3. Settle(p.batch, b)
    BY <1>1, <1>6, <2>1 DEF LaunchRefused, Settle
  <2> QED
    BY <1>2, <1>3, <2>2, <2>3
<1>7. CASE \E h : LaunchAccepted(h)
  <2>1. PICK b : b = [message |-> old.message, queued |-> old.queued - 1,
                      running |-> old.running + 1, failed |-> old.failed,
                      settled |-> old.settled]
    OBVIOUS
  <2>2. b \in Batch /\ b.settled = old.settled /\ b.message = old.message
    BY <1>5, <2>1 DEF Batch
  <2>3. Settle(p.batch, b)
    BY <1>1, <1>4, <1>7, <2>1 DEF LaunchAccepted
  <2> QED
    BY <1>2, <1>3, <2>2, <2>3
<1> QED
  BY <1>6, <1>7

LEMMA SettledLaunch ==
    ASSUME IndInv, SettledInv, \/ LaunchRefused
                               \/ \E h : LaunchAccepted(h)
    PROVE  SettledInv'
BY LaunchedBatch, SettleOldCounted

(* _receive settles, or leaves open, a batch that is new. *)
LEMMA UnpackedBatch ==
    ASSUME IndInv, Unpack
    PROVE  \E n \in Nat \ DOMAIN batches, count \in Stats, b \in Batch :
                /\ ~b.settled /\ b.message = Head(claimed)
                /\ count.received = stats.received + 1 /\ Closed(count) = Closed(stats)
                /\ SettleCounting(n, b, count)
<1>1. PICK n : n = stats.received + 1
  OBVIOUS
<1>2. PICK d : d = Head(claimed)
  OBVIOUS
<1>3. PICK count : count = Bump("received")
  OBVIOUS
<1>4. d \in Delivery
  BY <1>2, HeadTailProperties DEF Unpack, IndInv, TypeOK
<1>5. n \in Nat /\ n \notin DOMAIN batches
  BY <1>1 DEF IndInv, TypeOK, Stats, Numbered
<1>6. /\ count \in Stats
      /\ count.received = stats.received + 1 /\ Closed(count) = Closed(stats)
  BY <1>3 DEF Bump, IndInv, TypeOK, Stats, Closed
<1>7. PICK b \in Batch : ~b.settled /\ b.message = d /\ SettleCounting(n, b, count)
  <2> DEFINE base == [message |-> d, queued |-> 0, running |-> 0, failed |-> FALSE,
                      settled |-> FALSE]
  <2>1. base \in Batch /\ ~base.settled /\ base.message = d
    BY <1>4 DEF Batch
  <2>2. CASE SettleCounting(n, [base EXCEPT !.failed = TRUE], count)
    <3>1. /\ [base EXCEPT !.failed = TRUE] \in Batch
          /\ ~[base EXCEPT !.failed = TRUE].settled
          /\ [base EXCEPT !.failed = TRUE].message = d
      BY <2>1 DEF Batch
    <3> QED
      BY <2>2, <3>1
  <2>3. CASE SettleCounting(n, base, count)
    BY <2>1, <2>3
  <2>4. CASE /\ Docs[d.id] > 0
             /\ batches' = With(batches, n, [base EXCEPT !.queued = Docs[d.id]])
             /\ stats' = count /\ UNCHANGED queueVars
    <3>1. PICK b : b = [base EXCEPT !.queued = Docs[d.id]]
      OBVIOUS
    <3>2. b \in Batch /\ ~b.settled /\ b.message = d /\ b.queued > 0
      BY <1>4, <2>4, <3>1, DocsAssumption DEF Batch, Delivery
    <3>3. SettleCounting(n, b, count)
      BY <2>4, <3>1, <3>2 DEF SettleCounting, NotYet, Store
    <3> QED
      BY <3>2, <3>3
  <2> QED
    BY <1>1, <1>2, <1>3, <2>2, <2>3, <2>4 DEF Unpack
<1> QED
  BY <1>2, <1>5, <1>6, <1>7

LEMMA SettledUnpack ==
    ASSUME IndInv, SettledInv, Unpack
    PROVE  SettledInv'
<1>1. PICK n \in Nat \ DOMAIN batches, count \in Stats, b \in Batch :
        /\ ~b.settled
        /\ count.received = stats.received + 1 /\ Closed(count) = Closed(stats)
        /\ SettleCounting(n, b, count)
  BY UnpackedBatch
<1>2. BatchesTyped /\ IsFiniteSet(DOMAIN batches)
  BY DEF IndInv, TypeOK, BatchesTyped, SettledInv
<1>3. IsFiniteSet(Open) /\ n \notin Open /\ Cardinality(Open \cup {n}) = Cardinality(Open) + 1
  <2>1. IsFiniteSet(Open) /\ n \notin Open
    BY <1>1, <1>2, FS_Subset DEF Open
  <2> QED
    BY <2>1, FS_AddElement
<1>4. count.received = Closed(count) + Cardinality(Open \cup {n})
  <2>1. stats.received = Closed(stats) + Cardinality(Open)
    BY DEF SettledInv, SettledOnce, Open, Closed
  <2>2. Closed(stats) \in Nat /\ Cardinality(Open) \in Nat
    BY <1>3, FS_CardinalityType DEF IndInv, TypeOK, Stats, Closed
  <2> QED
    BY <1>1, <1>3, <2>1, <2>2
<1> QED
  BY <1>1, <1>2, <1>4, SettleCounted

LEMMA SettledStep == IndInv /\ SettledInv /\ [Next]_vars => SettledInv'
<1> SUFFICES ASSUME IndInv, SettledInv, [Next]_vars PROVE SettledInv'
  OBVIOUS
<1>1. ASSUME UNCHANGED <<batches, stats>> PROVE SettledInv'
  BY <1>1 DEF SettledInv, SettledOnce
<1>2. CASE \/ Start \/ Begin \/ ReapEnd \/ LaunchEnd \/ ReceiveOne \/ ReceiveEnd
           \/ UnpackEnd \/ Check \/ Signal
           \/ \E h \in Handles : PassOver(h) \/ TaskOverruns(h) \/ ContainerExits(h)
           \/ \E m \in Messages : PublishNew(m) \/ Expires(m)
           \/ UNCHANGED vars
  <2>1. UNCHANGED <<batches, stats>>
    BY <1>2 DEF Start, Begin, ReapEnd, LaunchEnd, ReceiveOne, ReceiveEnd, UnpackEnd,
       Check, Signal, PassOver, TaskOverruns, ContainerExits, PublishNew, Expires, vars,
       taskVars
  <2> QED
    BY <1>1, <2>1
<1>3. ASSUME Die PROVE SettledInv'
  <2>1. DOMAIN batches' = {} /\ stats' = NoStats
    BY <1>3 DEF Die
  <2>2. {n \in DOMAIN batches' : ~batches'[n].settled} = {}
    BY <2>1
  <2> QED
    BY <2>1, <2>2, FS_EmptySet DEF SettledInv, SettledOnce, NoStats
<1> QED
  BY <1>2, <1>3, SettledReap, SettledLaunch, SettledUnpack
     DEF Next, Loop, Environment, Launch, LaunchRaises, ReapRaises, Crash

(* Every delivery received is acked, retried or dead-lettered once, or its   *)
(* batch is still open.                                                     *)
THEOREM SettledExactlyOnce == Spec => []SettledOnce
<1>1. Init => SettledInv
  <2> SUFFICES ASSUME Init PROVE SettledInv
    OBVIOUS
  <2>1. DOMAIN batches = {} /\ stats = NoStats
    BY DEF Init
  <2>2. {n \in DOMAIN batches : ~batches[n].settled} = {}
    BY <2>1
  <2> QED
    BY <2>1, <2>2, FS_EmptySet DEF SettledInv, SettledOnce, NoStats
<1>2. SettledInv => SettledOnce
  BY DEF SettledInv
<1> QED
  BY <1>1, <1>2, SettledStep, InvariantHolds, PTL DEF Spec

-----------------------------------------------------------------------------
(* The end of the loop.  While the runner obeys, no claim is without an     *)
(* owner: a claimed message, or an open batch, and an open batch always     *)
(* still waits for something.  So a loop with nothing waiting and nothing   *)
(* running holds no claim.                                                 *)
Awaiting == \A n \in DOMAIN batches : NotYet(batches[n])

Owned(m, c, bs) ==
    \/ \E d \in Range(c) : d.id = m
    \/ \E k \in DOMAIN bs : ~bs[k].settled /\ bs[k].message.id = m

HeldInv ==
    /\ Awaiting
    /\ RunnerObeys => \A m \in DOMAIN inflight : Owned(m, claimed, batches)
    /\ pc = "done" /\ AckOn = "exit" => pending = <<>> /\ DOMAIN running = {}

(* A call of _settle keeps every claim owned: those of the batch it is for   *)
(* stay that batch's, or are gone.                                          *)
LEMMA SettleOwned ==
    ASSUME BatchesTyped, Awaiting, NEW n \in Nat, NEW b \in Batch, NEW count \in Stats,
           SettleCounting(n, b, count), NEW c, NEW m \in DOMAIN inflight',
           \/ \E d \in Range(c) : d.id = m
           \/ \E k \in DOMAIN batches \ {n} : ~batches[k].settled /\ batches[k].message.id = m
           \/ ~b.settled /\ b.message.id = m
           \/ m \notin DOMAIN inflight
    PROVE  Owned(m, c, batches')
<1>1. CASE NotYet(b) /\ Store(n, b) /\ UNCHANGED queueVars
  <2>1. /\ DOMAIN batches' = IF b.settled /\ b.running = 0
                             THEN DOMAIN batches \ {n} ELSE DOMAIN batches \cup {n}
        /\ \A k \in DOMAIN batches' : batches'[k] = IF k = n THEN b ELSE batches[k]
    BY <1>1, StoreEffect
  <2>2. m \in DOMAIN inflight
    BY <1>1 DEF queueVars
  <2> QED
    BY <2>1, <2>2 DEF Owned
<1>2. ASSUME ~NotYet(b), NEW field, Verdict(n, b, count, field),
             Ack(b.message) \/ DeadLetter(b.message) \/ Nack(b.message)
      PROVE  Owned(m, c, batches')
  <2>1. PICK s \in Batch : s = [b EXCEPT !.settled = TRUE]
    BY DEF Batch
  <2>2. Store(n, s)
    BY <1>2, <2>1 DEF Verdict
  <2>3. /\ DOMAIN batches' = IF s.settled /\ s.running = 0
                             THEN DOMAIN batches \ {n} ELSE DOMAIN batches \cup {n}
        /\ \A k \in DOMAIN batches' : batches'[k] = IF k = n THEN s ELSE batches[k]
    BY <2>2, StoreEffect
  <2>4. m \in DOMAIN inflight /\ m # b.message.id
    BY <1>2 DEF Ack, DeadLetter, Nack, Without, queueVars
  <2> QED
    BY <2>3, <2>4 DEF Owned
<1> QED
  BY <1>1, <1>2 DEF SettleCounting

LEMMA SettleAwaiting ==
    ASSUME BatchesTyped, Awaiting, NEW n \in Nat, NEW b \in Batch, NEW count \in Stats,
           SettleCounting(n, b, count)
    PROVE  Awaiting'
<1>1. CASE NotYet(b) /\ Store(n, b)
  <2>1. \A k \in DOMAIN batches' :
            (k = n /\ batches'[k] = b) \/ (k \in DOMAIN batches /\ batches'[k] = batches[k])
    BY <1>1, StoreEffect
  <2> QED
    BY <1>1, <2>1 DEF Awaiting, NotYet
<1>2. ASSUME NEW field, Verdict(n, b, count, field) PROVE Awaiting'
  <2>1. PICK s \in Batch : s = [b EXCEPT !.settled = TRUE]
    BY DEF Batch
  <2>2. s.settled
    BY <2>1 DEF Batch
  <2>3. Store(n, s)
    BY <1>2, <2>1 DEF Verdict
  <2>4. /\ DOMAIN batches' \subseteq DOMAIN batches \cup {n}
        /\ \A k \in DOMAIN batches' : batches'[k] = IF k = n THEN s ELSE batches[k]
    BY <2>3, StoreEffect
  <2> QED
    BY <2>2, <2>4 DEF Awaiting, NotYet
<1> QED
  BY <1>1, <1>2 DEF SettleCounting

(* The batch b stands in for batch n, no more and no less settled. *)
LEMMA SettleOldHeld ==
    ASSUME IndInv, HeldInv, NEW n \in DOMAIN batches, NEW b \in Batch,
           b.settled = batches[n].settled, b.message = batches[n].message,
           Settle(n, b), UNCHANGED <<claimed, pc>>, pc # "done"
    PROVE  HeldInv'
<1>1. BatchesTyped /\ n \in Nat /\ Awaiting
  BY DEF IndInv, TypeOK, BatchesTyped, HeldInv
<1>2. PICK count \in Stats : count = stats
  BY DEF IndInv, TypeOK
<1>3. SettleCounting(n, b, count)
  BY <1>2 DEF Settle
<1>4. Awaiting'
  BY <1>1, <1>3, SettleAwaiting
<1>5. ASSUME RunnerObeys, NEW m \in DOMAIN inflight' PROVE Owned(m, claimed, batches')
  <2>1. \/ \E d \in Range(claimed) : d.id = m
        \/ \E k \in DOMAIN batches \ {n} : ~batches[k].settled /\ batches[k].message.id = m
        \/ ~b.settled /\ b.message.id = m
        \/ m \notin DOMAIN inflight
    BY <1>5 DEF HeldInv, Owned
  <2> QED
    BY <1>1, <1>3, <2>1, SettleOwned
<1> QED
  BY <1>4, <1>5 DEF HeldInv, RunnerObeys

LEMMA HeldReap ==
    ASSUME IndInv, HeldInv, NEW h \in Handles, Reap(h)
    PROVE  HeldInv'
<1>1. PICK ok \in BOOLEAN : Reaped(h, ok)
  BY DEF Reap, ReapExited, ReapOverrun, ReapLost
<1>2. PICK n \in DOMAIN batches, b \in Batch :
                  /\ b.settled = batches[n].settled /\ b.message = batches[n].message
                  /\ Settle(n, b)
  BY <1>1, ReapedBatch
<1>3. UNCHANGED <<claimed, pc>> /\ pc # "done"
  BY <1>1 DEF Reaped
<1> QED
  BY <1>2, <1>3, SettleOldHeld

LEMMA HeldLaunch ==
    ASSUME IndInv, HeldInv, \/ LaunchRefused
                            \/ \E h : LaunchAccepted(h)
    PROVE  HeldInv'
<1>1. PICK n \in DOMAIN batches, b \in Batch :
                  /\ b.settled = batches[n].settled /\ b.message = batches[n].message
                  /\ Settle(n, b)
  BY LaunchedBatch
<1>2. UNCHANGED <<claimed, pc>> /\ pc # "done"
  BY DEF LaunchRefused, LaunchAccepted, LaunchTurn, Popped
<1> QED
  BY <1>1, <1>2, SettleOldHeld

LEMMA HeldUnpack ==
    ASSUME IndInv, HeldInv, Unpack
    PROVE  HeldInv'
<1>1. PICK n \in Nat \ DOMAIN batches, count \in Stats, b \in Batch :
        ~b.settled /\ b.message = Head(claimed) /\ SettleCounting(n, b, count)
  BY UnpackedBatch
<1>2. BatchesTyped /\ Awaiting /\ claimed \in Seq(Delivery) /\ claimed # <<>>
  BY DEF IndInv, TypeOK, BatchesTyped, HeldInv, Unpack
<1>3. Range(claimed) = {Head(claimed)} \cup Range(claimed')
  BY <1>1, <1>2, RangeTail DEF Unpack
<1>4. Awaiting'
  BY <1>1, <1>2, SettleAwaiting
<1>5. ASSUME RunnerObeys, NEW m \in DOMAIN inflight' PROVE Owned(m, claimed', batches')
  <2>1. \/ \E e \in Range(claimed') : e.id = m
        \/ \E k \in DOMAIN batches \ {n} : ~batches[k].settled /\ batches[k].message.id = m
        \/ ~b.settled /\ b.message.id = m
        \/ m \notin DOMAIN inflight
    BY <1>1, <1>3, <1>5 DEF HeldInv, Owned
  <2> QED
    BY <1>1, <1>2, <2>1, SettleOwned
<1>6. pc' # "done"
  BY DEF Unpack
<1> QED
  BY <1>4, <1>5, <1>6 DEF HeldInv, RunnerObeys

LEMMA HeldReceive ==
    ASSUME IndInv, HeldInv, ReceiveOne
    PROVE  HeldInv'
<1>1. /\ QueueTypeOK /\ claimed \in Seq(Delivery)
      /\ batches' = batches /\ pc' # "done"
  BY DEF IndInv, TypeOK, ReceiveOne, taskVars
<1>2. Awaiting'
  BY <1>1 DEF HeldInv, Awaiting, NotYet
<1>3. CASE ReceiveNone /\ UNCHANGED claimed
  <2>1. inflight' = inflight /\ claimed' = claimed
    BY <1>3 DEF ReceiveNone, queueVars
  <2> QED
    BY <1>1, <1>2, <2>1 DEF HeldInv, RunnerObeys
<1>4. CASE \E q \in AfterReap : Receive(q) /\ claimed' = Append(claimed, Delivering(q))
  <2>1. PICK q \in AfterReap : Receive(q) /\ claimed' = Append(claimed, Delivering(q))
    BY <1>4
  <2>2. PICK d \in Delivery : d = Delivering(q)
    BY <1>1, <2>1, ReceiveEffect
  <2>3. Range(claimed') = Range(claimed) \cup {d}
    BY <1>1, <2>1, <2>2, RangeAppend
  <2>4. \A m \in DOMAIN inflight' : m \in DOMAIN inflight \/ m = d.id
    BY <2>1, <2>2 DEF Receive, With, Without
  <2>5. ASSUME RunnerObeys, NEW m \in DOMAIN inflight' PROVE Owned(m, claimed', batches')
    BY <1>1, <2>3, <2>4, <2>5 DEF HeldInv, Owned
  <2> QED
    BY <1>1, <1>2, <2>5 DEF HeldInv, RunnerObeys
<1> QED
  BY <1>3, <1>4 DEF ReceiveOne

LEMMA HeldStep == IndInv /\ HeldInv /\ [Next]_vars => HeldInv'
<1> SUFFICES ASSUME IndInv, HeldInv, [Next]_vars PROVE HeldInv'
  OBVIOUS
<1>1. CASE \/ Start \/ Begin \/ ReapEnd \/ LaunchEnd \/ ReceiveEnd \/ UnpackEnd \/ Check
           \/ Signal
           \/ \E h \in Handles : PassOver(h) \/ TaskOverruns(h) \/ ContainerExits(h)
           \/ \E m \in Messages : PublishNew(m) \/ Expires(m)
           \/ UNCHANGED vars
  <2>1. UNCHANGED <<claimed, batches, pending, running>>
    BY <1>1 DEF Start, Begin, ReapEnd, LaunchEnd, ReceiveEnd, UnpackEnd, Check, Signal,
       PassOver, TaskOverruns, ContainerExits, PublishNew, Expires, vars, taskVars, loopVars
  <2>2. DOMAIN inflight' \subseteq DOMAIN inflight
    BY <1>1 DEF Start, Begin, ReapEnd, LaunchEnd, ReceiveEnd, UnpackEnd, Check, Signal,
       PassOver, TaskOverruns, ContainerExits, PublishNew, Expires, vars, queueVars,
       Depth, Publish, ClaimExpires, Without
  <2>3. pc' = "done" => pc = "done" \/ (Check /\ MayEnd)
    BY <1>1 DEF Start, Begin, ReapEnd, LaunchEnd, ReceiveEnd, UnpackEnd, Check, Signal,
       PassOver, TaskOverruns, ContainerExits, PublishNew, Expires, vars
  <2>4. pc' = "done" /\ AckOn = "exit" => pending = <<>> /\ DOMAIN running = {}
    BY <2>3 DEF HeldInv, MayEnd, ModeAssumption
  <2> QED
    BY <2>1, <2>2, <2>4 DEF HeldInv, Awaiting, NotYet, RunnerObeys
<1>2. ASSUME Die, ~RunnerObeys PROVE HeldInv'
  BY <1>2 DEF Die, HeldInv, Awaiting, RunnerObeys
<1>3. LaunchRaises \/ ReapRaises \/ Crash => Die /\ ~RunnerObeys
  BY DEF LaunchRaises, ReapRaises, Crash, Fault, RunnerObeys
<1> QED
  BY <1>1, <1>2, <1>3, HeldReap, HeldLaunch, HeldUnpack, HeldReceive
     DEF Next, Loop, Environment, Launch

(* With ack_on=exit, and a runner that obeys, the loop ends with no claim    *)
(* held and no container left behind.                                       *)
THEOREM NothingLeft == Spec => []ExitLeavesNothing
<1>1. Init => CapInv /\ LimitInv /\ HeldInv
  BY CapInit, LimitsAssumption
     DEF Init, LimitInv, LimitHolds, NoStats, HeldInv, Awaiting
<1>2. IndInv /\ CapInv /\ LimitInv /\ HeldInv => ExitLeavesNothing
  <2> SUFFICES ASSUME IndInv, CapInv, LimitInv, HeldInv,
                      pc = "done", AckOn = "exit", RunnerObeys
               PROVE  inflight = [m \in {} |-> 0] /\ container = [h \in {} |-> 0]
    BY DEF ExitLeavesNothing
  <2>1. claimed = <<>> /\ pending = <<>> /\ DOMAIN running = {} /\ DOMAIN container = {}
    BY DEF LimitInv, HeldInv, CapInv
  <2>2. ASSUME NEW n \in DOMAIN batches PROVE batches[n].settled
    <3>1. QueuedTasks(n) = {} /\ RunningTasks(n) = {}
      BY <2>1 DEF QueuedTasks, RunningTasks, Range
    <3>2. batches[n].queued = 0 /\ batches[n].running = 0
      BY <3>1, FS_EmptySet DEF IndInv, Bookkeeping
    <3> QED
      BY <3>2 DEF HeldInv, Awaiting, NotYet
  <2>3. DOMAIN inflight = {}
    <3>1. Range(claimed) = {}
      BY <2>1 DEF Range
    <3> QED
      BY <2>2, <3>1 DEF HeldInv, Owned
  <2>4. /\ inflight \in [DOMAIN inflight -> Claim]
        /\ container \in [DOMAIN container ->
              [doc : Documents, state : {"running", "succeeded", "failed"}]]
    BY DEF IndInv, TypeOK, QueueTypeOK
  <2> QED
    BY <2>1, <2>3, <2>4
<1> QED
  BY <1>1, <1>2, CapStep, LimitStep, HeldStep, InvariantHolds, PTL DEF Spec

-----------------------------------------------------------------------------
(* A parked message stays parked.  As long as no claim lapses while it is    *)
(* worked on, a message is in one place: unpublished, once in ready, claimed, or    *)
(* dead; and each claim that has not lapsed has at most one holder, so that  *)
(* the verdict on it is the only one.                                       *)
NoExpiry == "expiry" \notin Faults \/ faults = 0

OneEach(s) == \A i, j \in DOMAIN s : s[i].id = s[j].id => i = j

OnePlace ==
    /\ OneEach(ready)
    /\ ReadyIds \cap DOMAIN inflight = {}
    /\ Parked \cap Outstanding = {}
    /\ unsent \cap (Parked \cup Outstanding) = {}

Live == {m \in DOMAIN inflight : ~inflight[m].expired}

(* The holders of live claims: the messages c just claimed, and the open    *)
(* ones among the batches bs.                                               *)
OneHolder(c, bs, live) ==
    /\ OneEach(c)
    /\ \A d \in Range(c) : d.id \in live
    /\ \A n \in DOMAIN bs : ~bs[n].settled =>
        /\ bs[n].message.id \in live
        /\ \A d \in Range(c) : d.id # bs[n].message.id
        /\ \A k \in DOMAIN bs :
            ~bs[k].settled /\ bs[k].message.id = bs[n].message.id => k = n

SoleInv == NoExpiry => OnePlace /\ OneHolder(claimed, batches, Live)

LEMMA OneEachAppend ==
    ASSUME NEW S, NEW s \in Seq(S), NEW e \in S, OneEach(s),
           \A x \in Range(s) : x.id # e.id
    PROVE  OneEach(Append(s, e))
<1>1. /\ DOMAIN s = 1..Len(s) /\ DOMAIN Append(s, e) = 1..(Len(s) + 1) /\ Len(s) \in Nat
      /\ \A i \in 1..Len(s) : Append(s, e)[i] = s[i]
      /\ Append(s, e)[Len(s) + 1] = e
  BY AppendProperties
<1>2. \A i \in 1..Len(s) : s[i] \in Range(s)
  BY <1>1 DEF Range
<1> QED
  BY <1>1, <1>2 DEF OneEach

LEMMA OneEachTail ==
    ASSUME NEW S, NEW s \in Seq(S), s # <<>>, OneEach(s)
    PROVE  OneEach(Tail(s)) /\ \A x \in Range(Tail(s)) : x.id # Head(s).id
<1>1. /\ Len(Tail(s)) = Len(s) - 1 /\ DOMAIN Tail(s) = 1..Len(Tail(s))
      /\ \A i \in 1..Len(Tail(s)) : Tail(s)[i] = s[i + 1]
  BY HeadTailProperties
<1>2. Len(s) \in Nat \ {0} /\ DOMAIN s = 1..Len(s) /\ Head(s) = s[1]
  BY EmptySeq
<1>3. \A i \in 1..Len(Tail(s)) : i + 1 \in DOMAIN s /\ i + 1 # 1 /\ 1 \in DOMAIN s
  BY <1>1, <1>2
<1>4. OneEach(Tail(s))
  BY <1>1, <1>2, <1>3 DEF OneEach
<1>5. \A x \in Range(Tail(s)) : x.id # Head(s).id
  BY <1>1, <1>2, <1>3 DEF OneEach, Range
<1> QED
  BY <1>4, <1>5

(* The lapsed claims that _reap puts back are each put back once. *)
LEMMA ReapOnce ==
    ASSUME QueueTypeOK, NEW q \in AfterReap, OneEach(ready),
           ReadyIds \cap DOMAIN inflight = {}
    PROVE  OneEach(q)
<1> DEFINE entry(m) == [id |-> m, attempts |-> inflight[m].attempts]
           entries == {entry(m) : m \in Expired}
           N == Cardinality(Expired)
<1>1. IsFiniteSet(Expired) /\ Expired \subseteq DOMAIN inflight /\ Expired \subseteq Messages
  BY MessagesAssumption, FS_Subset DEF QueueTypeOK, Expired
<1>2. N \in Nat
  BY <1>1, FS_CardinalityType
<1>3. PICK back \in Surjection(1..N, entries) : q = ready \o back
  BY DEF AfterReap
<1>4. IsFiniteSet(entries) /\ Cardinality(entries) = N
  <2>1. PICK f : f = [m \in Expired |-> entry(m)]
    OBVIOUS
  <2>2. f \in Bijection(Expired, entries)
    <3>1. f \in Surjection(Expired, entries)
      BY <2>1 DEF Surjection
    <3>2. f \in Injection(Expired, entries)
      BY <2>1 DEF Injection, IsInjective
    <3> QED
      BY <3>1, <3>2 DEF Bijection
  <2>3. ExistsBijection(Expired, entries)
    BY <2>2 DEF ExistsBijection
  <2> QED
    BY <1>1, <2>3, FS_Bijection
<1>5. back \in Injection(1..N, entries)
  <2>1. IsFiniteSet(1..N) /\ Cardinality(1..N) = N
    BY <1>2, FS_Interval
  <2> QED
    BY <1>3, <1>4, <2>1, FS_SurjSameCardinalityImpliesInj
<1>6. /\ back \in [1..N -> entries]
      /\ \A i, j \in 1..N : back[i] = back[j] => i = j
  BY <1>5 DEF Injection, IsInjective
<1>7. ASSUME NEW i \in 1..N PROVE back[i].id \in Expired /\ back[i] = entry(back[i].id)
  <2>1. PICK m \in Expired : back[i] = entry(m)
    BY <1>6
  <2> QED
    BY <2>1
<1> HIDE DEF entry, entries, N
<1>8. \A i, j \in 1..N : back[i].id = back[j].id => i = j
  BY <1>6, <1>7
<1>9. ready \in Seq(Entry) /\ back \in Seq(entries) /\ Len(back) = N
  BY <1>2, <1>6, SeqDef DEF QueueTypeOK
<1>10. /\ DOMAIN q = 1..(Len(ready) + N) /\ DOMAIN ready = 1..Len(ready)
       /\ \A i \in 1..(Len(ready) + N) :
            q[i] = IF i <= Len(ready) THEN ready[i] ELSE back[i - Len(ready)]
       /\ Len(ready) \in Nat
  BY <1>2, <1>3, <1>9, ConcatProperties
<1>11. \A i \in 1..Len(ready), j \in 1..N : ready[i].id # back[j].id
  <2>1. \A i \in 1..Len(ready) : ready[i].id \in ReadyIds
    BY <1>10 DEF ReadyIds, Range
  <2> QED
    BY <1>1, <1>7, <2>1
<1>12. ASSUME NEW i \in DOMAIN q, NEW j \in DOMAIN q, q[i].id = q[j].id PROVE i = j
  <2>1. CASE i <= Len(ready) /\ j <= Len(ready)
    BY <1>10, <1>12, <2>1 DEF OneEach
  <2>2. CASE i > Len(ready) /\ j > Len(ready)
    <3>1. i - Len(ready) \in 1..N /\ j - Len(ready) \in 1..N
      BY <1>2, <1>10, <2>2
    <3>2. i - Len(ready) = j - Len(ready)
      BY <1>8, <1>10, <1>12, <2>2, <3>1
    <3> QED
      BY <1>10, <3>2
  <2>3. CASE i <= Len(ready) /\ j > Len(ready)
    <3>1. j - Len(ready) \in 1..N /\ i \in 1..Len(ready)
      BY <1>2, <1>10, <2>3
    <3> QED
      BY <1>10, <1>11, <1>12, <2>3, <3>1
  <2>4. CASE i > Len(ready) /\ j <= Len(ready)
    <3>1. i - Len(ready) \in 1..N /\ j \in 1..Len(ready)
      BY <1>2, <1>10, <2>4
    <3> QED
      BY <1>10, <1>11, <1>12, <2>4, <3>1
  <2> QED
    BY <1>2, <1>10, <2>1, <2>2, <2>3, <2>4
<1> QED
  BY <1>12 DEF OneEach

(* A verdict on an open batch ends the one holder of its claim. *)
LEMMA VerdictSole ==
    ASSUME QueueTypeOK, BatchesTyped, OnePlace, NEW n \in Nat, NEW b \in Batch, ~b.settled,
           NEW c, OneHolder(c, With(batches, n, b), Live), UNCHANGED unsent,
           Store(n, [b EXCEPT !.settled = TRUE]),
           Ack(b.message) \/ DeadLetter(b.message) \/ Nack(b.message)
    PROVE  OnePlace' /\ OneHolder(c, batches', Live')
<1>1. PICK m : m = b.message.id
  OBVIOUS
<1>2. PICK bs : bs = With(batches, n, b)
  OBVIOUS
<1>3. /\ DOMAIN bs = DOMAIN batches \cup {n} /\ bs[n] = b
      /\ \A k \in DOMAIN bs : k # n => bs[k] = batches[k]
  BY <1>2 DEF With
<1>4. m \in Live /\ m \in DOMAIN inflight /\ m \notin ReadyIds /\ m \notin unsent
  BY <1>1, <1>2, <1>3 DEF OneHolder, Live, OnePlace, Outstanding
<1>5. /\ DOMAIN inflight' = DOMAIN inflight \ {m}
      /\ \A x \in DOMAIN inflight' : inflight'[x] = inflight[x]
  BY <1>1, <1>4 DEF Ack, DeadLetter, Nack, Without
<1>6. Live' = Live \ {m}
  BY <1>5 DEF Live
<1>7. OneHolder(c, batches', Live')
  <2>1. PICK s \in Batch : s = [b EXCEPT !.settled = TRUE]
    BY DEF Batch
  <2>2. s.settled
    BY <2>1 DEF Batch
  <2>3. /\ DOMAIN batches' \subseteq DOMAIN batches \cup {n}
        /\ \A k \in DOMAIN batches' : batches'[k] = IF k = n THEN s ELSE batches[k]
    BY <2>1, StoreEffect
  <2>4. \A k \in DOMAIN batches' : ~batches'[k].settled =>
            k # n /\ k \in DOMAIN bs /\ batches'[k] = bs[k]
    BY <1>3, <2>2, <2>3
  <2>5. \A k \in DOMAIN bs : k # n /\ ~bs[k].settled => bs[k].message.id # m
    BY <1>1, <1>2, <1>3 DEF OneHolder
  <2>6. \A d \in Range(c) : d.id # m
    BY <1>1, <1>2, <1>3 DEF OneHolder
  <2>7. OneHolder(c, bs, Live)
    BY <1>2
  <2> QED
    BY <1>6, <2>4, <2>5, <2>6, <2>7 DEF OneHolder
<1>8. CASE Ack(b.message) \/ DeadLetter(b.message)
  <2>1. ready' = ready /\ ReadyIds' = ReadyIds
    BY <1>8 DEF Ack, DeadLetter, ReadyIds
  <2>2. Parked' \subseteq Parked \cup {m}
    BY <1>1, <1>8 DEF Ack, DeadLetter, Parked
  <2>3. OnePlace'
    BY <1>4, <1>5, <2>1, <2>2 DEF OnePlace, Outstanding, OneEach
  <2> QED
    BY <1>7, <2>3
<1>9. CASE Nack(b.message)
  <2> DEFINE e == [id |-> m, attempts |-> inflight[m].attempts]
  <2>1. ready' = Append(ready, e) /\ dead' = dead
    BY <1>1, <1>4, <1>9 DEF Nack
  <2>2. e \in Entry /\ e.id = m
    BY <1>4 DEF QueueTypeOK, Claim, Entry
  <2>3. \A x \in Range(ready) : x.id # m
    BY <1>4 DEF ReadyIds
  <2>4. ready \in Seq(Entry)
    BY DEF QueueTypeOK
  <2> HIDE DEF e
  <2>5. OneEach(ready')
    BY <2>1, <2>2, <2>3, <2>4, OneEachAppend DEF OnePlace
  <2>6. Range(ready') = Range(ready) \cup {e}
    BY <2>1, <2>2, <2>4, RangeAppend
  <2>7. ReadyIds' = ReadyIds \cup {m} /\ Parked' = Parked
    BY <2>1, <2>2, <2>6 DEF ReadyIds, Parked
  <2>8. OnePlace'
    BY <1>4, <1>5, <2>5, <2>7 DEF OnePlace, Outstanding
  <2> QED
    BY <1>7, <2>8
<1> QED
  BY <1>8, <1>9

LEMMA SettleSole ==
    ASSUME QueueTypeOK, BatchesTyped, OnePlace, NEW n \in Nat, NEW b \in Batch,
           NEW count \in Stats, SettleCounting(n, b, count), UNCHANGED unsent,
           NEW c, OneHolder(c, With(batches, n, b), Live)
    PROVE  OnePlace' /\ OneHolder(c, batches', Live')
<1>1. CASE NotYet(b) /\ Store(n, b) /\ UNCHANGED queueVars
  <2>1. OnePlace' /\ Live' = Live
    BY <1>1 DEF queueVars, OnePlace, OneEach, ReadyIds, Parked, Outstanding, Live
  <2>2. \A k \in DOMAIN batches' :
            k \in DOMAIN With(batches, n, b) /\ batches'[k] = With(batches, n, b)[k]
    BY <1>1, StoreEffect DEF With
  <2> QED
    BY <2>1, <2>2 DEF OneHolder
<1>2. ASSUME ~NotYet(b), NEW field, Verdict(n, b, count, field),
             Ack(b.message) \/ DeadLetter(b.message) \/ Nack(b.message)
      PROVE  OnePlace' /\ OneHolder(c, batches', Live')
  BY <1>2, VerdictSole DEF Verdict, NotYet
<1> QED
  BY <1>1, <1>2 DEF SettleCounting

(* The batch b stands in for batch n, no more and no less settled. *)
LEMMA SettleOldSole ==
    ASSUME IndInv, SoleInv, NoExpiry' => NoExpiry, NEW n \in DOMAIN batches, NEW b \in Batch,
           b.settled = batches[n].settled, b.message = batches[n].message,
           Settle(n, b), UNCHANGED <<claimed, unsent>>
    PROVE  SoleInv'
<1> SUFFICES ASSUME NoExpiry, NoExpiry'
             PROVE  OnePlace' /\ OneHolder(claimed', batches', Live')
  BY DEF SoleInv
<1>1. BatchesTyped /\ n \in Nat /\ QueueTypeOK
  BY DEF IndInv, TypeOK, BatchesTyped
<1>2. PICK count \in Stats : count = stats
  BY DEF IndInv, TypeOK
<1>3. SettleCounting(n, b, count)
  BY <1>2 DEF Settle
<1>4. PICK bs : bs = With(batches, n, b)
  OBVIOUS
<1>5. /\ DOMAIN bs = DOMAIN batches
      /\ \A k \in DOMAIN bs : /\ bs[k].settled = batches[k].settled
                              /\ bs[k].message = batches[k].message
  BY <1>4 DEF With
<1>6. OneHolder(claimed, bs, Live)
  BY <1>5 DEF SoleInv, OneHolder
<1>7. OneHolder(claimed, With(batches, n, b), Live)
  BY <1>4, <1>6
<1> QED
  BY <1>1, <1>3, <1>7, SettleSole DEF SoleInv

LEMMA SoleReap ==
    ASSUME IndInv, SoleInv, NoExpiry' => NoExpiry, NEW h \in Handles, Reap(h)
    PROVE  SoleInv'
<1>1. PICK ok \in BOOLEAN : Reaped(h, ok)
  BY DEF Reap, ReapExited, ReapOverrun, ReapLost
<1>2. PICK n \in DOMAIN batches, b \in Batch :
        /\ b.settled = batches[n].settled /\ b.message = batches[n].message
        /\ Settle(n, b)
  BY <1>1, ReapedBatch
<1>3. UNCHANGED <<claimed, unsent>>
  BY <1>1 DEF Reaped
<1> QED
  BY <1>2, <1>3, SettleOldSole

LEMMA SoleLaunch ==
    ASSUME IndInv, SoleInv, NoExpiry' => NoExpiry, \/ LaunchRefused
                            \/ \E h : LaunchAccepted(h)
    PROVE  SoleInv'
<1>1. PICK n \in DOMAIN batches, b \in Batch :
        /\ b.settled = batches[n].settled /\ b.message = batches[n].message
        /\ Settle(n, b)
  BY LaunchedBatch
<1>2. UNCHANGED <<claimed, unsent>>
  BY DEF LaunchRefused, LaunchAccepted, Popped
<1> QED
  BY <1>1, <1>2, SettleOldSole

(* _receive hands the claim of a message over to its batch. *)
LEMMA SoleUnpack ==
    ASSUME IndInv, SoleInv, NoExpiry' => NoExpiry, Unpack
    PROVE  SoleInv'
<1> SUFFICES ASSUME NoExpiry, NoExpiry'
             PROVE  OnePlace' /\ OneHolder(claimed', batches', Live')
  BY DEF SoleInv
<1>1. PICK n \in Nat \ DOMAIN batches, count \in Stats, b \in Batch :
        ~b.settled /\ b.message = Head(claimed) /\ SettleCounting(n, b, count)
  BY UnpackedBatch
<1>2. /\ QueueTypeOK /\ BatchesTyped /\ claimed \in Seq(Delivery) /\ claimed # <<>>
      /\ claimed' = Tail(claimed) /\ unsent' = unsent
  BY DEF IndInv, TypeOK, BatchesTyped, Unpack
<1>3. Range(claimed) = {b.message} \cup Range(claimed')
  BY <1>1, <1>2, RangeTail
<1>4. OneEach(claimed') /\ \A d \in Range(claimed') : d.id # b.message.id
  BY <1>1, <1>2, OneEachTail DEF SoleInv, OneHolder
<1>5. PICK bs : bs = With(batches, n, b)
  OBVIOUS
<1>6. /\ DOMAIN bs = DOMAIN batches \cup {n} /\ bs[n] = b
      /\ \A k \in DOMAIN bs : k # n => k \in DOMAIN batches /\ bs[k] = batches[k]
  BY <1>5 DEF With
<1>7. OneHolder(claimed, batches, Live)
  BY DEF SoleInv
<1>8. \A k \in DOMAIN batches : ~batches[k].settled => batches[k].message.id # b.message.id
  BY <1>3, <1>7 DEF OneHolder
<1>9. OneHolder(claimed', bs, Live)
  BY <1>3, <1>4, <1>6, <1>7, <1>8 DEF OneHolder
<1>10. OneHolder(claimed', With(batches, n, b), Live)
  BY <1>5, <1>9
<1> QED
  BY <1>1, <1>2, <1>10, SettleSole DEF SoleInv

LEMMA SoleReceive ==
    ASSUME IndInv, SoleInv, NoExpiry' => NoExpiry, ReceiveOne
    PROVE  SoleInv'
<1> SUFFICES ASSUME NoExpiry, NoExpiry'
             PROVE  OnePlace' /\ OneHolder(claimed', batches', Live')
  BY DEF SoleInv
<1>1. /\ QueueTypeOK /\ claimed \in Seq(Delivery) /\ OnePlace
      /\ OneHolder(claimed, batches, Live) /\ UNCHANGED <<batches, unsent>>
  BY DEF IndInv, TypeOK, SoleInv, ReceiveOne, taskVars
<1>2. CASE ReceiveNone /\ UNCHANGED claimed
  BY <1>1, <1>2
     DEF ReceiveNone, queueVars, OnePlace, OneEach, ReadyIds, Parked, Outstanding, Live
<1>3. CASE \E q \in AfterReap : Receive(q) /\ claimed' = Append(claimed, Delivering(q))
  <2>1. PICK q \in AfterReap : Receive(q) /\ claimed' = Append(claimed, Delivering(q))
    BY <1>3
  <2>2. /\ OneEach(q) /\ q \in Seq(Entry) /\ q # <<>> /\ ready' = Tail(q)
        /\ {e.id : e \in Range(q)} = ReadyIds \cup Expired
    BY <1>1, <2>1, ReapOnce, AfterReapEffect DEF OnePlace, Receive
  <2>3. PICK d \in Delivery : d = Delivering(q)
    BY <1>1, <2>1, ReceiveEffect
  <2>4. /\ d.id = Head(q).id /\ Range(q) = {Head(q)} \cup Range(Tail(q))
    BY <2>2, <2>3, RangeTail DEF Delivering
  <2>5. /\ OneEach(ready') /\ ReadyIds' = (ReadyIds \cup Expired) \ {d.id}
        /\ d.id \in ReadyIds \cup Expired
    BY <2>2, <2>4, OneEachTail DEF ReadyIds
  <2>6. /\ DOMAIN inflight' = (DOMAIN inflight \ Expired) \cup {d.id}
        /\ \A x \in DOMAIN inflight' :
            inflight'[x] = IF x = d.id THEN [attempts |-> d.attempts, expired |-> FALSE]
                           ELSE inflight[x]
    BY <2>1, <2>3 DEF Receive, With, Without
  <2>7. d.id \notin Live /\ Live' = Live \cup {d.id}
    BY <1>1, <2>5, <2>6 DEF Live, Expired, OnePlace
  <2>8. OnePlace'
    <3>1. ReadyIds' \cap DOMAIN inflight' = {}
      BY <1>1, <2>5, <2>6 DEF OnePlace
    <3>2. Outstanding' = Outstanding /\ Parked' = Parked
      BY <1>1, <2>1, ReceiveEffect DEF Parked
    <3> QED
      BY <1>1, <2>5, <3>1, <3>2 DEF OnePlace
  <2>9. /\ Range(claimed') = Range(claimed) \cup {d}
        /\ OneEach(claimed')
    BY <1>1, <2>1, <2>3, <2>7, RangeAppend, OneEachAppend DEF OneHolder
  <2>10. OneHolder(claimed', batches', Live')
    BY <1>1, <2>7, <2>9 DEF OneHolder
  <2> QED
    BY <2>8, <2>10
<1> QED
  BY <1>2, <1>3 DEF ReceiveOne

LEMMA SoleAround ==
    ASSUME IndInv, SoleInv, NoExpiry' => NoExpiry,
           \/ Start
           \/ \E m \in Messages : PublishNew(m) \/ Expires(m)
    PROVE  SoleInv'
<1> SUFFICES ASSUME NoExpiry, NoExpiry'
             PROVE  OnePlace' /\ OneHolder(claimed', batches', Live')
  BY DEF SoleInv
<1>1. /\ QueueTypeOK /\ OnePlace /\ OneHolder(claimed, batches, Live)
      /\ UNCHANGED <<batches, claimed>>
  BY DEF IndInv, TypeOK, SoleInv, Start, PublishNew, Expires, taskVars, loopVars
<1>2. CASE Start
  <2>1. /\ OneEach(ready') /\ ReadyIds' = ReadyIds \cup Expired /\ unsent' = unsent
    BY <1>1, <1>2, ReapOnce, AfterReapEffect DEF Start, Depth, OnePlace, ReadyIds
  <2>2. /\ DOMAIN inflight' = DOMAIN inflight \ Expired
        /\ \A x \in DOMAIN inflight' : inflight'[x] = inflight[x]
    BY <1>2 DEF Start, Depth, Without
  <2>3. Live' = Live
    BY <2>2 DEF Live, Expired
  <2>4. Outstanding' = Outstanding /\ Parked' = Parked
    BY <1>1, <1>2, DepthEffect DEF Start, Parked
  <2> QED
    BY <1>1, <2>1, <2>2, <2>3, <2>4 DEF OnePlace
<1>3. ASSUME NEW m \in Messages, PublishNew(m)
      PROVE  OnePlace' /\ OneHolder(claimed', batches', Live')
  <2> DEFINE e == [id |-> m, attempts |-> 0]
  <2>1. /\ ready' = Append(ready, e) /\ inflight' = inflight /\ dead' = dead
        /\ m \in unsent /\ unsent' = unsent \ {m}
    BY <1>3 DEF PublishNew, Publish
  <2>2. e \in Entry /\ e.id = m /\ ready \in Seq(Entry)
    BY <1>1 DEF Entry, QueueTypeOK
  <2> HIDE DEF e
  <2>3. \A x \in Range(ready) : x.id # m
    BY <1>1, <2>1 DEF OnePlace, Outstanding, ReadyIds
  <2>4. OneEach(ready') /\ Range(ready') = Range(ready) \cup {e}
    BY <1>1, <2>1, <2>2, <2>3, OneEachAppend, RangeAppend DEF OnePlace
  <2>5. ReadyIds' = ReadyIds \cup {m} /\ Parked' = Parked /\ Live' = Live
    BY <2>1, <2>2, <2>4 DEF ReadyIds, Parked, Live
  <2> QED
    BY <1>1, <2>1, <2>4, <2>5 DEF OnePlace, Outstanding
<1>4. ASSUME NEW m \in Messages, Expires(m)
      PROVE  OnePlace' /\ OneHolder(claimed', batches', Live')
  <2>1. m \notin Held
    BY <1>4 DEF Expires, Fault, NoExpiry, IndInv, TypeOK
  <2>2. /\ ready' = ready /\ dead' = dead /\ unsent' = unsent
        /\ DOMAIN inflight' = DOMAIN inflight
        /\ \A x \in DOMAIN inflight : x # m => inflight'[x] = inflight[x]
    BY <1>4 DEF Expires, ClaimExpires
  <2>3. OnePlace'
    BY <1>1, <2>2 DEF OnePlace, OneEach, ReadyIds, Parked, Outstanding
  <2>4. Live \ {m} \subseteq Live'
    BY <2>2 DEF Live
  <2>5. /\ \A d \in Range(claimed) : d.id # m
        /\ \A k \in DOMAIN batches : ~batches[k].settled => batches[k].message.id # m
    BY <2>1 DEF Held, Range
  <2> QED
    BY <1>1, <2>3, <2>4, <2>5 DEF OneHolder
<1> QED
  BY <1>2, <1>3, <1>4

LEMMA SoleStep == IndInv /\ SoleInv /\ [Next]_vars => SoleInv'
<1> SUFFICES ASSUME IndInv, SoleInv, [Next]_vars PROVE SoleInv'
  OBVIOUS
<1>0. NoExpiry' => NoExpiry
  BY FaultsCount DEF NoExpiry
<1>1. CASE \/ Begin \/ ReapEnd \/ LaunchEnd \/ ReceiveEnd \/ UnpackEnd \/ Check \/ Signal
           \/ \E h \in Handles : PassOver(h) \/ TaskOverruns(h) \/ ContainerExits(h)
           \/ UNCHANGED vars
  <2>1. UNCHANGED <<claimed, batches, unsent, queueVars>>
    BY <1>1 DEF Begin, ReapEnd, LaunchEnd, ReceiveEnd, UnpackEnd, Check, Signal,
       PassOver, TaskOverruns, ContainerExits, vars, taskVars, loopVars
  <2> QED
    BY <1>0, <2>1 DEF queueVars, SoleInv, OnePlace, OneEach, OneHolder, ReadyIds,
       Parked, Outstanding, Live
<1>2. ASSUME Die PROVE SoleInv'
  <2>1. /\ claimed' = <<>> /\ DOMAIN batches' = {} /\ UNCHANGED <<unsent, queueVars>>
        /\ Range(claimed') = {}
    BY <1>2 DEF Die, Range
  <2> QED
    BY <1>0, <2>1 DEF queueVars, SoleInv, OnePlace, OneEach, OneHolder, ReadyIds,
       Parked, Outstanding, Live
<1> QED
  BY <1>0, <1>1, <1>2, SoleReap, SoleLaunch, SoleUnpack, SoleReceive, SoleAround
     DEF Next, Loop, Environment, Launch, LaunchRaises, ReapRaises, Crash

(* As long as no claim lapses under the work it is for, a parked message is  *)
(* never again on the queue.                                                *)
THEOREM ParkedStaysParked == Spec => []ParkedForGood
<1>1. Init => SoleInv
  <2> SUFFICES ASSUME Init PROVE OnePlace /\ OneHolder(claimed, batches, Live)
    BY DEF SoleInv
  <2>1. /\ ready \in Bijection(1..Cardinality(Preloaded), [id : Preloaded, attempts : {0}])
        /\ DOMAIN inflight = {} /\ dead = {} /\ unsent = Messages \ Preloaded
        /\ claimed = <<>> /\ DOMAIN batches = {}
    BY DEF Init
  <2>2. /\ ready \in [1..Cardinality(Preloaded) -> [id : Preloaded, attempts : {0}]]
        /\ \A i, j \in DOMAIN ready : ready[i] = ready[j] => i = j
    BY <2>1 DEF Bijection, Injection, IsInjective
  <2>3. \A i \in DOMAIN ready : ready[i] = [id |-> ready[i].id, attempts |-> 0]
    BY <2>2
  <2>4. OneEach(ready)
    BY <2>2, <2>3 DEF OneEach
  <2>5. ReadyIds \subseteq Preloaded
    BY <2>2 DEF ReadyIds, Range
  <2> QED
    BY <2>1, <2>4, <2>5 DEF OnePlace, OneHolder, OneEach, Outstanding, Parked, Range
<1>2. SoleInv => ParkedForGood
  BY DEF SoleInv, NoExpiry, OnePlace, ParkedForGood
<1> QED
  BY <1>1, <1>2, SoleStep, InvariantHolds, PTL DEF Spec

-----------------------------------------------------------------------------
(* A loop that is stopping skips _launch and _receive, and nothing but the   *)
(* top of the loop sets the flag.                                           *)
StopInv == stopping => pc \in {"top", "reap", "check", "done"}

LEMMA StopStep == StopInv /\ [Next]_vars => StopInv'
<1> SUFFICES ASSUME StopInv, [Next]_vars PROVE StopInv'
  OBVIOUS
<1>1. CASE \/ ReceiveOne \/ Unpack \/ Signal \/ LaunchRefused
           \/ \E h : LaunchAccepted(h)
           \/ \E h \in Handles : PassOver(h) \/ TaskOverruns(h) \/ ContainerExits(h) \/ Reap(h)
           \/ \E m \in Messages : PublishNew(m) \/ Expires(m)
           \/ UNCHANGED vars
  <2>1. UNCHANGED <<stopping, pc>>
    BY <1>1 DEF ReceiveOne, Unpack, Signal, LaunchRefused, LaunchAccepted, Popped, PassOver,
       TaskOverruns, ContainerExits, Reap, ReapExited, ReapOverrun, ReapLost, Reaped,
       PublishNew, Expires, vars, loopVars
  <2> QED
    BY <2>1 DEF StopInv
<1>2. CASE Start \/ Begin \/ ReapEnd \/ LaunchEnd \/ ReceiveEnd \/ UnpackEnd \/ Check
  BY <1>2 DEF Start, Begin, ReapEnd, LaunchEnd, ReceiveEnd, UnpackEnd, Check, loopVars, StopInv
<1>3. ASSUME Die PROVE StopInv'
  BY <1>3 DEF Die, StopInv
<1> QED
  BY <1>1, <1>2, <1>3 DEF Next, Loop, Environment, Launch, LaunchRaises, ReapRaises, Crash

(* From the stop request on, the loop starts no container and claims no      *)
(* message, whatever faults come.                                           *)
THEOREM StoppingStartsNothing == Spec => NoNewWorkOnceStopping
<1>1. IndInv /\ StopInv /\ [Next]_vars =>
        (stopping /\ pc # "down" => DOMAIN container' \subseteq DOMAIN container
                                    /\ claimed' \in {claimed, <<>>})
  <2> SUFFICES ASSUME IndInv, StopInv, [Next]_vars, stopping
               PROVE  DOMAIN container' \subseteq DOMAIN container /\ claimed' \in {claimed, <<>>}
    OBVIOUS
  <2>1. CASE \/ Start \/ Begin \/ ReapEnd \/ LaunchEnd \/ ReceiveEnd \/ UnpackEnd \/ Check
             \/ Signal
             \/ \E h \in Handles : PassOver(h) \/ TaskOverruns(h)
             \/ \E m \in Messages : PublishNew(m) \/ Expires(m)
             \/ UNCHANGED vars
    <3>1. UNCHANGED <<container, claimed>>
      BY <2>1 DEF Start, Begin, ReapEnd, LaunchEnd, ReceiveEnd, UnpackEnd, Check, Signal,
         PassOver, TaskOverruns, PublishNew, Expires, vars, loopVars, runnerVars
    <3> QED
      BY <3>1
  <2>2. ASSUME NEW h \in Handles, ContainerExits(h) \/ Reap(h)
        PROVE  DOMAIN container' \subseteq DOMAIN container /\ claimed' \in {claimed, <<>>}
    <3>1. claimed' = claimed
      BY <2>2 DEF ContainerExits, loopVars, Reap, ReapExited, ReapOverrun, ReapLost, Reaped
    <3>2. DOMAIN container' \subseteq DOMAIN container
      BY <2>2 DEF ContainerExits, Reap, ReapExited, ReapOverrun, ReapLost, With, Without
    <3> QED
      BY <3>1, <3>2
  <2>3. ASSUME Die
        PROVE  DOMAIN container' \subseteq DOMAIN container /\ claimed' \in {claimed, <<>>}
    BY <2>3 DEF Die, Without
  <2>4. ~ReceiveOne /\ ~Unpack /\ ~LaunchTurn
    BY DEF StopInv, ReceiveOne, Unpack, LaunchTurn
  <2> QED
    BY <2>1, <2>2, <2>3, <2>4 DEF Next, Loop, Environment, Launch, LaunchAccepted,
       LaunchRefused, LaunchRaises, ReapRaises, Crash
<1>2. Init => StopInv
  BY DEF Init, StopInv
<1> QED
  BY <1>1, <1>2, StopStep, InvariantHolds, PTL DEF Spec, NoNewWorkOnceStopping

-----------------------------------------------------------------------------
(* The idle exit.  A turn of the loop without progress has found the queue   *)
(* empty, or max_messages used up, or had no slot free or documents still to *)
(* launch; and without progress nothing of what it found has changed.       *)
Drained == ready = <<>> \/ Reached

DrainInv ==
    Preloaded = Messages =>
        /\ unsent = {}
        /\ pc = "receive" /\ claimed = <<>> /\ want = 0 => Drained
        /\ pc \in {"unpack", "relaunch"} /\ ~progressed => claimed = <<>> /\ Drained
        /\ pc = "check" /\ ~progressed => stopping \/ Drained \/ pending # <<>> \/ Free <= 0
        /\ pc = "done" /\ AckOn = "exit" => stopping \/ Drained

(* A step that leaves the loop where it is, and what it has seen as it was.  *)
LEMMA DrainSame ==
    ASSUME DrainInv, UNCHANGED <<pc, claimed, want, progressed, stopping, pending>>,
           DOMAIN running' = DOMAIN running, stats' = stats, unsent' \subseteq unsent,
           unsent = {} => ready' = ready
    PROVE  DrainInv'
BY DEF DrainInv, Drained, Reached, Free

LEMMA DrainControl ==
    ASSUME IndInv, LimitInv, DrainInv, Start \/ Begin \/ ReapEnd \/ ReceiveEnd \/ UnpackEnd
    PROVE  DrainInv'
<1> SUFFICES ASSUME Preloaded = Messages PROVE DrainInv'
  BY DEF DrainInv
<1>1. CASE Start \/ Begin
  BY <1>1 DEF Start, Begin, DrainInv
<1>2. CASE ReapEnd
  BY <1>2 DEF ReapEnd, DrainInv, loopVars
<1>3. CASE ReceiveEnd
  BY <1>3 DEF ReceiveEnd, DrainInv, Drained, Reached, queueVars
<1>4. CASE UnpackEnd
  BY <1>4 DEF UnpackEnd, DrainInv, Drained, Reached, queueVars, loopVars
<1> QED
  BY <1>1, <1>2, <1>3, <1>4

(* Room is only 0 once max_messages is reached. *)
LEMMA DrainLaunchEnd ==
    ASSUME IndInv, LimitInv, DrainInv, LaunchEnd
    PROVE  DrainInv'
<1> SUFFICES ASSUME Preloaded = Messages PROVE DrainInv'
  BY DEF DrainInv
<1>1. IsFiniteSet(DOMAIN running) /\ stats.received \in Nat
  BY DEF IndInv, TypeOK, Distinct, Stats
<1>2. Free \in Int
  BY <1>1, FS_CardinalityType, LimitsAssumption DEF Free
<1>3. UNCHANGED <<ready, unsent, stopping, progressed, claimed, pending, running, stats>>
  BY DEF LaunchEnd, queueVars, taskVars
<1>4. CASE pc = "launch" /\ pending = <<>> /\ Free > 0 /\ pc' = "receive" /\ want' = Room
  <2>1. Room = 0 => Reached
    BY <1>1, <1>2, <1>4, LimitsAssumption DEF Room, Least, Reached
  <2> QED
    BY <1>3, <1>4, <2>1 DEF DrainInv, Drained, Reached
<1>5. CASE pc' = "check" /\ ~(pc = "launch" /\ pending = <<>> /\ Free > 0)
  <2>1. pc = "launch" \/ (pc = "relaunch" /\ (pending = <<>> \/ Free <= 0))
    BY <1>5 DEF LaunchEnd
  <2>2. pc = "launch" => pending # <<>> \/ Free <= 0
    BY <1>2, <1>5
  <2> QED
    BY <1>3, <1>5, <2>1, <2>2 DEF DrainInv, Drained, Reached, Free
<1> QED
  BY <1>4, <1>5 DEF LaunchEnd

LEMMA DrainReceive ==
    ASSUME IndInv, DrainInv, ReceiveOne
    PROVE  DrainInv'
<1>1. /\ pc = "receive" /\ pc' = "receive" /\ unsent' = unsent
      /\ stats' = stats /\ claimed \in Seq(Delivery)
  BY DEF ReceiveOne, IndInv, TypeOK
<1>2. CASE ReceiveNone
  BY <1>1, <1>2 DEF ReceiveNone, queueVars, DrainInv, Drained
<1>3. CASE \E e : claimed' = Append(claimed, e)
  <2>1. claimed' # <<>>
    BY <1>1, <1>3
  <2> QED
    BY <1>1, <2>1 DEF DrainInv
<1> QED
  BY <1>2, <1>3 DEF ReceiveOne

(* What settles a message is progress, and so is a claim taken. *)
LEMMA DrainWork ==
    ASSUME IndInv, DrainInv,
           \/ Unpack \/ LaunchRefused
           \/ \E h : LaunchAccepted(h)
           \/ \E h \in Handles : Reap(h)
    PROVE  DrainInv'
<1>1. pc' = pc /\ unsent' = unsent /\ pc \in {"reap", "launch", "unpack", "relaunch"}
  BY DEF Unpack, LaunchRefused, LaunchAccepted, LaunchTurn, Popped, Reap, ReapExited,
     ReapOverrun, ReapLost, Reaped
<1>2. progressed' \/ (Unpack /\ progressed' = progressed)
  BY DEF Unpack, LaunchRefused, LaunchAccepted, Popped, Reap, ReapExited, ReapOverrun,
     ReapLost, Reaped
<1>3. Unpack /\ Preloaded = Messages => progressed
  BY DEF Unpack, DrainInv
<1> QED
  BY <1>1, <1>2, <1>3 DEF DrainInv

LEMMA DrainCheck ==
    ASSUME IndInv, DrainInv, Check
    PROVE  DrainInv'
<1>1. UNCHANGED <<ready, unsent, stopping, stats>> /\ pc = "check" /\ pc' \in {"top", "done"}
  BY DEF Check, queueVars, loopVars
<1>2. ASSUME pc' = "done", AckOn = "exit", Preloaded = Messages PROVE stopping \/ Drained
  <2>1. ~progressed /\ MayEnd
    BY <1>1, <1>2 DEF Check
  <2>2. pending = <<>> /\ DOMAIN running = {}
    BY <1>2, <2>1 DEF MayEnd
  <2>3. ~(Free <= 0)
    BY <2>2, FS_EmptySet, LimitsAssumption DEF Free
  <2> QED
    BY <1>1, <1>2, <2>1, <2>2, <2>3 DEF DrainInv
<1> QED
  BY <1>1, <1>2 DEF DrainInv, Drained, Reached

LEMMA DrainStep == IndInv /\ LimitInv /\ DrainInv /\ [Next]_vars => DrainInv'
<1> SUFFICES ASSUME IndInv, LimitInv, DrainInv, [Next]_vars PROVE DrainInv'
  OBVIOUS
<1>1. CASE \/ Signal
           \/ \E h \in Handles : PassOver(h) \/ TaskOverruns(h) \/ ContainerExits(h)
           \/ \E m \in Messages : Expires(m)
           \/ UNCHANGED vars
  <2>1. /\ UNCHANGED <<pc, claimed, want, progressed, stopping, pending, running, stats, unsent>>
        /\ ready' = ready
    BY <1>1 DEF Signal, PassOver, TaskOverruns, ContainerExits, Expires, ClaimExpires, vars,
       queueVars, loopVars, taskVars
  <2> QED
    BY <2>1, DrainSame
<1>2. ASSUME NEW m \in Messages, PublishNew(m) PROVE DrainInv'
  BY <1>2, DrainSame DEF PublishNew, loopVars, taskVars
<1>3. ASSUME Die PROVE DrainInv'
  BY <1>3 DEF Die, DrainInv
<1> QED
  BY <1>1, <1>2, <1>3, DrainControl, DrainLaunchEnd, DrainReceive, DrainWork, DrainCheck
     DEF Next, Loop, Environment, Launch, LaunchRaises, ReapRaises, Crash

(* When every message was published before the loop began, so that none      *)
(* arrives behind its last look at the queue, a loop with ack_on=exit that   *)
(* ends because the queue stayed idle leaves nothing waiting: no message it  *)
(* gave back itself, and no claim it saw lapse.                             *)
THEOREM IdleExitLeavesNothing == Spec => [](Preloaded = Messages => IdleExitDrained)
<1>1. Init => LimitInv /\ DrainInv
  BY LimitsAssumption DEF Init, LimitInv, LimitHolds, NoStats, DrainInv
<1>2. DrainInv => (Preloaded = Messages => IdleExitDrained)
  BY DEF DrainInv, Drained, IdleExitDrained
<1> QED
  BY <1>1, <1>2, LimitStep, DrainStep, InvariantHolds, PTL DEF Spec

-----------------------------------------------------------------------------
(* max_attempts bounds the deliveries of a message, but for those a fault    *)
(* bought.  The argument is a budget.  A message that has been delivered a   *)
(* times may still be delivered again by those who hold an old delivery of   *)
(* it with tries left, once each, for only they nack it; and by the queue    *)
(* itself, once, while it waits or its claim is bound to lapse.  All that    *)
(* stays within max_attempts and the faults so far: a claim whose holder is  *)
(* still there lapses only by a fault, and a crash is one.                   *)
HeldBy(c, bs) == Range(c) \cup {bs[n].message : n \in {k \in DOMAIN bs : ~bs[k].settled}}

(* No two hands hold the same delivery. *)
OneHand(c, bs) ==
    /\ IsInjective(c)
    /\ \A n \in DOMAIN bs : ~bs[n].settled =>
        /\ bs[n].message \notin Range(c)
        /\ \A k \in DOMAIN bs :
            ~bs[k].settled /\ bs[k].message = bs[n].message => k = n

Holds(H, m) == \E d \in H : d.id = m

(* The holders of m that nack it if they fail. *)
Weak(H, m) == {d \in H : d.id = m /\ d.attempts < MaxAttempts}

Above(a) == IF a >= MaxAttempts THEN a ELSE MaxAttempts - 1

Within(a, m, H, p, f) ==
    /\ \A d \in H : d.id = m => d.attempts <= a
    /\ Above(a) + Cardinality(Weak(H, m)) + p <= MaxAttempts + f

(* One more delivery is coming without a fault. *)
Lapse(claim, m, H) == IF claim.expired \/ ~Holds(H, m) THEN 1 ELSE 0

Budget(r, claims, u, f, H) ==
    /\ OneEach(r)
    /\ \A e \in Range(r) : e.id \notin DOMAIN claims /\ e.id \notin u
    /\ DOMAIN claims \cap u = {}
    /\ IsFiniteSet(H) /\ H \subseteq Delivery /\ \A d \in H : d.id \notin u
    /\ \A e \in Range(r) : Within(e.attempts, e.id, H, 1, f)
    /\ \A m \in DOMAIN claims :
        Within(claims[m].attempts, m, H, Lapse(claims[m], m, H), f)

DeliverInv ==
    /\ OneHand(claimed, batches)
    /\ Budget(ready, inflight, unsent, faults, HeldBy(claimed, batches))

LEMMA WeakFinite ==
    ASSUME NEW H, IsFiniteSet(H), NEW m
    PROVE  IsFiniteSet(Weak(H, m)) /\ Cardinality(Weak(H, m)) \in Nat
<1>1. IsFiniteSet(Weak(H, m))
  BY FS_Subset DEF Weak
<1> QED
  BY <1>1, FS_CardinalityType

(* A hand that lets go takes its own try with it, and no other. *)
LEMMA WeakWithout ==
    ASSUME NEW H, IsFiniteSet(H), NEW d \in H, NEW m
    PROVE  /\ Cardinality(Weak(H \ {d}, m)) <= Cardinality(Weak(H, m))
           /\ d.id = m /\ d.attempts < MaxAttempts =>
                Cardinality(Weak(H \ {d}, m)) = Cardinality(Weak(H, m)) - 1
<1>1. IsFiniteSet(Weak(H, m)) /\ Cardinality(Weak(H, m)) \in Nat
  BY WeakFinite
<1>2. CASE d.id = m /\ d.attempts < MaxAttempts
  <2>1. d \in Weak(H, m) /\ Weak(H \ {d}, m) = Weak(H, m) \ {d}
    BY <1>2 DEF Weak
  <2>2. Cardinality(Weak(H, m) \ {d}) = Cardinality(Weak(H, m)) - 1
    BY <1>1, <2>1, FS_RemoveElement
  <2> QED
    BY <1>1, <2>1, <2>2
<1>3. CASE ~(d.id = m /\ d.attempts < MaxAttempts)
  <2>1. Weak(H \ {d}, m) = Weak(H, m)
    BY <1>3 DEF Weak
  <2> QED
    BY <1>1, <1>3, <2>1
<1> QED
  BY <1>2, <1>3

(* A new hand adds its own try, if it has one. *)
LEMMA WeakWith ==
    ASSUME NEW H, IsFiniteSet(H), NEW d, d \notin H, NEW m
    PROVE  Cardinality(Weak(H \cup {d}, m)) =
            IF d.id = m /\ d.attempts < MaxAttempts THEN Cardinality(Weak(H, m)) + 1
            ELSE Cardinality(Weak(H, m))
<1>1. IsFiniteSet(Weak(H, m)) /\ d \notin Weak(H, m)
  BY WeakFinite DEF Weak
<1>2. CASE d.id = m /\ d.attempts < MaxAttempts
  <2>1. Weak(H \cup {d}, m) = Weak(H, m) \cup {d}
    BY <1>2 DEF Weak
  <2> QED
    BY <1>1, <1>2, <2>1, FS_AddElement
<1>3. CASE ~(d.id = m /\ d.attempts < MaxAttempts)
  <2>1. Weak(H \cup {d}, m) = Weak(H, m)
    BY <1>3 DEF Weak
  <2> QED
    BY <1>3, <2>1
<1> QED
  BY <1>2, <1>3

(* What is within the budget stays so with fewer holders, a smaller demand,  *)
(* or more faults.                                                          *)
LEMMA WithinLess ==
    ASSUME NEW H, NEW G, IsFiniteSet(H), G \subseteq H, NEW a \in Nat, NEW m,
           NEW p \in Nat, NEW q \in Nat, NEW f \in Nat, NEW g \in Nat, f <= g,
           Within(a, m, H, p, f), q <= p + (g - f)
    PROVE  Within(a, m, G, q, g)
<1>1. Weak(G, m) \subseteq Weak(H, m)
  BY DEF Weak
<1>2. IsFiniteSet(Weak(H, m)) /\ Cardinality(Weak(H, m)) \in Nat
  BY WeakFinite
<1>3. Cardinality(Weak(G, m)) <= Cardinality(Weak(H, m))
  BY <1>1, <1>2, FS_Subset
<1>4. Cardinality(Weak(G, m)) \in Nat
  BY <1>1, <1>2, FS_Subset, FS_CardinalityType
<1>5. Above(a) \in Int
  BY LimitsAssumption DEF Above
<1>6. Above(a) + Cardinality(Weak(H, m)) + p <= MaxAttempts + f
  BY DEF Within
<1>7. Above(a) + Cardinality(Weak(G, m)) + q <= MaxAttempts + g
  BY <1>2, <1>3, <1>4, <1>5, <1>6, LimitsAssumption
<1> QED
  BY <1>7 DEF Within

(* A try spent pays for the entry a nack puts back. *)
LEMMA WithinSpent ==
    ASSUME NEW H, IsFiniteSet(H), NEW d \in H, d.attempts < MaxAttempts, NEW a \in Nat,
           NEW p \in Nat, NEW f \in Nat, Within(a, d.id, H, p, f)
    PROVE  Within(a, d.id, H \ {d}, 1, f)
<1>1. Cardinality(Weak(H \ {d}, d.id)) = Cardinality(Weak(H, d.id)) - 1
  BY WeakWithout
<1>2. Cardinality(Weak(H, d.id)) \in Nat /\ Above(a) \in Int
  BY WeakFinite, LimitsAssumption DEF Above
<1> QED
  BY <1>1, <1>2, LimitsAssumption DEF Within

(* A delivery: the demand becomes the new holder's try, or the last one. *)
LEMMA WithinDelivered ==
    ASSUME NEW H \in SUBSET Delivery, IsFiniteSet(H), NEW d, NEW a \in Nat,
           d.attempts = a + 1, NEW f \in Nat, Within(a, d.id, H, 1, f)
    PROVE  d \notin H /\ Within(a + 1, d.id, H \cup {d}, 0, f)
<1>1. d \notin H
  BY DEF Within
<1>2. Cardinality(Weak(H, d.id)) \in Nat
  BY WeakFinite
<1>3. Above(a) + Cardinality(Weak(H, d.id)) + 1 <= MaxAttempts + f
  BY DEF Within
<1>4. Above(a + 1) + Cardinality(Weak(H \cup {d}, d.id)) + 0 <= MaxAttempts + f
  <2>1. CASE a + 1 < MaxAttempts
    <3>1. Cardinality(Weak(H \cup {d}, d.id)) = Cardinality(Weak(H, d.id)) + 1
      BY <1>1, <2>1, WeakWith
    <3>2. Above(a + 1) = Above(a)
      BY <2>1, LimitsAssumption DEF Above
    <3>3. Above(a) \in Int
      BY LimitsAssumption DEF Above
    <3> QED
      BY <1>2, <1>3, <3>1, <3>2, <3>3, LimitsAssumption
  <2>2. CASE a + 1 >= MaxAttempts
    <3>1. Cardinality(Weak(H \cup {d}, d.id)) = Cardinality(Weak(H, d.id))
      BY <1>1, <2>2, WeakWith, LimitsAssumption
    <3>2. Above(a + 1) = Above(a) + 1 /\ Above(a) \in Int
      BY <2>2, LimitsAssumption DEF Above
    <3> QED
      BY <1>2, <1>3, <3>1, <3>2, LimitsAssumption
  <2> QED
    BY <2>1, <2>2, LimitsAssumption
<1>5. \A x \in H \cup {d} : x.id = d.id => x.attempts <= a + 1
  <2>1. ASSUME NEW x \in H, x.id = d.id PROVE x.attempts <= a + 1
    <3>1. x.attempts <= a
      BY <2>1 DEF Within
    <3>2. x.attempts \in Nat
      BY DEF Delivery
    <3> QED
      BY <3>1, <3>2
  <2> QED
    BY <2>1
<1> QED
  BY <1>1, <1>4, <1>5 DEF Within

(* Nothing changes for the messages other than that of d. *)
LEMMA WithinOthers ==
    ASSUME NEW H, NEW G, NEW d, G \ {d} = H \ {d}, NEW a, NEW m, m # d.id, NEW p, NEW f,
           Within(a, m, H, p, f)
    PROVE  Within(a, m, G, p, f)
<1>1. \A x : x.id = m => (x \in G <=> x \in H)
  OBVIOUS
<1>2. Weak(G, m) = Weak(H, m)
  BY <1>1 DEF Weak
<1> QED
  BY <1>1, <1>2 DEF Within

LEMMA LapseOthers ==
    ASSUME NEW H, NEW G, NEW d, G \ {d} = H \ {d}, NEW m, m # d.id, NEW claim
    PROVE  Lapse(claim, m, G) = Lapse(claim, m, H)
BY DEF Lapse, Holds

LEMMA BudgetTypes ==
    ASSUME QueueTypeOK
    PROVE  /\ \A e \in Range(ready) : e \in Entry /\ e.id \in Messages /\ e.attempts \in Nat
           /\ \A m \in DOMAIN inflight :
                /\ m \in Messages /\ inflight[m].attempts \in Nat \ {0}
                /\ inflight[m].expired \in BOOLEAN
<1>1. \A e \in Range(ready) : e \in Entry
  BY RangeEquality DEF QueueTypeOK
<1> QED
  BY <1>1 DEF QueueTypeOK, Entry, Claim

LEMMA LapseType ==
    ASSUME NEW claim, NEW m, NEW H
    PROVE  Lapse(claim, m, H) \in Nat /\ Lapse(claim, m, H) <= 1
BY DEF Lapse

(* A step that leaves the queue alone, and lets no hand but those of a dead  *)
(* process go; losing them all takes a fault.                               *)
LEMMA BudgetQuiet ==
    ASSUME QueueTypeOK, NEW H, NEW u, NEW f \in Nat, NEW g \in Nat,
           Budget(ready, inflight, u, f, H), f <= g
    PROVE  /\ Budget(ready, inflight, u, g, H)
           /\ f < g => Budget(ready, inflight, u, g, {})
<1>1. IsFiniteSet(H) /\ H \subseteq H /\ 1 \in Nat
  BY DEF Budget
<1>2. ASSUME NEW G, G \subseteq H, NEW e \in Range(ready)
      PROVE  Within(e.attempts, e.id, G, 1, g)
  <2>1. e.attempts \in Nat /\ Within(e.attempts, e.id, H, 1, f) /\ 1 <= 1 + (g - f)
    BY BudgetTypes DEF Budget
  <2> QED
    BY <1>1, <1>2, <2>1, WithinLess
<1>3. ASSUME NEW m \in DOMAIN inflight
      PROVE  /\ Within(inflight[m].attempts, m, H, Lapse(inflight[m], m, H), g)
             /\ f < g =>
                  Within(inflight[m].attempts, m, {}, Lapse(inflight[m], m, {}), g)
  <2>1. PICK a \in Nat : a = inflight[m].attempts
    BY BudgetTypes
  <2>2. PICK p \in Nat : p = Lapse(inflight[m], m, H)
    BY LapseType
  <2>3. PICK q \in Nat : q = Lapse(inflight[m], m, {}) /\ q <= 1
    BY LapseType
  <2>4. Within(a, m, H, p, f)
    BY <2>1, <2>2 DEF Budget
  <2>5. Within(a, m, H, p, g)
    BY <1>1, <2>4, WithinLess
  <2>6. f < g => Within(a, m, {}, q, g)
    BY <1>1, <2>3, <2>4, WithinLess
  <2> QED
    BY <2>1, <2>2, <2>3, <2>5, <2>6
<1>4. Budget(ready, inflight, u, g, H)
  BY <1>1, <1>2, <1>3 DEF Budget
<1>5. ASSUME f < g PROVE Budget(ready, inflight, u, g, {})
  BY <1>2, <1>3, <1>5, FS_EmptySet DEF Budget
<1> QED
  BY <1>4, <1>5

(* _reap: the lapses it sees have been paid for. *)
LEMMA BudgetReap ==
    ASSUME QueueTypeOK, NEW H, NEW f \in Nat, Budget(ready, inflight, unsent, f, H),
           NEW q \in AfterReap
    PROVE  /\ q \in Seq(Entry) /\ OneEach(q)
           /\ \A e \in Range(q) :
                /\ e.id \notin DOMAIN inflight \ Expired /\ e.id \notin unsent
                /\ Within(e.attempts, e.id, H, 1, f)
<1>1. ReadyIds \cap DOMAIN inflight = {}
  BY DEF Budget, ReadyIds
<1>2. q \in Seq(Entry) /\ OneEach(q)
  BY <1>1, AfterReapEffect, ReapOnce DEF Budget
<1> DEFINE entries == {[id |-> m, attempts |-> inflight[m].attempts] : m \in Expired}
           N == Cardinality(Expired)
<1>3. PICK back \in Surjection(1..N, entries) : q = ready \o back
  BY DEF AfterReap
<1>4. N \in Nat
  <2>1. IsFiniteSet(Expired)
    BY MessagesAssumption, FS_Subset DEF QueueTypeOK, Expired
  <2> QED
    BY <2>1, FS_CardinalityType
<1>5. back \in [1..N -> entries]
  BY <1>3 DEF Surjection
<1>6. \A x \in entries : \E m \in Expired : x.id = m /\ x.attempts = inflight[m].attempts
  OBVIOUS
<1>7. entries \subseteq Entry
  BY DEF QueueTypeOK, Expired, Entry, Claim
<1> HIDE DEF entries, N
<1>8. back \in Seq(Entry) /\ Range(back) \subseteq entries
  BY <1>4, <1>5, <1>7, SeqDef DEF Range
<1>9. Range(q) = Range(ready) \cup Range(back)
  BY <1>3, <1>8, RangeConcatenation DEF QueueTypeOK
<1>10. ASSUME NEW e \in Range(q)
       PROVE  /\ e.id \notin DOMAIN inflight \ Expired /\ e.id \notin unsent
              /\ Within(e.attempts, e.id, H, 1, f)
  <2>1. CASE e \in Range(ready)
    BY <2>1 DEF Budget
  <2>2. CASE e \in Range(back)
    <3>1. PICK m \in Expired : e.id = m /\ e.attempts = inflight[m].attempts
      BY <1>6, <1>8, <2>2
    <3>2. m \in DOMAIN inflight /\ inflight[m].expired
      BY DEF Expired
    <3>3. Lapse(inflight[m], m, H) = 1
      BY <3>2 DEF Lapse
    <3> QED
      BY <3>1, <3>2, <3>3 DEF Budget
  <2> QED
    BY <1>9, <1>10, <2>1, <2>2
<1> QED
  BY <1>2, <1>10

(* depth() is _reap and no more. *)
LEMMA BudgetDepth ==
    ASSUME QueueTypeOK, NEW H, NEW f \in Nat, Budget(ready, inflight, unsent, f, H), Depth
    PROVE  Budget(ready', inflight', unsent, f, H)
<1>1. PICK q \in AfterReap : ready' = q
  BY DEF Depth
<1>2. /\ DOMAIN inflight' = DOMAIN inflight \ Expired
      /\ \A m \in DOMAIN inflight' : inflight'[m] = inflight[m]
  BY DEF Depth, Without
<1>3. /\ OneEach(q)
      /\ \A e \in Range(q) :
            /\ e.id \notin DOMAIN inflight \ Expired /\ e.id \notin unsent
            /\ Within(e.attempts, e.id, H, 1, f)
  BY BudgetReap
<1> QED
  BY <1>1, <1>2, <1>3 DEF Budget

(* receive(): the demand of the entry becomes the try of the new holder. *)
LEMMA BudgetReceive ==
    ASSUME QueueTypeOK, NEW H, NEW f \in Nat, Budget(ready, inflight, unsent, f, H),
           NEW q \in AfterReap, Receive(q), NEW d \in Delivery, d = Delivering(q)
    PROVE  d \notin H /\ Budget(ready', inflight', unsent, f, H \cup {d})
<1>1. /\ q \in Seq(Entry) /\ OneEach(q) /\ q # <<>>
      /\ \A e \in Range(q) :
            /\ e.id \notin DOMAIN inflight \ Expired /\ e.id \notin unsent
            /\ Within(e.attempts, e.id, H, 1, f)
  BY BudgetReap DEF Receive
<1>2. PICK a \in Nat : a = Head(q).attempts
  <2>1. Head(q) \in Entry
    BY <1>1, RangeTail
  <2> QED
    BY <2>1 DEF Entry
<1>3. /\ d.id = Head(q).id /\ d.attempts = a + 1 /\ Head(q) \in Range(q)
      /\ Range(q) = {Head(q)} \cup Range(Tail(q))
  BY <1>1, <1>2, RangeTail DEF Delivering
<1>4. OneEach(Tail(q)) /\ \A e \in Range(Tail(q)) : e.id # d.id
  BY <1>1, <1>3, OneEachTail
<1>5. ready' = Tail(q)
  BY DEF Receive
<1>6. PICK c : c = [attempts |-> a + 1, expired |-> FALSE]
  OBVIOUS
<1>7. inflight' = With(Without(inflight, Expired), d.id, c)
  BY <1>2, <1>3, <1>6 DEF Receive
<1>8. /\ DOMAIN inflight' = (DOMAIN inflight \ Expired) \cup {d.id}
      /\ inflight'[d.id] = c
      /\ \A m \in DOMAIN inflight' : m # d.id => inflight'[m] = inflight[m]
  BY <1>7 DEF With, Without
<1>9. PICK G : G = H \cup {d}
  OBVIOUS
<1>10. IsFiniteSet(H) /\ H \in SUBSET Delivery /\ G \ {d} = H \ {d}
  BY <1>9 DEF Budget
<1>11. d \notin H /\ Within(a + 1, d.id, G, 0, f)
  BY <1>1, <1>2, <1>3, <1>9, <1>10, WithinDelivered
<1>12. IsFiniteSet(G) /\ G \subseteq Delivery /\ \A x \in G : x.id \notin unsent
  BY <1>1, <1>3, <1>9, <1>10, FS_AddElement DEF Budget
<1>13. ASSUME NEW e \in Range(ready')
       PROVE  /\ e.id \notin DOMAIN inflight' /\ e.id \notin unsent
              /\ Within(e.attempts, e.id, G, 1, f)
  <2>1. e.id # d.id /\ e \in Range(q)
    BY <1>3, <1>4, <1>5, <1>13
  <2> QED
    BY <1>1, <1>8, <1>10, <2>1, WithinOthers
<1>14. ASSUME NEW m \in DOMAIN inflight'
       PROVE  Within(inflight'[m].attempts, m, G, Lapse(inflight'[m], m, G), f)
  <2>1. CASE m = d.id
    <3>1. Lapse(c, m, G) = 0
      BY <1>6, <1>9, <2>1 DEF Lapse, Holds
    <3> QED
      BY <1>6, <1>8, <1>11, <2>1, <3>1
  <2>2. CASE m # d.id
    <3>1. m \in DOMAIN inflight /\ inflight'[m] = inflight[m]
      BY <1>8, <2>2
    <3>2. Within(inflight[m].attempts, m, H, Lapse(inflight[m], m, H), f)
      BY <3>1 DEF Budget
    <3>3. Lapse(inflight[m], m, G) = Lapse(inflight[m], m, H)
      BY <1>10, <2>2, LapseOthers
    <3> QED
      BY <1>10, <2>2, <3>1, <3>2, <3>3, WithinOthers
  <2> QED
    BY <2>1, <2>2
<1>15. DOMAIN inflight' \cap unsent = {}
  BY <1>1, <1>3, <1>8 DEF Budget
<1>16. Budget(ready', inflight', unsent, f, G)
  BY <1>4, <1>5, <1>12, <1>13, <1>14, <1>15 DEF Budget
<1> QED
  BY <1>9, <1>11, <1>16

(* publish(): a message nobody holds starts with max_attempts tries. *)
LEMMA BudgetPublish ==
    ASSUME QueueTypeOK, NEW H, NEW f \in Nat, Budget(ready, inflight, unsent, f, H),
           NEW m \in unsent \cap Messages, Publish(m)
    PROVE  Budget(ready', inflight', unsent \ {m}, f, H)
<1>1. PICK e : e = [id |-> m, attempts |-> 0]
  OBVIOUS
<1>2. e \in Entry /\ e.id = m /\ e.attempts = 0
  BY <1>1 DEF Entry
<1>3. ready' = Append(ready, e) /\ inflight' = inflight /\ ready \in Seq(Entry)
  BY <1>1 DEF Publish, QueueTypeOK
<1>4. Range(ready') = Range(ready) \cup {e}
  BY <1>2, <1>3, RangeAppend
<1>5. \A x \in Range(ready) : x.id # e.id
  BY <1>2 DEF Budget
<1>6. OneEach(ready')
  BY <1>2, <1>3, <1>5, OneEachAppend DEF Budget
<1>7. Within(0, m, H, 1, f)
  <2>1. \A d \in H : d.id # m
    BY DEF Budget
  <2>2. Weak(H, m) = {}
    BY <2>1 DEF Weak
  <2>3. Above(0) = MaxAttempts - 1 /\ Cardinality(Weak(H, m)) = 0
    BY <2>2, FS_EmptySet, LimitsAssumption DEF Above
  <2> QED
    BY <2>1, <2>3, LimitsAssumption DEF Within
<1>8. m \notin DOMAIN inflight
  BY DEF Budget
<1> QED
  BY <1>2, <1>3, <1>4, <1>6, <1>7, <1>8 DEF Budget

(* A claim lapses: a fault when its holder is still there, and otherwise a   *)
(* lapse the budget has foreseen.                                           *)
LEMMA BudgetLapse ==
    ASSUME QueueTypeOK, NEW H, NEW f \in Nat, NEW g \in Nat,
           Budget(ready, inflight, unsent, f, H), NEW m, ClaimExpires(m),
           Holds(H, m) => g = f + 1, ~Holds(H, m) => g = f
    PROVE  Budget(ready', inflight', unsent, g, H)
<1>1. /\ m \in DOMAIN inflight /\ ~inflight[m].expired /\ ready' = ready
      /\ DOMAIN inflight' = DOMAIN inflight
      /\ \A k \in DOMAIN inflight : k # m => inflight'[k] = inflight[k]
  BY DEF ClaimExpires
<1>2. inflight'[m].attempts = inflight[m].attempts /\ inflight'[m].expired
  BY <1>1 DEF ClaimExpires, QueueTypeOK, Claim
<1>3. Budget(ready, inflight, unsent, g, H)
  BY BudgetQuiet
<1>4. Within(inflight[m].attempts, m, H, 1, g)
  <2>1. PICK a \in Nat : a = inflight[m].attempts
    BY <1>1, BudgetTypes
  <2>2. PICK p \in Nat : p = Lapse(inflight[m], m, H)
    BY LapseType
  <2>3. Within(a, m, H, p, f)
    BY <1>1, <2>1, <2>2 DEF Budget
  <2>4. 1 <= p + (g - f)
    BY <1>1, <2>2 DEF Lapse
  <2>5. IsFiniteSet(H) /\ H \subseteq H /\ f <= g /\ 1 \in Nat
    BY DEF Budget
  <2>6. Within(a, m, H, 1, g)
    BY <2>3, <2>4, <2>5, WithinLess
  <2> QED
    BY <2>1, <2>6
<1>5. Lapse(inflight'[m], m, H) = 1
  BY <1>2 DEF Lapse
<1> QED
  BY <1>1, <1>2, <1>3, <1>4, <1>5 DEF Budget

(* A verdict takes the claim there is, and its holder; a nack, which only a  *)
(* holder with tries left makes, puts an entry back for it.                 *)
LEMMA BudgetVerdict ==
    ASSUME QueueTypeOK, NEW H, NEW f \in Nat, Budget(ready, inflight, unsent, f, H),
           NEW d \in H,
           Ack(d) \/ DeadLetter(d) \/ (Nack(d) /\ d.attempts < MaxAttempts)
    PROVE  Budget(ready', inflight', unsent, f, H \ {d})
<1>1. PICK G : G = H \ {d}
  OBVIOUS
<1>2. /\ IsFiniteSet(H) /\ IsFiniteSet(G) /\ G \subseteq H /\ G \ {d} = H \ {d}
      /\ G \subseteq Delivery /\ \A x \in G : x.id \notin unsent
      /\ d \in Delivery /\ d.id \notin unsent
  BY <1>1, FS_Subset DEF Budget
<1>3. /\ DOMAIN inflight' = DOMAIN inflight \ {d.id}
      /\ \A m \in DOMAIN inflight' : m # d.id /\ m \in DOMAIN inflight
                                     /\ inflight'[m] = inflight[m]
  BY DEF Ack, DeadLetter, Nack, Without, queueVars
<1>4. ASSUME NEW m \in DOMAIN inflight'
      PROVE  Within(inflight'[m].attempts, m, G, Lapse(inflight'[m], m, G), f)
  <2>1. Within(inflight[m].attempts, m, H, Lapse(inflight[m], m, H), f)
    BY <1>3, <1>4 DEF Budget
  <2>2. Lapse(inflight[m], m, G) = Lapse(inflight[m], m, H)
    BY <1>2, <1>3, <1>4, LapseOthers
  <2>3. m # d.id /\ inflight'[m] = inflight[m]
    BY <1>3, <1>4
  <2> QED
    BY <1>2, <2>1, <2>2, <2>3, WithinOthers
<1>5. ASSUME NEW e \in Range(ready) PROVE Within(e.attempts, e.id, G, 1, f)
  <2>1. e.attempts \in Nat /\ Within(e.attempts, e.id, H, 1, f) /\ 1 \in Nat
        /\ 1 <= 1 + (f - f) /\ f <= f
    BY BudgetTypes DEF Budget
  <2> QED
    BY <1>2, <2>1, WithinLess
<1>6. \A e \in Range(ready) : e.id \notin DOMAIN inflight' /\ e.id \notin unsent
  BY <1>3 DEF Budget
<1>7. DOMAIN inflight' \cap unsent = {}
  BY <1>3 DEF Budget
<1>8. CASE ready' = ready
  BY <1>1, <1>2, <1>4, <1>5, <1>6, <1>7, <1>8 DEF Budget
<1>9. CASE Nack(d) /\ d.attempts < MaxAttempts /\ d.id \in DOMAIN inflight
  <2>1. PICK e : e = [id |-> d.id, attempts |-> inflight[d.id].attempts]
    OBVIOUS
  <2>2. ready' = Append(ready, e)
    BY <1>9, <2>1 DEF Nack
  <2>3. e \in Entry /\ e.id = d.id /\ e.attempts = inflight[d.id].attempts
        /\ e.attempts \in Nat
    BY <1>9, <2>1, BudgetTypes DEF Entry
  <2>4. ready \in Seq(Entry) /\ OneEach(ready) /\ \A x \in Range(ready) : x.id # e.id
    BY <1>9, <2>3 DEF Budget, QueueTypeOK
  <2>5. OneEach(ready') /\ Range(ready') = Range(ready) \cup {e}
    BY <2>2, <2>3, <2>4, OneEachAppend, RangeAppend
  <2>6. PICK p \in Nat : p = Lapse(inflight[d.id], d.id, H)
    BY LapseType
  <2>7. Within(e.attempts, d.id, H, p, f)
    BY <1>9, <2>3, <2>6 DEF Budget
  <2>8. Within(e.attempts, e.id, G, 1, f)
    BY <1>1, <1>2, <1>9, <2>3, <2>7, WithinSpent
  <2>9. e.id \notin DOMAIN inflight' /\ e.id \notin unsent
    BY <1>2, <1>3, <2>3
  <2> QED
    BY <1>1, <1>2, <1>4, <1>5, <1>6, <1>7, <2>5, <2>8, <2>9 DEF Budget
<1> QED
  BY <1>8, <1>9 DEF Ack, DeadLetter, Nack, queueVars

-----------------------------------------------------------------------------
(* The hands depend on the open batches only. *)
OpenIn(bs) == {k \in DOMAIN bs : ~bs[k].settled}

LEMMA HandsSame ==
    ASSUME NEW c, NEW bs, NEW cs, OneHand(c, bs), OpenIn(cs) = OpenIn(bs),
           \A k \in OpenIn(bs) : cs[k].message = bs[k].message
    PROVE  OneHand(c, cs) /\ HeldBy(c, cs) = HeldBy(c, bs)
BY DEF OneHand, HeldBy, OpenIn

LEMMA HandsLess ==
    ASSUME NEW c, NEW bs, NEW cs, OneHand(c, bs), NEW n \in OpenIn(bs),
           OpenIn(cs) = OpenIn(bs) \ {n},
           \A k \in OpenIn(cs) : cs[k].message = bs[k].message
    PROVE  /\ OneHand(c, cs) /\ bs[n].message \in HeldBy(c, bs)
           /\ HeldBy(c, cs) = HeldBy(c, bs) \ {bs[n].message}
<1>1. OneHand(c, cs)
  BY DEF OneHand, OpenIn
<1>2. \A d : d \in HeldBy(c, bs) <=>
        d \in Range(c) \/ \E k \in OpenIn(bs) : d = bs[k].message
  BY DEF HeldBy, OpenIn
<1>3. \A d : d \in HeldBy(c, cs) <=>
        d \in Range(c) \/ \E k \in OpenIn(cs) : d = cs[k].message
  BY DEF HeldBy, OpenIn
<1>4. /\ bs[n].message \notin Range(c)
      /\ \A k \in OpenIn(bs) : bs[k].message = bs[n].message => k = n
  BY DEF OneHand, OpenIn
<1>5. \A d : d \in HeldBy(c, cs) <=> d \in HeldBy(c, bs) /\ d # bs[n].message
  BY <1>2, <1>3, <1>4
<1> QED
  BY <1>1, <1>2, <1>5

(* A call of _settle, for batch n as the caller sees it. *)
LEMMA SettleDelivers ==
    ASSUME QueueTypeOK, BatchesTyped, NEW n \in Nat, NEW b \in Batch,
           NEW count \in Stats, SettleCounting(n, b, count), NEW c, NEW f \in Nat,
           NEW bs, bs = With(batches, n, b), OneHand(c, bs),
           Budget(ready, inflight, unsent, f, HeldBy(c, bs))
    PROVE  /\ OneHand(c, batches')
           /\ Budget(ready', inflight', unsent, f, HeldBy(c, batches'))
<1>1. /\ DOMAIN bs = DOMAIN batches \cup {n} /\ bs[n] = b
      /\ \A k \in DOMAIN bs : k # n => bs[k] = batches[k]
  BY DEF With
<1>2. CASE NotYet(b) /\ Store(n, b) /\ UNCHANGED queueVars
  <2>1. /\ DOMAIN batches' = IF b.settled /\ b.running = 0
                             THEN DOMAIN batches \ {n} ELSE DOMAIN batches \cup {n}
        /\ \A k \in DOMAIN batches' : batches'[k] = IF k = n THEN b ELSE batches[k]
    BY <1>2, StoreEffect
  <2>2. PICK cs : cs = batches'
    OBVIOUS
  <2>3. OpenIn(cs) = OpenIn(bs) /\ \A k \in OpenIn(bs) : cs[k].message = bs[k].message
    BY <1>1, <2>1, <2>2 DEF OpenIn
  <2>4. OneHand(c, cs) /\ HeldBy(c, cs) = HeldBy(c, bs)
    BY <2>3, HandsSame
  <2>5. ready' = ready /\ inflight' = inflight
    BY <1>2 DEF queueVars
  <2> QED
    BY <2>2, <2>4, <2>5
<1>3. ASSUME ~NotYet(b), NEW field, Verdict(n, b, count, field),
             \/ Ack(b.message) \/ DeadLetter(b.message)
             \/ (Nack(b.message) /\ ~OutOfAttempts(b))
      PROVE  /\ OneHand(c, batches')
             /\ Budget(ready', inflight', unsent, f, HeldBy(c, batches'))
  <2>1. PICK s \in Batch : s = [b EXCEPT !.settled = TRUE]
    BY DEF Batch
  <2>2. s.settled /\ Store(n, s)
    BY <1>3, <2>1 DEF Verdict, Batch
  <2>3. /\ DOMAIN batches' = IF s.settled /\ s.running = 0
                             THEN DOMAIN batches \ {n} ELSE DOMAIN batches \cup {n}
        /\ \A k \in DOMAIN batches' : batches'[k] = IF k = n THEN s ELSE batches[k]
    BY <2>2, StoreEffect
  <2>4. PICK cs : cs = batches'
    OBVIOUS
  <2>5. n \in OpenIn(bs)
    BY <1>1, <1>3 DEF OpenIn, NotYet
  <2>6. OpenIn(cs) = OpenIn(bs) \ {n} /\ \A k \in OpenIn(cs) : cs[k].message = bs[k].message
    BY <1>1, <2>2, <2>3, <2>4 DEF OpenIn
  <2>7. PICK d : d = b.message
    OBVIOUS
  <2>8. /\ OneHand(c, cs) /\ d \in HeldBy(c, bs)
        /\ HeldBy(c, cs) = HeldBy(c, bs) \ {d}
    <3>1. bs[n].message = d
      BY <1>1, <2>7
    <3>2. /\ OneHand(c, cs) /\ bs[n].message \in HeldBy(c, bs)
          /\ HeldBy(c, cs) = HeldBy(c, bs) \ {bs[n].message}
      BY <2>5, <2>6, HandsLess
    <3> QED
      BY <3>1, <3>2
  <2>9. d.attempts \in Nat
    BY <2>7 DEF Batch, Delivery
  <2>10. Ack(d) \/ DeadLetter(d) \/ (Nack(d) /\ d.attempts < MaxAttempts)
    BY <1>3, <2>7, <2>9, LimitsAssumption DEF OutOfAttempts
  <2>11. PICK H : H = HeldBy(c, bs)
    OBVIOUS
  <2>12. Budget(ready', inflight', unsent, f, H \ {d})
    BY <2>8, <2>10, <2>11, BudgetVerdict
  <2> QED
    BY <2>4, <2>8, <2>11, <2>12
<1> QED
  BY <1>2, <1>3 DEF SettleCounting

(* The batch b stands in for batch n, no more and no less settled. *)
LEMMA SettleOldDelivers ==
    ASSUME IndInv, DeliverInv, NEW n \in DOMAIN batches, NEW b \in Batch,
           b.settled = batches[n].settled, b.message = batches[n].message,
           Settle(n, b), UNCHANGED <<claimed, unsent>>, NEW f \in Nat, f = faults',
           faults <= f
    PROVE  DeliverInv'
<1>1. BatchesTyped /\ n \in Nat /\ QueueTypeOK /\ faults \in Nat
  BY DEF IndInv, TypeOK, BatchesTyped
<1>2. PICK count \in Stats : count = stats
  BY DEF IndInv, TypeOK
<1>3. SettleCounting(n, b, count)
  BY <1>2 DEF Settle
<1>4. PICK bs : bs = With(batches, n, b)
  OBVIOUS
<1>5. PICK c, old, g : c = claimed /\ old = batches /\ g = faults
  OBVIOUS
<1>6. OpenIn(bs) = OpenIn(old) /\ \A k \in OpenIn(old) : bs[k].message = old[k].message
  BY <1>4, <1>5 DEF With, OpenIn
<1>7. OneHand(c, old) /\ Budget(ready, inflight, unsent, g, HeldBy(c, old))
  BY <1>5 DEF DeliverInv
<1>8. OneHand(c, bs) /\ HeldBy(c, bs) = HeldBy(c, old)
  BY <1>6, <1>7, HandsSame
<1>9. PICK H : H = HeldBy(c, bs)
  OBVIOUS
<1>10. Budget(ready, inflight, unsent, f, H)
  BY <1>1, <1>5, <1>7, <1>8, <1>9, BudgetQuiet
<1>11. /\ OneHand(c, batches')
       /\ Budget(ready', inflight', unsent, f, HeldBy(c, batches'))
  BY <1>1, <1>3, <1>4, <1>8, <1>9, <1>10, SettleDelivers
<1> QED
  BY <1>5, <1>11 DEF DeliverInv

LEMMA DeliverReap ==
    ASSUME IndInv, DeliverInv, NEW h \in Handles, Reap(h)
    PROVE  DeliverInv'
<1>1. PICK ok \in BOOLEAN : Reaped(h, ok)
  BY DEF Reap, ReapExited, ReapOverrun, ReapLost
<1>2. PICK n \in DOMAIN batches, b \in Batch :
        /\ b.settled = batches[n].settled /\ b.message = batches[n].message
        /\ Settle(n, b)
  BY <1>1, ReapedBatch
<1>3. UNCHANGED <<claimed, unsent>>
  BY <1>1 DEF Reaped
<1>4. PICK f : f = faults'
  OBVIOUS
<1>5. f \in Nat /\ faults <= f
  <2>1. f = faults \/ f = faults + 1
    BY <1>4 DEF Reap, ReapExited, ReapOverrun, ReapLost, Fault
  <2>2. faults \in Nat
    BY DEF IndInv, TypeOK
  <2> QED
    BY <2>1, <2>2
<1> QED
  BY <1>2, <1>3, <1>4, <1>5, SettleOldDelivers

LEMMA DeliverLaunch ==
    ASSUME IndInv, DeliverInv, \/ LaunchRefused
                               \/ \E h : LaunchAccepted(h)
    PROVE  DeliverInv'
<1>1. PICK n \in DOMAIN batches, b \in Batch :
        /\ b.settled = batches[n].settled /\ b.message = batches[n].message
        /\ Settle(n, b)
  BY LaunchedBatch
<1>2. UNCHANGED <<claimed, unsent>>
  BY DEF LaunchRefused, LaunchAccepted, Popped
<1>3. PICK f : f = faults'
  OBVIOUS
<1>4. f \in Nat /\ faults <= f
  BY <1>3 DEF LaunchRefused, LaunchAccepted, Fault, IndInv, TypeOK
<1> QED
  BY <1>1, <1>2, <1>3, <1>4, SettleOldDelivers

(* _receive hands a delivery over to its batch. *)
LEMMA DeliverUnpack ==
    ASSUME IndInv, DeliverInv, Unpack
    PROVE  DeliverInv'
<1>1. PICK n \in Nat \ DOMAIN batches, count \in Stats, b \in Batch :
        ~b.settled /\ b.message = Head(claimed) /\ SettleCounting(n, b, count)
  BY UnpackedBatch
<1>2. /\ QueueTypeOK /\ BatchesTyped /\ claimed \in Seq(Delivery) /\ claimed # <<>>
      /\ claimed' = Tail(claimed) /\ unsent' = unsent /\ faults' = faults
  BY DEF IndInv, TypeOK, BatchesTyped, Unpack
<1>3. PICK f \in Nat : f = faults
  BY DEF IndInv, TypeOK
<1>4. PICK c : c = claimed'
  OBVIOUS
<1>5. PICK d : d = b.message
  OBVIOUS
<1>6. OneHand(claimed, batches) /\ IsInjective(claimed)
  BY DEF DeliverInv, OneHand
<1>7. IsInjective(c) /\ Range(c) = Range(claimed) \ {d} /\ d \in Range(claimed)
  BY <1>1, <1>2, <1>4, <1>5, <1>6, TailInjective, RangeTail
<1>8. PICK bs : bs = With(batches, n, b)
  OBVIOUS
<1>9. /\ DOMAIN bs = DOMAIN batches \cup {n} /\ bs[n] = b
      /\ \A k \in DOMAIN bs : k # n => k \in DOMAIN batches /\ bs[k] = batches[k]
  BY <1>8 DEF With
<1>10. OneHand(c, bs)
  <2>1. \A k \in DOMAIN batches : ~batches[k].settled => batches[k].message # d
    BY <1>6, <1>7 DEF OneHand
  <2> QED
    BY <1>5, <1>6, <1>7, <1>9, <2>1 DEF OneHand
<1>11. HeldBy(c, bs) = HeldBy(claimed, batches)
  <2>1. \A x : x \in HeldBy(c, bs) <=> x \in Range(c) \/ \E k \in OpenIn(bs) : x = bs[k].message
    BY DEF HeldBy, OpenIn
  <2>2. \A x : x \in HeldBy(claimed, batches) <=>
            x \in Range(claimed) \/ \E k \in OpenIn(batches) : x = batches[k].message
    BY DEF HeldBy, OpenIn
  <2>3. OpenIn(bs) = OpenIn(batches) \cup {n} /\ n \notin OpenIn(batches)
    BY <1>1, <1>9 DEF OpenIn
  <2>4. /\ bs[n].message = d
        /\ \A k \in OpenIn(batches) : bs[k].message = batches[k].message
    BY <1>1, <1>5, <1>9 DEF OpenIn
  <2>5. \A x : (\E k \in OpenIn(bs) : x = bs[k].message) <=>
            x = d \/ \E k \in OpenIn(batches) : x = batches[k].message
    BY <2>3, <2>4
  <2>6. \A x : x \in Range(claimed) <=> x = d \/ x \in Range(c)
    BY <1>7
  <2>7. \A x : x \in HeldBy(c, bs) <=> x \in HeldBy(claimed, batches)
    BY <2>1, <2>2, <2>5, <2>6
  <2> QED
    BY <2>7
<1>12. Budget(ready, inflight, unsent, f, HeldBy(c, bs))
  BY <1>3, <1>11 DEF DeliverInv
<1>13. /\ OneHand(c, batches')
       /\ Budget(ready', inflight', unsent, f, HeldBy(c, batches'))
  BY <1>1, <1>2, <1>8, <1>10, <1>12, SettleDelivers
<1> QED
  BY <1>2, <1>3, <1>4, <1>13 DEF DeliverInv

LEMMA DeliverReceive ==
    ASSUME IndInv, DeliverInv, ReceiveOne
    PROVE  DeliverInv'
<1>1. /\ QueueTypeOK /\ claimed \in Seq(Delivery)
      /\ batches' = batches /\ unsent' = unsent /\ faults' = faults
  BY DEF IndInv, TypeOK, ReceiveOne, taskVars
<1>2. PICK f \in Nat : f = faults
  BY DEF IndInv, TypeOK
<1>3. CASE ReceiveNone /\ UNCHANGED claimed
  <2>1. ready' = ready /\ inflight' = inflight /\ claimed' = claimed
    BY <1>3 DEF ReceiveNone, queueVars
  <2> QED
    BY <1>1, <2>1 DEF DeliverInv
<1>4. CASE \E q \in AfterReap : Receive(q) /\ claimed' = Append(claimed, Delivering(q))
  <2>1. PICK q \in AfterReap : Receive(q) /\ claimed' = Append(claimed, Delivering(q))
    BY <1>4
  <2>2. PICK d \in Delivery : d = Delivering(q)
    BY <1>1, <2>1, ReceiveEffect
  <2>3. PICK H : H = HeldBy(claimed, batches)
    OBVIOUS
  <2>4. OneHand(claimed, batches) /\ Budget(ready, inflight, unsent, f, H)
    BY <1>2, <2>3 DEF DeliverInv
  <2>5. d \notin H /\ Budget(ready', inflight', unsent, f, H \cup {d})
    BY <1>1, <2>1, <2>2, <2>4, BudgetReceive
  <2>6. claimed' = Append(claimed, d)
    BY <2>1, <2>2
  <2>7. Range(claimed') = Range(claimed) \cup {d}
    BY <1>1, <2>6, RangeAppend
  <2>8. /\ d \notin Range(claimed)
        /\ \A k \in DOMAIN batches : ~batches[k].settled => batches[k].message # d
    BY <2>3, <2>5 DEF HeldBy
  <2>9. IsInjective(claimed')
    <3>1. IsInjective(claimed)
      BY <2>4 DEF OneHand
    <3>2. <<d>> \in Seq(Delivery) /\ IsInjective(<<d>>) /\ Range(<<d>>) = {d}
      BY DEF IsInjective, Range
    <3>3. claimed' = claimed \o <<d>>
      BY <1>1, <2>6, AppendIsConcat
    <3>4. Range(claimed) \cap Range(<<d>>) = {}
      BY <2>8, <3>2
    <3> QED
      BY <1>1, <3>1, <3>2, <3>3, <3>4, ConcatInjective
  <2>10. OneHand(claimed', batches)
    BY <2>4, <2>7, <2>8, <2>9 DEF OneHand
  <2>11. HeldBy(claimed', batches) = H \cup {d}
    BY <2>3, <2>7 DEF HeldBy
  <2> QED
    BY <1>1, <1>2, <2>5, <2>10, <2>11 DEF DeliverInv
<1> QED
  BY <1>3, <1>4 DEF ReceiveOne

LEMMA DeliverDie ==
    ASSUME IndInv, DeliverInv, Die, faults' = faults + 1
    PROVE  DeliverInv'
<1>1. QueueTypeOK /\ claimed' = <<>> /\ DOMAIN batches' = {}
      /\ ready' = ready /\ inflight' = inflight /\ unsent' = unsent
  BY DEF Die, IndInv, TypeOK, queueVars
<1>2. PICK f \in Nat : f = faults
  BY DEF IndInv, TypeOK
<1>3. PICK H : H = HeldBy(claimed, batches)
  OBVIOUS
<1>4. Budget(ready, inflight, unsent, f, H)
  BY <1>2, <1>3 DEF DeliverInv
<1>5. PICK g \in Nat : g = f + 1
  OBVIOUS
<1>6. Budget(ready, inflight, unsent, g, {})
  BY <1>1, <1>4, <1>5, BudgetQuiet
<1>7. HeldBy(claimed', batches') = {} /\ OneHand(claimed', batches')
  <2>1. Range(claimed') = {} /\ IsInjective(claimed')
    BY <1>1 DEF Range, IsInjective
  <2> QED
    BY <1>1, <2>1 DEF HeldBy, OneHand
<1> QED
  BY <1>1, <1>2, <1>5, <1>6, <1>7 DEF DeliverInv

(* The queue moves, and no hand does. *)
LEMMA DeliverAround ==
    ASSUME IndInv, DeliverInv,
           \/ Start
           \/ \E m \in Messages : PublishNew(m) \/ Expires(m)
    PROVE  DeliverInv'
<1>1. QueueTypeOK /\ claimed' = claimed /\ batches' = batches
  BY DEF Start, PublishNew, Expires, loopVars, taskVars, IndInv, TypeOK
<1>2. PICK f \in Nat : f = faults
  BY DEF IndInv, TypeOK
<1>3. PICK H : H = HeldBy(claimed, batches)
  OBVIOUS
<1>4. OneHand(claimed, batches) /\ Budget(ready, inflight, unsent, f, H)
  BY <1>2, <1>3 DEF DeliverInv
<1>5. CASE Start
  <2>1. Depth /\ unsent' = unsent /\ faults' = f
    BY <1>2, <1>5 DEF Start
  <2>2. Budget(ready', inflight', unsent, f, H)
    BY <1>1, <1>4, <2>1, BudgetDepth
  <2> QED
    BY <1>1, <1>3, <1>4, <2>1, <2>2 DEF DeliverInv
<1>6. ASSUME NEW m \in Messages, PublishNew(m) PROVE DeliverInv'
  <2>1. m \in unsent \cap Messages /\ Publish(m) /\ unsent' = unsent \ {m} /\ faults' = f
    BY <1>2, <1>6 DEF PublishNew
  <2>2. Budget(ready', inflight', unsent \ {m}, f, H)
    BY <1>1, <1>4, <2>1, BudgetPublish
  <2> QED
    BY <1>1, <1>3, <1>4, <2>1, <2>2 DEF DeliverInv
<1>7. ASSUME NEW m \in Messages, Expires(m) PROVE DeliverInv'
  <2>1. Holds(H, m) <=> m \in Held
    <3>1. \A d : d \in H <=> \/ d \in Range(claimed)
                            \/ \E k \in OpenIn(batches) : d = batches[k].message
      BY <1>3 DEF HeldBy, OpenIn
    <3>2. Holds(H, m) <=> \/ \E d \in Range(claimed) : d.id = m
                          \/ \E k \in OpenIn(batches) : batches[k].message.id = m
      BY <3>1 DEF Holds
    <3>3. \A b : b \in {x \in Range(batches) : ~x.settled} <=>
             \E k \in OpenIn(batches) : b = batches[k]
      BY DEF Range, OpenIn
    <3>4. m \in Held <=> \/ \E d \in Range(claimed) : d.id = m
                         \/ \E b \in {x \in Range(batches) : ~x.settled} : b.message.id = m
      BY DEF Held
    <3> QED
      BY <3>2, <3>3, <3>4
  <2>2. PICK g : g = faults'
    OBVIOUS
  <2>3. /\ ClaimExpires(m) /\ unsent' = unsent
        /\ m \in Held => g = f + 1
        /\ m \notin Held => g = f
    BY <1>2, <1>7, <2>2 DEF Expires, Fault
  <2>4. g \in Nat
    BY <2>3
  <2>5. Budget(ready', inflight', unsent, g, H)
    BY <1>1, <1>4, <2>1, <2>3, <2>4, BudgetLapse
  <2> QED
    BY <1>1, <1>3, <1>4, <2>2, <2>3, <2>5 DEF DeliverInv
<1> QED
  BY <1>5, <1>6, <1>7

LEMMA DeliverStep == IndInv /\ DeliverInv /\ [Next]_vars => DeliverInv'
<1> SUFFICES ASSUME IndInv, DeliverInv, [Next]_vars PROVE DeliverInv'
  OBVIOUS
<1>1. CASE \/ Begin \/ ReapEnd \/ LaunchEnd \/ ReceiveEnd \/ UnpackEnd \/ Check \/ Signal
           \/ \E h \in Handles : PassOver(h) \/ TaskOverruns(h) \/ ContainerExits(h)
           \/ UNCHANGED vars
  <2>1. UNCHANGED <<ready, inflight, unsent, faults, claimed, batches>>
    BY <1>1 DEF Begin, ReapEnd, LaunchEnd, ReceiveEnd, UnpackEnd, Check, Signal, PassOver,
       TaskOverruns, ContainerExits, vars, taskVars, loopVars, queueVars
  <2> QED
    BY <2>1 DEF DeliverInv
<1>2. ASSUME LaunchRaises \/ ReapRaises \/ Crash PROVE DeliverInv'
  BY <1>2, DeliverDie DEF LaunchRaises, ReapRaises, Crash, Fault
<1> QED
  BY <1>1, <1>2, DeliverReap, DeliverLaunch, DeliverUnpack, DeliverReceive, DeliverAround
     DEF Next, Loop, Environment, Launch

(* A message is delivered at most max_attempts times, and once more for each *)
(* fault: a claim that lapsed under its holder, or a process that died.      *)
THEOREM DeliveriesAreBounded == Spec => []DeliveriesBounded
<1>1. Init => DeliverInv
  <2> SUFFICES ASSUME Init PROVE DeliverInv
    OBVIOUS
  <2>1. /\ Range(claimed) = {} /\ IsInjective(claimed)
        /\ DOMAIN batches = {} /\ DOMAIN inflight = {}
        /\ faults = 0 /\ unsent = Messages \ Preloaded
    BY DEF Init, Range, IsInjective
  <2>2. OneHand(claimed, batches) /\ HeldBy(claimed, batches) = {}
    BY <2>1 DEF OneHand, HeldBy
  <2>3. PICK N : N = Cardinality(Preloaded)
    OBVIOUS
  <2>4. ready \in Bijection(1..N, [id : Preloaded, attempts : {0}])
    BY <2>3 DEF Init
  <2>5. DOMAIN ready = 1..N /\ IsInjective(ready)
        /\ \A i \in 1..N : ready[i] \in [id : Preloaded, attempts : {0}]
    BY <2>4 DEF Bijection, Injection, Surjection
  <2>6. \A i \in DOMAIN ready : ready[i] = [id |-> ready[i].id, attempts |-> 0]
    BY <2>5
  <2>7. OneEach(ready)
    BY <2>5, <2>6 DEF OneEach, IsInjective
  <2>8. \A e \in Range(ready) : e.id \in Preloaded /\ e.attempts = 0
    BY <2>5 DEF Range
  <2>9. ASSUME NEW m PROVE Within(0, m, {}, 1, 0)
    <3>1. Weak({}, m) = {}
      BY DEF Weak
    <3>2. Above(0) = MaxAttempts - 1 /\ Cardinality({}) = 0
      BY FS_EmptySet, LimitsAssumption DEF Above
    <3> QED
      BY <3>1, <3>2, LimitsAssumption DEF Within
  <2>10. Budget(ready, inflight, unsent, faults, {})
    BY <2>1, <2>7, <2>8, <2>9, FS_EmptySet DEF Budget
  <2> QED
    BY <2>2, <2>10 DEF DeliverInv
<1>2. IndInv /\ DeliverInv => DeliveriesBounded
  <2> SUFFICES ASSUME IndInv, DeliverInv, NEW m \in DOMAIN inflight
               PROVE  inflight[m].attempts <= MaxAttempts + faults
    BY DEF DeliveriesBounded
  <2>1. PICK a \in Nat, f \in Nat : a = inflight[m].attempts /\ f = faults
    BY BudgetTypes DEF IndInv, TypeOK
  <2>2. PICK H : H = HeldBy(claimed, batches)
    OBVIOUS
  <2>3. PICK p \in Nat : p = Lapse(inflight[m], m, H)
    BY LapseType
  <2>4. IsFiniteSet(H) /\ Within(a, m, H, p, f)
    BY <2>1, <2>2, <2>3 DEF DeliverInv, Budget
  <2>5. Cardinality(Weak(H, m)) \in Nat /\ a <= Above(a) /\ Above(a) \in Int
    BY <2>4, WeakFinite, LimitsAssumption DEF Above
  <2>6. Above(a) + Cardinality(Weak(H, m)) + p <= MaxAttempts + f
    BY <2>4 DEF Within
  <2> QED
    BY <2>1, <2>5, <2>6, LimitsAssumption
<1> QED
  BY <1>1, <1>2, DeliverStep, InvariantHolds, PTL DEF Spec

=============================================================================
