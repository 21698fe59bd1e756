------------------------- MODULE DispatcherProofs -------------------------
(***************************************************************************)
(* Proofs about the dispatcher, for every set of messages, every max_in_    *)
(* flight, batch_size and max_attempts, both values of ack_on, and any      *)
(* number of faults.                                                       *)
(***************************************************************************)
EXTENDS Dispatcher, MemoryQueueProofs

-----------------------------------------------------------------------------
(* Storing a batch changes that batch only. *)
BatchesTyped == DOMAIN batches \subseteq Nat /\ batches \in [DOMAIN batches -> Batch]

LEMMA StoreEffect ==
    ASSUME BatchesTyped, NEW n \in Nat, NEW b \in Batch, Store(n, b)
    PROVE  /\ BatchesTyped'
           /\ DOMAIN batches' = IF b.settled /\ b.running = 0
                                THEN DOMAIN batches \ {n} ELSE DOMAIN batches \cup {n}
           /\ \A k \in DOMAIN batches' : batches'[k] = IF k = n THEN b ELSE batches[k]
<1>1. CASE b.settled /\ b.running = 0
  <2>1. batches' = Without(batches, {n})
    BY <1>1 DEF Store
  <2>2. DOMAIN batches' = DOMAIN batches \ {n}
    BY <2>1 DEF Without
  <2>3. \A k \in DOMAIN batches' : batches'[k] = batches[k]
    BY <2>1 DEF Without
  <2>4. batches' \in [DOMAIN batches' -> Batch]
    BY <2>1, <2>2, <2>3 DEF Without, BatchesTyped
  <2> QED
    BY <1>1, <2>2, <2>3, <2>4 DEF BatchesTyped
<1>2. CASE ~(b.settled /\ b.running = 0)
  <2>1. batches' = With(batches, n, b)
    BY <1>2 DEF Store
  <2>2. DOMAIN batches' = DOMAIN batches \cup {n}
    BY <2>1 DEF With
  <2>3. \A k \in DOMAIN batches' : batches'[k] = IF k = n THEN b ELSE batches[k]
    BY <2>1 DEF With
  <2>4. batches' \in [DOMAIN batches' -> Batch]
    <3>1. \A k \in DOMAIN batches' : batches'[k] \in Batch
      BY <2>2, <2>3 DEF BatchesTyped
    <3> QED
      BY <2>1, <3>1 DEF With
  <2> QED
    BY <1>2, <2>2, <2>3, <2>4 DEF BatchesTyped
<1> QED
  BY <1>1, <1>2

-----------------------------------------------------------------------------
(* The three things _settle can do to the queue. *)
Kept == Outstanding' = Outstanding /\ dead' = dead

Finished(b) ==
    /\ ~b.settled /\ ~b.failed /\ b.queued = 0
    /\ AckOn = "exit" => b.running = 0
    /\ Outstanding' \in {Outstanding, Outstanding \ {b.message.id}}
    /\ dead' = dead

GivenUp(b) ==
    /\ Outstanding' \in {Outstanding, Outstanding \ {b.message.id}}
    /\ dead' = dead \cup {b.message}

(* _settle keeps the types, changes nothing of the batch but its settled    *)
(* flag, sets that flag only when nothing is queued, and either leaves the  *)
(* message on the queue, or acks a batch that is complete, or parks it.     *)
LEMMA SettleEffect ==
    ASSUME QueueTypeOK, BatchesTyped, NEW n \in Nat, NEW b \in Batch,
           NEW count \in Stats, SettleCounting(n, b, count)
    PROVE  /\ QueueTypeOK'
           /\ stats' \in Stats /\ stats'.received = count.received
           /\ \E s \in BOOLEAN :
                /\ Store(n, [b EXCEPT !.settled = s])
                /\ b.settled => s
                /\ s => b.settled \/ b.queued = 0
           /\ Kept \/ Finished(b) \/ GivenUp(b)
<1>1. b.message \in Delivery /\ b.settled \in BOOLEAN /\ b.queued \in Nat /\ b.running \in Nat
  BY DEF Batch
<1>2. CASE NotYet(b) /\ Store(n, b) /\ stats' = count /\ UNCHANGED queueVars
  <2>1. b = [b EXCEPT !.settled = b.settled]
    BY DEF Batch
  <2>2. Kept /\ QueueTypeOK'
    BY <1>2 DEF Kept, QueueTypeOK, queueVars, Outstanding, ReadyIds
  <2> QED
    BY <1>1, <1>2, <2>1, <2>2
<1>3. ASSUME ~NotYet(b), NEW field \in {"acked", "retried", "deadLettered"},
             Verdict(n, b, count, field)
      PROVE  /\ stats' \in Stats /\ stats'.received = count.received
             /\ Store(n, [b EXCEPT !.settled = TRUE])
             /\ ~b.settled /\ b.queued = 0
             /\ AckOn = "exit" => b.running = 0
  BY <1>1, <1>3 DEF Verdict, Stats, NotYet
<1>4. CASE ~NotYet(b) /\ ~b.failed /\ Ack(b.message) /\ Verdict(n, b, count, "acked")
  <2>1. Finished(b) /\ QueueTypeOK'
    BY <1>1, <1>3, <1>4, AckEffect DEF Finished
  <2> QED
    BY <1>3, <1>4, <2>1
<1>5. CASE /\ ~NotYet(b) /\ b.failed
           /\ DeadLetter(b.message) /\ Verdict(n, b, count, "deadLettered")
  <2>1. GivenUp(b) /\ QueueTypeOK'
    BY <1>1, <1>5, DeadLetterEffect DEF GivenUp
  <2> QED
    BY <1>3, <1>5, <2>1
<1>6. CASE ~NotYet(b) /\ b.failed /\ Nack(b.message) /\ Verdict(n, b, count, "retried")
  <2>1. Kept /\ QueueTypeOK'
    BY <1>1, <1>6, NackEffect DEF Kept
  <2> QED
    BY <1>3, <1>6, <2>1
<1> QED
  BY <1>2, <1>4, <1>5, <1>6 DEF SettleCounting

-----------------------------------------------------------------------------
(* A call of _settle for batch n, in a step that leaves the tasks of every   *)
(* other batch alone, keeps the invariant once the batch object b agrees     *)
(* with the tasks of n as the step leaves them.                              *)
TasksFinite == IsFiniteSet(Range(pending)) /\ IsFiniteSet(DOMAIN running)

Agrees(n, b) ==
    /\ b.queued = Cardinality(QueuedTasks(n))
    /\ b.running = Cardinality(RunningTasks(n))
    /\ b.settled => b.queued = 0
    /\ CoveredBatch(n, b)

Undisturbed(n) ==
    /\ \A k \in DOMAIN batches \ {n} :
        /\ QueuedTasks(k)' = QueuedTasks(k)
        /\ RunningTasks(k)' = RunningTasks(k)
    /\ \A h \in DOMAIN running \cap DOMAIN running' : running'[h] = running[h]
    /\ accounted \subseteq accounted'

LEMMA NoneCounted ==
    ASSUME NEW P, NEW f, NEW n, IsFiniteSet(P), IsFiniteSet(DOMAIN f)
    PROVE  /\ Cardinality({t \in P : t.batch = n}) = 0 => \A t \in P : t.batch # n
           /\ Cardinality({h \in DOMAIN f : f[h].batch = n}) = 0 =>
                \A t \in Range(f) : t.batch # n
<1>1. /\ IsFiniteSet({t \in P : t.batch = n})
      /\ IsFiniteSet({h \in DOMAIN f : f[h].batch = n})
  BY FS_Subset
<1>2. ASSUME Cardinality({t \in P : t.batch = n}) = 0
      PROVE  \A t \in P : t.batch # n
  <2>1. {t \in P : t.batch = n} = {}
    BY <1>1, <1>2, FS_EmptySet
  <2> QED
    BY <2>1
<1>3. ASSUME Cardinality({h \in DOMAIN f : f[h].batch = n}) = 0
      PROVE  \A t \in Range(f) : t.batch # n
  <2>1. {h \in DOMAIN f : f[h].batch = n} = {}
    BY <1>1, <1>3, FS_EmptySet
  <2> QED
    BY <2>1 DEF Range
<1> QED
  BY <1>2, <1>3

(* A step of the promise, or none: what the dispatcher may do to the ledger. *)
Promised == [Promise!Next]_<<unsent, Outstanding, Parked, accounted>>

(* A step that leaves the messages where they are. *)
LEMMA QuietPromise ==
    ASSUME UNCHANGED unsent, Outstanding' = Outstanding, dead' = dead,
           accounted \subseteq accounted'
    PROVE  Promised
BY DEF Promised, Promise!Next, Parked

LEMMA SettleKeeps ==
    ASSUME IndInv, NEW n \in Nat, NEW b \in Batch, NEW count \in Stats,
           SettleCounting(n, b, count),
           UNCHANGED unsent,
           TasksFinite', Agrees(n, b)', Undisturbed(n),
           \A t \in Range(pending)' \cup Range(running)' : t.batch \in DOMAIN batches \cup {n},
           n <= count.received, stats.received <= count.received
    PROVE  /\ QueueTypeOK' /\ BatchesTyped' /\ stats' \in Stats
           /\ Bookkeeping' /\ Numbered' /\ Complete' /\ Covered' /\ NoMessageLost'
           /\ Promised
<1>1. QueueTypeOK /\ BatchesTyped
  BY DEF IndInv, TypeOK, BatchesTyped
<1>2. PICK s \in BOOLEAN :
        /\ Store(n, [b EXCEPT !.settled = s])
        /\ b.settled => s
        /\ s => b.settled \/ b.queued = 0
  BY <1>1, SettleEffect
<1>3. /\ QueueTypeOK'
      /\ stats' \in Stats /\ stats'.received = count.received
      /\ Kept \/ Finished(b) \/ GivenUp(b)
  BY <1>1, SettleEffect
<1> DEFINE c == [b EXCEPT !.settled = s]
<1>4. /\ c \in Batch /\ c.settled = s
      /\ c.queued = b.queued /\ c.running = b.running
      /\ c.failed = b.failed /\ c.message = b.message
  BY DEF Batch
<1> HIDE DEF c
<1>5. /\ BatchesTyped'
      /\ DOMAIN batches' = IF c.settled /\ c.running = 0
                           THEN DOMAIN batches \ {n} ELSE DOMAIN batches \cup {n}
      /\ \A k \in DOMAIN batches' : batches'[k] = IF k = n THEN c ELSE batches[k]
  BY <1>1, <1>2, <1>4, StoreEffect DEF c
<1>6. c.settled => c.queued = 0
  BY <1>2, <1>4 DEF Agrees
<1>12. /\ Cardinality(QueuedTasks(n)') = 0 => \A t \in Range(pending)' : t.batch # n
       /\ Cardinality(RunningTasks(n)') = 0 => \A t \in Range(running)' : t.batch # n
  BY NoneCounted DEF TasksFinite, QueuedTasks, RunningTasks
<1>7. Bookkeeping'
  <2>1. ASSUME NEW k \in DOMAIN batches'
        PROVE  /\ batches'[k].queued = Cardinality(QueuedTasks(k)')
               /\ batches'[k].running = Cardinality(RunningTasks(k)')
    <3>1. CASE k = n
      BY <3>1, <1>4, <1>5 DEF Agrees
    <3>2. CASE k # n
      BY <3>2, <1>5 DEF Undisturbed, IndInv, Bookkeeping
    <3> QED
      BY <3>1, <3>2
  <2>2. ASSUME NEW t \in Range(pending)' \cup Range(running)'
        PROVE  t.batch \in DOMAIN batches'
    <3>1. CASE t.batch = n
      <4>1. CASE c.settled /\ c.running = 0
        <5>1. Cardinality(QueuedTasks(n)') = 0 /\ Cardinality(RunningTasks(n)') = 0
          BY <4>1, <1>4, <1>6 DEF Agrees
        <5>2. \A u \in Range(pending)' \cup Range(running)' : u.batch # n
          BY <5>1, <1>12
        <5> QED
          BY <5>2, <3>1
      <4> QED
        BY <4>1, <3>1, <1>5
    <3>2. CASE t.batch # n
      BY <3>2, <1>5
    <3> QED
      BY <3>1, <3>2
  <2> QED
    BY <2>1, <2>2 DEF Bookkeeping
<1>8. Numbered'
  <2>1. ASSUME NEW k \in DOMAIN batches' PROVE k <= stats'.received
    <3>1. CASE k = n
      BY <3>1, <1>3
    <3>2. CASE k # n
      <4>1. k \in DOMAIN batches /\ k \in Nat /\ k <= stats.received
        BY <3>2, <1>1, <1>5 DEF IndInv, Numbered, BatchesTyped
      <4>2. stats.received \in Nat /\ count.received \in Nat
        BY DEF IndInv, TypeOK, Stats
      <4> QED
        BY <4>1, <4>2, <1>3
    <3> QED
      BY <3>1, <3>2
  <2> QED
    BY <2>1 DEF Numbered
<1>9. Complete'
  BY <1>5, <1>6 DEF Complete, IndInv
<1>10. Covered'
  <2>1. ASSUME NEW k \in DOMAIN batches' PROVE CoveredBatch(k, batches[k])'
    <3>1. CASE k = n
      <4>1. CoveredBatch(n, b)' /\ batches'[k] = c
        BY <3>1, <1>5 DEF Agrees
      <4> QED
        BY <3>1, <4>1, <1>2, <1>4 DEF CoveredBatch, Batch
    <3>2. CASE k # n
      <4>1. k \in DOMAIN batches /\ batches'[k] = batches[k] /\ CoveredBatch(k, batches[k])
        BY <3>2, <1>5 DEF IndInv, Covered
      <4>2. \A t : t.batch = k /\ t \in Range(pending) => t \in Range(pending)'
        BY <4>1, <3>2 DEF Undisturbed, QueuedTasks
      <4>3. \A t : t.batch = k /\ t \in Range(running) => t \in Range(running)'
        BY <4>1, <3>2 DEF Undisturbed, RunningTasks, Range
      <4> QED
        BY <4>1, <4>2, <4>3 DEF CoveredBatch, Undisturbed
    <3> QED
      BY <3>1, <3>2
  <2> QED
    BY <2>1 DEF Covered
<1>11. b.message.id \in Messages /\ accounted \subseteq accounted'
  BY DEF Batch, Delivery, Undisturbed
<1>13. Finished(b) => Parked' = Parked /\ AccountedFor(b.message.id)'
  <2>1. SUFFICES ASSUME Finished(b) PROVE Parked' = Parked /\ AccountedFor(b.message.id)'
    OBVIOUS
  <2>2. \A t \in Range(pending)' : t.batch # n
    BY <2>1, <1>12 DEF Finished, Agrees
  <2>3. AckOn = "exit" => \A t \in Range(running)' : t.batch # n
    BY <2>1, <1>12 DEF Finished, Agrees
  <2>4. /\ b.message.id \notin Unreadable
        /\ \A k \in DocsOf(b.message.id) : <<b.message.id, k>> \in accounted'
    BY <2>1, <2>2, <2>3 DEF Finished, Agrees, CoveredBatch
  <2> QED
    BY <2>1, <2>4 DEF AccountedFor, Finished, Parked
<1>14. GivenUp(b) => Parked' = Parked \cup {b.message.id}
  BY DEF GivenUp, Parked
<1>15. NoMessageLost'
  <2>1. SUFFICES ASSUME NEW m \in Messages \ unsent
                 PROVE  (m \in Outstanding \/ m \in Parked \/ AccountedFor(m))'
    BY DEF NoMessageLost
  <2>2. m \in Outstanding \/ m \in Parked \/ AccountedFor(m)
    BY <2>1 DEF IndInv, NoMessageLost
  <2>3. AccountedFor(m) => AccountedFor(m)'
    BY <1>11 DEF AccountedFor
  <2>4. CASE Kept
    BY <2>2, <2>3, <2>4 DEF Kept, Parked
  <2>5. CASE GivenUp(b)
    BY <2>2, <2>3, <2>5, <1>14 DEF GivenUp
  <2>6. CASE Finished(b)
    BY <2>2, <2>3, <2>6, <1>13 DEF Finished
  <2> QED
    BY <2>4, <2>5, <2>6, <1>3
<1>16. Promised
  <2>1. CASE Kept \/ (Outstanding' = Outstanding /\ Finished(b))
    BY <2>1, <1>11, QuietPromise DEF Kept, Finished
  <2>2. CASE Finished(b) /\ Outstanding' # Outstanding
    <3>1. /\ b.message.id \in Outstanding \cap (Messages \ Unreadable)
          /\ Outstanding' = Outstanding \ {b.message.id}
      BY <2>2, <1>11, <1>13 DEF Finished, AccountedFor
    <3>2. {b.message.id} \X DocsOf(b.message.id) \subseteq accounted'
      BY <2>2, <1>13 DEF AccountedFor
    <3>3. Promise!Finish(b.message.id)
      BY <2>2, <3>1, <3>2, <1>11, <1>13 DEF Promise!Finish
    <3> QED
      BY <3>3, <1>11 DEF Promised, Promise!Next
  <2>3. CASE GivenUp(b)
    <3>1. Promise!Park(b.message.id)
      BY <2>3, <1>14 DEF Promise!Park, GivenUp
    <3> QED
      BY <3>1, <1>11 DEF Promised, Promise!Next
  <2> QED
    BY <2>1, <2>2, <2>3, <1>3
<1> QED
  BY <1>3, <1>5, <1>7, <1>8, <1>9, <1>10, <1>15, <1>16

-----------------------------------------------------------------------------
(* The counters of one batch after a task of it has left or joined. *)
LEMMA CountTask ==
    ASSUME NEW n, NEW P, NEW t \in P, t.batch = n, IsFiniteSet(P)
    PROVE  LET tasks == {u \in P : u.batch = n}
               rest  == {u \in P \ {t} : u.batch = n}
           IN  Cardinality(tasks) >= 1 /\ Cardinality(rest) = Cardinality(tasks) - 1
<1> DEFINE tasks == {u \in P : u.batch = n}
           rest  == {u \in P \ {t} : u.batch = n}
<1>1. IsFiniteSet(tasks)
  BY FS_Subset
<1>2. rest = tasks \ {t} /\ t \in tasks
  OBVIOUS
<1> HIDE DEF tasks, rest
<1>3. Cardinality(tasks) \in Nat /\ Cardinality(tasks) # 0
  BY <1>1, <1>2, FS_CardinalityType, FS_EmptySet
<1>4. Cardinality(rest) = Cardinality(tasks) - 1
  BY <1>1, <1>2, FS_RemoveElement
<1> QED
  BY <1>3, <1>4 DEF tasks, rest

LEMMA CountHandle ==
    ASSUME NEW n, NEW f, NEW h \in DOMAIN f, f[h].batch = n, IsFiniteSet(DOMAIN f)
    PROVE  LET tasks == {g \in DOMAIN f : f[g].batch = n}
               rest  == {g \in DOMAIN f \ {h} : f[g].batch = n}
           IN  Cardinality(tasks) >= 1 /\ Cardinality(rest) = Cardinality(tasks) - 1
<1> DEFINE tasks == {g \in DOMAIN f : f[g].batch = n}
           rest  == {g \in DOMAIN f \ {h} : f[g].batch = n}
<1>1. IsFiniteSet(tasks)
  BY FS_Subset
<1>2. rest = tasks \ {h} /\ h \in tasks
  OBVIOUS
<1> HIDE DEF tasks, rest
<1>3. Cardinality(tasks) \in Nat /\ Cardinality(tasks) # 0
  BY <1>1, <1>2, FS_CardinalityType, FS_EmptySet
<1>4. Cardinality(rest) = Cardinality(tasks) - 1
  BY <1>1, <1>2, FS_RemoveElement
<1> QED
  BY <1>3, <1>4 DEF tasks, rest

(* A deque holds finitely many elements. *)
LEMMA RangeFinite ==
    ASSUME NEW S, NEW s \in Seq(S)
    PROVE  IsFiniteSet(Range(s))
<1>1. Len(s) \in Nat /\ s \in [1..Len(s) -> S]
  BY SeqDef
<1>2. s \in Surjection(1..Len(s), Range(s))
  BY <1>1 DEF Surjection, Range
<1>3. IsFiniteSet(1..Len(s))
  BY <1>1, FS_Interval
<1> QED
  BY <1>2, <1>3, FS_Surjection

-----------------------------------------------------------------------------
(* _reap: a task leaves _running, and its batch is settled if it was the     *)
(* last one.                                                                *)
LEMMA ReapedKeeps ==
    ASSUME IndInv, NEW h \in DOMAIN running, NEW ok \in BOOLEAN, Reaped(h, ok),
           ok /\ AckOn = "exit" => running[h].doc \in accounted,
           accounted \subseteq accounted', accounted' \subseteq Documents,
           container' = container \/ container' = Without(container, {h}),
           faults' \in Nat
    PROVE  IndInv' /\ Promised
<1>a. PICK n : n = running[h].batch
  OBVIOUS
<1>b. PICK b : b = [batches[n] EXCEPT !.running = @ - 1, !.failed = @ \/ ~ok]
  OBVIOUS
<1>c. PICK count : count = stats
  OBVIOUS
<1>1. /\ TypeOK /\ Distinct /\ Bookkeeping /\ Numbered /\ Complete /\ Covered /\ RunnerTruth
      /\ DOMAIN batches \subseteq Nat
      /\ running[h] \in Task
  BY DEF IndInv, TypeOK
<1>2. n \in DOMAIN batches /\ n \in Nat /\ batches[n] \in Batch
  BY <1>a, <1>1 DEF Bookkeeping, Range, TypeOK
<1>3. /\ running' = Without(running, {h}) /\ pending' = pending
      /\ SettleCounting(n, b, count) /\ UNCHANGED unsent
  BY <1>a, <1>b, <1>c DEF Reaped, Settle
<1>4. /\ DOMAIN running' = DOMAIN running \ {h}
      /\ \A g \in DOMAIN running' : running'[g] = running[g]
  BY <1>3 DEF Without
<1>5. IsFiniteSet(Range(pending)) /\ IsFiniteSet(DOMAIN running)
  BY <1>1, RangeFinite DEF TypeOK, Distinct
<1>6. TasksFinite'
  BY <1>3, <1>4, <1>5, FS_RemoveElement DEF TasksFinite
<1>7. /\ \A k : QueuedTasks(k)' = QueuedTasks(k)
      /\ \A k : k # n => RunningTasks(k)' = RunningTasks(k)
      /\ RunningTasks(n)' = {g \in DOMAIN running \ {h} : running[g].batch = n}
  <2>1. \A k : QueuedTasks(k)' = QueuedTasks(k)
    BY <1>3 DEF QueuedTasks
  <2>2. \A k : RunningTasks(k)' = {g \in DOMAIN running \ {h} : running[g].batch = k}
    BY <1>4 DEF RunningTasks
  <2>3. \A k : k # n => RunningTasks(k)' = RunningTasks(k)
    BY <1>a, <2>2 DEF RunningTasks
  <2> QED
    BY <2>1, <2>2, <2>3
<1>8. /\ batches[n].running >= 1
      /\ Cardinality(RunningTasks(n)') = batches[n].running - 1
      /\ Cardinality(QueuedTasks(n)') = batches[n].queued
  <2>1. /\ Cardinality(RunningTasks(n)) >= 1
        /\ Cardinality(RunningTasks(n)') = Cardinality(RunningTasks(n)) - 1
    BY <1>a, <1>5, <1>7, CountHandle DEF RunningTasks
  <2>2. /\ batches[n].running = Cardinality(RunningTasks(n))
        /\ batches[n].queued = Cardinality(QueuedTasks(n))
    BY <1>1, <1>2 DEF Bookkeeping
  <2> QED
    BY <1>7, <2>1, <2>2
<1>9. /\ b \in Batch
      /\ b.message = batches[n].message /\ b.queued = batches[n].queued
      /\ b.running = batches[n].running - 1 /\ b.settled = batches[n].settled
      /\ b.failed = (batches[n].failed \/ ~ok)
  <2>1. PICK old \in Batch : old = batches[n]
    BY <1>2
  <2>2. b = [old EXCEPT !.running = @ - 1, !.failed = @ \/ ~ok]
    BY <1>b, <2>1
  <2>3. old.running - 1 \in Nat
    BY <1>8, <2>1 DEF Batch
  <2>4. (old.failed \/ ~ok) \in BOOLEAN
    OBVIOUS
  <2>5. b = [message |-> old.message, queued |-> old.queued, running |-> old.running - 1,
             failed |-> old.failed \/ ~ok, settled |-> old.settled]
    BY <2>2 DEF Batch
  <2> QED
    BY <2>1, <2>3, <2>4, <2>5 DEF Batch
<1>10. CoveredBatch(n, b)'
  <2>1. CoveredBatch(n, batches[n])
    BY <1>1, <1>2 DEF Covered
  <2>2. \A t \in Range(running) : t = running[h] \/ t \in Range(running)'
    BY <1>a, <1>4 DEF Range
  <2> QED
    BY <2>1, <2>2, <1>3, <1>9 DEF CoveredBatch
<1>11. Agrees(n, b)'
  BY <1>1, <1>2, <1>8, <1>9, <1>10 DEF Agrees, Complete
<1>12. Undisturbed(n)
  BY <1>4, <1>7 DEF Undisturbed
<1>13. \A t \in Range(pending)' \cup Range(running)' : t.batch \in DOMAIN batches \cup {n}
  <2>1. Range(pending)' = Range(pending) /\ Range(running)' \subseteq Range(running)
    BY <1>3, <1>4 DEF Range
  <2> QED
    BY <2>1, <1>1 DEF Bookkeeping
<1>14. n <= count.received /\ stats.received <= count.received /\ count \in Stats
  BY <1>c, <1>1, <1>2 DEF Numbered, TypeOK, Stats
<1>15. /\ QueueTypeOK' /\ BatchesTyped' /\ stats' \in Stats
       /\ Bookkeeping' /\ Numbered' /\ Complete' /\ Covered' /\ NoMessageLost'
       /\ Promised
  BY <1>2, <1>3, <1>6, <1>9, <1>11, <1>12, <1>13, <1>14, SettleKeeps
<1>16. /\ DOMAIN container' \in {DOMAIN container, DOMAIN container \ {h}}
       /\ \A g \in DOMAIN container' : container'[g] = container[g]
       /\ container' \in [DOMAIN container' ->
             [doc : Documents, state : {"running", "succeeded", "failed"}]]
  BY <1>1 DEF Without, TypeOK
<1>17. TypeOK'
  <2>1. running' \in [DOMAIN running' -> Task]
    BY <1>1, <1>3, <1>4 DEF TypeOK, Without
  <2>2. /\ DOMAIN container' \subseteq Handles
        /\ DOMAIN running' \subseteq DOMAIN container'
    BY <1>1, <1>4, <1>16 DEF TypeOK
  <2>3. /\ scan' \subseteq DOMAIN running' /\ overrun' \subseteq DOMAIN running'
        /\ UNCHANGED <<unsent, pc, stopping, want, claimed, pending, signalled>>
        /\ progressed' \in BOOLEAN
    BY <1>1, <1>4 DEF TypeOK, Reaped
  <2> QED
    BY <1>1, <1>15, <1>16, <2>1, <2>2, <2>3 DEF TypeOK, BatchesTyped
<1>18. Distinct'
  BY <1>1, <1>3, <1>6 DEF Distinct, TasksFinite
<1>19. RunnerTruth'
  BY <1>1, <1>4, <1>16 DEF RunnerTruth, TypeOK
<1> QED
  BY <1>15, <1>17, <1>18, <1>19 DEF IndInv

-----------------------------------------------------------------------------
(* _launch: the first document leaves _pending. *)
LEMMA PoppedEffect ==
    ASSUME IndInv, pending # <<>>, pending' = Tail(pending), NEW p, p = Head(pending)
    PROVE  /\ p \in Task /\ p.batch \in DOMAIN batches /\ p.batch \in Nat
           /\ pending' \in Seq(Task) /\ IsInjective(pending')
           /\ Range(pending)' = Range(pending) \ {p}
           /\ IsFiniteSet(Range(pending)) /\ IsFiniteSet(Range(pending)')
           /\ batches[p.batch] \in Batch /\ batches[p.batch].queued >= 1
           /\ Cardinality(QueuedTasks(p.batch)') = batches[p.batch].queued - 1
           /\ \A k : k # p.batch => QueuedTasks(k)' = QueuedTasks(k)
<1>1. /\ pending \in Seq(Task) /\ IsInjective(pending) /\ Bookkeeping
      /\ DOMAIN batches \subseteq Nat /\ batches \in [DOMAIN batches -> Batch]
  BY DEF IndInv, TypeOK, Distinct
<1>2. /\ p \in Task /\ p \in Range(pending) /\ pending' \in Seq(Task)
      /\ IsInjective(pending') /\ Range(pending)' = Range(pending) \ {p}
  BY <1>1, RangeTail, TailInjective
<1>3. p.batch \in DOMAIN batches /\ p.batch \in Nat /\ batches[p.batch] \in Batch
  BY <1>1, <1>2 DEF Bookkeeping
<1>4. IsFiniteSet(Range(pending)) /\ IsFiniteSet(Range(pending)')
  BY <1>1, <1>2, RangeFinite, FS_Subset
<1>5. /\ Cardinality(QueuedTasks(p.batch)) >= 1
      /\ Cardinality(QueuedTasks(p.batch)') = Cardinality(QueuedTasks(p.batch)) - 1
  BY <1>2, <1>4, CountTask DEF QueuedTasks
<1>6. batches[p.batch].queued = Cardinality(QueuedTasks(p.batch))
  BY <1>1, <1>3 DEF Bookkeeping
<1>7. \A k : k # p.batch => QueuedTasks(k)' = QueuedTasks(k)
  BY <1>2 DEF QueuedTasks
<1> QED
  BY <1>2, <1>3, <1>4, <1>5, <1>6, <1>7

LEMMA LaunchAcceptedKeeps ==
    ASSUME IndInv, NEW h \in Handles \ DOMAIN container, LaunchAccepted(h)
    PROVE  IndInv' /\ Promised
<1>a. PICK p : p = Head(pending)
  OBVIOUS
<1>b. PICK n : n = p.batch
  OBVIOUS
<1>c. PICK b : b = [Popping EXCEPT !.running = @ + 1]
  OBVIOUS
<1>d. PICK count : count = stats
  OBVIOUS
<1>1. /\ TypeOK /\ Distinct /\ Bookkeeping /\ Numbered /\ Complete /\ Covered /\ RunnerTruth
      /\ DOMAIN batches \subseteq Nat
  BY DEF IndInv, TypeOK
<1>2. /\ p \in Task /\ n \in DOMAIN batches /\ n \in Nat /\ batches[n] \in Batch
      /\ pending' \in Seq(Task) /\ IsInjective(pending')
      /\ Range(pending)' = Range(pending) \ {p}
      /\ IsFiniteSet(Range(pending)')
      /\ batches[n].queued >= 1
      /\ Cardinality(QueuedTasks(n)') = batches[n].queued - 1
      /\ \A k : k # n => QueuedTasks(k)' = QueuedTasks(k)
  BY <1>a, <1>b, PoppedEffect DEF LaunchAccepted, LaunchTurn, Popped
<1>3. /\ running' = With(running, h, p)
      /\ container' = With(container, h, [doc |-> p.doc, state |-> "running"])
      /\ accounted' = IF AckOn = "launch" THEN accounted \cup {p.doc} ELSE accounted
      /\ SettleCounting(n, b, count) /\ UNCHANGED unsent
  BY <1>a, <1>b, <1>c, <1>d DEF LaunchAccepted, Settle, Popped, Started
<1>4. /\ h \notin DOMAIN running
      /\ DOMAIN running' = DOMAIN running \cup {h}
      /\ \A g \in DOMAIN running' : running'[g] = IF g = h THEN p ELSE running[g]
  BY <1>1, <1>3 DEF With, TypeOK
<1>5. IsFiniteSet(DOMAIN running) /\ TasksFinite'
  BY <1>1, <1>2, <1>4, FS_AddElement DEF TasksFinite, Distinct
<1>6. /\ \A k : k # n => RunningTasks(k)' = RunningTasks(k)
      /\ RunningTasks(n)' = RunningTasks(n) \cup {h}
      /\ h \notin RunningTasks(n)
  BY <1>b, <1>4 DEF RunningTasks
<1>7. Cardinality(RunningTasks(n)') = batches[n].running + 1
  <2>1. IsFiniteSet(RunningTasks(n))
    BY <1>5, FS_Subset DEF RunningTasks
  <2>2. batches[n].running = Cardinality(RunningTasks(n))
    BY <1>1, <1>2 DEF Bookkeeping
  <2> QED
    BY <2>1, <2>2, <1>6, FS_AddElement
<1>8. /\ b \in Batch
      /\ b.message = batches[n].message /\ b.queued = batches[n].queued - 1
      /\ b.running = batches[n].running + 1 /\ b.settled = batches[n].settled
      /\ b.failed = batches[n].failed
  <2>1. PICK old \in Batch : old = batches[n]
    BY <1>2
  <2>2. b = [message |-> old.message, queued |-> old.queued - 1, running |-> old.running + 1,
             failed |-> old.failed, settled |-> old.settled]
    <3>1. b = [[old EXCEPT !.queued = @ - 1] EXCEPT !.running = @ + 1]
      BY <2>1, <1>a, <1>b, <1>c DEF Popping
    <3> QED
      BY <3>1 DEF Batch
  <2>3. old.queued - 1 \in Nat /\ old.running + 1 \in Nat
    BY <1>2, <2>1 DEF Batch
  <2> QED
    BY <2>1, <2>2, <2>3 DEF Batch
<1>9. ~b.settled
  BY <1>1, <1>2, <1>8 DEF Complete, Batch
<1>10. CoveredBatch(n, b)'
  <2>1. CoveredBatch(n, batches[n])
    BY <1>1, <1>2 DEF Covered
  <2>2. \A t \in Range(pending) : t = p \/ t \in Range(pending)'
    BY <1>2
  <2>3. Range(running) \cup {p} \subseteq Range(running)'
    BY <1>4 DEF Range
  <2>4. p.doc \in accounted' \/ AckOn = "exit"
    BY <1>3, ModeAssumption
  <2>5. accounted \subseteq accounted'
    BY <1>3
  <2> QED
    BY <2>1, <2>2, <2>3, <2>4, <2>5, <1>8 DEF CoveredBatch
<1>11. Agrees(n, b)'
  BY <1>2, <1>7, <1>8, <1>9, <1>10 DEF Agrees
<1>12. Undisturbed(n)
  BY <1>2, <1>3, <1>4, <1>6 DEF Undisturbed
<1>13. \A t \in Range(pending)' \cup Range(running)' : t.batch \in DOMAIN batches \cup {n}
  <2>1. Range(running)' = Range(running) \cup {p}
    BY <1>4 DEF Range
  <2> QED
    BY <2>1, <1>b, <1>1, <1>2 DEF Bookkeeping
<1>14. n <= count.received /\ stats.received <= count.received /\ count \in Stats
  BY <1>d, <1>1, <1>2 DEF Numbered, TypeOK, Stats
<1>15. /\ QueueTypeOK' /\ BatchesTyped' /\ stats' \in Stats
       /\ Bookkeeping' /\ Numbered' /\ Complete' /\ Covered' /\ NoMessageLost'
       /\ Promised
  BY <1>2, <1>3, <1>5, <1>8, <1>11, <1>12, <1>13, <1>14, SettleKeeps
<1>16. /\ DOMAIN container' = DOMAIN container \cup {h}
       /\ \A g \in DOMAIN container' :
            container'[g] = IF g = h THEN [doc |-> p.doc, state |-> "running"]
                            ELSE container[g]
  BY <1>3 DEF With
<1>17. TypeOK'
  <2>1. running' \in [DOMAIN running' -> Task]
    BY <1>1, <1>2, <1>3, <1>4 DEF TypeOK, With
  <2>2. container' \in [DOMAIN container' ->
             [doc : Documents, state : {"running", "succeeded", "failed"}]]
    BY <1>1, <1>2, <1>3, <1>16 DEF TypeOK, With, Task
  <2>3. accounted' \subseteq Documents
    BY <1>1, <1>2, <1>3 DEF TypeOK, Task
  <2>4. /\ UNCHANGED <<unsent, pc, stopping, scan, want, claimed, overrun, signalled, faults>>
        /\ progressed' = TRUE
    BY DEF LaunchAccepted, Popped
  <2> QED
    BY <1>1, <1>2, <1>4, <1>15, <1>16, <2>1, <2>2, <2>3, <2>4 DEF TypeOK, BatchesTyped
<1>18. Distinct'
  BY <1>2, <1>5 DEF Distinct, TasksFinite
<1>19. RunnerTruth'
  BY <1>1, <1>3, <1>4, <1>16 DEF RunnerTruth, TypeOK
<1> QED
  BY <1>15, <1>17, <1>18, <1>19 DEF IndInv

LEMMA LaunchRefusedKeeps ==
    ASSUME IndInv, LaunchRefused
    PROVE  IndInv' /\ Promised
<1>a. PICK p : p = Head(pending)
  OBVIOUS
<1>b. PICK n : n = p.batch
  OBVIOUS
<1>c. PICK b : b = [Popping EXCEPT !.failed = TRUE]
  OBVIOUS
<1>d. PICK count : count = stats
  OBVIOUS
<1>1. /\ TypeOK /\ Distinct /\ Bookkeeping /\ Numbered /\ Complete /\ Covered /\ RunnerTruth
      /\ DOMAIN batches \subseteq Nat
  BY DEF IndInv, TypeOK
<1>2. /\ p \in Task /\ n \in DOMAIN batches /\ n \in Nat /\ batches[n] \in Batch
      /\ pending' \in Seq(Task) /\ IsInjective(pending')
      /\ Range(pending)' = Range(pending) \ {p}
      /\ IsFiniteSet(Range(pending)')
      /\ batches[n].queued >= 1
      /\ Cardinality(QueuedTasks(n)') = batches[n].queued - 1
      /\ \A k : k # n => QueuedTasks(k)' = QueuedTasks(k)
  BY <1>a, <1>b, PoppedEffect DEF LaunchRefused, LaunchTurn, Popped
<1>3. /\ running' = running /\ accounted' = accounted
      /\ SettleCounting(n, b, count) /\ UNCHANGED unsent
  BY <1>a, <1>b, <1>c, <1>d DEF LaunchRefused, Settle, Popped
<1>5. TasksFinite'
  BY <1>1, <1>2, <1>3 DEF TasksFinite, Distinct
<1>6. \A k : RunningTasks(k)' = RunningTasks(k)
  BY <1>3 DEF RunningTasks
<1>7. Cardinality(RunningTasks(n)') = batches[n].running
  BY <1>1, <1>2, <1>6 DEF Bookkeeping
<1>8. /\ b \in Batch
      /\ b.message = batches[n].message /\ b.queued = batches[n].queued - 1
      /\ b.running = batches[n].running /\ b.settled = batches[n].settled
      /\ b.failed
  <2>1. PICK old \in Batch : old = batches[n]
    BY <1>2
  <2>2. b = [message |-> old.message, queued |-> old.queued - 1, running |-> old.running,
             failed |-> TRUE, settled |-> old.settled]
    <3>1. b = [[old EXCEPT !.queued = @ - 1] EXCEPT !.failed = TRUE]
      BY <2>1, <1>a, <1>b, <1>c DEF Popping
    <3> QED
      BY <3>1 DEF Batch
  <2>3. old.queued - 1 \in Nat
    BY <1>2, <2>1 DEF Batch
  <2> QED
    BY <2>1, <2>2, <2>3 DEF Batch
<1>9. ~b.settled
  BY <1>1, <1>2, <1>8 DEF Complete, Batch
<1>11. Agrees(n, b)'
  BY <1>2, <1>7, <1>8, <1>9 DEF Agrees, CoveredBatch
<1>12. Undisturbed(n)
  BY <1>2, <1>3, <1>6 DEF Undisturbed
<1>13. \A t \in Range(pending)' \cup Range(running)' : t.batch \in DOMAIN batches \cup {n}
  <2>1. Range(running)' = Range(running)
    BY <1>3
  <2> QED
    BY <2>1, <1>1, <1>2 DEF Bookkeeping
<1>14. n <= count.received /\ stats.received <= count.received /\ count \in Stats
  BY <1>d, <1>1, <1>2 DEF Numbered, TypeOK, Stats
<1>15. /\ QueueTypeOK' /\ BatchesTyped' /\ stats' \in Stats
       /\ Bookkeeping' /\ Numbered' /\ Complete' /\ Covered' /\ NoMessageLost'
       /\ Promised
  BY <1>2, <1>3, <1>5, <1>8, <1>11, <1>12, <1>13, <1>14, SettleKeeps
<1>16. /\ DOMAIN container \subseteq DOMAIN container' /\ DOMAIN container' \subseteq Handles
       /\ container' \in [DOMAIN container' ->
             [doc : Documents, state : {"running", "succeeded", "failed"}]]
       /\ \A g \in DOMAIN container : container'[g] = container[g]
       /\ faults' \in Nat
  <2>1. CASE UNCHANGED <<container, faults>>
    BY <2>1, <1>1 DEF TypeOK
  <2>2. CASE /\ Fault("launch") /\ Handles \ DOMAIN container # {}
             /\ container' = Started(Fresh)
    <3>1. PICK h : h = Fresh
      OBVIOUS
    <3>2. h \in Handles /\ h \notin DOMAIN container
      BY <2>2, <3>1 DEF Fresh
    <3>3. container' = With(container, h, [doc |-> p.doc, state |-> "running"])
      BY <2>2, <3>1, <1>a DEF Started
    <3>4. /\ DOMAIN container' = DOMAIN container \cup {h}
          /\ \A g \in DOMAIN container' :
                container'[g] = IF g = h THEN [doc |-> p.doc, state |-> "running"]
                                ELSE container[g]
      BY <3>3 DEF With
    <3>5. container' \in [DOMAIN container' ->
               [doc : Documents, state : {"running", "succeeded", "failed"}]]
      BY <1>1, <1>2, <3>3, <3>4 DEF TypeOK, With, Task
    <3>6. faults' \in Nat
      BY <2>2, <1>1 DEF Fault, TypeOK
    <3> QED
      BY <1>1, <3>2, <3>4, <3>5, <3>6 DEF TypeOK
  <2> QED
    BY <2>1, <2>2 DEF LaunchRefused
<1>17. TypeOK'
  <2>1. /\ UNCHANGED <<unsent, pc, stopping, scan, want, claimed, overrun, signalled>>
        /\ progressed' = TRUE
    BY DEF LaunchRefused, Popped
  <2> QED
    BY <1>1, <1>2, <1>3, <1>15, <1>16, <2>1 DEF TypeOK, BatchesTyped
<1>18. Distinct'
  BY <1>1, <1>2, <1>3 DEF Distinct
<1>19. RunnerTruth'
  BY <1>1, <1>3, <1>16 DEF RunnerTruth, TypeOK
<1> QED
  BY <1>15, <1>17, <1>18, <1>19 DEF IndInv

-----------------------------------------------------------------------------
(* _receive, once a message is claimed: it becomes a batch. *)

(* The tasks of a new batch, as the deque they extend _pending by. *)
NewTasks(n, m) == [k \in DocsOf(m) |-> [batch |-> n, doc |-> <<m, k>>]]

LEMMA NewTasksEffect ==
    ASSUME NEW n \in Nat, NEW m \in Messages
    PROVE  /\ NewTasks(n, m) \in Seq(Task)
           /\ IsInjective(NewTasks(n, m))
           /\ \A k \in DocsOf(m) : [batch |-> n, doc |-> <<m, k>>] \in Range(NewTasks(n, m))
           /\ \A t \in Range(NewTasks(n, m)) : t.batch = n
           /\ IsFiniteSet(Range(NewTasks(n, m)))
           /\ Cardinality(Range(NewTasks(n, m))) = Docs[m]
<1> DEFINE t == NewTasks(n, m)
<1>1. Docs[m] \in Nat
  BY DocsAssumption
<1>2. \A k \in DocsOf(m) : <<m, k>> \in Documents
  BY DEF Documents
<1>3. /\ t \in [1..Docs[m] -> Task]
      /\ \A k \in 1..Docs[m] : t[k] = [batch |-> n, doc |-> <<m, k>>]
  BY <1>2 DEF NewTasks, Task, DocsOf
<1>3a. \A k \in 1..Docs[m] : t[k].batch = n /\ t[k].doc = <<m, k>>
  BY DEF NewTasks, DocsOf
<1> HIDE DEF t
<1>4. t \in Seq(Task)
  BY <1>1, <1>3, SeqDef
<1>5. IsInjective(t)
  <2>1. ASSUME NEW i \in 1..Docs[m], NEW j \in 1..Docs[m], t[i] = t[j]
        PROVE  i = j
    <3>1. t[i].doc = <<m, i>> /\ t[j].doc = <<m, j>>
      BY <1>3a
    <3>2. <<m, i>> = <<m, j>>
      BY <3>1, <2>1
    <3> QED
      BY <3>2
  <2>2. DOMAIN t = 1..Docs[m]
    BY <1>3
  <2> QED
    BY <2>1, <2>2 DEF IsInjective
<1>6. t \in Surjection(1..Docs[m], Range(t)) /\ t \in Injection(1..Docs[m], Range(t))
  BY <1>3, <1>5 DEF Surjection, Injection, Range
<1>7. IsFiniteSet(1..Docs[m]) /\ Cardinality(1..Docs[m]) = Docs[m]
  BY <1>1, FS_Interval
<1>8. IsFiniteSet(Range(t)) /\ Cardinality(Range(t)) = Docs[m]
  BY <1>6, <1>7, FS_Surjection
<1>9. /\ \A k \in DocsOf(m) : [batch |-> n, doc |-> <<m, k>>] \in Range(t)
      /\ \A u \in Range(t) : u.batch = n
  <2>1. DOMAIN t = 1..Docs[m] /\ DocsOf(m) = 1..Docs[m]
    BY <1>3 DEF DocsOf
  <2>2. ASSUME NEW k \in DocsOf(m)
        PROVE  [batch |-> n, doc |-> <<m, k>>] \in Range(t)
    <3>1. t[k] = [batch |-> n, doc |-> <<m, k>>] /\ k \in DOMAIN t
      BY <2>1, <2>2, <1>3
    <3> QED
      BY <3>1 DEF Range
  <2>3. ASSUME NEW u \in Range(t) PROVE u.batch = n
    <3>1. PICK k \in 1..Docs[m] : u = t[k]
      BY <2>1, <2>3 DEF Range
    <3> QED
      BY <3>1, <1>3a
  <2> QED
    BY <2>2, <2>3
<1> QED
  BY <1>4, <1>5, <1>8, <1>9 DEF t

LEMMA UnpackKeeps ==
    ASSUME IndInv, Unpack
    PROVE  IndInv' /\ Promised
<1>a. PICK d : d = Head(claimed)
  OBVIOUS
<1>b. PICK n : n = stats.received + 1
  OBVIOUS
<1>c. PICK m : m = d.id
  OBVIOUS
<1>d. PICK count : count = Bump("received")
  OBVIOUS
<1> DEFINE base == [message |-> d, queued |-> 0, running |-> 0, failed |-> FALSE,
                    settled |-> FALSE]
<1>1. /\ TypeOK /\ Distinct /\ Bookkeeping /\ Numbered /\ Complete /\ Covered /\ RunnerTruth
      /\ DOMAIN batches \subseteq Nat
  BY DEF IndInv, TypeOK
<1>2. /\ claimed # <<>> /\ claimed' = Tail(claimed)
      /\ UNCHANGED <<unsent, pc, stopping, progressed, scan, want, running, container,
                     overrun, accounted, signalled, faults>>
  <2>1. UNCHANGED <<unsent, pc, stopping, progressed, scan, want, running, runnerVars,
                    signalled, faults>>
    BY DEF Unpack
  <2>2. claimed # <<>> /\ claimed' = Tail(claimed)
    BY DEF Unpack
  <2> QED
    BY <2>1, <2>2 DEF runnerVars
<1>3. d \in Delivery /\ m \in Messages /\ claimed' \in Seq(Delivery)
  <2>1. claimed \in Seq(Delivery) /\ claimed # <<>>
    BY <1>1, <1>2 DEF TypeOK
  <2>2. Head(claimed) \in Delivery /\ Tail(claimed) \in Seq(Delivery)
    BY <2>1, HeadTailProperties
  <2>3. d \in Delivery /\ m \in Messages
    BY <2>2, <1>a, <1>c DEF Delivery
  <2> QED
    BY <2>2, <2>3, <1>2
<1>4. /\ n \in Nat /\ stats \in Stats /\ stats.received \in Nat
      /\ count \in Stats /\ count.received = n /\ stats.received <= n
  BY <1>b, <1>d, <1>1 DEF TypeOK, Stats, Bump
<1>5. n \notin DOMAIN batches
  BY <1>1, <1>4, <1>b DEF Numbered
<1>6. /\ \A t \in Range(pending) : t.batch # n
      /\ \A t \in Range(running) : t.batch # n
  BY <1>1, <1>5 DEF Bookkeeping
<1>7. RunningTasks(n)' = {} /\ QueuedTasks(n) = {}
      /\ \A k : RunningTasks(k)' = RunningTasks(k)
  BY <1>2, <1>6 DEF RunningTasks, QueuedTasks, Range
<1>8. PICK b \in Batch :
        /\ SettleCounting(n, b, count)
        /\ b.message = d /\ b.running = 0 /\ ~b.settled
        /\ \/ b.failed /\ b.queued = 0 /\ pending' = pending
           \/ m \notin Unreadable /\ Docs[m] = 0 /\ b.queued = 0 /\ pending' = pending
           \/ /\ m \notin Unreadable /\ b.queued = Docs[m]
              /\ pending' = pending \o NewTasks(n, m)
  <2>1. base \in Batch
    BY <1>3 DEF Batch
  <2>2. CASE /\ SettleCounting(n, [base EXCEPT !.failed = TRUE], count)
             /\ UNCHANGED pending
    <3>1. [base EXCEPT !.failed = TRUE] \in Batch
      BY <2>1 DEF Batch
    <3> QED
      BY <2>2, <3>1
  <2>3. CASE /\ m \notin Unreadable /\ Docs[m] = 0
             /\ SettleCounting(n, base, count) /\ UNCHANGED pending
    BY <2>1, <2>3
  <2>4. CASE /\ m \notin Unreadable /\ Docs[m] > 0
             /\ batches' = With(batches, n, [base EXCEPT !.queued = Docs[m]])
             /\ pending' = pending \o NewTasks(n, m)
             /\ stats' = count /\ UNCHANGED queueVars
    <3>1. PICK b : b = [base EXCEPT !.queued = Docs[m]]
      OBVIOUS
    <3>2. /\ b \in Batch /\ b.message = d /\ b.running = 0 /\ ~b.settled
          /\ b.queued = Docs[m] /\ b.queued > 0
      BY <1>3, <2>4, <3>1, DocsAssumption DEF Batch
    <3>3. SettleCounting(n, b, count)
      BY <2>4, <3>1, <3>2 DEF SettleCounting, NotYet, Store
    <3> QED
      BY <2>4, <3>2, <3>3
  <2> QED
    BY <1>a, <1>b, <1>c, <1>d, <2>2, <2>3, <2>4 DEF Unpack, NewTasks
<1>9. /\ pending' \in Seq(Task) /\ IsInjective(pending')
      /\ Range(pending) \subseteq Range(pending)'
      /\ \A t \in Range(pending)' \ Range(pending) : t.batch = n
      /\ Cardinality(QueuedTasks(n)') = b.queued
      /\ CoveredBatch(n, b)'
  <2>0. pending \in Seq(Task) /\ IsInjective(pending)
    BY <1>1 DEF TypeOK, Distinct
  <2>1. CASE pending' = pending /\ b.queued = 0
    <3>1. QueuedTasks(n)' = {}
      BY <2>1, <1>7 DEF QueuedTasks
    <3>2. CoveredBatch(n, b)'
      <4>1. b.failed \/ (m \notin Unreadable /\ DocsOf(m) = {})
        BY <2>1, <1>8, DocsAssumption DEF DocsOf
      <4> QED
        BY <4>1, <1>c, <1>8 DEF CoveredBatch
    <3> QED
      BY <2>0, <2>1, <3>1, <3>2, FS_EmptySet
  <2>2. CASE /\ m \notin Unreadable /\ b.queued = Docs[m]
             /\ pending' = pending \o NewTasks(n, m)
    <3>1. PICK t : t = NewTasks(n, m)
      OBVIOUS
    <3>2. /\ t \in Seq(Task) /\ IsInjective(t)
          /\ \A k \in DocsOf(m) : [batch |-> n, doc |-> <<m, k>>] \in Range(t)
          /\ \A u \in Range(t) : u.batch = n
          /\ Cardinality(Range(t)) = Docs[m]
      BY <1>3, <1>4, <3>1, NewTasksEffect
    <3>3. /\ pending' \in Seq(Task) /\ IsInjective(pending')
          /\ Range(pending)' = Range(pending) \cup Range(t)
      <4>1. Range(pending) \cap Range(t) = {}
        BY <1>6, <3>2
      <4> QED
        BY <2>0, <2>2, <3>1, <3>2, <4>1, ConcatProperties, ConcatInjective,
           RangeConcatenation
    <3>4. QueuedTasks(n)' = Range(t)
      BY <1>6, <3>2, <3>3 DEF QueuedTasks
    <3>5. CoveredBatch(n, b)'
      BY <1>c, <1>8, <2>2, <3>2, <3>3 DEF CoveredBatch
    <3> QED
      BY <2>2, <3>2, <3>3, <3>4, <3>5
  <2> QED
    BY <1>8, <2>1, <2>2
<1>10. TasksFinite'
  BY <1>1, <1>2, <1>9, RangeFinite DEF TasksFinite, Distinct
<1>11. Agrees(n, b)'
  BY <1>7, <1>8, <1>9, FS_EmptySet DEF Agrees
<1>12. Undisturbed(n)
  BY <1>2, <1>7, <1>9 DEF Undisturbed, QueuedTasks
<1>13. \A t \in Range(pending)' \cup Range(running)' : t.batch \in DOMAIN batches \cup {n}
  BY <1>1, <1>2, <1>9 DEF Bookkeeping
<1>14. n <= count.received /\ stats.received <= count.received /\ count \in Stats
  BY <1>4
<1>15. /\ QueueTypeOK' /\ BatchesTyped' /\ stats' \in Stats
       /\ Bookkeeping' /\ Numbered' /\ Complete' /\ Covered' /\ NoMessageLost'
       /\ Promised
  BY <1>2, <1>4, <1>8, <1>10, <1>11, <1>12, <1>13, <1>14, SettleKeeps
<1>16. TypeOK'
  BY <1>1, <1>2, <1>3, <1>9, <1>15 DEF TypeOK, BatchesTyped
<1>17. Distinct' /\ RunnerTruth'
  BY <1>1, <1>2, <1>9 DEF Distinct, RunnerTruth
<1> QED
  BY <1>15, <1>16, <1>17 DEF IndInv

-----------------------------------------------------------------------------
(* The process ends: its memory goes, the queue stays. *)
LEMMA DieKeeps ==
    ASSUME IndInv, Die, faults' \in Nat
    PROVE  IndInv'
<1>1. TypeOK /\ NoMessageLost
  BY DEF IndInv
<1>2. /\ DOMAIN running' = {} /\ DOMAIN batches' = {} /\ pending' = <<>>
      /\ claimed' = <<>> /\ Range(pending)' = {} /\ Range(running)' = {}
  BY DEF Die, Range
<1>3. /\ DOMAIN container' \subseteq DOMAIN container
      /\ \A h \in DOMAIN container' : container'[h] = container[h]
  BY DEF Die, Without
<1>4. container' \in [DOMAIN container' ->
            [doc : Documents, state : {"running", "succeeded", "failed"}]]
  BY <1>1, <1>3 DEF TypeOK, Die, Without
<1>5. QueueTypeOK' /\ NoMessageLost'
  BY <1>1 DEF Die, queueVars, TypeOK, QueueTypeOK, NoMessageLost, Outstanding, ReadyIds,
       Parked, AccountedFor
<1>6. stats' \in Stats /\ want' \in Nat
  BY DEF Die, NoStats, Stats
<1>7. /\ running' \in [DOMAIN running' -> Task] /\ batches' \in [DOMAIN batches' -> Batch]
      /\ pending' \in Seq(Task) /\ claimed' \in Seq(Delivery)
  BY <1>2 DEF Die
<1>8. TypeOK'
  BY <1>1, <1>2, <1>3, <1>4, <1>5, <1>6, <1>7 DEF TypeOK, Die
<1>9. Distinct' /\ Bookkeeping' /\ Numbered' /\ Complete' /\ Covered' /\ RunnerTruth'
  BY <1>2, FS_EmptySet DEF Distinct, IsInjective, Bookkeeping, Numbered, Complete, Covered,
       RunnerTruth
<1> QED
  BY <1>5, <1>8, <1>9 DEF IndInv

-----------------------------------------------------------------------------
(* Steps that leave the tasks, the batches and the statistics alone. *)
LEMMA BatchesAlone ==
    ASSUME IndInv, UNCHANGED <<taskVars, stats>>,
           Messages \ unsent' \subseteq (Messages \ unsent) \cup Outstanding',
           QueueTypeOK', Outstanding \subseteq Outstanding', dead \subseteq dead',
           accounted \subseteq accounted'
    PROVE  /\ Distinct' /\ Bookkeeping' /\ Numbered' /\ Complete' /\ Covered'
           /\ NoMessageLost'
<1>1. UNCHANGED <<pending, running, batches>>
  BY DEF taskVars
<1>2. Distinct' /\ Numbered' /\ Complete'
  BY <1>1 DEF IndInv, Distinct, Numbered, Complete
<1>3. Bookkeeping'
  BY <1>1 DEF IndInv, Bookkeeping, QueuedTasks, RunningTasks
<1>4. Covered'
  <2>1. SUFFICES ASSUME NEW n \in DOMAIN batches PROVE CoveredBatch(n, batches[n])'
    BY <1>1 DEF Covered
  <2>2. CoveredBatch(n, batches[n])
    BY DEF IndInv, Covered
  <2> QED
    BY <2>2, <1>1 DEF CoveredBatch
<1>5. NoMessageLost'
  <2>1. Parked \subseteq Parked'
    BY DEF Parked
  <2>2. \A m : AccountedFor(m) => AccountedFor(m)'
    BY DEF AccountedFor
  <2> QED
    BY <2>1, <2>2 DEF IndInv, NoMessageLost
<1> QED
  BY <1>2, <1>3, <1>4, <1>5



-----------------------------------------------------------------------------
(* Steps of the queue that no task, batch or container has a part in. *)
LEMMA QueueStepKeeps ==
    ASSUME IndInv, UNCHANGED <<taskVars, stats, runnerVars, stopping, progressed, scan,
                               signalled>>,
           Messages \ unsent' \subseteq (Messages \ unsent) \cup Outstanding',
           unsent' \subseteq Messages,
           QueueTypeOK', Outstanding \subseteq Outstanding', dead' = dead,
           pc' \in {pc, "top"}, want' \in Nat, faults' \in Nat,
           claimed' \in Seq(Delivery)
    PROVE  IndInv'
<1>1. TypeOK /\ RunnerTruth
  BY DEF IndInv
<1>2. UNCHANGED <<pending, running, batches, container, overrun, accounted>>
  BY DEF taskVars, runnerVars
<1>3. Distinct' /\ Bookkeeping' /\ Numbered' /\ Complete' /\ Covered' /\ NoMessageLost'
  BY <1>2, BatchesAlone
<1>4. TypeOK'
  BY <1>1, <1>2 DEF TypeOK
<1>5. RunnerTruth'
  BY <1>1, <1>2 DEF RunnerTruth
<1> QED
  BY <1>3, <1>4, <1>5 DEF IndInv

(* Steps of the loop's control, which call neither queue nor runner. *)
LEMMA ControlKeeps ==
    ASSUME IndInv, UNCHANGED <<queueVars, unsent, taskVars, stats, container, accounted,
                               claimed>>,
           pc' \in {"top", "reap", "launch", "receive", "unpack", "relaunch", "check",
                    "done"} \cup {pc},
           stopping' \in BOOLEAN, progressed' \in BOOLEAN, signalled' \in BOOLEAN,
           want' \in Nat, faults' \in Nat,
           scan' \subseteq DOMAIN running, overrun' \subseteq DOMAIN running
    PROVE  IndInv'
<1>1. TypeOK /\ RunnerTruth
  BY DEF IndInv
<1>2. UNCHANGED <<ready, inflight, dead, pending, running, batches>>
  BY DEF queueVars, taskVars
<1>3. QueueTypeOK' /\ Outstanding' = Outstanding /\ dead' = dead
  BY <1>1, <1>2 DEF TypeOK, QueueTypeOK, Outstanding, ReadyIds
<1>4. Distinct' /\ Bookkeeping' /\ Numbered' /\ Complete' /\ Covered' /\ NoMessageLost'
  BY <1>3, BatchesAlone
<1>5. TypeOK'
  BY <1>1, <1>2, <1>3 DEF TypeOK
<1>6. RunnerTruth'
  BY <1>1, <1>2 DEF RunnerTruth
<1> QED
  BY <1>4, <1>5, <1>6 DEF IndInv

-----------------------------------------------------------------------------
(* The actions, one by one. *)
LEMMA StartKeeps == ASSUME IndInv, Start PROVE IndInv'
<1>1. QueueTypeOK /\ Depth /\ TypeOK
  BY DEF IndInv, TypeOK, Start
<1>2. QueueTypeOK' /\ Outstanding' = Outstanding /\ dead' = dead
  BY <1>1, DepthEffect
<1> QED
  BY <1>1, <1>2, QueueStepKeeps DEF Start, TypeOK, loopVars

LEMMA ReceiveOneKeeps == ASSUME IndInv, ReceiveOne PROVE IndInv'
<1>1. QueueTypeOK /\ TypeOK
  BY DEF IndInv, TypeOK
<1>2. UNCHANGED <<unsent, pc, stopping, progressed, scan, taskVars, stats, runnerVars,
                  signalled, faults>>
  BY DEF ReceiveOne
<1>3. CASE \E q \in AfterReap : /\ Receive(q)
                                /\ claimed' = Append(claimed, Delivering(q))
                                /\ want' = want - 1
  <2>1. PICK q \in AfterReap : /\ Receive(q)
                               /\ claimed' = Append(claimed, Delivering(q))
                               /\ want' = want - 1
    BY <1>3
  <2>2. /\ QueueTypeOK' /\ Delivering(q) \in Delivery
        /\ Outstanding' = Outstanding /\ dead' = dead
    BY <1>1, <2>1, ReceiveEffect
  <2>3. claimed' \in Seq(Delivery)
    BY <1>1, <2>1, <2>2, AppendProperties DEF TypeOK
  <2>4. want' \in Nat /\ faults' \in Nat
    BY <1>1, <1>2, <2>1 DEF TypeOK, ReceiveOne
  <2> QED
    BY <1>1, <1>2, <2>2, <2>3, <2>4, QueueStepKeeps DEF TypeOK
<1>4. CASE ReceiveNone /\ want' = 0 /\ UNCHANGED claimed
  <2>1. QueueTypeOK' /\ Outstanding' = Outstanding /\ dead' = dead
    BY <1>1, <1>4 DEF ReceiveNone, queueVars, QueueTypeOK, Outstanding, ReadyIds
  <2> QED
    BY <1>1, <1>2, <1>4, <2>1, QueueStepKeeps DEF TypeOK
<1> QED
  BY <1>3, <1>4 DEF ReceiveOne

LEMMA PublishNewKeeps == ASSUME IndInv, NEW m \in Messages, PublishNew(m) PROVE IndInv'
<1>1. QueueTypeOK /\ TypeOK
  BY DEF IndInv, TypeOK
<1>2. QueueTypeOK' /\ Outstanding' = Outstanding \cup {m} /\ dead' = dead
  BY <1>1, PublishEffect DEF PublishNew
<1>3. unsent' = unsent \ {m}
  BY DEF PublishNew
<1> QED
  BY <1>1, <1>2, <1>3, QueueStepKeeps DEF PublishNew, TypeOK, loopVars

LEMMA ExpiresKeeps == ASSUME IndInv, NEW m \in Messages, Expires(m) PROVE IndInv'
<1>1. QueueTypeOK /\ TypeOK
  BY DEF IndInv, TypeOK
<1>2. QueueTypeOK' /\ Outstanding' = Outstanding /\ dead' = dead
  BY <1>1, ClaimExpiresEffect DEF Expires
<1>3. faults' \in Nat
  BY <1>1 DEF Expires, Fault, TypeOK
<1> QED
  BY <1>1, <1>2, <1>3, QueueStepKeeps DEF Expires, TypeOK, loopVars

LEMMA ContainerExitsKeeps ==
    ASSUME IndInv, NEW h \in Handles, ContainerExits(h)
    PROVE  IndInv'
<1>1. TypeOK /\ RunnerTruth
  BY DEF IndInv
<1>2. PICK c : c = container[h]
  OBVIOUS
<1>3. /\ h \in DOMAIN container
      /\ c \in [doc : Documents, state : {"running", "succeeded", "failed"}]
      /\ UNCHANGED <<queueVars, unsent, pc, loopVars, taskVars, stats, overrun, signalled,
                     faults>>
  BY <1>1, <1>2 DEF ContainerExits, TypeOK
<1>4. UNCHANGED <<ready, inflight, dead, pending, running, batches, claimed, scan, want,
                  stopping, progressed>>
  BY <1>3 DEF queueVars, loopVars, taskVars
<1>5. PICK outcome \in {"succeeded", "failed"} :
        /\ container' = IF h \in DOMAIN running
                        THEN With(container, h, [container[h] EXCEPT !.state = outcome])
                        ELSE Without(container, {h})
        /\ accounted' = IF outcome = "succeeded" THEN ParsedBy(h) ELSE accounted
  BY DEF ContainerExits
<1>6. /\ accounted \subseteq accounted' /\ accounted' \subseteq Documents
      /\ AckOn = "exit" /\ outcome = "succeeded" => c.doc \in accounted'
  BY <1>1, <1>2, <1>3, <1>5 DEF ParsedBy, TypeOK
<1>7. /\ DOMAIN container' \subseteq Handles
      /\ DOMAIN running \subseteq DOMAIN container'
      /\ \A g \in DOMAIN container' :
            container'[g] = IF g = h THEN [doc |-> c.doc, state |-> outcome]
                            ELSE container[g]
      /\ container' \in [DOMAIN container' ->
             [doc : Documents, state : {"running", "succeeded", "failed"}]]
  <2>1. CASE h \in DOMAIN running
    <3>1. [c EXCEPT !.state = outcome] = [doc |-> c.doc, state |-> outcome]
      BY <1>3
    <3>2. container' = With(container, h, [doc |-> c.doc, state |-> outcome])
      BY <1>2, <1>5, <2>1, <3>1
    <3> QED
      BY <1>1, <1>3, <3>2 DEF With, TypeOK
  <2>2. CASE h \notin DOMAIN running
    <3>1. container' = Without(container, {h})
      BY <1>5, <2>2
    <3> QED
      BY <1>1, <2>2, <3>1 DEF Without, TypeOK
  <2> QED
    BY <2>1, <2>2
<1>8. QueueTypeOK' /\ Outstanding' = Outstanding
  BY <1>1, <1>4 DEF TypeOK, QueueTypeOK, Outstanding, ReadyIds
<1>9. Distinct' /\ Bookkeeping' /\ Numbered' /\ Complete' /\ Covered' /\ NoMessageLost'
  BY <1>3, <1>4, <1>6, <1>8, BatchesAlone
<1>10. TypeOK'
  BY <1>1, <1>3, <1>4, <1>6, <1>7, <1>8 DEF TypeOK
<1>11. RunnerTruth'
  <2>1. ASSUME NEW g \in DOMAIN running
        PROVE  /\ container'[g].doc = running[g].doc
               /\ AckOn = "exit" /\ container'[g].state = "succeeded"
                    => container'[g].doc \in accounted'
    <3>1. /\ g \in DOMAIN container' /\ container[g].doc = running[g].doc
          /\ AckOn = "exit" /\ container[g].state = "succeeded"
                => container[g].doc \in accounted
      BY <1>1, <1>7, <2>1 DEF RunnerTruth
    <3>2. CASE g = h
      <4>1. container'[g] = [doc |-> c.doc, state |-> outcome]
        BY <1>7, <3>1, <3>2
      <4> QED
        BY <4>1, <1>2, <1>6, <3>1, <3>2
    <3>3. CASE g # h
      BY <1>6, <1>7, <3>1, <3>3
    <3> QED
      BY <3>2, <3>3
  <2> QED
    BY <2>1, <1>4 DEF RunnerTruth
<1> QED
  BY <1>9, <1>10, <1>11 DEF IndInv

LEMMA ReapKeeps == ASSUME IndInv, NEW h \in Handles, Reap(h) PROVE IndInv' /\ Promised
<1>1. TypeOK /\ RunnerTruth
  BY DEF IndInv
<1>2. h \in DOMAIN running
  BY <1>1 DEF Reap, ReapExited, ReapOverrun, ReapLost, TypeOK
<1>3. /\ h \in DOMAIN container /\ container[h].doc = running[h].doc
      /\ container[h].doc \in Documents
      /\ container[h].state \in {"running", "succeeded", "failed"}
      /\ AckOn = "exit" /\ container[h].state = "succeeded"
            => container[h].doc \in accounted
  BY <1>1, <1>2 DEF TypeOK, RunnerTruth
<1>4. CASE ReapExited(h)
  <2>1. PICK ok \in BOOLEAN : ok = (container[h].state = "succeeded")
    OBVIOUS
  <2>2. /\ Reaped(h, ok) /\ container' = Without(container, {h})
        /\ accounted' = accounted /\ faults' = faults
    BY <1>4, <2>1 DEF ReapExited
  <2>3. accounted' \subseteq Documents /\ faults' \in Nat
    BY <1>1, <2>2 DEF TypeOK
  <2> QED
    BY <1>2, <1>3, <2>1, <2>2, <2>3, ReapedKeeps
<1>5. CASE ReapOverrun(h)
  <2>1. Reaped(h, FALSE)
    BY <1>5 DEF ReapOverrun
  <2>2. /\ container' = container \/ container' = Without(container, {h})
        /\ accounted \subseteq accounted' /\ accounted' \subseteq Documents
        /\ faults' \in Nat
    BY <1>1, <1>3, <1>5 DEF ReapOverrun, ParsedBy, Fault, TypeOK
  <2> QED
    BY <1>2, <2>1, <2>2, ReapedKeeps
<1>6. CASE ReapLost(h)
  <2>1. /\ Reaped(h, FALSE) /\ container' = Without(container, {h})
        /\ accounted' = accounted
    BY <1>6 DEF ReapLost
  <2>2. accounted' \subseteq Documents /\ faults' \in Nat
    BY <1>1, <1>6, <2>1 DEF ReapLost, Fault, TypeOK
  <2> QED
    BY <1>2, <2>1, <2>2, ReapedKeeps
<1> QED
  BY <1>4, <1>5, <1>6 DEF Reap

LEMMA LaunchKeeps == ASSUME IndInv, Launch PROVE IndInv'
<1>1. ASSUME Handles \ DOMAIN container # {}, LaunchAccepted(Fresh) PROVE IndInv'
  <2>1. PICK h : h = Fresh
    OBVIOUS
  <2>2. h \in Handles \ DOMAIN container
    BY <1>1, <2>1 DEF Fresh
  <2> QED
    BY <1>1, <2>1, <2>2, LaunchAcceptedKeeps
<1>2. ASSUME LaunchRaises PROVE IndInv'
  <2>1. Die /\ faults' \in Nat
    BY <1>2 DEF LaunchRaises, Fault, IndInv, TypeOK
  <2> QED
    BY <2>1, DieKeeps
<1> QED
  BY <1>1, <1>2, LaunchRefusedKeeps DEF Launch

LEMMA LoopControlKeeps ==
    ASSUME IndInv, Begin \/ ReapEnd \/ LaunchEnd \/ ReceiveEnd \/ UnpackEnd \/ Check
    PROVE  IndInv'
<1>1. TypeOK
  BY DEF IndInv
<1>2. Free > 0 => Room \in Nat
  <2>1. IsFiniteSet(DOMAIN running)
    BY DEF IndInv, Distinct
  <2>2. Free \in Int
    BY <2>1, FS_CardinalityType, LimitsAssumption DEF Free
  <2>3. stats.received \in Nat
    BY <1>1 DEF TypeOK, Stats
  <2> QED
    BY <2>2, <2>3, LimitsAssumption DEF Room, Least
<1>3. CASE Begin
  BY <1>1, <1>3, ControlKeeps DEF Begin, TypeOK, runnerVars
<1>4. CASE ReapEnd
  BY <1>1, <1>4, ControlKeeps DEF ReapEnd, TypeOK, runnerVars, loopVars
<1>5. CASE LaunchEnd
  <2>1. /\ want' \in Nat /\ pc' \in {"receive", "check"}
        /\ UNCHANGED <<queueVars, unsent, stopping, progressed, scan, claimed, taskVars,
                       stats, runnerVars, signalled, faults>>
    BY <1>1, <1>2, <1>5 DEF LaunchEnd, TypeOK
  <2> QED
    BY <1>1, <2>1, ControlKeeps DEF TypeOK, runnerVars
<1>6. CASE ReceiveEnd
  BY <1>1, <1>6, ControlKeeps DEF ReceiveEnd, TypeOK, runnerVars
<1>7. CASE UnpackEnd
  BY <1>1, <1>7, ControlKeeps DEF UnpackEnd, TypeOK, runnerVars, loopVars
<1>8. CASE Check
  BY <1>1, <1>8, ControlKeeps DEF Check, TypeOK, runnerVars, loopVars
<1> QED
  BY <1>3, <1>4, <1>5, <1>6, <1>7, <1>8

LEMMA PassOverKeeps == ASSUME IndInv, NEW h \in Handles, PassOver(h) PROVE IndInv'
<1>1. TypeOK
  BY DEF IndInv
<1> QED
  BY <1>1, ControlKeeps DEF PassOver, TypeOK, runnerVars

LEMMA SignalKeeps == ASSUME IndInv, Signal PROVE IndInv'
<1>1. TypeOK
  BY DEF IndInv
<1> QED
  BY <1>1, ControlKeeps DEF Signal, TypeOK, runnerVars, loopVars

LEMMA TaskOverrunsKeeps == ASSUME IndInv, NEW h \in Handles, TaskOverruns(h) PROVE IndInv'
<1>1. TypeOK
  BY DEF IndInv
<1> QED
  BY <1>1, ControlKeeps DEF TaskOverruns, TypeOK, loopVars

LEMMA CrashKeeps == ASSUME IndInv, Crash \/ ReapRaises PROVE IndInv'
<1>1. Die /\ faults' \in Nat
  BY DEF Crash, ReapRaises, Fault, IndInv, TypeOK
<1> QED
  BY <1>1, DieKeeps

LEMMA StutterKeeps == ASSUME IndInv, UNCHANGED vars PROVE IndInv'
<1>1. TypeOK
  BY DEF IndInv
<1> QED
  BY <1>1, ControlKeeps DEF vars, TypeOK, loopVars, runnerVars

-----------------------------------------------------------------------------
(* A dying process, and one that starts, take nothing off the queue. *)
LEMMA DiePromised == ASSUME Die PROVE Promised
BY QuietPromise DEF Die, queueVars, Outstanding, ReadyIds

LEMMA LaunchPromised == ASSUME IndInv, Launch PROVE Promised
<1>1. ASSUME Handles \ DOMAIN container # {}, LaunchAccepted(Fresh) PROVE Promised
  <2>1. PICK h : h = Fresh
    OBVIOUS
  <2>2. h \in Handles \ DOMAIN container
    BY <1>1, <2>1 DEF Fresh
  <2> QED
    BY <1>1, <2>1, <2>2, LaunchAcceptedKeeps
<1> QED
  BY <1>1, LaunchRefusedKeeps, DiePromised DEF Launch, LaunchRaises

LEMMA QueuePromised ==
    ASSUME IndInv,
           \/ Start \/ ReceiveOne
           \/ \E m \in Messages : PublishNew(m) \/ Expires(m)
    PROVE  Promised
<1>1. QueueTypeOK
  BY DEF IndInv, TypeOK
<1>2. CASE Start
  BY <1>1, <1>2, DepthEffect, QuietPromise DEF Start, runnerVars
<1>3. CASE ReceiveOne
  <2>1. UNCHANGED <<unsent, accounted>>
    BY <1>3 DEF ReceiveOne, runnerVars
  <2>2. CASE ReceiveNone
    BY <2>1, <2>2, QuietPromise DEF ReceiveNone, queueVars, Outstanding, ReadyIds
  <2>3. CASE \E q \in AfterReap : Receive(q)
    BY <1>1, <2>1, <2>3, ReceiveEffect, QuietPromise
  <2> QED
    BY <1>3, <2>2, <2>3 DEF ReceiveOne
<1>4. ASSUME NEW m \in Messages, PublishNew(m) PROVE Promised
  <2>1. Outstanding' = Outstanding \cup {m} /\ dead' = dead
    BY <1>1, <1>4, PublishEffect DEF PublishNew
  <2>2. m \in unsent /\ unsent' = unsent \ {m} /\ accounted' = accounted
    BY <1>4 DEF PublishNew, runnerVars
  <2>3. Promise!Publish(m)
    BY <2>1, <2>2 DEF Promise!Publish, Parked
  <2> QED
    BY <2>2, <2>3 DEF Promised, Promise!Next
<1>5. ASSUME NEW m \in Messages, Expires(m) PROVE Promised
  BY <1>1, <1>5, ClaimExpiresEffect, QuietPromise DEF Expires, runnerVars
<1> QED
  BY <1>2, <1>3, <1>4, <1>5

LEMMA ContainerExitsPromised ==
    ASSUME NEW h \in Handles, ContainerExits(h)
    PROVE  Promised
<1>1. UNCHANGED <<unsent, Outstanding, dead>>
  BY DEF ContainerExits, queueVars, Outstanding, ReadyIds
<1>2. accounted \subseteq accounted'
  BY DEF ContainerExits, ParsedBy
<1> QED
  BY <1>1, <1>2, QuietPromise

LEMMA ControlPromised ==
    ASSUME \/ Begin \/ ReapEnd \/ LaunchEnd \/ ReceiveEnd \/ UnpackEnd \/ Check \/ Signal
           \/ \E h \in Handles : PassOver(h) \/ TaskOverruns(h)
           \/ UNCHANGED vars
    PROVE  Promised
<1>1. UNCHANGED <<queueVars, unsent, accounted>>
  BY DEF Begin, ReapEnd, LaunchEnd, ReceiveEnd, UnpackEnd, Check, Signal, PassOver,
     TaskOverruns, vars, runnerVars
<1>2. UNCHANGED <<Outstanding, dead>>
  BY <1>1 DEF queueVars, Outstanding, ReadyIds
<1> QED
  BY <1>1, <1>2, QuietPromise

-----------------------------------------------------------------------------
LEMMA StepKeeps == IndInv /\ [Next]_vars => IndInv'
<1> SUFFICES ASSUME IndInv, [Next]_vars PROVE IndInv'
  OBVIOUS
<1>1. CASE Loop
  BY <1>1, StartKeeps, LoopControlKeeps, LaunchKeeps, ReceiveOneKeeps, UnpackKeeps,
     PassOverKeeps, ReapKeeps, CrashKeeps DEF Loop
<1>2. CASE Environment
  BY <1>2, PublishNewKeeps, ExpiresKeeps, ContainerExitsKeeps, TaskOverrunsKeeps,
     SignalKeeps, CrashKeeps DEF Environment
<1> QED
  BY <1>1, <1>2, StutterKeeps DEF Next

LEMMA StepPromised == IndInv /\ [Next]_vars => Promised
<1> SUFFICES ASSUME IndInv, [Next]_vars PROVE Promised
  OBVIOUS
<1>1. CASE Loop
  BY <1>1, QueuePromised, ControlPromised, LaunchPromised, UnpackKeeps, ReapKeeps,
     DiePromised DEF Loop, ReapRaises
<1>2. CASE Environment
  BY <1>2, QueuePromised, ControlPromised, ContainerExitsPromised, DiePromised
     DEF Environment, Crash
<1> QED
  BY <1>1, <1>2, ControlPromised DEF Next

(* What is on the queue at first. *)
LEMMA InitialQueue ==
    ASSUME Init
    PROVE  ready \in Seq(Entry) /\ ReadyIds = Preloaded
<1> DEFINE E == [id : Preloaded, attempts : {0}]
           k == Cardinality(Preloaded)
<1>1. k \in Nat
  BY MessagesAssumption, KindsAssumption, FS_Subset, FS_CardinalityType
<1>2. ready \in Bijection(1..k, E)
  BY DEF Init
<1>3. /\ ready \in [1..k -> E]
      /\ \A e \in E : \E i \in 1..k : ready[i] = e
  BY <1>2 DEF Bijection, Injection, Surjection
<1>4. ready \in Seq(Entry)
  <2>1. E \subseteq Entry
    BY KindsAssumption DEF Entry
  <2> QED
    BY <1>1, <1>3, <2>1, SeqDef
<1>5. ASSUME NEW m \in Preloaded PROVE m \in ReadyIds
  <2>1. PICK e \in E : e.id = m
    <3>1. [id |-> m, attempts |-> 0] \in E
      OBVIOUS
    <3> QED
      BY <3>1
  <2>2. e \in Range(ready)
    BY <1>3 DEF Range
  <2> QED
    BY <2>1, <2>2 DEF ReadyIds
<1>6. ReadyIds \subseteq Preloaded
  BY <1>3 DEF ReadyIds, Range
<1> QED
  BY <1>4, <1>5, <1>6

LEMMA InitKeeps == Init => IndInv
<1> SUFFICES ASSUME Init PROVE IndInv
  OBVIOUS
<1>1. /\ pending = <<>> /\ claimed = <<>>
      /\ DOMAIN running = {} /\ DOMAIN batches = {} /\ DOMAIN container = {}
      /\ DOMAIN inflight = {} /\ dead = {} /\ scan = {} /\ overrun = {} /\ accounted = {}
  BY DEF Init
<1>2. ready \in Seq(Entry) /\ ReadyIds = Preloaded
  BY InitialQueue
<1>3. TypeOK
  <2>1. QueueTypeOK
    BY <1>1, <1>2 DEF QueueTypeOK, Init
  <2>2. stats \in Stats
    BY DEF Init, NoStats, Stats
  <2>3. /\ container \in [DOMAIN container ->
               [doc : Documents, state : {"running", "succeeded", "failed"}]]
        /\ running \in [DOMAIN running -> Task]
        /\ batches \in [DOMAIN batches -> Batch]
    BY <1>1 DEF Init
  <2>4. /\ claimed \in Seq(Delivery) /\ pending \in Seq(Task)
        /\ want \in Nat /\ faults \in Nat /\ unsent \subseteq Messages
    BY <1>1 DEF Init
  <2> QED
    BY <1>1, <2>1, <2>2, <2>3, <2>4 DEF Init, TypeOK
<1>4. /\ Distinct /\ Bookkeeping /\ Numbered /\ Complete /\ Covered /\ RunnerTruth
  BY <1>1, FS_EmptySet DEF Distinct, IsInjective, Bookkeeping, Numbered, Complete,
     Covered, RunnerTruth, Range
<1>5. NoMessageLost
  BY <1>2 DEF NoMessageLost, Outstanding, Init
<1> QED
  BY <1>3, <1>4, <1>5 DEF IndInv

-----------------------------------------------------------------------------
(* The invariant holds throughout, whatever crashes, expires or is refused. *)
THEOREM InvariantHolds == Spec => []IndInv
<1> QED
  BY InitKeeps, StepKeeps, PTL DEF Spec

(* Every variable keeps its type. *)
THEOREM TypesHold == Spec => []TypeOK
<1>1. IndInv => TypeOK
  BY DEF IndInv
<1> QED
  BY <1>1, InvariantHolds, PTL

(* The counters of a batch say what is queued and running of it (_settle     *)
(* looks at nothing else).                                                  *)
THEOREM BookkeepingHolds == Spec => []Bookkeeping
<1>1. IndInv => Bookkeeping
  BY DEF IndInv
<1> QED
  BY <1>1, InvariantHolds, PTL

(* A published message stays on the queue until it is parked or accounted    *)
(* for.                                                                     *)
THEOREM NoMessageIsLost == Spec => []NoMessageLost
<1>1. IndInv => NoMessageLost
  BY DEF IndInv
<1> QED
  BY <1>1, InvariantHolds, PTL

(* The dispatcher, with whatever crashes, expires or is refused, implements  *)
(* the promise: a message is forgotten only when the work it asks for is     *)
(* done, or when it is parked.                                              *)
THEOREM DispatcherKeepsPromise == Spec => KeepsPromise
<1>1. Init => Promise!Init
  <2> SUFFICES ASSUME Init PROVE Promise!Init
    OBVIOUS
  <2>1. Outstanding = Preloaded /\ unsent = Messages \ Preloaded
    BY InitialQueue DEF Init, Outstanding
  <2> QED
    BY <2>1, KindsAssumption DEF Promise!Init, Init, Parked
<1>2. IndInv /\ [Next]_vars => [Promise!Next]_(Promise!ledger)
  BY StepPromised DEF Promised, Promise!ledger
<1> QED
  BY <1>1, <1>2, InvariantHolds, PTL DEF Spec, KeepsPromise, Promise!Spec

=============================================================================
