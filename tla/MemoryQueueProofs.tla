------------------------- MODULE MemoryQueueProofs -------------------------
(***************************************************************************)
(* What each operation of MemoryQueue does to the queue's state: it keeps   *)
(* the type, and it moves a message between ready, inflight and dead        *)
(* without dropping another.  Every module that drives a MemoryQueue rests  *)
(* its own proofs on these lemmas.                                         *)
(***************************************************************************)
EXTENDS MemoryQueue, SequenceTheorems, FiniteSetTheorems, TLAPS

-----------------------------------------------------------------------------
(* Facts about sequences, used as the deques of the code are: what each     *)
(* operation makes of the elements, and that it repeats none.               *)

(* append() adds its element to what the deque holds, and nothing else. *)
LEMMA RangeAppend ==
    ASSUME NEW S, NEW s \in Seq(S), NEW e \in S
    PROVE  /\ Append(s, e) \in Seq(S)
           /\ Range(Append(s, e)) = Range(s) \cup {e}
<1>1. Append(s, e) \in Seq(S) /\ Append(s, e) = s \o <<e>>
  BY AppendProperties, AppendIsConcat
<1>2. <<e>> \in Seq(S) /\ Range(<<e>>) = {e}
  BY DEF Range
<1>3. Range(s \o <<e>>) = Range(s) \cup Range(<<e>>)
  BY <1>2, RangeConcatenation
<1> QED
  BY <1>1, <1>2, <1>3

(* popleft() takes the first element and keeps the rest. *)
LEMMA RangeTail ==
    ASSUME NEW S, NEW s \in Seq(S), s # <<>>
    PROVE  /\ Head(s) \in S
           /\ Tail(s) \in Seq(S)
           /\ Head(s) \in Range(s)
           /\ Range(s) = {Head(s)} \cup Range(Tail(s))
<1>1. /\ Head(s) \in S /\ Tail(s) \in Seq(S) /\ Len(Tail(s)) = Len(s) - 1
      /\ \A i \in 1..Len(Tail(s)) : Tail(s)[i] = s[i + 1]
  BY HeadTailProperties
<1>2. Len(s) \in Nat \ {0} /\ Head(s) = s[1]
  BY EmptySeq
<1>3. Range(s) = {s[i] : i \in 1..Len(s)}
  BY RangeEquality
<1>4. Range(Tail(s)) = {Tail(s)[i] : i \in 1..Len(Tail(s))}
  BY <1>1, RangeEquality
<1>5. ASSUME NEW i \in 1..Len(s)
      PROVE  s[i] \in {Head(s)} \cup Range(Tail(s))
  <2>1. CASE i = 1
    BY <2>1, <1>2
  <2>2. CASE i # 1
    <3>1. i - 1 \in 1..Len(Tail(s)) /\ Tail(s)[i - 1] = s[i]
      BY <2>2, <1>1, <1>2
    <3> QED
      BY <3>1, <1>4
  <2> QED
    BY <2>1, <2>2
<1>6. ASSUME NEW i \in 1..Len(Tail(s))
      PROVE  Tail(s)[i] \in Range(s)
  <2>1. i + 1 \in 1..Len(s) /\ Tail(s)[i] = s[i + 1]
    BY <1>1, <1>2
  <2> QED
    BY <2>1, <1>3
<1>7. Head(s) \in Range(s)
  BY <1>2, <1>3
<1> QED
  BY <1>1, <1>3, <1>4, <1>5, <1>6, <1>7

(* popleft() from a deque without repetitions removes its element from it. *)
LEMMA TailInjective ==
    ASSUME NEW S, NEW s \in Seq(S), s # <<>>, IsInjective(s)
    PROVE  /\ IsInjective(Tail(s))
           /\ Range(Tail(s)) = Range(s) \ {Head(s)}
<1>1. /\ Tail(s) \in Seq(S) /\ Len(Tail(s)) = Len(s) - 1
      /\ \A i \in 1..Len(Tail(s)) : Tail(s)[i] = s[i + 1]
  BY HeadTailProperties
<1>2. Len(s) \in Nat \ {0} /\ Head(s) = s[1] /\ DOMAIN s = 1..Len(s)
  BY EmptySeq
<1>3. DOMAIN Tail(s) = 1..Len(Tail(s))
  BY <1>1
<1>4. \A i \in DOMAIN Tail(s) : i + 1 \in DOMAIN s /\ i + 1 # 1 /\ Tail(s)[i] = s[i + 1]
  BY <1>1, <1>2, <1>3
<1>5. ASSUME NEW i \in DOMAIN Tail(s), NEW j \in DOMAIN Tail(s), Tail(s)[i] = Tail(s)[j]
      PROVE  i = j
  <2>1. i + 1 = j + 1
    BY <1>4, <1>5 DEF IsInjective
  <2> QED
    BY <2>1, <1>1, <1>3
<1>6. \A i \in DOMAIN Tail(s) : Tail(s)[i] # Head(s)
  BY <1>2, <1>4 DEF IsInjective
<1>7. Head(s) \notin Range(Tail(s))
  BY <1>6 DEF Range
<1> QED
  BY <1>5, <1>7, RangeTail DEF IsInjective

(* extend() by a deque without repetitions that shares nothing with it. *)
LEMMA ConcatInjective ==
    ASSUME NEW S, NEW s \in Seq(S), NEW t \in Seq(S), IsInjective(s), IsInjective(t),
           Range(s) \cap Range(t) = {}
    PROVE  IsInjective(s \o t)
<1>1. /\ s \o t \in Seq(S) /\ Len(s \o t) = Len(s) + Len(t)
      /\ \A i \in 1..(Len(s) + Len(t)) :
            (s \o t)[i] = IF i <= Len(s) THEN s[i] ELSE t[i - Len(s)]
  BY ConcatProperties
<1>2. /\ Len(s) \in Nat /\ Len(t) \in Nat
      /\ DOMAIN s = 1..Len(s) /\ DOMAIN t = 1..Len(t)
      /\ DOMAIN (s \o t) = 1..(Len(s) + Len(t))
  BY <1>1
<1>3. \A i \in DOMAIN s : (s \o t)[i] = s[i] /\ s[i] \in Range(s)
  BY <1>1, <1>2 DEF Range
<1>4. ASSUME NEW i \in DOMAIN (s \o t), i \notin DOMAIN s
      PROVE  /\ i - Len(s) \in DOMAIN t
             /\ (s \o t)[i] = t[i - Len(s)] /\ t[i - Len(s)] \in Range(t)
  BY <1>1, <1>2, <1>4 DEF Range
<1>5. ASSUME NEW i \in DOMAIN (s \o t), NEW j \in DOMAIN (s \o t),
             (s \o t)[i] = (s \o t)[j]
      PROVE  i = j
  <2>1. CASE i \in DOMAIN s /\ j \in DOMAIN s
    BY <2>1, <1>3, <1>5 DEF IsInjective
  <2>2. CASE i \notin DOMAIN s /\ j \notin DOMAIN s
    <3>1. i - Len(s) = j - Len(s)
      BY <2>2, <1>4, <1>5 DEF IsInjective
    <3> QED
      BY <3>1, <1>2
  <2>3. CASE i \in DOMAIN s /\ j \notin DOMAIN s
    BY <2>3, <1>3, <1>4, <1>5
  <2>4. CASE i \notin DOMAIN s /\ j \in DOMAIN s
    BY <2>4, <1>3, <1>4, <1>5
  <2> QED
    BY <2>1, <2>2, <2>3, <2>4
<1> QED
  BY <1>5 DEF IsInjective

-----------------------------------------------------------------------------
(* _reap moves every expired claim to the back of the deque. *)
LEMMA AfterReapEffect ==
    ASSUME QueueTypeOK, NEW q \in AfterReap
    PROVE  /\ q \in Seq(Entry)
           /\ {e.id : e \in Range(q)} = ReadyIds \cup Expired
<1> DEFINE entries == {[id |-> m, attempts |-> inflight[m].attempts] : m \in Expired}
<1>1. Expired \subseteq Messages /\ IsFiniteSet(Expired)
  BY MessagesAssumption, FS_Subset DEF QueueTypeOK, Expired
<1>2. Cardinality(Expired) \in Nat
  BY <1>1, FS_CardinalityType
<1>3. entries \subseteq Entry
  BY DEF QueueTypeOK, Expired, Entry, Claim
<1>4. PICK back \in Surjection(1..Cardinality(Expired), entries) : q = ready \o back
  BY DEF AfterReap
<1>5. back \in [1..Cardinality(Expired) -> entries] /\ Range(back) = entries
  BY <1>4 DEF Surjection, Range
<1>6. back \in Seq(Entry)
  <2>1. back \in [1..Cardinality(Expired) -> Entry]
    BY <1>3, <1>5
  <2> QED
    BY <2>1, <1>2, SeqDef
<1>7. q \in Seq(Entry) /\ Range(q) = Range(ready) \cup entries
  BY <1>4, <1>5, <1>6, ConcatProperties, RangeConcatenation DEF QueueTypeOK
<1>8. {e.id : e \in entries} = Expired
  <2>1. \A e \in entries : e.id \in Expired
    OBVIOUS
  <2>2. ASSUME NEW m \in Expired PROVE \E e \in entries : e.id = m
    <3> DEFINE e == [id |-> m, attempts |-> inflight[m].attempts]
    <3>1. e \in entries /\ e.id = m
      OBVIOUS
    <3> QED
      BY <3>1
  <2> HIDE DEF entries
  <2> QED
    BY <2>1, <2>2
<1> QED
  BY <1>7, <1>8 DEF ReadyIds

-----------------------------------------------------------------------------
(* The effect of every operation. *)

LEMMA PublishEffect ==
    ASSUME QueueTypeOK, NEW m \in Messages, Publish(m)
    PROVE  /\ QueueTypeOK'
           /\ Outstanding' = Outstanding \cup {m}
           /\ dead' = dead
<1> DEFINE e == [id |-> m, attempts |-> 0]
<1>1. e \in Entry /\ e.id = m
  BY DEF Entry
<1>2. ready' \in Seq(Entry) /\ Range(ready') = Range(ready) \cup {e}
  BY <1>1, RangeAppend DEF QueueTypeOK, Publish
<1>3. ReadyIds' = ReadyIds \cup {m}
  BY <1>1, <1>2 DEF ReadyIds
<1> QED
  BY <1>2, <1>3 DEF QueueTypeOK, Publish, Outstanding

LEMMA DepthEffect ==
    ASSUME QueueTypeOK, Depth
    PROVE  /\ QueueTypeOK'
           /\ Outstanding' = Outstanding
           /\ dead' = dead
<1>1. ready' \in Seq(Entry) /\ ReadyIds' = ReadyIds \cup Expired
  BY AfterReapEffect DEF Depth, ReadyIds
<1>2. DOMAIN inflight' = DOMAIN inflight \ Expired
  BY DEF Depth, Without
<1>3. \A x \in DOMAIN inflight' : inflight'[x] = inflight[x]
  BY DEF Depth, Without
<1>4. inflight' \in [DOMAIN inflight' -> Claim]
  BY <1>2, <1>3 DEF Depth, Without, QueueTypeOK
<1>5. Expired \subseteq DOMAIN inflight
  BY DEF Expired
<1> QED
  BY <1>1, <1>2, <1>4, <1>5 DEF QueueTypeOK, Depth, Outstanding

LEMMA ReceiveEffect ==
    ASSUME QueueTypeOK, NEW q \in AfterReap, Receive(q)
    PROVE  /\ QueueTypeOK'
           /\ Delivering(q) \in Delivery
           /\ Outstanding' = Outstanding
           /\ dead' = dead
<1> DEFINE d == Delivering(q)
           c == [attempts |-> d.attempts, expired |-> FALSE]
<1>1. q \in Seq(Entry) /\ {e.id : e \in Range(q)} = ReadyIds \cup Expired
  BY AfterReapEffect
<1>2. /\ Head(q) \in Entry /\ Tail(q) \in Seq(Entry)
      /\ Range(q) = {Head(q)} \cup Range(Tail(q))
  BY <1>1, RangeTail DEF Receive
<1>3. d \in Delivery /\ d.id = Head(q).id /\ c \in Claim
  BY <1>2 DEF Delivering, Delivery, Entry, Claim
<1>4. ready' = Tail(q) /\ inflight' = With(Without(inflight, Expired), d.id, c)
  BY DEF Receive
<1>5. ReadyIds \cup Expired = {d.id} \cup ReadyIds'
  BY <1>1, <1>2, <1>3, <1>4 DEF ReadyIds
<1>6. DOMAIN inflight' = (DOMAIN inflight \ Expired) \cup {d.id}
  BY <1>4 DEF With, Without
<1>7. \A x \in DOMAIN inflight' : inflight'[x] = IF x = d.id THEN c ELSE inflight[x]
  BY <1>4 DEF With, Without
<1>8. inflight' \in [DOMAIN inflight' -> Claim]
  <2>1. \A x \in DOMAIN inflight' : inflight'[x] \in Claim
    BY <1>3, <1>6, <1>7 DEF QueueTypeOK
  <2> QED
    BY <2>1, <1>4 DEF With
<1>9. d.id \in Messages
  BY <1>3 DEF Delivery
<1>10. Expired \subseteq DOMAIN inflight
  BY DEF Expired
<1> QED
  BY <1>2, <1>3, <1>4, <1>5, <1>6, <1>8, <1>9, <1>10 DEF QueueTypeOK, Receive, Outstanding

(* Taking a claim away, as ack(), nack() and dead_letter() all begin. *)
LEMMA UnclaimEffect ==
    ASSUME QueueTypeOK, NEW d \in Delivery, inflight' = Without(inflight, {d.id})
    PROVE  /\ DOMAIN inflight' = DOMAIN inflight \ {d.id}
           /\ inflight' \in [DOMAIN inflight' -> Claim]
<1>1. DOMAIN inflight' = DOMAIN inflight \ {d.id}
  BY DEF Without
<1>2. \A x \in DOMAIN inflight' : inflight'[x] \in Claim
  BY <1>1 DEF Without, QueueTypeOK
<1> QED
  BY <1>1, <1>2 DEF Without

LEMMA AckEffect ==
    ASSUME QueueTypeOK, NEW d \in Delivery, Ack(d)
    PROVE  /\ QueueTypeOK'
           /\ Outstanding' \in {Outstanding, Outstanding \ {d.id}}
           /\ dead' = dead
<1>1. /\ DOMAIN inflight' = DOMAIN inflight \ {d.id}
      /\ inflight' \in [DOMAIN inflight' -> Claim]
      /\ ready' = ready /\ dead' = dead
  BY UnclaimEffect DEF Ack
<1> QED
  BY <1>1 DEF QueueTypeOK, Outstanding, ReadyIds

LEMMA DeadLetterEffect ==
    ASSUME QueueTypeOK, NEW d \in Delivery, DeadLetter(d)
    PROVE  /\ QueueTypeOK'
           /\ Outstanding' \in {Outstanding, Outstanding \ {d.id}}
           /\ dead' = dead \cup {d}
<1>1. /\ DOMAIN inflight' = DOMAIN inflight \ {d.id}
      /\ inflight' \in [DOMAIN inflight' -> Claim]
      /\ ready' = ready /\ dead' = dead \cup {d}
  BY UnclaimEffect DEF DeadLetter
<1> QED
  BY <1>1 DEF QueueTypeOK, Outstanding, ReadyIds

LEMMA NackEffect ==
    ASSUME QueueTypeOK, NEW d \in Delivery, Nack(d)
    PROVE  /\ QueueTypeOK'
           /\ Outstanding' = Outstanding
           /\ dead' = dead
<1>1. CASE d.id \notin DOMAIN inflight
  BY <1>1 DEF Nack, QueueTypeOK, Outstanding, ReadyIds, queueVars
<1>2. CASE d.id \in DOMAIN inflight
  <2> DEFINE e == [id |-> d.id, attempts |-> inflight[d.id].attempts]
  <2>1. /\ ready' = Append(ready, e)
        /\ inflight' = Without(inflight, {d.id})
        /\ dead' = dead
    BY <1>2 DEF Nack
  <2>2. e \in Entry /\ e.id = d.id
    BY <1>2 DEF QueueTypeOK, Claim, Entry
  <2>3. ready' \in Seq(Entry) /\ Range(ready') = Range(ready) \cup {e}
    BY <2>1, <2>2, RangeAppend DEF QueueTypeOK
  <2>4. ReadyIds' = ReadyIds \cup {d.id}
    BY <2>2, <2>3 DEF ReadyIds
  <2>5. /\ DOMAIN inflight' = DOMAIN inflight \ {d.id}
        /\ inflight' \in [DOMAIN inflight' -> Claim]
    BY <2>1, UnclaimEffect
  <2> QED
    BY <1>2, <2>1, <2>3, <2>4, <2>5 DEF QueueTypeOK, Outstanding
<1> QED
  BY <1>1, <1>2

LEMMA ClaimExpiresEffect ==
    ASSUME QueueTypeOK, NEW m \in Messages, ClaimExpires(m)
    PROVE  /\ QueueTypeOK'
           /\ Outstanding' = Outstanding
           /\ dead' = dead
<1>1. /\ ready' = ready /\ dead' = dead
      /\ inflight' = [inflight EXCEPT ![m].expired = TRUE]
      /\ m \in DOMAIN inflight
  BY DEF ClaimExpires
<1>2. DOMAIN inflight' = DOMAIN inflight
  BY <1>1
<1>3. inflight' \in [DOMAIN inflight' -> Claim]
  BY <1>1, <1>2 DEF QueueTypeOK, Claim
<1> QED
  BY <1>1, <1>2, <1>3 DEF QueueTypeOK, Outstanding, ReadyIds

=============================================================================
