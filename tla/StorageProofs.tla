---------------------------- MODULE StorageProofs ----------------------------
(***************************************************************************)
(* Proofs about the two tables, for any documents, profiles, sizes, workers *)
(* and callers, and any order of their transactions, failures and deaths:   *)
(* a branch of a document holds the rows of one build.  And about the       *)
(* embedder, for any number of passages and any lengths: every chunk is     *)
(* stored with the vector of its own text.                                  *)
(***************************************************************************)
EXTENDS Storage, Embedder, FiniteSetTheorems, TLAPS

-----------------------------------------------------------------------------
(* Builds. *)

(* The rows of a build are of its branch, and the first has position zero.  *)
LEMMA BuildFacts ==
    ASSUME NEW b \in Branches, NEW p \in Profiles, NEW n \in Nat
    PROVE  /\ Build(b, p, n) \subseteq Row
           /\ \A r \in Build(b, p, n) : r.branch = b
           /\ Of(Build(b, p, n), b) = Build(b, p, n)
           /\ \A c \in Branches \ {b} : Of(Build(b, p, n), c) = {}
           /\ Size[b][p] = 0 <=> Build(b, p, n) = {}
           /\ Build(b, p, n) # {} => \E r \in Build(b, p, n) : r.ord = 0
<1> DEFINE row(i) == IF b = "tables" THEN TableRow(i, n) ELSE ChunkRow(i, p, n)
<1>1. Size[b][p] \in Nat
  BY StorageAssumption DEF StorageAssumption
<1>2. Build(b, p, n) = {row(i) : i \in 0 .. Size[b][p] - 1}
  BY DEF Build
<1>3. ASSUME NEW i \in 0 .. Size[b][p] - 1
      PROVE  row(i) \in Row /\ row(i).branch = b /\ row(i).ord = i
  <2>1. i \in Nat
    BY <1>1
  <2>2. CASE b = "tables"
    <3>1. TableRow(i, n) \in Row
      BY <2>1 DEF TableRow, Row, VectorSets, Branches
    <3> QED
      BY <2>2, <3>1 DEF TableRow
  <2>3. CASE b # "tables"
    <3>1. b = "chunks"
      BY <2>3 DEF Branches
    <3>2. DOMAIN Vectors[p] = 0 .. Size["chunks"][p] - 1
      BY StorageAssumption DEF StorageAssumption
    <3>3. Embedded[p][i] \in VectorSets
      <4>1. i \in DOMAIN Embedded[p]
        BY <2>3, <3>1, <3>2 DEF Embedded
      <4>2. Embedded[p][i] \in {Embedded[p][j] : j \in DOMAIN Embedded[p]}
        BY <4>1
      <4> QED
        BY <4>2 DEF VectorSets
    <3>4. ChunkRow(i, p, n) \in Row
      BY <2>1, <3>3 DEF ChunkRow, Row, Branches
    <3> QED
      BY <2>3, <3>1, <3>4 DEF ChunkRow
  <2> QED
    BY <2>2, <2>3
<1> HIDE DEF row
<1>4. Build(b, p, n) \subseteq Row /\ \A r \in Build(b, p, n) : r.branch = b
  BY <1>2, <1>3
<1>5. Size[b][p] = 0 <=> Build(b, p, n) = {}
  <2>1. CASE Size[b][p] = 0
    BY <1>2, <2>1
  <2>2. CASE Size[b][p] # 0
    <3>1. 0 \in 0 .. Size[b][p] - 1
      BY <1>1, <2>2
    <3> QED
      BY <1>2, <2>2, <3>1
  <2> QED
    BY <2>1, <2>2
<1>6. Build(b, p, n) # {} => \E r \in Build(b, p, n) : r.ord = 0
  <2>1. ASSUME Build(b, p, n) # {} PROVE 0 \in 0 .. Size[b][p] - 1
    BY <1>1, <1>5, <2>1
  <2> QED
    BY <1>2, <1>3, <2>1
<1> QED
  BY <1>4, <1>5, <1>6 DEF Of

(* A branch that has rows under one profile has rows under every other.     *)
LEMMA SameEmptiness ==
    ASSUME NEW b \in Branches, NEW p \in Profiles, NEW n \in Nat,
           NEW q \in Profiles, NEW m \in Nat, Build(b, p, n) = {}
    PROVE  Build(b, q, m) = {}
<1>1. Size[b][p] = 0
  BY BuildFacts
<1>2. Size[b][q] = 0
  <2>1. \/ \A o \in Profiles : Size[b][o] = 0
        \/ \A o \in Profiles : Size[b][o] > 0
    BY StorageAssumption DEF StorageAssumption
  <2>2. ~ 0 > 0
    OBVIOUS
  <2> QED
    BY <1>1, <2>1, <2>2
<1> QED
  BY <1>2, BuildFacts

(* The unique keys keep two builds of a branch apart, wherever they are.    *)
LEMMA BuildsClash ==
    ASSUME NEW b \in Branches, NEW p \in Profiles, NEW n \in Nat,
           NEW q \in Profiles, NEW m \in Nat, NEW A, NEW B,
           Build(b, p, n) # {}, Build(b, p, n) \subseteq A,
           Build(b, q, m) # {}, Build(b, q, m) \subseteq B
    PROVE  Clash(A, B)
<1>1. PICK r \in Build(b, p, n) : r.ord = 0 /\ r.branch = b
  BY BuildFacts
<1>2. PICK t \in Build(b, q, m) : t.ord = 0 /\ t.branch = b
  BY BuildFacts
<1> QED
  BY <1>1, <1>2 DEF Clash

-----------------------------------------------------------------------------
(* The invariant of one process, whose record is w and whose document has   *)
(* the rows S.                                                              *)
StageOK(w) ==
    /\ IF w.pc = "idle" THEN w = Idle
       ELSE w.doc \in Docs /\ w.profile \in Profiles /\ w.all # {}
    /\ w.pc \in {"load", "lookup", "upsert"} =>
          w.left = w.all /\ w.gone = {} /\ w.new = {}
    /\ w.pc \notin {"idle", "load"} => w.parse \in 1 .. MaxParses
    /\ w.pc \in {"delete", "wait", "insert"} => w.left # {}
    /\ w.pc = "commit" => w.left = {}
    /\ w.pc # "wait" => w.sees = {}
    /\ w.left \subseteq w.all

BranchOf(w) == IF "tables" \in w.left THEN "tables" ELSE "chunks"

BranchOK(w, S, b) ==
    /\ Of(w.new, b) = IF b \in w.all \ w.left THEN Build(b, w.profile, w.parse) ELSE {}
    /\ Of(w.gone, b) = {} \/ Of(w.gone, b) = Of(S, b)
    /\ b \notin w.all => Of(w.gone, b) = {}
    /\ b \in w.all \ w.left => Of(S, b) = Of(w.gone, b)

HandOK(w, S) ==
    /\ \A b \in Branches : BranchOK(w, S, b)
    /\ w.sees = {} \/ w.sees = Of(S, BranchOf(w))

ApartOK(v, w) ==
    /\ v.gone \cap w.gone = {}
    /\ \A b \in Branches : Of(v.new, b) = {} \/ Of(w.new, b) = {}

LEMMA Processwise ==
    /\ Stages <=> \A p \in Processes : StageOK(proc[p])
    /\ WholeBranches <=>
         \A p \in Processes : proc[p].pc # "idle" => HandOK(proc[p], stored[proc[p].doc])
    /\ Apart <=>
         \A p, q \in Processes :
            p # q /\ proc[q].doc = proc[p].doc => ApartOK(proc[p], proc[q])
<1>1. Stages <=> \A p \in Processes : StageOK(proc[p])
  BY DEF Stages, StageOK
<1>2. WholeBranches <=>
        \A p \in Processes : proc[p].pc # "idle" => HandOK(proc[p], stored[proc[p].doc])
  <2>1. \A p \in Processes : Old(p) = Of(stored[proc[p].doc], BranchOf(proc[p]))
    BY DEF Old, Branch, BranchOf
  <2>2. \E b \in Branches : TRUE
    BY DEF Branches
  <2> QED
    BY <2>1, <2>2 DEF WholeBranches, HandOK, BranchOK, Written
<1>3. Apart <=>
        \A p, q \in Processes :
            p # q /\ proc[q].doc = proc[p].doc => ApartOK(proc[p], proc[q])
  BY DEF Apart, ApartOK, Others
<1> QED
  BY <1>1, <1>2, <1>3

(* The same of the state a step leads to. *)
LEMMA ProcesswiseNext ==
    /\ (\A p \in Processes : StageOK(proc'[p])) => Stages'
    /\ (\A p \in Processes : proc'[p].pc # "idle" => HandOK(proc'[p], stored'[proc'[p].doc]))
         => WholeBranches'
    /\ (\A p, q \in Processes :
            p # q /\ proc'[q].doc = proc'[p].doc => ApartOK(proc'[p], proc'[q]))
         => Apart'
<1>1. (\A p \in Processes : StageOK(proc'[p])) => Stages'
  BY DEF Stages, StageOK
<1>2. (\A p \in Processes : proc'[p].pc # "idle" => HandOK(proc'[p], stored'[proc'[p].doc]))
         => WholeBranches'
  <2>1. \A p \in Processes : Old(p)' = Of(stored'[proc'[p].doc], BranchOf(proc'[p]))
    BY DEF Old, Branch, BranchOf, Of
  <2> QED
    BY <2>1 DEF WholeBranches, HandOK, BranchOK, Written, Of, Build
<1>3. (\A p, q \in Processes :
            p # q /\ proc'[q].doc = proc'[p].doc => ApartOK(proc'[p], proc'[q]))
         => Apart'
  BY DEF Apart, ApartOK, Others, Of
<1> QED
  BY <1>1, <1>2, <1>3

Rest == Stages /\ WholeBranches /\ Apart

(* A process that has nothing in hand. *)
Fresh(w) == w.pc \in {"idle", "load", "lookup", "upsert", "delete"}
            /\ w.left = w.all /\ w.gone = {} /\ w.new = {} /\ w.sees = {}

LEMMA FreshOK ==
    ASSUME NEW w, Fresh(w), NEW S, NEW v
    PROVE  HandOK(w, S) /\ ApartOK(w, v) /\ ApartOK(v, w)
BY DEF Fresh, HandOK, BranchOK, ApartOK, Of

(* A step of one process that leaves the tables alone: what it does has to  *)
(* be right of its own record, and apart from the others on its document.   *)
LEMMA Moved ==
    ASSUME Rest, NEW p \in Processes, NEW w, proc \in [Processes -> Process],
           proc' = [proc EXCEPT ![p] = w], stored' = stored, StageOK(w),
           w.pc # "idle" => HandOK(w, stored[w.doc]),
           \A q \in Processes \ {p} : proc[q].doc = w.doc =>
               ApartOK(w, proc[q]) /\ ApartOK(proc[q], w)
    PROVE  Rest'
<1>1. proc'[p] = w /\ \A q \in Processes \ {p} : proc'[q] = proc[q]
  OBVIOUS
<1>2. \A q \in Processes : StageOK(proc'[q])
  BY <1>1, Processwise DEF Rest
<1>3. \A q \in Processes : proc'[q].pc # "idle" => HandOK(proc'[q], stored'[proc'[q].doc])
  BY <1>1, Processwise DEF Rest
<1>4. \A o, q \in Processes :
          o # q /\ proc'[q].doc = proc'[o].doc => ApartOK(proc'[o], proc'[q])
  BY <1>1, Processwise DEF Rest
<1> QED
  BY <1>2, <1>3, <1>4, ProcesswiseNext DEF Rest

LEMMA MovedFresh ==
    ASSUME Rest, NEW p \in Processes, NEW w, proc \in [Processes -> Process],
           proc' = [proc EXCEPT ![p] = w], stored' = stored, StageOK(w), Fresh(w)
    PROVE  Rest'
BY FreshOK, Moved

LEMMA RestUnchanged ==
    ASSUME Rest, proc' = proc, stored' = stored
    PROVE  Rest'
<1>1. /\ \A q \in Processes : StageOK(proc'[q])
      /\ \A q \in Processes : proc'[q].pc # "idle" => HandOK(proc'[q], stored'[proc'[q].doc])
      /\ \A o, q \in Processes :
            o # q /\ proc'[q].doc = proc'[o].doc => ApartOK(proc'[o], proc'[q])
  BY Processwise DEF Rest
<1> QED
  BY <1>1, ProcesswiseNext DEF Rest

-----------------------------------------------------------------------------
(* Steps of one process. *)
LEMMA IndInvParts ==
    /\ IndInv => TypeOK /\ OneBuild /\ Rest
    /\ TypeOK /\ OneBuild /\ Rest => IndInv
BY DEF IndInv, Rest

LEMMA BuildsStay ==
    ASSUME OneBuild, stored' = stored
    PROVE  OneBuild'
BY DEF OneBuild, Of, Build

LEMMA IdleFacts ==
    /\ Idle \in Process /\ StageOK(Idle) /\ Fresh(Idle) /\ Idle.pc = "idle"
    /\ Idle.all = {}
BY DEF Idle, Process, StageOK, Fresh

LEMMA StartingOK ==
    ASSUME NEW call \in {"index", "ingest", "reextract", "rechunk"}, NEW d \in Docs,
           NEW p \in Profiles, NEW branches \in (SUBSET Branches) \ {{}}, NEW n \in Nat
    PROVE  LET w == Starting(call, d, p, branches, n)
           IN  w \in Process /\ StageOK(w) /\ Fresh(w)
<1> DEFINE w == Starting(call, d, p, branches, n)
<1>1. Idle \in Process
  BY IdleFacts
<1>2. w \in Process
  BY <1>1 DEF Starting, Process
<1>3. /\ w.pc = "load" /\ w.doc = d /\ w.profile = p /\ w.all = branches /\ w.left = branches
  BY <1>1 DEF Starting, Process
<1>4. w.sees = {} /\ w.gone = {} /\ w.new = {}
  <2>1. w.sees = Idle.sees /\ w.gone = Idle.gone /\ w.new = Idle.new
    BY <1>1 DEF Starting, Process
  <2> QED
    BY <2>1 DEF Idle
<1> HIDE DEF w
<1>5. StageOK(w) /\ Fresh(w)
  BY <1>3, <1>4 DEF StageOK, Fresh
<1> QED
  BY <1>2, <1>5 DEF w

LEMMA MovingKeeps ==
    ASSUME IndInv, NEW p \in Processes, NEW w \in Process, Moving(p, w), StageOK(w),
           w.pc # "idle" => HandOK(w, stored[w.doc]),
           \A q \in Processes \ {p} : proc[q].doc = w.doc =>
               ApartOK(w, proc[q]) /\ ApartOK(proc[q], w)
    PROVE  IndInv'
<1>1. /\ proc' = [proc EXCEPT ![p] = w] /\ stored' = stored
      /\ UNCHANGED <<cache, known, asked, parked, retired, cut, todo, events>>
  BY DEF Moving
<1>2. TypeOK'
  BY <1>1 DEF IndInv, TypeOK
<1>3. proc \in [Processes -> Process]
  BY DEF IndInv, TypeOK
<1>4. Rest'
  BY <1>1, <1>3, IndInvParts, Moved
<1> QED
  BY <1>1, <1>2, <1>4, IndInvParts, BuildsStay DEF IndInv, Rest

LEMMA MovingFresh ==
    ASSUME IndInv, NEW p \in Processes, NEW w \in Process, Moving(p, w), StageOK(w), Fresh(w)
    PROVE  IndInv'
BY FreshOK, MovingKeeps

(* The message a worker holds is one that may be delivered. *)
LEMMA HeldOK ==
    ASSUME IndInv, NEW p \in Processes, proc[p].pc # "idle"
    PROVE  Held(p) \in Request /\ proc[p].doc \in Docs
<1>1. proc[p] \in Process
  BY DEF IndInv, TypeOK
<1>2. StageOK(proc[p])
  BY Processwise DEF IndInv
<1>3. proc[p].doc \in Docs /\ proc[p].all # {}
  BY <1>2 DEF StageOK
<1>4. /\ proc[p].all \in (SUBSET Branches) \ {{}} /\ proc[p].tries \in Nat
  BY <1>1, <1>3 DEF Process
<1> QED
  BY <1>3, <1>4 DEF Held, Request

(* Whatever a process raises, its transaction is rolled back as a whole.    *)
LEMMA GivingUpKeeps ==
    ASSUME IndInv, NEW p \in Processes, proc[p].pc # "idle", GivingUp(p),
           cut' \subseteq Workers, events' \in Nat
    PROVE  IndInv'
<1>1. /\ proc' = [proc EXCEPT ![p] = Idle]
      /\ asked' \subseteq asked \cup {Held(p)}
      /\ parked' \subseteq parked \cup {proc[p].doc}
      /\ UNCHANGED <<cache, known, stored, retired, todo>>
  BY DEF GivingUp
<1>2. Held(p) \in Request /\ proc[p].doc \in Docs
  BY HeldOK
<1>3. TypeOK'
  BY <1>1, <1>2, IdleFacts DEF IndInv, TypeOK
<1>4. proc \in [Processes -> Process]
  BY DEF IndInv, TypeOK
<1>5. Rest'
  BY <1>1, <1>4, IdleFacts, IndInvParts, MovedFresh
<1> QED
  BY <1>1, <1>3, <1>5, BuildsStay DEF IndInv, Rest

LEMMA TakeKeeps ==
    ASSUME IndInv, NEW w \in Workers, NEW d \in Docs, NEW n \in Nat, Take(w, d, n)
    PROVE  IndInv'
<1>1. PICK r \in asked :
        /\ asked' = asked \ {r}
        /\ proc' = [proc EXCEPT ![w] =
              Starting("index", d, ProfileOf[w], r.branches, n + 1)]
  BY DEF Take
<1>2. r.branches \in (SUBSET Branches) \ {{}}
  BY DEF IndInv, TypeOK, Request
<1>3. w \in Processes /\ ProfileOf[w] \in Profiles
  BY StorageAssumption DEF StorageAssumption, Processes
<1> DEFINE new == Starting("index", d, ProfileOf[w], r.branches, n + 1)
<1>4. new \in Process /\ StageOK(new) /\ Fresh(new)
  <2>1. n + 1 \in Nat
    OBVIOUS
  <2> QED
    BY <1>2, <1>3, <2>1, StartingOK
<1>5. UNCHANGED <<cache, known, stored, parked, retired, cut, todo, events>>
  BY DEF Take
<1>6. TypeOK'
  BY <1>1, <1>4, <1>5 DEF IndInv, TypeOK
<1>7. proc \in [Processes -> Process]
  BY DEF IndInv, TypeOK
<1> HIDE DEF new
<1>8. Rest'
  BY <1>1, <1>3, <1>4, <1>5, <1>7, IndInvParts, MovedFresh DEF new
<1> QED
  BY <1>5, <1>6, <1>8, BuildsStay DEF IndInv, Rest

LEMMA CallKeeps ==
    ASSUME IndInv, NEW c \in Callers, Call(c)
    PROVE  IndInv'
<1>1. PICK d \in Docs, call \in {"ingest", "reextract", "rechunk"} :
        proc' = [proc EXCEPT ![c] = Starting(call, d, ProfileOf[c], BranchesOf[call], 0)]
  BY DEF Call
<1>2. BranchesOf[call] \in (SUBSET Branches) \ {{}}
  BY DEF BranchesOf, Branches
<1>3. c \in Processes /\ ProfileOf[c] \in Profiles
  BY StorageAssumption DEF StorageAssumption, Processes
<1> DEFINE new == Starting(call, d, ProfileOf[c], BranchesOf[call], 0)
<1>4. new \in Process /\ StageOK(new) /\ Fresh(new)
  BY <1>2, <1>3, StartingOK
<1>5. UNCHANGED <<cache, known, stored, asked, parked, retired, cut, todo>> /\ events' \in Nat
  BY DEF Call, Event, IndInv, TypeOK
<1>6. TypeOK'
  BY <1>1, <1>4, <1>5 DEF IndInv, TypeOK
<1>7. proc \in [Processes -> Process]
  BY DEF IndInv, TypeOK
<1> HIDE DEF new
<1>8. Rest'
  BY <1>1, <1>3, <1>4, <1>5, <1>7, IndInvParts, MovedFresh DEF new
<1> QED
  BY <1>5, <1>6, <1>8, BuildsStay DEF IndInv, Rest

LEMMA LoadKeeps ==
    ASSUME IndInv, NEW p \in Processes, Load(p)
    PROVE  IndInv'
<1> DEFINE w == proc[p]
           new(n) == [w EXCEPT !.pc = IF w.call \in {"index", "ingest"} THEN "upsert"
                                      ELSE "lookup", !.parse = n]
<1>1. w \in Process /\ StageOK(w) /\ w.pc = "load" /\ w.doc \in Docs
  BY Processwise DEF IndInv, TypeOK, Load, StageOK
<1>2. ASSUME NEW n \in 1 .. MaxParses
      PROVE  new(n) \in Process /\ StageOK(new(n)) /\ Fresh(new(n))
  <2>1. PICK next \in {"upsert", "lookup"} : new(n) = [w EXCEPT !.pc = next, !.parse = n]
    OBVIOUS
  <2>2. n \in Nat
    BY StorageAssumption DEF StorageAssumption
  <2> DEFINE v == [w EXCEPT !.pc = next, !.parse = n]
  <2>3. v \in Process
    BY <1>1, <2>2 DEF Process
  <2>4. /\ v.pc = next /\ v.parse = n
        /\ v.doc = w.doc /\ v.profile = w.profile /\ v.all = w.all /\ v.left = w.left
        /\ v.sees = w.sees /\ v.gone = w.gone /\ v.new = w.new
    BY <1>1 DEF Process
  <2>5. StageOK(v) /\ Fresh(v)
    <3> HIDE DEF v, w
    <3> QED
      BY <1>1, <2>4 DEF StageOK, Fresh
  <2> QED
    BY <2>1, <2>3, <2>5
<1>3. cache[w.doc] \in 0 .. MaxParses /\ 1 \in 0 .. MaxParses /\ 1 \in 1 .. MaxParses
  BY <1>1, StorageAssumption DEF StorageAssumption, IndInv, TypeOK
<1>4. CASE cache[w.doc] # 0 /\ Moving(p, new(cache[w.doc]))
  <2>1. cache[w.doc] \in 1 .. MaxParses
    BY <1>3, <1>4, StorageAssumption DEF StorageAssumption
  <2> HIDE DEF new
  <2> QED
    BY <1>2, <1>4, <2>1, MovingFresh
<1>5. CASE /\ cache' = [cache EXCEPT ![w.doc] = 1]
           /\ proc' = [proc EXCEPT ![p] = new(1)]
           /\ UNCHANGED <<known, stored, asked, parked, retired, cut, todo, events>>
  <2>1. new(1) \in Process /\ StageOK(new(1)) /\ Fresh(new(1))
    BY <1>2, <1>3
  <2> HIDE DEF new
  <2>2. TypeOK'
    BY <1>3, <1>5, <2>1 DEF IndInv, TypeOK
  <2>3. proc \in [Processes -> Process]
    BY DEF IndInv, TypeOK
  <2>4. Rest'
    BY <1>5, <2>1, <2>3, IndInvParts, MovedFresh
  <2> QED
    BY <1>5, <2>2, <2>4, BuildsStay DEF IndInv, Rest
<1>6. CASE GivingUp(p) /\ UNCHANGED <<cut, events>>
  BY <1>1, <1>6, GivingUpKeeps DEF IndInv, TypeOK
<1> QED
  BY <1>4, <1>5, <1>6 DEF Load

LEMMA LookupKeeps ==
    ASSUME IndInv, NEW p \in Processes, Lookup(p) \/ Upsert(p)
    PROVE  IndInv'
<1> DEFINE w == proc[p]
           new == [w EXCEPT !.pc = "delete"]
<1>1. w \in Process /\ StageOK(w) /\ w.pc \in {"lookup", "upsert"}
  BY Processwise DEF IndInv, TypeOK, Lookup, Upsert
<1>2. new \in Process /\ StageOK(new) /\ Fresh(new)
  BY <1>1 DEF Process, StageOK, Fresh
<1>3. CASE Moving(p, new)
  <2> HIDE DEF new
  <2> QED
    BY <1>2, <1>3, MovingFresh
<1>4. CASE GivingUp(p) /\ UNCHANGED <<cut, events>>
  BY <1>1, <1>4, GivingUpKeeps DEF IndInv, TypeOK
<1> QED
  BY <1>3, <1>4 DEF Lookup, Upsert

LEMMA FailureKeeps ==
    ASSUME IndInv, NEW p \in Processes,
           Breaks(p) \/ Dies(p) \/ (p \in Workers /\ Disconnects(p))
    PROVE  IndInv'
<1>1. events' \in Nat
  BY DEF Breaks, Dies, Disconnects, Event, IndInv, TypeOK
<1>2. cut' \subseteq Workers
  BY DEF Breaks, Dies, Disconnects, IndInv, TypeOK
<1>3. CASE proc[p].pc # "idle" /\ GivingUp(p)
  BY <1>1, <1>2, <1>3, GivingUpKeeps
<1>4. CASE Dies(p)
  <2>1. /\ proc' = [proc EXCEPT ![p] = Idle]
        /\ asked' \subseteq asked \cup {Held(p)}
        /\ UNCHANGED <<cache, known, stored, parked, retired, todo>>
    BY <1>4 DEF Dies
  <2>2. Held(p) \in Request
    BY <1>4, HeldOK DEF Dies
  <2>3. TypeOK'
    BY <1>1, <1>2, <2>1, <2>2, IdleFacts DEF IndInv, TypeOK
  <2>4. proc \in [Processes -> Process]
    BY DEF IndInv, TypeOK
  <2>5. Rest'
    BY <2>1, <2>4, IdleFacts, IndInvParts, MovedFresh
  <2> QED
    BY <2>1, <2>3, <2>5, BuildsStay DEF IndInv, Rest
<1>5. CASE UNCHANGED <<cache, known, stored, asked, parked, proc, retired, todo>>
  <2>1. TypeOK'
    BY <1>1, <1>2, <1>5 DEF IndInv, TypeOK
  <2>2. Rest'
    BY <1>5, IndInvParts, RestUnchanged
  <2> QED
    BY <1>5, <2>1, <2>2, BuildsStay DEF IndInv, Rest
<1> QED
  BY <1>3, <1>4, <1>5 DEF Breaks, Disconnects, InTransaction

-----------------------------------------------------------------------------
(* Transactions. *)

(* What is known of a process that has begun. *)
LEMMA Working ==
    ASSUME IndInv, NEW p \in Processes, proc[p].pc # "idle"
    PROVE  /\ proc[p] \in Process /\ StageOK(proc[p])
           /\ HandOK(proc[p], stored[proc[p].doc])
           /\ proc[p].doc \in Docs /\ proc[p].profile \in Profiles
           /\ stored[proc[p].doc] \subseteq Row
           /\ \A q \in Others(p) : ApartOK(proc[p], proc[q]) /\ ApartOK(proc[q], proc[p])
<1>1. proc[p] \in Process /\ StageOK(proc[p]) /\ HandOK(proc[p], stored[proc[p].doc])
  BY Processwise DEF IndInv, TypeOK
<1>2. proc[p].doc \in Docs /\ proc[p].profile \in Profiles
  BY <1>1 DEF StageOK
<1>3. stored[proc[p].doc] \subseteq Row
  BY <1>2 DEF IndInv, TypeOK
<1>4. \A q \in Others(p) : ApartOK(proc[p], proc[q]) /\ ApartOK(proc[q], proc[p])
  BY Processwise DEF IndInv, Others
<1> QED
  BY <1>1, <1>2, <1>3, <1>4

LEMMA OfFacts ==
    /\ \A A, B, b : /\ Of(A \cup B, b) = Of(A, b) \cup Of(B, b)
                    /\ Of(A \ B, b) = Of(A, b) \ Of(B, b)
    /\ \A A, b : Of(Of(A, b), b) = Of(A, b) /\ Of(A, b) \subseteq A
    /\ \A A, b, c : b # c => Of(Of(A, b), c) = {}
BY DEF Of

(* The branch a transaction is at is one it has to write. *)
LEMMA BranchFacts ==
    ASSUME NEW w, w.left \subseteq Branches, w.left # {}
    PROVE  BranchOf(w) \in w.left /\ BranchOf(w) \in Branches
BY DEF BranchOf, Branches

LEMMA TakenInHand ==
    ASSUME IndInv, NEW p \in Processes, proc[p].pc \in {"delete", "wait"},
           NEW rows, rows = {} \/ rows = Old(p), ~Blocked(p, rows),
           NEW w, w = [proc[p] EXCEPT !.pc = "insert", !.gone = proc[p].gone \cup rows,
                                      !.sees = {}]
    PROVE  /\ w \in Process /\ StageOK(w) /\ HandOK(w, stored[w.doc])
           /\ \A q \in Processes \ {p} : proc[q].doc = w.doc =>
                ApartOK(w, proc[q]) /\ ApartOK(proc[q], w)
<1> DEFINE v == proc[p]  S == stored[v.doc]
<1>1. /\ v \in Process /\ StageOK(v) /\ HandOK(v, S) /\ S \subseteq Row
      /\ \A q \in Others(p) : ApartOK(v, proc[q]) /\ ApartOK(proc[q], v)
      /\ v.pc \in {"delete", "wait"}
  BY Working
<1>2. /\ w.pc = "insert" /\ w.gone = v.gone \cup rows /\ w.sees = {}
      /\ w.doc = v.doc /\ w.profile = v.profile /\ w.all = v.all /\ w.left = v.left
      /\ w.parse = v.parse /\ w.new = v.new
  BY <1>1 DEF Process
<1>3. Old(p) = Of(S, BranchOf(v)) /\ rows \subseteq S /\ rows \subseteq Row
  BY <1>1, OfFacts DEF Old, Branch, BranchOf
<1>4. w \in Process
  BY <1>1, <1>3 DEF Process
<1>5. StageOK(w)
  <2> HIDE DEF v
  <2> QED
    BY <1>1, <1>2 DEF StageOK
<1>6. v.left \subseteq Branches /\ v.left # {} /\ v.left \subseteq v.all
  BY <1>1 DEF Process, StageOK
<1>7. BranchOf(v) \in v.left /\ BranchOf(v) \in Branches
  BY <1>6, BranchFacts
<1> HIDE DEF v, S
<1>8. ASSUME NEW b \in Branches PROVE BranchOK(w, S, b)
  <2>1. BranchOK(v, S, b)
    BY <1>1 DEF HandOK
  <2>2. Of(w.gone, b) = Of(v.gone, b) \cup Of(rows, b)
    BY <1>2, OfFacts
  <2>3. CASE b = BranchOf(v)
    <3>1. Of(rows, b) = {} \/ Of(rows, b) = Of(S, b)
      BY <1>3, <2>3 DEF Of
    <3> QED
      BY <1>2, <1>6, <1>7, <2>1, <2>2, <2>3, <3>1 DEF BranchOK
  <2>4. CASE b # BranchOf(v)
    <3>1. Of(rows, b) = {}
      BY <1>3, <2>4 DEF Of
    <3> QED
      BY <1>2, <2>1, <2>2, <3>1 DEF BranchOK
  <2> QED
    BY <2>3, <2>4
<1>9. HandOK(w, S)
  BY <1>2, <1>8 DEF HandOK
<1>10. ASSUME NEW q \in Processes \ {p}, proc[q].doc = w.doc
       PROVE  ApartOK(w, proc[q]) /\ ApartOK(proc[q], w)
  <2>1. q \in Others(p)
    BY <1>2, <1>10 DEF Others, v
  <2>2. proc[q].gone \cap rows = {}
    BY <2>1 DEF Blocked
  <2> QED
    BY <1>1, <1>2, <2>1, <2>2 DEF ApartOK
<1> QED
  BY <1>2, <1>4, <1>5, <1>9, <1>10 DEF S

LEMMA DeleteKeeps ==
    ASSUME IndInv, NEW p \in Processes, Delete(p) \/ Deleted(p)
    PROVE  IndInv'
<1> DEFINE v == proc[p]  S == stored[v.doc]
<1>1. /\ v \in Process /\ StageOK(v) /\ HandOK(v, S) /\ S \subseteq Row
      /\ \A q \in Others(p) : ApartOK(v, proc[q]) /\ ApartOK(proc[q], v)
      /\ v.pc \in {"delete", "wait"}
  BY Working DEF Delete, Deleted
<1>2. Old(p) = Of(S, BranchOf(v)) /\ Old(p) \subseteq S
  BY OfFacts DEF Old, Branch, BranchOf
<1>3. CASE v.pc = "delete" /\ ~Blocked(p, Old(p))
           /\ Moving(p, [v EXCEPT !.pc = "insert", !.gone = @ \cup Old(p)])
  <2> DEFINE w == [v EXCEPT !.pc = "insert", !.gone = v.gone \cup Old(p), !.sees = {}]
  <2>1. v.sees = {}
    BY <1>1, <1>3 DEF StageOK
  <2>2. [v EXCEPT !.pc = "insert", !.gone = @ \cup Old(p)] = w
    BY <1>1, <2>1 DEF Process
  <2>3. Moving(p, w)
    BY <1>3, <2>2
  <2>4. /\ w \in Process /\ StageOK(w) /\ HandOK(w, stored[w.doc])
        /\ \A q \in Processes \ {p} : proc[q].doc = w.doc =>
                ApartOK(w, proc[q]) /\ ApartOK(proc[q], w)
    BY <1>1, <1>3, TakenInHand
  <2> HIDE DEF w
  <2> QED
    BY <2>3, <2>4, MovingKeeps
<1>4. CASE v.pc = "wait" /\ ~Blocked(p, v.sees)
           /\ Moving(p, [v EXCEPT !.pc = "insert", !.gone = @ \cup v.sees, !.sees = {}])
  <2> DEFINE w == [v EXCEPT !.pc = "insert", !.gone = v.gone \cup v.sees, !.sees = {}]
  <2>1. v.sees = {} \/ v.sees = Old(p)
    BY <1>1, <1>2 DEF HandOK
  <2>2. Moving(p, w)
    BY <1>4
  <2>3. /\ w \in Process /\ StageOK(w) /\ HandOK(w, stored[w.doc])
        /\ \A q \in Processes \ {p} : proc[q].doc = w.doc =>
                ApartOK(w, proc[q]) /\ ApartOK(proc[q], w)
    BY <1>1, <1>4, <2>1, TakenInHand
  <2> HIDE DEF w
  <2> QED
    BY <2>2, <2>3, MovingKeeps
<1>5. CASE v.pc = "delete" /\ Moving(p, [v EXCEPT !.pc = "wait", !.sees = Old(p)])
  <2> DEFINE w == [v EXCEPT !.pc = "wait", !.sees = Old(p)]
  <2>1. w \in Process
    BY <1>1, <1>2 DEF Process
  <2>2. /\ w.pc = "wait" /\ w.sees = Old(p) /\ w.gone = v.gone
        /\ w.doc = v.doc /\ w.profile = v.profile /\ w.all = v.all /\ w.left = v.left
        /\ w.parse = v.parse /\ w.new = v.new
    BY <1>1 DEF Process
  <2>3. Moving(p, w)
    BY <1>5
  <2>4. v.pc = "delete"
    BY <1>5
  <2>5. \A q \in Processes \ {p} : proc[q].doc = v.doc => q \in Others(p)
    BY DEF Others
  <2> HIDE DEF w, v, S
  <2>6. StageOK(w)
    BY <1>1, <2>2, <2>4 DEF StageOK
  <2>7. HandOK(w, S)
    BY <1>1, <1>2, <2>2 DEF HandOK, BranchOK, BranchOf
  <2>8. \A q \in Processes \ {p} : proc[q].doc = w.doc =>
                ApartOK(w, proc[q]) /\ ApartOK(proc[q], w)
    BY <1>1, <2>2, <2>5 DEF ApartOK
  <2>9. HandOK(w, stored[w.doc])
    BY <2>2, <2>7 DEF S
  <2> QED
    BY <2>1, <2>3, <2>6, <2>8, <2>9, MovingKeeps
<1> QED
  BY <1>3, <1>4, <1>5 DEF Delete, Deleted

(* The unique keys let a transaction write a branch only when it has taken  *)
(* away all that the branch held, and no other transaction is about to.     *)
LEMMA InsertKeeps ==
    ASSUME IndInv, NEW p \in Processes, Insert(p)
    PROVE  IndInv'
<1> DEFINE v == proc[p]  S == stored[v.doc]  b == BranchOf(v)
           rows == Build(b, v.profile, v.parse)
           w == [v EXCEPT !.pc = IF v.left \ {b} = {} THEN "commit" ELSE "delete",
                          !.left = v.left \ {b}, !.new = v.new \cup rows]
<1>1. /\ v \in Process /\ StageOK(v) /\ HandOK(v, S) /\ S \subseteq Row
      /\ \A q \in Others(p) : ApartOK(v, proc[q]) /\ ApartOK(proc[q], v)
      /\ v.pc = "insert" /\ v.doc \in Docs /\ v.profile \in Profiles
  BY Working DEF Insert
<1>2. CASE Clash(rows, S \ v.gone) /\ GivingUp(p) /\ UNCHANGED <<cut, events>>
  BY <1>1, <1>2, GivingUpKeeps DEF IndInv, TypeOK
<1>3. CASE ~Clash(rows, S \ v.gone) /\ Moving(p, w)
  <2>1. /\ v.left \subseteq Branches /\ v.left # {} /\ v.left \subseteq v.all
        /\ v.parse \in 1 .. MaxParses
    BY <1>1 DEF Process, StageOK
  <2>2. b \in v.left /\ b \in Branches /\ v.parse \in Nat
    <3>1. b \in v.left /\ b \in Branches
      <4> HIDE DEF v
      <4> QED
        BY <2>1, BranchFacts
    <3>2. v.parse \in Nat
      <4> HIDE DEF v
      <4> QED
        BY <2>1, StorageAssumption DEF StorageAssumption
    <3> QED
      BY <3>1, <3>2
  <2>3. /\ rows \subseteq Row /\ Of(rows, b) = rows
        /\ \A c \in Branches \ {b} : Of(rows, c) = {}
    BY <1>1, <2>2, BuildFacts
  <2>4. w \in Process
    BY <1>1, <2>3 DEF Process
  <2>5. /\ w.pc = (IF v.left \ {b} = {} THEN "commit" ELSE "delete")
        /\ w.left = v.left \ {b} /\ w.new = v.new \cup rows
        /\ w.sees = v.sees /\ w.gone = v.gone
        /\ w.doc = v.doc /\ w.profile = v.profile /\ w.all = v.all /\ w.parse = v.parse
    BY <1>1 DEF Process
  <2>6. Moving(p, w)
    BY <1>3
  <2>7. ~Clash(rows, S \ v.gone)
    BY <1>3
  <2>8. \A q \in Others(p) : ~Clash(rows, proc[q].new \cup proc[q].gone)
    BY DEF Insert, Branch, BranchOf
  <2>9. \A q \in Processes \ {p} : proc[q].doc = v.doc => q \in Others(p)
    BY DEF Others
  <2>10. ASSUME NEW q \in Others(p), rows # {} PROVE Of(proc[q].new, b) = {}
    <3>1. ASSUME Of(proc[q].new, b) # {} PROVE FALSE
      <4>1. q \in Processes /\ proc[q].pc # "idle"
        <5>1. q \in Processes /\ proc[q].doc \in Docs
          BY <1>1 DEF Others
        <5>2. StageOK(proc[q])
          BY <5>1, Processwise DEF IndInv
        <5>3. proc[q].pc = "idle" => proc[q].new = {}
          BY <5>2 DEF StageOK, Idle
        <5> QED
          BY <3>1, <5>1, <5>3 DEF Of
      <4>2. /\ HandOK(proc[q], stored[proc[q].doc]) /\ StageOK(proc[q])
            /\ proc[q].profile \in Profiles /\ proc[q] \in Process
        BY <4>1, Working
      <4>3. /\ Of(proc[q].new, b) = Build(b, proc[q].profile, proc[q].parse)
            /\ proc[q].parse \in Nat
        BY <2>2, <3>1, <4>2 DEF HandOK, BranchOK, Process
      <4>4. Of(proc[q].new, b) \subseteq proc[q].new \cup proc[q].gone
        BY OfFacts
      <4>5. Clash(rows, proc[q].new \cup proc[q].gone)
        BY <1>1, <2>2, <2>10, <3>1, <4>2, <4>3, <4>4, BuildsClash
      <4> QED
        BY <2>8, <4>5
    <3> QED
      BY <3>1
  <2>11. Of(S, b) = Of(v.gone, b)
    <3>1. BranchOK(v, S, b)
      BY <1>1, <2>2 DEF HandOK
    <3>2. ASSUME Of(v.gone, b) = {}, Of(S, b) # {} PROVE FALSE
      <4>1. PICK o \in Profiles, n \in 1 .. MaxParses : Of(S, b) = Build(b, o, n)
        BY <1>1, <2>2, <3>2 DEF IndInv, OneBuild
      <4>2. n \in Nat
        BY StorageAssumption DEF StorageAssumption
      <4>3. rows # {}
        BY <1>1, <2>2, <3>2, <4>1, <4>2, SameEmptiness
      <4>4. Build(b, o, n) \subseteq S \ v.gone
        BY <3>2, <4>1 DEF Of
      <4> QED
        BY <1>1, <2>2, <2>7, <3>2, <4>1, <4>2, <4>3, <4>4, BuildsClash
    <3> QED
      BY <3>1, <3>2 DEF BranchOK
  <2> HIDE DEF w, v, S, rows, b
  <2>12. StageOK(w)
    BY <1>1, <2>1, <2>2, <2>5 DEF StageOK
  <2>13. ASSUME NEW c \in Branches PROVE BranchOK(w, S, c)
    <3>1. BranchOK(v, S, c)
      BY <1>1 DEF HandOK
    <3>2. Of(w.new, c) = Of(v.new, c) \cup Of(rows, c)
      BY <2>5, OfFacts
    <3>3. CASE c = b
      <4>1. b \in w.all \ w.left /\ b \notin v.all \ v.left
        BY <2>1, <2>2, <2>5
      <4>2. Of(w.new, b) = rows
        BY <2>3, <3>1, <3>2, <3>3, <4>1 DEF BranchOK
      <4>3. rows = Build(b, w.profile, w.parse)
        BY <2>5 DEF rows
      <4> QED
        BY <2>5, <2>11, <3>1, <3>3, <4>1, <4>2, <4>3 DEF BranchOK
    <3>4. CASE c # b
      <4>1. Of(w.new, c) = Of(v.new, c)
        BY <2>3, <3>2, <3>4
      <4>2. c \in w.left <=> c \in v.left
        BY <2>5, <3>4
      <4> QED
        BY <2>5, <3>1, <4>1, <4>2 DEF BranchOK
    <3> QED
      BY <3>3, <3>4
  <2>14. HandOK(w, stored[w.doc])
    <3>1. w.sees = {}
      BY <1>1, <2>5 DEF StageOK
    <3>2. S = stored[w.doc]
      BY <2>5 DEF S
    <3> QED
      BY <2>13, <3>1, <3>2 DEF HandOK
  <2>15. ASSUME NEW q \in Processes \ {p}, proc[q].doc = w.doc
         PROVE  ApartOK(w, proc[q]) /\ ApartOK(proc[q], w)
    <3>1. q \in Others(p)
      BY <2>5, <2>9, <2>15
    <3>2. ApartOK(v, proc[q]) /\ ApartOK(proc[q], v)
      BY <1>1, <3>1
    <3>3. ASSUME NEW c \in Branches PROVE Of(w.new, c) = {} \/ Of(proc[q].new, c) = {}
      <4>1. Of(w.new, c) = Of(v.new, c) \cup Of(rows, c)
        BY <2>5, OfFacts
      <4>2. Of(rows, c) = {} \/ Of(proc[q].new, c) = {}
        BY <2>3, <2>10, <3>1
      <4> QED
        BY <3>2, <4>1, <4>2 DEF ApartOK
    <3> QED
      BY <2>5, <3>2, <3>3 DEF ApartOK
  <2> QED
    BY <2>4, <2>6, <2>12, <2>14, <2>15, MovingKeeps
<1> QED
  BY <1>2, <1>3 DEF Insert, Branch, BranchOf

(* What a commit makes of a branch: the build of a branch the process was   *)
(* to write, and what was there of any other.                               *)
LEMMA CommitWrites ==
    ASSUME IndInv, NEW p \in Processes, Commit(p), NEW b \in Branches
    PROVE  LET v == proc[p]
           IN  /\ Of(stored'[v.doc], b) = IF b \in v.all THEN Build(b, v.profile, v.parse)
                                         ELSE Of(stored[v.doc], b)
               /\ b \in v.all => Of(stored[v.doc], b) = Of(v.gone, b)
               /\ b \notin v.all => Of(v.gone, b) = {}
<1> DEFINE v == proc[p]  S == stored[v.doc]
<1>1. /\ StageOK(v) /\ HandOK(v, S) /\ v.doc \in Docs /\ v.pc = "commit"
  BY Working DEF Commit
<1>2. stored'[v.doc] = (S \ v.gone) \cup v.new
  BY <1>1 DEF Commit, IndInv, TypeOK
<1>3. v.left = {}
  BY <1>1 DEF StageOK
<1>4. BranchOK(v, S, b)
  BY <1>1 DEF HandOK
<1> HIDE DEF v, S
<1>5. Of(stored'[v.doc], b) = (Of(S, b) \ Of(v.gone, b)) \cup Of(v.new, b)
  <2>1. Of((S \ v.gone) \cup v.new, b) = Of(S \ v.gone, b) \cup Of(v.new, b)
    BY OfFacts
  <2>2. Of(S \ v.gone, b) = Of(S, b) \ Of(v.gone, b)
    BY OfFacts
  <2> QED
    BY <1>2, <2>1, <2>2
<1> QED
  BY <1>3, <1>4, <1>5 DEF BranchOK, v, S

LEMMA CommitKeeps ==
    ASSUME IndInv, NEW p \in Processes, Commit(p)
    PROVE  IndInv'
<1> DEFINE v == proc[p]  S == stored[v.doc]  T == stored'[v.doc]
<1>1. /\ v \in Process /\ StageOK(v) /\ HandOK(v, S) /\ S \subseteq Row
      /\ \A q \in Others(p) : ApartOK(v, proc[q]) /\ ApartOK(proc[q], v)
      /\ v.pc = "commit" /\ v.doc \in Docs /\ v.profile \in Profiles
      /\ v.parse \in 1 .. MaxParses /\ v.parse \in Nat
  <2>1. v.pc = "commit"
    BY DEF Commit
  <2>2. v \in Process /\ StageOK(v)
    BY <2>1, Working
  <2>3. v.parse \in 1 .. MaxParses /\ v.parse \in Nat
    BY <2>1, <2>2, StorageAssumption DEF StageOK, StorageAssumption
  <2> QED
    BY <2>1, <2>3, Working
<1>2. /\ stored' = [stored EXCEPT ![v.doc] = (S \ v.gone) \cup v.new]
      /\ known' = known \cup {v.doc}
      /\ proc' = [q \in Processes |->
              IF q \in Others(p) THEN [proc[q] EXCEPT !.sees = proc[q].sees \ v.gone]
              ELSE IF q = p THEN Idle ELSE proc[q]]
      /\ UNCHANGED <<cache, parked, retired, cut, todo>>
  BY DEF Commit
<1>3. asked' \subseteq asked \cup {Held(p)} /\ events' \in Nat
  BY DEF Commit, Event, IndInv, TypeOK
<1>4. /\ stored' \in [Docs -> SUBSET Row] /\ T = (S \ v.gone) \cup v.new
      /\ \A d \in Docs \ {v.doc} : stored'[d] = stored[d]
  <2>1. v.new \subseteq Row
    BY <1>1 DEF Process
  <2> QED
    BY <1>1, <1>2, <2>1 DEF IndInv, TypeOK
<1>5. \A b \in Branches :
         /\ Of(T, b) = IF b \in v.all THEN Build(b, v.profile, v.parse) ELSE Of(S, b)
         /\ b \in v.all => Of(S, b) = Of(v.gone, b)
         /\ b \notin v.all => Of(v.gone, b) = {}
  BY CommitWrites
<1>6. OneBuild'
  <2>1. ASSUME NEW d \in Docs, NEW b \in Branches
        PROVE  \/ Of(stored'[d], b) = {}
               \/ \E o \in Profiles, n \in 1 .. MaxParses : Of(stored'[d], b) = Build(b, o, n)
    <3>1. CASE d = v.doc /\ b \in v.all
      BY <1>1, <1>5, <3>1
    <3>2. CASE d = v.doc /\ b \notin v.all
      BY <1>1, <1>5, <3>2 DEF IndInv, OneBuild
    <3>3. CASE d # v.doc
      BY <1>4, <3>3 DEF IndInv, OneBuild
    <3> QED
      BY <3>1, <3>2, <3>3
  <2> QED
    BY <2>1 DEF OneBuild, Of, Build
<1>7. ASSUME NEW q \in Others(p)
      PROVE  /\ proc[q] \in Process /\ StageOK(proc[q]) /\ proc[q].pc # "idle"
             /\ HandOK(proc[q], S) /\ proc[q].doc = v.doc /\ proc[q].profile \in Profiles
             /\ q \in Processes /\ q # p
  <2>1. q \in Processes /\ q # p /\ proc[q].doc = v.doc
    BY DEF Others
  <2>2. StageOK(proc[q])
    BY <2>1, Processwise DEF IndInv
  <2>3. proc[q].pc # "idle"
    <3>1. None \notin Docs
      BY StorageAssumption DEF StorageAssumption
    <3> QED
      BY <1>1, <2>1, <2>2, <3>1 DEF StageOK, Idle
  <2> QED
    BY <2>1, <2>3, Working
<1>8. ASSUME NEW q \in Others(p), NEW w, w = [proc[q] EXCEPT !.sees = proc[q].sees \ v.gone]
      PROVE  /\ w \in Process /\ StageOK(w) /\ HandOK(w, T)
             /\ w.gone = proc[q].gone /\ w.new = proc[q].new /\ w.doc = v.doc
             /\ w.pc # "idle"
  <2> DEFINE u == proc[q]
  <2>1. /\ u \in Process /\ StageOK(u) /\ u.pc # "idle" /\ HandOK(u, S)
        /\ u.doc = v.doc /\ u.profile \in Profiles
    BY <1>7
  <2>2. /\ w.sees = u.sees \ v.gone /\ w.pc = u.pc /\ w.gone = u.gone /\ w.new = u.new
        /\ w.doc = u.doc /\ w.profile = u.profile /\ w.all = u.all /\ w.left = u.left
        /\ w.parse = u.parse
    BY <1>8, <2>1 DEF Process
  <2>3. w \in Process
    BY <1>8, <2>1 DEF Process
  <2>4. ApartOK(v, u)
    BY <1>1
  <2>5. u.parse \in Nat
    BY <2>1 DEF Process
  <2> HIDE DEF u, v, S, T
  <2>6. StageOK(w)
    BY <2>1, <2>2 DEF StageOK
  <2>7. ASSUME NEW b \in Branches PROVE BranchOK(w, T, b)
    <3>1. BranchOK(u, S, b)
      BY <2>1 DEF HandOK
    <3>2. CASE b \notin v.all
      BY <1>5, <2>2, <3>1, <3>2 DEF BranchOK
    <3>3. CASE b \in v.all
      <4>1. Of(T, b) = Build(b, v.profile, v.parse) /\ Of(S, b) = Of(v.gone, b)
        BY <1>5, <3>3
      <4>2. Of(u.gone, b) = {}
        BY <2>4, <3>1, <4>1 DEF BranchOK, ApartOK, Of
      <4>3. ASSUME b \in u.all \ u.left PROVE Of(T, b) = {}
        <5>1. Of(u.new, b) = Build(b, u.profile, u.parse)
          BY <3>1, <4>3 DEF BranchOK
        <5>2. Of(v.new, b) = Build(b, v.profile, v.parse)
          BY <1>1, <3>3 DEF HandOK, BranchOK, StageOK
        <5>3. Build(b, u.profile, u.parse) = {} \/ Build(b, v.profile, v.parse) = {}
          BY <2>4, <5>1, <5>2 DEF ApartOK
        <5>4. Build(b, v.profile, v.parse) = {}
          BY <1>1, <2>1, <2>5, <5>3, SameEmptiness
        <5> QED
          BY <4>1, <5>4
      <4> QED
        BY <2>2, <3>1, <4>2, <4>3 DEF BranchOK
    <3> QED
      BY <3>2, <3>3
  <2>8. w.sees = {} \/ w.sees = Of(T, BranchOf(w))
    <3> DEFINE b == BranchOf(u)
    <3>1. b \in Branches /\ BranchOf(w) = b
      BY <2>2 DEF BranchOf, Branches
    <3>2. CASE u.sees = {}
      BY <2>2, <3>2
    <3>3. CASE u.sees = Of(S, b)
      <4>1. CASE b \in v.all
        BY <1>5, <2>2, <3>1, <3>3, <4>1 DEF Of
      <4>2. CASE b \notin v.all
        BY <1>5, <2>2, <3>1, <3>3, <4>2 DEF Of
      <4> QED
        BY <4>1, <4>2
    <3> QED
      BY <2>1, <3>2, <3>3 DEF HandOK
  <2>9. HandOK(w, T)
    BY <2>7, <2>8 DEF HandOK
  <2> QED
    BY <2>1, <2>2, <2>3, <2>6, <2>9 DEF u
<1>9. \A q \in Processes :
         \/ q \in Others(p) /\ proc'[q] = [proc[q] EXCEPT !.sees = proc[q].sees \ v.gone]
         \/ q = p /\ proc'[q] = Idle
         \/ q # p /\ q \notin Others(p) /\ proc'[q] = proc[q] /\ proc[q].doc # v.doc
  BY <1>2 DEF Others
<1>10. ASSUME NEW q \in Processes
       PROVE  /\ proc'[q] \in Process /\ StageOK(proc'[q])
              /\ proc'[q].pc # "idle" => HandOK(proc'[q], stored'[proc'[q].doc])
  <2>1. CASE q \in Others(p) /\ proc'[q] = [proc[q] EXCEPT !.sees = proc[q].sees \ v.gone]
    BY <1>8, <2>1
  <2>2. CASE q = p /\ proc'[q] = Idle
    BY <2>2, IdleFacts
  <2>3. CASE q # p /\ proc'[q] = proc[q] /\ proc[q].doc # v.doc
    <3>1. proc[q] \in Process /\ StageOK(proc[q])
      BY Processwise DEF IndInv, TypeOK
    <3>2. ASSUME proc[q].pc # "idle" PROVE HandOK(proc[q], stored'[proc[q].doc])
      <4>1. HandOK(proc[q], stored[proc[q].doc]) /\ proc[q].doc \in Docs
        BY <3>2, Working
      <4> QED
        BY <1>4, <2>3, <4>1
    <3> QED
      BY <2>3, <3>1, <3>2
  <2> QED
    BY <1>9, <2>1, <2>2, <2>3
<1>11. ASSUME NEW o \in Processes, NEW q \in Processes, o # q, proc'[q].doc = proc'[o].doc
       PROVE  ApartOK(proc'[o], proc'[q])
  <2>1. CASE o = p \/ q = p
    BY <1>9, <2>1, IdleFacts, FreshOK DEF Others
  <2>2. CASE o # p /\ q # p
    <3>1. \A r \in {o, q} : /\ proc'[r].gone = proc[r].gone /\ proc'[r].new = proc[r].new
                            /\ proc'[r].doc = proc[r].doc
      <4>1. ASSUME NEW r \in {o, q}
            PROVE  /\ proc'[r].gone = proc[r].gone /\ proc'[r].new = proc[r].new
                   /\ proc'[r].doc = proc[r].doc
        <5>1. CASE r \in Others(p)
          BY <1>7, <1>8, <1>9, <2>2, <5>1
        <5>2. CASE r \notin Others(p)
          BY <1>9, <2>2, <5>2
        <5> QED
          BY <5>1, <5>2
      <4> QED
        BY <4>1
    <3>2. ApartOK(proc[o], proc[q])
      BY <1>11, <3>1, Processwise DEF IndInv
    <3> QED
      BY <3>1, <3>2 DEF ApartOK
  <2> QED
    BY <2>1, <2>2
<1>12. Rest'
  BY <1>10, <1>11, ProcesswiseNext DEF Rest
<1>13. TypeOK'
  <2>1. Held(p) \in Request
    BY <1>1, HeldOK
  <2>2. proc' \in [Processes -> Process]
    BY <1>2, <1>10
  <2> QED
    BY <1>1, <1>2, <1>3, <1>4, <2>1, <2>2 DEF IndInv, TypeOK
<1> QED
  BY <1>6, <1>12, <1>13 DEF IndInv, Rest

-----------------------------------------------------------------------------
(* Steps that touch no process. *)
LEMMA OtherKeeps ==
    ASSUME IndInv,
           \/ \E w \in Workers : Retire(w)
           \/ \E d \in Docs : Drop(d) \/ Parse(d) \/ EnqueueNext(d)
           \/ EnqueueStale
    PROVE  IndInv'
<1>1. UNCHANGED <<proc, stored, known, parked, cut>>
  BY DEF Retire, Drop, Parse, EnqueueNext, EnqueueStale
<1>2. events' \in Nat /\ retired' \subseteq Workers /\ todo' \subseteq Docs
  BY DEF Retire, Drop, Parse, EnqueueNext, EnqueueStale, Event, Cached, IndInv, TypeOK
<1>3. cache' \in [Docs -> 0 .. MaxParses]
  <2>1. ASSUME NEW d \in Docs, Drop(d) PROVE cache' \in [Docs -> 0 .. MaxParses]
    BY <2>1, StorageAssumption DEF Drop, IndInv, TypeOK, StorageAssumption
  <2>2. ASSUME NEW d \in Docs, Parse(d) PROVE cache' \in [Docs -> 0 .. MaxParses]
    BY <2>2, StorageAssumption DEF Parse, IndInv, TypeOK, StorageAssumption
  <2>3. CASE cache' = cache
    BY <2>3 DEF IndInv, TypeOK
  <2> QED
    BY <2>1, <2>2, <2>3 DEF Retire, EnqueueNext, EnqueueStale
<1>4. asked' \subseteq Request
  <2>1. \A d \in Docs : Announcement(d) \in Request /\ Rechunk(d) \in Request
    BY DEF Announcement, Rechunk, Request, Branches
  <2> QED
    BY <2>1 DEF Retire, Drop, Parse, EnqueueNext, EnqueueStale, IndInv, TypeOK
<1>5. TypeOK'
  BY <1>1, <1>2, <1>3, <1>4 DEF IndInv, TypeOK
<1>6. Rest'
  BY <1>1, IndInvParts, RestUnchanged
<1> QED
  BY <1>1, <1>5, <1>6, BuildsStay DEF IndInv, Rest

LEMMA IndInvKept ==
    ASSUME IndInv, [Next]_vars
    PROVE  IndInv'
<1>1. ASSUME NEW p \in Processes, Work(p) PROVE IndInv'
  BY <1>1, LoadKeeps, LookupKeeps, DeleteKeeps, InsertKeeps, CommitKeeps DEF Work
<1>2. ASSUME NEW p \in Processes, Breaks(p) \/ Dies(p) PROVE IndInv'
  BY <1>2, FailureKeeps
<1>3. ASSUME NEW w \in Workers, Disconnects(w) PROVE IndInv'
  BY <1>3, FailureKeeps DEF Processes
<1>4. ASSUME NEW w \in Workers, NEW d \in Docs, NEW n \in 0 .. MaxAttempts + MaxEvents,
             Take(w, d, n)
      PROVE  IndInv'
  <2>1. n \in Nat
    BY StorageAssumption DEF StorageAssumption
  <2> QED
    BY <1>4, <2>1, TakeKeeps
<1>5. CASE UNCHANGED vars
  <2>1. TypeOK'
    BY <1>5 DEF vars, IndInv, TypeOK
  <2>2. Rest'
    BY <1>5, IndInvParts, RestUnchanged DEF vars
  <2> QED
    BY <1>5, <2>1, <2>2, BuildsStay DEF vars, IndInv, Rest
<1> QED
  BY <1>1, <1>2, <1>3, <1>4, <1>5, CallKeeps, OtherKeeps DEF Next

LEMMA InitHolds ==
    ASSUME Init
    PROVE  IndInv
<1>1. /\ known \in SUBSET Docs /\ parked = {} /\ retired = {} /\ cut = {} /\ todo = {}
      /\ events = 0 /\ cache = [d \in Docs |-> 1] /\ proc = [p \in Processes |-> Idle]
      /\ asked = {Announcement(d) : d \in Docs}
  BY DEF Init
<1>2. PICK before \in [Docs -> Profiles] :
        stored = [d \in Docs |-> IF d \in known
                                 THEN UNION {Build(b, before[d], 1) : b \in Branches} ELSE {}]
  BY DEF Init
<1>3. 1 \in 1 .. MaxParses /\ 1 \in 0 .. MaxParses
  BY StorageAssumption DEF StorageAssumption
<1>4. ASSUME NEW d \in Docs, NEW b \in Branches
      PROVE  /\ stored[d] \subseteq Row
             /\ Of(stored[d], b) = {} \/ Of(stored[d], b) = Build(b, before[d], 1)
  <2>1. CASE d \notin known
    BY <1>2, <2>1 DEF Of
  <2>2. CASE d \in known
    <3>1. stored[d] = UNION {Build(c, before[d], 1) : c \in Branches}
      BY <1>2, <2>2
    <3>2. \A c \in Branches : /\ Build(c, before[d], 1) \subseteq Row
                              /\ \A r \in Build(c, before[d], 1) : r.branch = c
      BY BuildFacts
    <3>3. Of(stored[d], b) = Build(b, before[d], 1)
      BY <3>1, <3>2 DEF Of
    <3> QED
      BY <3>1, <3>2, <3>3
  <2> QED
    BY <2>1, <2>2
<1>5. OneBuild
  BY <1>3, <1>4 DEF OneBuild
<1>6. TypeOK
  <2>1. stored \in [Docs -> SUBSET Row]
    <3>1. \E b \in Branches : TRUE
      BY DEF Branches
    <3>2. \A d \in Docs : stored[d] \subseteq Row
      BY <1>4, <3>1
    <3>3. stored = [d \in Docs |-> stored[d]]
      BY <1>2
    <3> QED
      BY <3>2, <3>3
  <2>2. asked \subseteq Request
    BY <1>1 DEF Announcement, Request, Branches
  <2> QED
    BY <1>1, <1>3, <2>1, <2>2, IdleFacts DEF TypeOK
<1>7. Stages /\ WholeBranches /\ Apart
  <2>1. \A p \in Processes : proc[p] = Idle
    BY <1>1
  <2> QED
    BY <2>1, IdleFacts, FreshOK, Processwise
<1> QED
  BY <1>5, <1>6, <1>7 DEF IndInv

-----------------------------------------------------------------------------
(* Theorems. *)

(* A transaction has a branch of its document in hand as a whole or not at  *)
(* all, and no two of them delete the same rows or write the same branch.   *)
THEOREM InvariantHolds == Spec => []IndInv
<1>1. Init => IndInv
  BY InitHolds
<1>2. IndInv /\ [Next]_vars => IndInv'
  BY IndInvKept
<1> QED
  BY <1>1, <1>2, PTL DEF Spec

(* However many workers and callers rewrite a document at once, wait for    *)
(* one another, fail, die or lose their connection: a branch holds the rows *)
(* of one parse under one profile, all of them.  Only write_all takes a     *)
(* lock; for the rest it is the unique keys of schema.sql.                  *)
THEOREM BuildsStayWhole == Spec => []OneBuild
<1>1. IndInv => OneBuild
  BY DEF IndInv
<1> QED
  BY <1>1, InvariantHolds, PTL

(* Both branches land in one commit, and only in a commit: whatever a       *)
(* document's rows change to is what one process had built, in full.        *)
THEOREM CommitsAreWhole == Spec => OneCommit
<1> DEFINE Whole ==
      \A d \in Docs : stored'[d] # stored[d] =>
         \E p \in Processes :
            /\ proc[p].doc = d /\ proc[p].pc # "idle" /\ proc'[p].pc = "idle"
            /\ \A b \in Branches : Of(stored'[d], b) =
                 IF b \in proc[p].all THEN Build(b, proc[p].profile, proc[p].parse)
                 ELSE Of(stored[d], b)
<1>1. ASSUME IndInv, [Next]_vars PROVE [Whole]_vars
  <2>1. ASSUME NEW p \in Processes, Commit(p) PROVE Whole
    <3>1. ASSUME NEW d \in Docs, stored'[d] # stored[d] PROVE proc[p].doc = d
      BY <1>1, <2>1, <3>1 DEF Commit, IndInv, TypeOK
    <3>2. proc[p].pc # "idle" /\ proc'[p].pc = "idle"
      BY <2>1, IdleFacts DEF Commit, Others
    <3> QED
      BY <1>1, <2>1, <3>1, <3>2, CommitWrites
  <2>2. CASE stored' = stored
    BY <2>2
  <2>3. ASSUME NEW p \in Processes, Work(p) \/ Breaks(p) \/ Dies(p)
        PROVE  Commit(p) \/ stored' = stored
    BY <2>3 DEF Work, Load, Lookup, Upsert, Delete, Deleted, Insert, Moving, GivingUp,
                Breaks, Dies
  <2>4. ASSUME \/ \E w \in Workers : Retire(w) \/ Disconnects(w)
               \/ \E w \in Workers, d \in Docs, n \in 0 .. MaxAttempts + MaxEvents : Take(w, d, n)
               \/ \E c \in Callers : Call(c)
               \/ \E d \in Docs : Drop(d) \/ Parse(d) \/ EnqueueNext(d)
               \/ EnqueueStale
        PROVE  stored' = stored
    BY <2>4 DEF Retire, Disconnects, GivingUp, Take, Call, Drop, Parse, EnqueueNext,
                EnqueueStale
  <2>5. CASE UNCHANGED vars
    BY <2>5
  <2> QED
    BY <1>1, <2>1, <2>2, <2>3, <2>4, <2>5 DEF Next
<1> QED
  BY <1>1, InvariantHolds, PTL DEF Spec, OneCommit

-----------------------------------------------------------------------------
(* Iteration. *)

(* Induction along an interval, for a set. *)
LEMMA IntervalInduction ==
    ASSUME NEW n \in Nat, NEW S, 0 \in S, \A k \in 0 .. n - 1 : k \in S => k + 1 \in S
    PROVE  0 .. n \subseteq S
<1> SUFFICES ASSUME NEW m \in 0 .. n, m \notin S PROVE FALSE
  OBVIOUS
<1> DEFINE A == {k \in 0 .. m - 1 : k \in S}
<1> DEFINE f == [k \in A |-> k + 1]
<1>1. IsFiniteSet(A)
  <2>1. IsFiniteSet(0 .. m - 1)
    BY FS_Interval
  <2>2. A \subseteq 0 .. m - 1
    OBVIOUS
  <2> QED
    BY <2>1, <2>2, FS_Subset
<1>2. 0 \in A
  <2>1. m # 0
    OBVIOUS
  <2> QED
    BY <2>1
<1>3. f \in Injection(A, A \ {0})
  <2>1. ASSUME NEW k \in A PROVE k + 1 \in A \ {0}
    <3>1. k \in 0 .. n - 1 /\ k \in S /\ k \in 0 .. m - 1
      OBVIOUS
    <3>2. k + 1 \in S
      BY <3>1
    <3>3. k + 1 # m
      BY <3>2
    <3> QED
      BY <3>1, <3>2, <3>3
  <2>2. f \in [A -> A \ {0}]
    BY <2>1
  <2>3. \A a, b \in A : f[a] = f[b] => a = b
    OBVIOUS
  <2> QED
    BY <2>2, <2>3 DEF Injection, IsInjective
<1> HIDE DEF f, A
<1>4. IsFiniteSet(A \ {0}) /\ Cardinality(A \ {0}) = Cardinality(A) - 1 /\ Cardinality(A) \in Nat
  BY <1>1, <1>2, FS_RemoveElement, FS_CardinalityType
<1>5. Cardinality(A) <= Cardinality(A \ {0})
  <2>1. Injection(A, A \ {0}) # {}
    BY <1>3
  <2> QED
    BY <1>1, <1>4, <2>1, FS_Injection DEF ExistsInjection
<1> QED
  BY <1>4, <1>5

(* A step that is defined everywhere can be iterated. *)
Iterates(f, n, base, step) ==
    f = [k \in 0 .. n |-> IF k = 0 THEN base ELSE step[k][f[k - 1]]]

LEMMA Iteration ==
    ASSUME NEW T, NEW base \in T, NEW n \in Nat, NEW step \in [1 .. n -> [T -> T]]
    PROVE  \E f \in [0 .. n -> T] : Iterates(f, n, base, step)
<1> DEFINE Is(f, m) == f = [k \in 0 .. m |-> IF k = 0 THEN base ELSE step[k][f[k - 1]]]
<1> DEFINE S == {m \in 0 .. n : \E f \in [0 .. m -> T] : Is(f, m)}
<1>1. 0 \in S
  <2>1. [k \in 0 .. 0 |-> base] \in [0 .. 0 -> T]
    OBVIOUS
  <2>2. Is([k \in 0 .. 0 |-> base], 0)
    OBVIOUS
  <2> HIDE DEF Is
  <2>3. \E f \in [0 .. 0 -> T] : Is(f, 0)
    BY <2>1, <2>2
  <2> QED
    BY <2>3
<1>2. ASSUME NEW m \in 0 .. n - 1, m \in S PROVE m + 1 \in S
  <2>1. PICK f \in [0 .. m -> T] : Is(f, m)
    BY <1>2
  <2> DEFINE g == [k \in 0 .. m + 1 |-> IF k = m + 1 THEN step[m + 1][f[m]] ELSE f[k]]
  <2>2. step[m + 1][f[m]] \in T
    <3>1. f[m] \in T /\ m + 1 \in 1 .. n
      OBVIOUS
    <3> QED
      BY <3>1
  <2>3. g \in [0 .. m + 1 -> T]
    BY <2>2
  <2>4. ASSUME NEW k \in 0 .. m + 1
        PROVE  g[k] = IF k = 0 THEN base ELSE step[k][g[k - 1]]
    <3>1. CASE k = m + 1
      BY <3>1
    <3>2. CASE k \in 0 .. m
      <4>1. f[k] = IF k = 0 THEN base ELSE step[k][f[k - 1]]
        BY <2>1, <3>2
      <4>2. g[k] = f[k] /\ (k # 0 => g[k - 1] = f[k - 1])
        BY <3>2
      <4> QED
        BY <4>1, <4>2
    <3> QED
      BY <3>1, <3>2
  <2>5. Is(g, m + 1)
    BY <2>3, <2>4
  <2> HIDE DEF Is, g
  <2>6. \E h \in [0 .. m + 1 -> T] : Is(h, m + 1)
    BY <2>3, <2>5
  <2> QED
    BY <2>6
<1>3. n \in S
  <2> HIDE DEF S
  <2>1. \A k \in 0 .. n - 1 : k \in S => k + 1 \in S
    BY <1>2
  <2>2. 0 .. n \subseteq S
    BY <1>1, <2>1, IntervalInduction
  <2> QED
    BY <2>2
<1> QED
  BY <1>3 DEF Iterates

-----------------------------------------------------------------------------
(* The order of the passages. *)

RankOf(counts, i) == Cardinality({j \in DOMAIN counts : Before(counts, j, i)})

(* The passages before one are finitely many, fewer than all, and a passage *)
(* that comes before another has fewer of them.                             *)
LEMMA Ranks ==
    ASSUME NEW n \in Nat, NEW counts \in [1 .. n -> Nat], NEW i \in 1 .. n
    PROVE  /\ RankOf(counts, i) \in 0 .. n - 1
           /\ \A j \in 1 .. n : Before(counts, j, i) => RankOf(counts, j) < RankOf(counts, i)
<1> DEFINE B(k) == {j \in 1 .. n : Before(counts, j, k)}
<1>1. \A k \in 1 .. n : RankOf(counts, k) = Cardinality(B(k))
  BY DEF RankOf
<1>2. IsFiniteSet(1 .. n) /\ Cardinality(1 .. n) = n
  BY FS_Interval
<1>3. \A k \in 1 .. n : IsFiniteSet(B(k)) /\ Cardinality(B(k)) \in Nat
  BY <1>2, FS_Subset, FS_CardinalityType
<1>4. B(i) # 1 .. n /\ B(i) \subseteq 1 .. n
  <2>1. i \notin B(i)
    BY DEF Before
  <2> QED
    BY <2>1
<1>5. Cardinality(B(i)) < n
  <2> HIDE DEF B
  <2> QED
    BY <1>2, <1>3, <1>4, FS_Subset
<1>6. ASSUME NEW j \in 1 .. n, Before(counts, j, i)
      PROVE  Cardinality(B(j)) < Cardinality(B(i))
  <2>1. B(j) \subseteq B(i)
    BY <1>6 DEF Before
  <2>2. j \in B(i) /\ j \notin B(j)
    BY <1>6 DEF Before
  <2> HIDE DEF B
  <2>3. B(j) # B(i)
    BY <2>2
  <2> QED
    BY <1>3, <2>1, <2>3, FS_Subset
<1> HIDE DEF B
<1> QED
  BY <1>1, <1>3, <1>5, <1>6

(* Every place has one passage, every passage a place, and no passage is    *)
(* longer than one that comes before it.                                    *)
LEMMA Ordered ==
    ASSUME NEW n \in Nat, NEW counts \in [1 .. n -> Nat]
    PROVE  /\ Order(counts) \in [1 .. n -> 1 .. n]
           /\ \A i \in 1 .. n : \E k \in 1 .. n : Order(counts)[k] = i
           /\ \A k, l \in 1 .. n : Order(counts)[k] = Order(counts)[l] => k = l
           /\ \A k, l \in 1 .. n : k < l => counts[Order(counts)[k]] >= counts[Order(counts)[l]]
<1> DEFINE rank == [i \in 1 .. n |-> RankOf(counts, i) + 1]
<1>1. rank \in [1 .. n -> 1 .. n]
  <2>1. \A i \in 1 .. n : RankOf(counts, i) + 1 \in 1 .. n
    BY Ranks
  <2> QED
    BY <2>1
<1>2. ASSUME NEW i \in 1 .. n, NEW j \in 1 .. n
      PROVE  /\ rank[i] = rank[j] => i = j
             /\ rank[i] < rank[j] => counts[i] >= counts[j]
  <2>1. i = j \/ Before(counts, i, j) \/ Before(counts, j, i)
    BY DEF Before
  <2>2. /\ Before(counts, i, j) => RankOf(counts, i) < RankOf(counts, j)
        /\ Before(counts, j, i) => RankOf(counts, j) < RankOf(counts, i)
    BY Ranks
  <2>3. RankOf(counts, i) \in Int /\ RankOf(counts, j) \in Int
    BY Ranks
  <2>4. rank[i] = RankOf(counts, i) + 1 /\ rank[j] = RankOf(counts, j) + 1
    OBVIOUS
  <2>5. Before(counts, i, j) => counts[i] >= counts[j]
    BY DEF Before
  <2> HIDE DEF rank
  <2>6. rank[i] = rank[j] => i = j
    BY <2>1, <2>2, <2>3, <2>4
  <2>7. rank[i] < rank[j] => counts[i] >= counts[j]
    <3> SUFFICES ASSUME rank[i] < rank[j] PROVE counts[i] >= counts[j]
      OBVIOUS
    <3>1. ~Before(counts, j, i) /\ i # j
      BY <2>2, <2>3, <2>4
    <3> QED
      BY <3>1, <2>1, <2>5
  <2> QED
    BY <2>6, <2>7
<1>3. \A k \in 1 .. n : \E i \in 1 .. n : rank[i] = k
  <2>1. IsFiniteSet(1 .. n)
    BY FS_Interval
  <2>2. rank \in Injection(1 .. n, 1 .. n)
    BY <1>1, <1>2 DEF Injection, IsInjective
  <2>3. rank \in Surjection(1 .. n, 1 .. n)
    BY <2>1, <2>2, FS_Injection
  <2> HIDE DEF rank
  <2> QED
    BY <2>3 DEF Surjection
<1>4. ASSUME NEW k \in 1 .. n
      PROVE  Order(counts)[k] \in 1 .. n /\ rank[Order(counts)[k]] = k
  <2> DEFINE Is(i) == Cardinality({j \in DOMAIN counts : Before(counts, j, i)}) = k - 1
  <2>1. Order(counts)[k] = CHOOSE i \in 1 .. n : Is(i)
    BY DEF Order
  <2>2. PICK i \in 1 .. n : rank[i] = k
    BY <1>3
  <2>3. \A j \in 1 .. n : Is(j) <=> rank[j] = k
    <3>1. \A j \in 1 .. n : RankOf(counts, j) \in Int
      BY Ranks
    <3> QED
      BY <3>1 DEF RankOf
  <2> HIDE DEF Is, rank
  <2>4. \E j \in 1 .. n : Is(j)
    BY <2>2, <2>3
  <2> QED
    BY <2>1, <2>3, <2>4
<1> HIDE DEF rank
<1>5. Order(counts) \in [1 .. n -> 1 .. n]
  <2> DEFINE at(k) == CHOOSE i \in DOMAIN counts :
                         Cardinality({j \in DOMAIN counts : Before(counts, j, i)}) = k - 1
  <2>1. Order(counts) = [k \in DOMAIN counts |-> at(k)]
    BY DEF Order
  <2> HIDE DEF at
  <2> QED
    BY <2>1, <1>4
<1>6. \A i \in 1 .. n : \E k \in 1 .. n : Order(counts)[k] = i
  <2> SUFFICES ASSUME NEW i \in 1 .. n PROVE \E k \in 1 .. n : Order(counts)[k] = i
    OBVIOUS
  <2>1. rank[i] \in 1 .. n
    BY <1>1
  <2>2. rank[Order(counts)[rank[i]]] = rank[i] /\ Order(counts)[rank[i]] \in 1 .. n
    BY <2>1, <1>4
  <2>3. Order(counts)[rank[i]] = i
    BY <2>2, <1>2
  <2> QED
    BY <2>1, <2>3
<1>7. ASSUME NEW k \in 1 .. n, NEW l \in 1 .. n, k < l
      PROVE  counts[Order(counts)[k]] >= counts[Order(counts)[l]]
  BY <1>2, <1>4, <1>7
<1>8. \A k, l \in 1 .. n : Order(counts)[k] = Order(counts)[l] => k = l
  BY <1>4
<1> QED
  BY <1>5, <1>6, <1>7, <1>8

-----------------------------------------------------------------------------
(* The batches. *)

Making(n) == [done : Seq(Seq(1 .. n)), current : Seq(1 .. n)]

(* Sequences that grow. *)
LEMMA Appended ==
    ASSUME NEW S, NEW s \in Seq(S), NEW e \in S
    PROVE  /\ Append(s, e) \in Seq(S) /\ Append(s, e) # <<>> /\ <<e>> \in Seq(S)
           /\ Len(s) \in Nat /\ Len(Append(s, e)) = Len(s) + 1
           /\ DOMAIN s = 1 .. Len(s) /\ DOMAIN Append(s, e) = 1 .. Len(s) + 1
           /\ \A k \in 1 .. Len(s) : Append(s, e)[k] = s[k]
           /\ Append(s, e)[Len(s) + 1] = e
           /\ s # <<>> => Len(s) > 0 /\ Head(s) = s[1] /\ Head(Append(s, e)) = s[1]
<1>1. Append(s, e) \in Seq(S) /\ Len(Append(s, e)) = Len(s) + 1 /\ Len(s) \in Nat
  OBVIOUS
<1>2. Append(s, e) # <<>>
  BY <1>1
<1>3. s # <<>> => Len(s) > 0
  OBVIOUS
<1>4. \A k \in 1 .. Len(s) : Append(s, e)[k] = s[k]
  OBVIOUS
<1>5. s # <<>> => Head(s) = s[1] /\ Head(Append(s, e)) = Append(s, e)[1]
  BY <1>1, <1>2
<1> QED
  BY <1>1, <1>2, <1>3, <1>4, <1>5

(* A passage is added to the last batch, in which it fits, or is the first  *)
(* of a new one.                                                            *)
Placement(made, made2, i, n, counts) ==
    /\ made2 \in Making(n)
    /\ Closed(made) \in Seq(Seq(1 .. n)) /\ Closed(made2) \in Seq(Seq(1 .. n))
    /\ \/ /\ made.current # <<>> /\ Fits(made.current, counts)
          /\ made2.current = Append(made.current, i)
          /\ Len(Closed(made2)) = Len(Closed(made)) /\ Len(Closed(made)) > 0
          /\ \A b \in 1 .. Len(Closed(made)) - 1 : Closed(made2)[b] = Closed(made)[b]
          /\ Closed(made)[Len(Closed(made))] = made.current
          /\ Closed(made2)[Len(Closed(made))] = Append(made.current, i)
       \/ made2.current = <<i>> /\ Closed(made2) = Append(Closed(made), <<i>>)

LEMMA Placing ==
    ASSUME NEW n \in Nat, NEW counts \in [1 .. n -> Nat], NEW made \in Making(n),
           NEW i \in 1 .. n, NEW made2, made2 = Place(made, i, counts)
    PROVE  Placement(made, made2, i, n, counts)
<1>1. /\ made.done \in Seq(Seq(1 .. n)) /\ made.current \in Seq(1 .. n)
      /\ <<i>> \in Seq(1 .. n) /\ <<i>> # <<>>
  BY DEF Making
<1>2. Closed(made) \in Seq(Seq(1 .. n))
  BY <1>1, Appended DEF Closed
<1>3. CASE made.current # <<>> /\ Fits(made.current, counts)
  <2> DEFINE longer == Append(made.current, i)
  <2>1. longer \in Seq(1 .. n) /\ longer # <<>>
    <3> DEFINE indices == 1 .. n
    <3>1. i \in indices /\ made.current \in Seq(indices)
      BY <1>1
    <3> HIDE DEF indices
    <3>2. longer \in Seq(indices) /\ longer # <<>>
      BY <3>1, Appended
    <3> QED
      BY <3>2 DEF indices
  <2> HIDE DEF longer
  <2>2. made2 = [made EXCEPT !.current = longer]
    BY <1>3 DEF Place, longer
  <2>3. made2.done = made.done /\ made2.current = longer /\ made2 \in Making(n)
    BY <2>1, <2>2 DEF Making
  <2>4. /\ Closed(made) = Append(made.done, made.current)
        /\ Closed(made2) = Append(made.done, longer)
    BY <1>3, <2>1, <2>3 DEF Closed
  <2>5. Closed(made2) \in Seq(Seq(1 .. n))
    BY <1>1, <2>1, <2>4, Appended
  <2>6. /\ Len(Closed(made)) = Len(made.done) + 1 /\ Len(Closed(made2)) = Len(made.done) + 1
        /\ Len(made.done) \in Nat
        /\ \A b \in 1 .. Len(made.done) : Closed(made2)[b] = Closed(made)[b]
        /\ Closed(made)[Len(made.done) + 1] = made.current
        /\ Closed(made2)[Len(made.done) + 1] = longer
    BY <1>1, <2>1, <2>4, Appended
  <2>7. /\ Len(Closed(made2)) = Len(Closed(made)) /\ Len(Closed(made)) > 0
        /\ \A b \in 1 .. Len(Closed(made)) - 1 : Closed(made2)[b] = Closed(made)[b]
        /\ Closed(made)[Len(Closed(made))] = made.current
        /\ Closed(made2)[Len(Closed(made))] = longer
    BY <2>6
  <2> QED
    BY <1>2, <1>3, <2>3, <2>5, <2>7 DEF longer, Placement
<1>4. CASE ~(made.current # <<>> /\ Fits(made.current, counts))
  <2>1. made2 = [done |-> Closed(made), current |-> <<i>>]
    BY <1>4 DEF Place
  <2>2. made2 \in Making(n)
    BY <1>1, <1>2, <2>1 DEF Making
  <2>3. Closed(made2) = Append(Closed(made), <<i>>) /\ made2.current = <<i>>
    <3>1. made2.current = <<i>> /\ made2.done = Closed(made)
      BY <2>1
    <3>2. Closed(made2) = Append(made2.done, made2.current)
      BY <1>1, <3>1 DEF Closed
    <3> QED
      BY <3>1, <3>2
  <2>4. Closed(made2) \in Seq(Seq(1 .. n))
    BY <1>1, <1>2, <2>3, Appended
  <2> QED
    BY <1>2, <2>2, <2>3, <2>4 DEF Placement
<1> QED
  BY <1>3, <1>4

(* What the memory bears: one passage, or a batch within the budget.        *)
Bearable(batch, counts) ==
    Len(batch) = 1 \/ \A k \in DOMAIN batch : Len(batch) * counts[batch[k]] <= TokenBudget

(* Every passage is in one batch, once, and every batch can be borne.       *)
Partition(batches, counts, passages) ==
    /\ \A b \in DOMAIN batches : batches[b] # <<>> /\ Bearable(batches[b], counts)
    /\ \A i \in passages : \E b \in DOMAIN batches : \E k \in DOMAIN batches[b] :
          batches[b][k] = i
    /\ \A b \in DOMAIN batches : \A k \in DOMAIN batches[b] : batches[b][k] \in passages
    /\ \A b, c \in DOMAIN batches : \A k \in DOMAIN batches[b], l \in DOMAIN batches[c] :
          batches[b][k] = batches[c][l] => b = c /\ k = l

(* The first of the open batch is its longest. *)
HeadIsLongest(current, counts) ==
    \A k \in DOMAIN current : counts[current[k]] <= counts[Head(current)]

Upto(counts, k) == {Order(counts)[h] : h \in 1 .. k}

Made(made, k, n, counts) ==
    /\ made \in Making(n)
    /\ Partition(Closed(made), counts, Upto(counts, k))
    /\ made.current = <<>> => k = 0
    /\ made.current # <<>> =>
          HeadIsLongest(made.current, counts) /\ Head(made.current) \in Upto(counts, k)

LEMMA Padded ==
    ASSUME NEW a \in Nat, NEW b \in Nat, NEW c \in Nat, b <= c
    PROVE  a * b <= a * c
OBVIOUS

(* What has been placed grows by the next in the order, which is new. *)
LEMMA UptoGrows ==
    ASSUME NEW n \in Nat, NEW counts \in [1 .. n -> Nat], NEW k \in 0 .. n - 1
    PROVE  /\ Upto(counts, k + 1) = Upto(counts, k) \cup {Order(counts)[k + 1]}
           /\ Order(counts)[k + 1] \in 1 .. n /\ Order(counts)[k + 1] \notin Upto(counts, k)
           /\ \A i \in Upto(counts, k) : i \in 1 .. n /\ counts[Order(counts)[k + 1]] <= counts[i]
<1> DEFINE order == Order(counts)
<1>1. /\ order \in [1 .. n -> 1 .. n]
      /\ \A h, l \in 1 .. n : order[h] = order[l] => h = l
      /\ \A h, l \in 1 .. n : h < l => counts[order[h]] >= counts[order[l]]
  BY Ordered
<1> HIDE DEF order
<1>2. Upto(counts, k + 1) = Upto(counts, k) \cup {order[k + 1]}
  BY DEF Upto, order
<1>3. k + 1 \in 1 .. n /\ \A h \in 1 .. k : h \in 1 .. n /\ h < k + 1
  OBVIOUS
<1>4. order[k + 1] \in 1 .. n /\ order[k + 1] \notin Upto(counts, k)
  BY <1>1, <1>3 DEF Upto, order
<1>5. ASSUME NEW i \in Upto(counts, k)
      PROVE  i \in 1 .. n /\ counts[order[k + 1]] <= counts[i]
  <2>1. PICK h \in 1 .. k : i = order[h]
    BY DEF Upto, order
  <2>2. counts[order[h]] \in Nat /\ counts[order[k + 1]] \in Nat
    BY <1>1, <1>3
  <2> QED
    BY <1>1, <1>3, <2>1, <2>2
<1> QED
  BY <1>2, <1>4, <1>5 DEF order

(* A partition to which a batch of a new passage is added is one of them    *)
(* all.                                                                     *)
LEMMA BatchOpened ==
    ASSUME NEW I, NEW counts, NEW batches \in Seq(Seq(I)), NEW passages,
           NEW i \in I, i \notin passages, Partition(batches, counts, passages)
    PROVE  Partition(Append(batches, <<i>>), counts, passages \cup {i})
<1> DEFINE more == Append(batches, <<i>>)
<1>1. <<i>> \in Seq(I) /\ <<i>> # <<>> /\ Len(<<i>>) = 1 /\ DOMAIN <<i>> = 1 .. 1 /\ <<i>>[1] = i
  OBVIOUS
<1>2. /\ Len(batches) \in Nat /\ DOMAIN batches = 1 .. Len(batches)
      /\ DOMAIN more = 1 .. Len(batches) + 1
      /\ \A b \in DOMAIN batches : more[b] = batches[b]
      /\ more[Len(batches) + 1] = <<i>>
  BY <1>1, Appended
<1> HIDE DEF more
<1> DEFINE last == Len(batches) + 1
<1>3. \A b \in DOMAIN more : b \in DOMAIN batches \/ b = last
  BY <1>2
<1>4. last \in DOMAIN more /\ last \notin DOMAIN batches
  BY <1>2
<1>5. DOMAIN batches \subseteq DOMAIN more
  BY <1>2
<1> HIDE DEF last
<1>6. more[last] = <<i>>
  BY <1>2 DEF last
<1>7. ASSUME NEW b \in DOMAIN more PROVE more[b] # <<>> /\ Bearable(more[b], counts)
  <2>1. CASE b \in DOMAIN batches
    BY <1>2, <2>1 DEF Partition
  <2>2. CASE b = last
    BY <1>1, <1>6, <2>2 DEF Bearable
  <2> QED
    BY <1>3, <2>1, <2>2
<1>8. ASSUME NEW j \in passages \cup {i}
      PROVE  \E b \in DOMAIN more : \E k \in DOMAIN more[b] : more[b][k] = j
  <2>1. CASE j \in passages
    <3>1. PICK b \in DOMAIN batches : \E k \in DOMAIN batches[b] : batches[b][k] = j
      BY <2>1 DEF Partition
    <3> QED
      BY <3>1, <1>2, <1>5
  <2>2. CASE j = i
    BY <1>1, <1>4, <1>6, <2>2
  <2> QED
    BY <2>1, <2>2
<1>9. ASSUME NEW b \in DOMAIN more, NEW k \in DOMAIN more[b]
      PROVE  /\ b \in DOMAIN batches => more[b][k] \in passages
             /\ b = last => k = 1 /\ more[b][k] = i
  <2>1. b \in DOMAIN batches => more[b][k] \in passages
    BY <1>2 DEF Partition
  <2>2. b = last => k = 1 /\ more[b][k] = i
    BY <1>1, <1>6
  <2> QED
    BY <2>1, <2>2
<1>10. ASSUME NEW b \in DOMAIN more, NEW c \in DOMAIN more, NEW k \in DOMAIN more[b],
              NEW l \in DOMAIN more[c], more[b][k] = more[c][l]
       PROVE  b = c /\ k = l
  <2>1. CASE b \in DOMAIN batches /\ c \in DOMAIN batches
    BY <1>2, <1>10, <2>1 DEF Partition
  <2>2. CASE b = last /\ c = last
    BY <1>9, <2>2
  <2>3. CASE b = last /\ c \in DOMAIN batches
    BY <1>9, <1>10, <2>3
  <2>4. CASE b \in DOMAIN batches /\ c = last
    BY <1>9, <1>10, <2>4
  <2> QED
    BY <1>3, <2>1, <2>2, <2>3, <2>4
<1>11. \A b \in DOMAIN more : \A k \in DOMAIN more[b] : more[b][k] \in passages \cup {i}
  BY <1>3, <1>9
<1> QED
  BY <1>7, <1>8, <1>10, <1>11 DEF Partition, more

LEMMA PlacedOnce ==
    ASSUME NEW counts, NEW batches, NEW passages, Partition(batches, counts, passages),
           NEW b \in DOMAIN batches, NEW c \in DOMAIN batches,
           NEW k \in DOMAIN batches[b], NEW l \in DOMAIN batches[c],
           batches[b][k] = batches[c][l]
    PROVE  b = c /\ k = l
BY DEF Partition

(* So is one in which a batch takes a new passage at its end, if it can be  *)
(* borne.                                                                   *)
LEMMA BatchExtended ==
    ASSUME NEW counts, NEW batches, NEW passages, NEW i, i \notin passages,
           Partition(batches, counts, passages),
           NEW last \in DOMAIN batches, NEW end, end \notin DOMAIN batches[last],
           NEW more, DOMAIN more = DOMAIN batches,
           \A b \in DOMAIN batches \ {last} : more[b] = batches[b],
           DOMAIN more[last] = DOMAIN batches[last] \cup {end},
           \A k \in DOMAIN batches[last] : more[last][k] = batches[last][k],
           more[last][end] = i, more[last] # <<>>, Bearable(more[last], counts)
    PROVE  Partition(more, counts, passages \cup {i})
<1>1. ASSUME NEW b \in DOMAIN more PROVE more[b] # <<>> /\ Bearable(more[b], counts)
  <2>1. CASE b = last
    BY <2>1
  <2>2. CASE b # last
    BY <2>2 DEF Partition
  <2> QED
    BY <2>1, <2>2
<1>2. ASSUME NEW j \in passages \cup {i}
      PROVE  \E b \in DOMAIN more : \E k \in DOMAIN more[b] : more[b][k] = j
  <2>1. CASE j \in passages
    <3>1. PICK b \in DOMAIN batches : \E k \in DOMAIN batches[b] : batches[b][k] = j
      BY <2>1 DEF Partition
    <3>2. PICK k \in DOMAIN batches[b] : batches[b][k] = j
      BY <3>1
    <3>3. CASE b = last
      <4>1. k \in DOMAIN more[last] /\ more[last][k] = j
        BY <3>2, <3>3
      <4> QED
        BY <4>1
    <3>4. CASE b # last
      BY <3>2, <3>4
    <3> QED
      BY <3>3, <3>4
  <2>2. CASE j = i
    BY <2>2
  <2> QED
    BY <2>1, <2>2
<1>3. ASSUME NEW b \in DOMAIN more, NEW k \in DOMAIN more[b]
      PROVE  \/ /\ k \in DOMAIN batches[b] /\ more[b][k] = batches[b][k]
                /\ more[b][k] \in passages
             \/ b = last /\ k = end /\ more[b][k] = i
  <2>1. CASE b = last
    <3>1. CASE k \in DOMAIN batches[last]
      BY <2>1, <3>1 DEF Partition
    <3>2. CASE k = end
      BY <2>1, <3>2
    <3> QED
      BY <2>1, <3>1, <3>2
  <2>2. CASE b # last
    BY <2>2 DEF Partition
  <2> QED
    BY <2>1, <2>2
<1>4. ASSUME NEW b \in DOMAIN more, NEW c \in DOMAIN more, NEW k \in DOMAIN more[b],
              NEW l \in DOMAIN more[c], more[b][k] = more[c][l]
       PROVE  b = c /\ k = l
  <2>1. CASE more[b][k] = i
    <3>1. more[b][k] \notin passages /\ more[c][l] \notin passages
      BY <1>4, <2>1
    <3> QED
      BY <1>3, <3>1
  <2>2. CASE more[b][k] # i
    <3>1. more[b][k] = batches[b][k] /\ k \in DOMAIN batches[b]
      BY <1>3, <2>2
    <3>2. more[c][l] = batches[c][l] /\ l \in DOMAIN batches[c]
      BY <1>3, <1>4, <2>2
    <3>3. batches[b][k] = batches[c][l]
      BY <1>4, <3>1, <3>2
    <3> QED
      BY <3>1, <3>2, <3>3, PlacedOnce
  <2> QED
    BY <2>1, <2>2
<1>5. \A b \in DOMAIN more : \A k \in DOMAIN more[b] : more[b][k] \in passages \cup {i}
  BY <1>3
<1> QED
  BY <1>1, <1>2, <1>4, <1>5 DEF Partition

(* The next passage in the order is placed. *)
LEMMA PlacedNext ==
    ASSUME NEW n \in Nat, NEW counts \in [1 .. n -> Nat], NEW k \in 0 .. n - 1,
           NEW made, Made(made, k, n, counts)
    PROVE  Made(Place(made, Order(counts)[k + 1], counts), k + 1, n, counts)
<1>1. PICK made2 : made2 = Place(made, Order(counts)[k + 1], counts)
  OBVIOUS
<1>2. PICK next, I, placed, batches, batches2, current :
        /\ next = Order(counts)[k + 1] /\ I = 1 .. n /\ placed = Upto(counts, k)
        /\ batches = Closed(made) /\ batches2 = Closed(made2) /\ current = made.current
  OBVIOUS
<1>3. /\ next \in I /\ next \notin placed /\ Upto(counts, k + 1) = placed \cup {next}
      /\ \A i \in placed : i \in I /\ counts[next] <= counts[i]
  BY <1>2, UptoGrows
<1>4. /\ made2 \in Making(n) /\ batches \in Seq(Seq(I)) /\ batches2 \in Seq(Seq(I))
      /\ \/ /\ current # <<>> /\ Fits(current, counts)
            /\ made2.current = Append(current, next)
            /\ Len(batches2) = Len(batches) /\ Len(batches) > 0
            /\ \A b \in 1 .. Len(batches) - 1 : batches2[b] = batches[b]
            /\ batches[Len(batches)] = current
            /\ batches2[Len(batches)] = Append(current, next)
         \/ made2.current = <<next>> /\ batches2 = Append(batches, <<next>>)
  <2>1. made \in Making(n) /\ next \in 1 .. n /\ made2 = Place(made, next, counts)
    BY <1>1, <1>2, <1>3 DEF Made
  <2>2. Placement(made, made2, next, n, counts)
    BY <2>1, Placing
  <2> QED
    BY <1>2, <2>2, Zenon DEF Placement
<1>5. /\ current \in Seq(I) /\ counts \in [I -> Nat]
      /\ Partition(batches, counts, placed)
      /\ current # <<>> => HeadIsLongest(current, counts) /\ Head(current) \in placed
  BY <1>2 DEF Made, Making
<1>6. SUFFICES /\ Partition(batches2, counts, placed \cup {next})
               /\ made2.current # <<>> /\ HeadIsLongest(made2.current, counts)
               /\ Head(made2.current) \in placed \cup {next}
  BY <1>1, <1>2, <1>3, <1>4 DEF Made
<1>7. ASSUME made2.current = <<next>>, batches2 = Append(batches, <<next>>)
      PROVE  /\ Partition(batches2, counts, placed \cup {next})
             /\ made2.current # <<>> /\ HeadIsLongest(made2.current, counts)
             /\ Head(made2.current) \in placed \cup {next}
  <2>1. batches \in Seq(Seq(I)) /\ next \in I /\ next \notin placed
    BY <1>3, <1>4
  <2>2. Partition(batches2, counts, placed \cup {next})
    BY <1>5, <1>7, <2>1, BatchOpened
  <2>3. /\ Head(made2.current) = next /\ made2.current # <<>>
        /\ DOMAIN made2.current = 1 .. 1 /\ made2.current[1] = next
    BY <1>7
  <2>4. HeadIsLongest(made2.current, counts)
    BY <1>5, <2>1, <2>3 DEF HeadIsLongest
  <2> QED
    BY <2>2, <2>3, <2>4
<1>8. ASSUME current # <<>>, Fits(current, counts), made2.current = Append(current, next),
             Len(batches2) = Len(batches), Len(batches) > 0,
             \A b \in 1 .. Len(batches) - 1 : batches2[b] = batches[b],
             batches[Len(batches)] = current, batches2[Len(batches)] = Append(current, next)
      PROVE  /\ Partition(batches2, counts, placed \cup {next})
             /\ made2.current # <<>> /\ HeadIsLongest(made2.current, counts)
             /\ Head(made2.current) \in placed \cup {next}
  <2>1. PICK longer, size, head :
           longer = Append(current, next) /\ size = Len(current) /\ head = Head(current)
    OBVIOUS
  <2>2. current \in Seq(I) /\ next \in I /\ current # <<>>
    BY <1>3, <1>5, <1>8
  <2>3. /\ longer \in Seq(I) /\ longer # <<>> /\ size \in Nat /\ Len(longer) = size + 1
        /\ DOMAIN current = 1 .. size /\ DOMAIN longer = 1 .. size + 1
        /\ \A x \in 1 .. size : longer[x] = current[x]
        /\ longer[size + 1] = next
    BY <2>1, <2>2, Appended
  <2>4. Head(longer) = head
    BY <2>1, <2>2, Appended
  <2>5. /\ HeadIsLongest(current, counts) /\ head \in placed /\ head \in I
        /\ counts[next] <= counts[head]
    BY <1>3, <1>5, <1>8, <2>1
  <2>6. (size + 1) * counts[head] <= TokenBudget
    BY <1>8, <2>1 DEF Fits
  <2>7. ASSUME NEW x \in DOMAIN longer
        PROVE  longer[x] \in I /\ counts[longer[x]] <= counts[head]
    <3>1. longer[x] \in I
      BY <2>3
    <3>2. CASE x \in 1 .. size
      BY <2>1, <2>3, <2>5, <3>1, <3>2 DEF HeadIsLongest
    <3>3. CASE x = size + 1
      BY <2>3, <2>5, <3>1, <3>3
    <3> QED
      BY <2>3, <3>1, <3>2, <3>3
  <2>8. HeadIsLongest(longer, counts)
    BY <2>4, <2>7 DEF HeadIsLongest
  <2>9. Bearable(longer, counts)
    <3> SUFFICES ASSUME NEW x \in DOMAIN longer
                 PROVE  Len(longer) * counts[longer[x]] <= TokenBudget
      BY DEF Bearable
    <3>1. counts[longer[x]] \in Nat /\ counts[head] \in Nat /\ size + 1 \in Nat
      BY <1>5, <2>3, <2>5, <2>7
    <3>2. (size + 1) * counts[longer[x]] <= (size + 1) * counts[head]
      BY <2>7, <3>1, Padded
    <3>3. (size + 1) * counts[longer[x]] \in Int /\ (size + 1) * counts[head] \in Int
      BY <3>1
    <3>4. TokenBudget \in Int
      BY EmbedderAssumption DEF EmbedderAssumption
    <3>5. (size + 1) * counts[longer[x]] <= TokenBudget
      BY <2>6, <3>2, <3>3, <3>4
    <3> QED
      BY <2>3, <3>5
  <2>10. PICK last : last = Len(batches)
    OBVIOUS
  <2>11. /\ last \in DOMAIN batches /\ DOMAIN batches2 = DOMAIN batches
         /\ \A b \in DOMAIN batches \ {last} : batches2[b] = batches[b]
    <3>1. /\ DOMAIN batches = 1 .. Len(batches) /\ DOMAIN batches2 = 1 .. Len(batches2)
          /\ Len(batches) \in Nat
      BY <1>4
    <3>2. Len(batches2) = last /\ last > 0 /\ \A b \in 1 .. last - 1 : batches2[b] = batches[b]
      BY <1>8, <2>10
    <3> QED
      BY <2>10, <3>1, <3>2
  <2>12. /\ batches[last] = current /\ batches2[last] = longer
    BY <1>8, <2>1, <2>10
  <2>13. PICK end : /\ end \notin DOMAIN current /\ DOMAIN longer = DOMAIN current \cup {end}
                    /\ longer[end] = next /\ \A x \in DOMAIN current : longer[x] = current[x]
    <3>1. /\ size + 1 \notin DOMAIN current /\ DOMAIN longer = DOMAIN current \cup {size + 1}
          /\ longer[size + 1] = next /\ \A x \in DOMAIN current : longer[x] = current[x]
      BY <2>3
    <3> QED
      BY <3>1
  <2>14. Partition(batches2, counts, placed \cup {next})
    <3>1. /\ next \notin placed /\ Partition(batches, counts, placed)
          /\ last \in DOMAIN batches /\ end \notin DOMAIN batches[last]
          /\ DOMAIN batches2 = DOMAIN batches
          /\ \A b \in DOMAIN batches \ {last} : batches2[b] = batches[b]
          /\ DOMAIN batches2[last] = DOMAIN batches[last] \cup {end}
          /\ \A x \in DOMAIN batches[last] : batches2[last][x] = batches[last][x]
          /\ batches2[last][end] = next /\ batches2[last] # <<>>
          /\ Bearable(batches2[last], counts)
      BY <1>3, <1>5, <2>3, <2>9, <2>11, <2>12, <2>13
    <3> QED
      BY <3>1, BatchExtended, Zenon
  <2> QED
    BY <1>8, <2>1, <2>3, <2>4, <2>5, <2>8, <2>14
<1> QED
  BY <1>4, <1>7, <1>8

(* The batches group the passages: every one is in one batch, once, and no  *)
(* batch of several is padded beyond the budget.                            *)
THEOREM BatchesPartition ==
    ASSUME NEW n \in Nat, NEW counts \in [1 .. n -> Nat]
    PROVE  Batches(counts) \in Seq(Seq(1 .. n)) /\ Partition(Batches(counts), counts, 1 .. n)
<1> DEFINE none == [done |-> <<>>, current |-> <<>>]
<1> DEFINE Is(f) == f = [k \in 0 .. n |-> IF k = 0 THEN none
                                          ELSE Place(f[k - 1], Order(counts)[k], counts)]
<1> DEFINE made == CHOOSE f : Is(f)
<1>1. Len(counts) = n
  OBVIOUS
<1>2. Batches(counts) = Closed(made[n])
  BY <1>1 DEF Batches
<1>3. Made(none, 0, n, counts) /\ none \in Making(n)
  <2>1. none \in Making(n)
    BY DEF Making
  <2>2. Closed(none) = <<>> /\ none.current = <<>>
    BY DEF Closed
  <2>3. Upto(counts, 0) = {}
    BY DEF Upto
  <2>4. Partition(<<>>, counts, {})
    BY DEF Partition
  <2> QED
    BY <2>1, <2>2, <2>3, <2>4 DEF Made
<1> HIDE DEF none
<1>4. \E f : Is(f)
  <2> DEFINE step == [k \in 1 .. n |-> [m \in Making(n) |-> Place(m, Order(counts)[k], counts)]]
  <2>1. \A k \in 1 .. n : Order(counts)[k] \in 1 .. n
    BY Ordered
  <2>2. \A k \in 1 .. n, m \in Making(n) : Place(m, Order(counts)[k], counts) \in Making(n)
    BY <2>1, Placing DEF Placement
  <2>3. step \in [1 .. n -> [Making(n) -> Making(n)]]
    BY <2>2
  <2>4. PICK f \in [0 .. n -> Making(n)] :
           f = [k \in 0 .. n |-> IF k = 0 THEN none ELSE step[k][f[k - 1]]]
    <3> HIDE DEF step
    <3>1. PICK T : T = Making(n)
      OBVIOUS
    <3>2. none \in T /\ step \in [1 .. n -> [T -> T]]
      BY <1>3, <2>3, <3>1
    <3>3. \E f \in [0 .. n -> T] : Iterates(f, n, none, step)
      BY <3>2, Iteration
    <3> QED
      BY <3>1, <3>3 DEF Iterates
  <2>5. \A k \in 1 .. n : step[k][f[k - 1]] = Place(f[k - 1], Order(counts)[k], counts)
    <3>1. \A k \in 1 .. n : k - 1 \in 0 .. n
      OBVIOUS
    <3>2. \A k \in 1 .. n : f[k - 1] \in Making(n)
      BY <3>1
    <3> QED
      BY <3>2
  <2> HIDE DEF step
  <2>6. \A k \in 0 .. n : k # 0 => k \in 1 .. n
    OBVIOUS
  <2>7. Is(f)
    BY <2>4, <2>5, <2>6
  <2> QED
    BY <2>7
<1>5. Is(made)
  <2> HIDE DEF Is
  <2> QED
    BY <1>4
<1>6. \A k \in 0 .. n : made[k] = IF k = 0 THEN none
                                  ELSE Place(made[k - 1], Order(counts)[k], counts)
  <2> HIDE DEF made
  <2> QED
    BY <1>5
<1> HIDE DEF made, Is
<1>7. \A k \in 0 .. n : Made(made[k], k, n, counts)
  <2> DEFINE S == {k \in 0 .. n : Made(made[k], k, n, counts)}
  <2>1. 0 \in S
    BY <1>3, <1>6
  <2>2. \A k \in 0 .. n - 1 : k \in S => k + 1 \in S
    <3> SUFFICES ASSUME NEW k \in 0 .. n - 1, Made(made[k], k, n, counts)
                 PROVE  Made(made[k + 1], k + 1, n, counts)
      OBVIOUS
    <3>1. k + 1 \in 0 .. n /\ k + 1 # 0 /\ (k + 1) - 1 = k
      OBVIOUS
    <3>2. made[k + 1] = Place(made[k], Order(counts)[k + 1], counts)
      BY <1>6, <3>1
    <3> QED
      BY <3>2, PlacedNext
  <2>3. 0 .. n \subseteq S
    <3> HIDE DEF S
    <3> QED
      BY <2>1, <2>2, IntervalInduction
  <2> QED
    BY <2>3
<1>8. Upto(counts, n) = 1 .. n
  <2>1. PICK order : order = Order(counts)
    OBVIOUS
  <2>2. order \in [1 .. n -> 1 .. n]
    BY <2>1, Ordered
  <2>3. \A i \in 1 .. n : \E k \in 1 .. n : order[k] = i
    <3>1. \A i \in 1 .. n : \E k \in 1 .. n : Order(counts)[k] = i
      BY Ordered, Zenon
    <3> QED
      BY <2>1, <3>1
  <2> QED
    BY <2>1, <2>2, <2>3 DEF Upto
<1>9. Partition(Closed(made[n]), counts, 1 .. n) /\ made[n] \in Making(n)
  BY <1>7, <1>8 DEF Made
<1>10. Closed(made[n]) \in Seq(Seq(1 .. n))
  BY <1>9, Appended DEF Closed, Making
<1> QED
  BY <1>2, <1>9, <1>10

-----------------------------------------------------------------------------
(* The vectors. *)

(* The model's answer for a batch it can bear.                              *)
Answer(texts, counts, batch) ==
    Encode([k \in DOMAIN batch |-> texts[batch[k]]], [k \in DOMAIN batch |-> counts[batch[k]]])

VectorsOf(texts, batch) == [k \in DOMAIN batch |-> Vector(texts[batch[k]])]

LEMMA BatchEncoded ==
    ASSUME NEW n \in Nat, NEW texts, NEW counts, NEW batch \in Seq(1 .. n),
           Bearable(batch, counts)
    PROVE  Answer(texts, counts, batch) = VectorsOf(texts, batch)
<1> DEFINE its == [k \in DOMAIN batch |-> texts[batch[k]]]
<1> DEFINE lengths == [k \in DOMAIN batch |-> counts[batch[k]]]
<1>1. DOMAIN batch = 1 .. Len(batch) /\ Len(batch) \in Nat
  OBVIOUS
<1>2. Len(its) = Len(batch)
  <2>1. DOMAIN its = 1 .. Len(batch)
    BY <1>1
  <2> HIDE DEF its
  <2> QED
    BY <1>1, <2>1
<1>3. DOMAIN its = DOMAIN batch /\ \A k \in DOMAIN batch : its[k] = texts[batch[k]]
  OBVIOUS
<1>4. \A k \in DOMAIN batch : lengths[k] = counts[batch[k]]
  OBVIOUS
<1>5. Answer(texts, counts, batch) = Encode(its, lengths)
  BY DEF Answer
<1> HIDE DEF its, lengths
<1>6. Len(its) = 1 \/ \A k \in DOMAIN its : Len(its) * lengths[k] <= TokenBudget
  BY <1>2, <1>3, <1>4 DEF Bearable
<1>7. Encode(its, lengths) = [k \in DOMAIN its |-> Vector(its[k])]
  BY <1>6 DEF Encode
<1> QED
  BY <1>3, <1>5, <1>7 DEF VectorsOf

(* The vectors of a batch go to its passages, and to no other.              *)
Replaced(out, out2, batch, texts, I) ==
    \A i \in I : out2[i] =
        IF \E k \in DOMAIN batch : batch[k] = i THEN Vector(texts[i]) ELSE out[i]

LEMMA Scattered ==
    ASSUME NEW I, NEW texts, NEW V, NEW out \in [I -> V], NEW batch,
           \A k \in DOMAIN batch : Vector(texts[batch[k]]) \in V,
           NEW out2, out2 = Scatter(out, batch, VectorsOf(texts, batch))
    PROVE  out2 \in [I -> V] /\ Replaced(out, out2, batch, texts, I)
<1> DEFINE vectors == VectorsOf(texts, batch)
<1> DEFINE at(i) == CHOOSE k \in DOMAIN batch : batch[k] = i
<1> DEFINE new(i) == IF \E k \in DOMAIN batch : batch[k] = i THEN vectors[at(i)] ELSE out[i]
<1>1. out2 = [i \in I |-> new(i)]
  BY DEF Scatter
<1>2. ASSUME NEW i \in I
      PROVE  /\ new(i) = IF \E k \in DOMAIN batch : batch[k] = i THEN Vector(texts[i]) ELSE out[i]
             /\ new(i) \in V
  <2>1. CASE \E k \in DOMAIN batch : batch[k] = i
    <3>1. at(i) \in DOMAIN batch /\ batch[at(i)] = i
      BY <2>1
    <3> HIDE DEF at
    <3>2. vectors[at(i)] = Vector(texts[i]) /\ Vector(texts[i]) \in V
      BY <3>1 DEF VectorsOf
    <3> QED
      BY <2>1, <3>2
  <2>2. CASE ~ \E k \in DOMAIN batch : batch[k] = i
    BY <2>2
  <2> QED
    BY <2>1, <2>2
<1> HIDE DEF new
<1> QED
  BY <1>1, <1>2 DEF Replaced

(* However long the passages are, every text gets its own vector.           *)
THEOREM EveryTextItsVector ==
    ASSUME NEW n \in Nat, NEW texts, DOMAIN texts = 1 .. n, NEW counts \in [1 .. n -> Nat]
    PROVE  EncodePassages(texts, counts) = [i \in 1 .. n |-> Vector(texts[i])]
<1>1. PICK batches, I, len : batches = Batches(counts) /\ I = 1 .. n /\ len = Len(batches)
  OBVIOUS
<1>2. /\ batches \in Seq(Seq(1 .. n)) /\ Partition(batches, counts, I)
      /\ len \in Nat /\ DOMAIN batches = 1 .. len
  <2>1. batches \in Seq(Seq(1 .. n)) /\ Partition(batches, counts, I)
    BY <1>1, BatchesPartition
  <2> QED
    BY <1>1, <2>1
<1> DEFINE none == [i \in DOMAIN texts |-> NoVector]
<1> DEFINE Is(f) == f = [k \in 0 .. len |-> IF k = 0 THEN none
                            ELSE Scatter(f[k - 1], batches[k], Answer(texts, counts, batches[k]))]
<1> DEFINE out == CHOOSE f : Is(f)
<1>3. EncodePassages(texts, counts) = out[len]
  BY <1>1 DEF EncodePassages, Answer
<1> DEFINE V == {Vector(texts[i]) : i \in I} \cup {NoVector}
<1>4. none \in [I -> V]
  BY <1>1
<1>5. \A b \in 1 .. len : \A k \in DOMAIN batches[b] :
         batches[b][k] \in I /\ Vector(texts[batches[b][k]]) \in V
  BY <1>2 DEF Partition
<1> HIDE DEF none, V
<1>6. ASSUME NEW b \in 1 .. len, NEW f \in [I -> V], NEW f2,
             f2 = Scatter(f, batches[b], Answer(texts, counts, batches[b]))
      PROVE  f2 \in [I -> V] /\ Replaced(f, f2, batches[b], texts, I)
  <2>1. PICK batch : batch = batches[b]
    OBVIOUS
  <2>2. batch \in Seq(1 .. n) /\ Bearable(batch, counts)
    BY <1>2, <2>1 DEF Partition
  <2>3. Answer(texts, counts, batch) = VectorsOf(texts, batch)
    BY <2>2, BatchEncoded
  <2>4. \A k \in DOMAIN batch : Vector(texts[batch[k]]) \in V
    BY <1>5, <2>1
  <2>5. f2 = Scatter(f, batch, VectorsOf(texts, batch))
    BY <1>6, <2>1, <2>3
  <2>6. f2 \in [I -> V] /\ Replaced(f, f2, batch, texts, I)
    BY <2>4, <2>5, Scattered
  <2> QED
    BY <2>1, <2>6
<1>7. \E f : Is(f)
  <2> DEFINE step == [b \in 1 .. len |-> [f \in [I -> V] |->
                         Scatter(f, batches[b], Answer(texts, counts, batches[b]))]]
  <2>1. PICK T : T = [I -> V]
    OBVIOUS
  <2>2. none \in T /\ step \in [1 .. len -> [T -> T]]
    BY <1>4, <1>6, <2>1
  <2>3. PICK f \in [0 .. len -> T] : Iterates(f, len, none, step)
    <3> HIDE DEF step
    <3> QED
      BY <1>2, <2>2, Iteration
  <2>4. \A b \in 1 .. len : step[b][f[b - 1]] =
           Scatter(f[b - 1], batches[b], Answer(texts, counts, batches[b]))
    <3>1. \A b \in 1 .. len : b - 1 \in 0 .. len
      BY <1>2
    <3>2. \A b \in 1 .. len : f[b - 1] \in [I -> V]
      BY <2>1, <3>1
    <3> QED
      BY <3>2
  <2> HIDE DEF step
  <2>5. \A b \in 0 .. len : b # 0 => b \in 1 .. len
    BY <1>2
  <2>6. Is(f)
    BY <2>3, <2>4, <2>5 DEF Iterates
  <2> QED
    BY <2>6
<1>8. Is(out)
  <2> HIDE DEF Is
  <2> QED
    BY <1>7
<1>9. \A b \in 0 .. len : out[b] = IF b = 0 THEN none
         ELSE Scatter(out[b - 1], batches[b], Answer(texts, counts, batches[b]))
  <2> HIDE DEF out
  <2> QED
    BY <1>8
<1> HIDE DEF out, Is
<1> DEFINE Done(b) == {i \in I : \E c \in 1 .. b : \E k \in DOMAIN batches[c] : batches[c][k] = i}
<1> DEFINE S == {b \in 0 .. len : /\ out[b] \in [I -> V]
                                 /\ \A i \in Done(b) : out[b][i] = Vector(texts[i])}
<1>10. 0 \in S
  BY <1>2, <1>4, <1>9
<1>11. ASSUME NEW b \in 0 .. len - 1, b \in S PROVE b + 1 \in S
  <2>1. out[b] \in [I -> V] /\ \A i \in Done(b) : out[b][i] = Vector(texts[i])
    BY <1>11
  <2>2. PICK c : c = b + 1
    OBVIOUS
  <2>3. c \in 0 .. len /\ c \in 1 .. len /\ c - 1 = b /\ c # 0
    BY <1>2, <2>2
  <2>4. out[c] = Scatter(out[b], batches[c], Answer(texts, counts, batches[c]))
    BY <1>9, <2>3
  <2>5. /\ out[c] \in [I -> V]
        /\ \A i \in I : out[c][i] =
              IF \E k \in DOMAIN batches[c] : batches[c][k] = i THEN Vector(texts[i])
              ELSE out[b][i]
    BY <1>6, <2>1, <2>3, <2>4 DEF Replaced
  <2>6. ASSUME NEW i \in Done(c) PROVE out[c][i] = Vector(texts[i])
    <3>1. CASE \E k \in DOMAIN batches[c] : batches[c][k] = i
      BY <2>5, <3>1
    <3>2. CASE ~ \E k \in DOMAIN batches[c] : batches[c][k] = i
      <4>1. PICK d \in 1 .. c : \E k \in DOMAIN batches[d] : batches[d][k] = i
        OBVIOUS
      <4>2. d \in 1 .. b
        BY <2>3, <3>2, <4>1
      <4>3. i \in Done(b)
        BY <4>1, <4>2
      <4>4. i \in I
        OBVIOUS
      <4> HIDE DEF Done
      <4> QED
        BY <2>1, <2>5, <3>2, <4>3, <4>4
    <3> QED
      BY <3>1, <3>2
  <2> HIDE DEF Done
  <2> QED
    BY <2>2, <2>3, <2>5, <2>6
<1>12. len \in S
  <2> HIDE DEF S
  <2>1. \A b \in 0 .. len - 1 : b \in S => b + 1 \in S
    BY <1>11
  <2>2. 0 .. len \subseteq S
    BY <1>2, <1>10, <2>1, IntervalInduction
  <2> QED
    BY <1>2, <2>2
<1>13. Done(len) = I
  BY <1>2 DEF Partition
<1>14. out[len] \in [I -> V] /\ \A i \in I : out[len][i] = Vector(texts[i])
  <2> HIDE DEF Done
  <2> QED
    BY <1>12, <1>13
<1>15. out[len] = [i \in I |-> Vector(texts[i])]
  BY <1>14
<1> QED
  BY <1>1, <1>3, <1>15

(* However the chunks of a document are batched, the i-th gets the vector   *)
(* of its own text, and there is no other it may get.                       *)
LEMMA PassagesKeepTheirVector ==
    ASSUME NEW n \in Nat, NEW i \in 0 .. n - 1
    PROVE  VectorsOfPassage(n, i) = {[of |-> i]}
<1>1. PICK texts : texts = [k \in 1 .. n |-> k - 1]
  OBVIOUS
<1>2. ASSUME NEW counts \in [1 .. n -> Lengths]
      PROVE  EncodePassages(texts, counts)[i + 1] = [of |-> i]
  <2>1. counts \in [1 .. n -> Nat]
    BY EmbedderAssumption DEF EmbedderAssumption
  <2>2. DOMAIN texts = 1 .. n
    BY <1>1
  <2>3. EncodePassages(texts, counts) = [k \in 1 .. n |-> Vector(texts[k])]
    BY <2>1, <2>2, EveryTextItsVector
  <2>4. i + 1 \in 1 .. n /\ texts[i + 1] = i
    BY <1>1
  <2> QED
    BY <2>3, <2>4 DEF Vector
<1>3. \E counts : counts \in [1 .. n -> Lengths]
  <2>1. PICK l : l \in Lengths
    BY EmbedderAssumption DEF EmbedderAssumption
  <2>2. [k \in 1 .. n |-> l] \in [1 .. n -> Lengths]
    BY <2>1
  <2> QED
    BY <2>2
<1>4. VectorsOfPassage(n, i) =
         {EncodePassages(texts, counts)[i + 1] : counts \in [1 .. n -> Lengths]}
  BY <1>1 DEF VectorsOfPassage
<1> QED
  BY <1>2, <1>3, <1>4

-----------------------------------------------------------------------------
(* A stored chunk has the vector of its own text when the rows are given    *)
(* what encode_passages makes of all the passages of the document: batches  *)
(* of any lengths, and any transactions, do not mix them up.                *)
THEOREM ChunksKeepTheirVector ==
    ASSUME \A p \in Profiles : \A i \in 0 .. Size["chunks"][p] - 1 :
              Vectors[p][i] = VectorsOfPassage(Size["chunks"][p], i)
    PROVE  Spec => []EmbeddingSound
<1>1. OneBuild => EmbeddingSound
  <2> SUFFICES ASSUME OneBuild, NEW d \in Docs, NEW r \in Of(stored[d], "chunks")
               PROVE  r.vectors = {[of |-> r.ord]}
    BY DEF EmbeddingSound
  <2>1. PICK p \in Profiles, parse \in 1 .. MaxParses :
           Of(stored[d], "chunks") = Build("chunks", p, parse)
    BY DEF OneBuild, Branches
  <2>2. PICK i \in 0 .. Size["chunks"][p] - 1 : r = ChunkRow(i, p, parse)
    BY <2>1 DEF Build
  <2>3. Size["chunks"][p] \in Nat
    BY StorageAssumption DEF StorageAssumption, Branches
  <2>4. VectorsOfPassage(Size["chunks"][p], i) = {[of |-> i]}
    BY <2>3, PassagesKeepTheirVector
  <2> QED
    BY <2>2, <2>4 DEF ChunkRow, Embedded
<1> QED
  BY <1>1, BuildsStayWhole, PTL

=============================================================================
