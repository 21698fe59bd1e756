--------------------------- MODULE ConsumeProofs ---------------------------
(***************************************************************************)
(* Proofs that the file queue and its consumers keep their types and lose   *)
(* no message, for any number of workers and messages and with any faults:  *)
(* whatever calls of different workers meet on a name, a message leaves     *)
(* inflight/ only for ready/, for dead/, or because it was worked off.      *)
(* Without faults also that no two workers hold a message at once and that  *)
(* the attempt counts are those of real deliveries; with any of them that   *)
(* no message is parked before its deliveries are used up; and that a       *)
(* single worker, or any number without faults, implement AtLeastOnce.      *)
(***************************************************************************)
EXTENDS Consume, TLAPS

-----------------------------------------------------------------------------
(* The directories. *)
DirsOK ==
    \A dir \in {ready, inflight, dead} :
        /\ DOMAIN dir \subseteq Messages
        /\ dir \in [DOMAIN dir -> Files]

Named == Range(ready) \cup Range(inflight) \cup Range(dead)

Opened == {client[c].fd : c \in Clients} \ {None}

(* What a call does to the directories as far as messages go: it forgets     *)
(* none but those in gone, and no new name appears but new.                 *)
Moves(gone, new) ==
    /\ DirsOK'
    /\ Parked \subseteq Parked'
    /\ Owed \ gone \subseteq Owed'
    /\ Owed' \cup Parked' \subseteq Owed \cup Parked \cup new

LEMMA BackMoves ==
    ASSUME DirsOK, NEW m \in DOMAIN inflight, Back(m)
    PROVE  Moves({}, {}) /\ Named' \subseteq Named
<1> USE DEF DirsOK
<1>1. /\ m \in Messages /\ inflight[m] \in Files /\ inflight[m] \in Range(inflight)
      /\ dead' = dead
  BY DEF Back, Range
<1>2. /\ DOMAIN inflight' = DOMAIN inflight \ {m} /\ DOMAIN inflight' \subseteq Messages
      /\ inflight' \in [DOMAIN inflight' -> Files] /\ Range(inflight') \subseteq Range(inflight)
  BY DEF Back, Without, Range
<1>3. /\ DOMAIN ready' = DOMAIN ready \cup {m} /\ DOMAIN ready' \subseteq Messages
      /\ ready' \in [DOMAIN ready' -> Files]
      /\ Range(ready') \subseteq Range(ready) \cup {inflight[m]}
  BY <1>1 DEF Back, With, Range
<1> QED
  BY <1>1, <1>2, <1>3 DEF Moves, Named, Owed, Parked

LEMMA TakenMoves ==
    ASSUME DirsOK, NEW m \in DOMAIN ready, Taken(m)
    PROVE  Moves({}, {}) /\ Named' \subseteq Named /\ m \in Owed
<1> USE DEF DirsOK
<1>1. /\ m \in Messages /\ ready[m] \in Files /\ ready[m] \in Range(ready)
      /\ dead' = dead
  BY DEF Taken, Range
<1>2. /\ DOMAIN ready' = DOMAIN ready \ {m} /\ DOMAIN ready' \subseteq Messages
      /\ ready' \in [DOMAIN ready' -> Files] /\ Range(ready') \subseteq Range(ready)
  BY DEF Taken, Without, Range
<1>3. /\ DOMAIN inflight' = DOMAIN inflight \cup {m} /\ DOMAIN inflight' \subseteq Messages
      /\ inflight' \in [DOMAIN inflight' -> Files]
      /\ Range(inflight') \subseteq Range(inflight) \cup {ready[m]}
  BY <1>1 DEF Taken, With, Range
<1> QED
  BY <1>1, <1>2, <1>3 DEF Moves, Named, Owed, Parked

LEMMA StillMoves ==
    ASSUME DirsOK, UNCHANGED dirs
    PROVE  Moves({}, {}) /\ Named' = Named
BY DEF DirsOK, dirs, Moves, Named, Owed, Parked

-----------------------------------------------------------------------------
(* The files. *)
FilesOK == DOMAIN file = Named \cup Opened /\ file \in [Named \cup Opened -> Content]

LEMMA TypeSplit == QueueTypeOK <=> DirsOK /\ client \in [Clients -> Client] /\ FilesOK
BY DEF QueueTypeOK, DirsOK, FilesOK, Named, Opened, InUse

LEMMA KeptFiles ==
    ASSUME NEW files, NEW D, files \in [D -> Content], Named' \cup Opened' \subseteq D,
           Kept(files)
    PROVE  FilesOK'
BY DEF Kept, FilesOK, Named, Opened, InUse, Restrict

LEMMA SameFiles ==
    ASSUME FilesOK, UNCHANGED file, Named' = Named, Opened' = Opened
    PROVE  FilesOK'
BY DEF FilesOK

LEMMA BlankIsFree ==
    ASSUME Files \ InUse # {}
    PROVE  Blank \in Files /\ Blank \notin Named \cup Opened
BY DEF Blank, InUse, Named, Opened

LEMMA ContentsOK ==
    /\ Published \in Content
    /\ Truncated \in Content
    /\ \A k \in Nat, shape \in {"full", "bare"}, before \in Content :
          Written(k, shape, before) \in Content
BY DEF Published, Truncated, Content, Written

-----------------------------------------------------------------------------
(* A step of one client, put together from what it does to the directories,  *)
(* to the files and to the client's own record.                             *)
Kernel ==
    /\ QueueTypeOK
    /\ unsent \cap (Owed \cup Parked) = {}
    /\ \A c \in Clients : ClientOK(c)
    /\ NoMessageLost

Alone(c) ==
    /\ client' \in [Clients -> Client]
    /\ \A d \in Clients \ {c} : client'[d] = client[d]

LEMMA StepOfOne ==
    ASSUME Kernel, NEW c \in Clients, Alone(c), ClientOK(c)',
           NEW gone, NEW new, Moves(gone, new), FilesOK',
           gone \subseteq worked' \cup Parked', new \cap unsent = {},
           unsent' = unsent, worked \subseteq worked'
    PROVE  Kernel'
<1>1. QueueTypeOK'
  BY DEF Alone, Moves, DirsOK, FilesOK, QueueTypeOK, Named, Opened, InUse
<1>2. (unsent \cap (Owed \cup Parked) = {})'
  BY DEF Kernel, Moves
<1>3. ASSUME NEW d \in Clients PROVE ClientOK(d)'
  <2>1. CASE d = c
    BY <2>1
  <2>2. CASE d # c
    BY <2>2 DEF Kernel, Alone, Moves, ClientOK
  <2> QED
    BY <2>1, <2>2
<1>4. NoMessageLost'
  BY DEF Kernel, Moves, NoMessageLost
<1> QED
  BY <1>1, <1>2, <1>3, <1>4 DEF Kernel

LEMMA FdSame ==
    ASSUME QueueTypeOK, NEW c \in Clients, Alone(c), client'[c].fd = client[c].fd
    PROVE  Opened' = Opened
BY DEF QueueTypeOK, Alone, Opened

LEMMA FdClosed ==
    ASSUME QueueTypeOK, NEW c \in Clients, Alone(c), client'[c].fd = None
    PROVE  Opened' \subseteq Opened
BY DEF QueueTypeOK, Alone, Opened

LEMMA FdOpens ==
    ASSUME QueueTypeOK, NEW c \in Clients, Alone(c), client[c].fd = None,
           client'[c].fd \in Files
    PROVE  Opened' = Opened \cup {client'[c].fd}
BY NoneAssumption DEF QueueTypeOK, Alone, Opened

(* Steps that only look. *)
LEMMA LookKeeps ==
    ASSUME Kernel, NEW c \in Clients, Alone(c), ClientOK(c)', client'[c].fd = client[c].fd,
           UNCHANGED <<dirs, file>>, unsent' = unsent, worked \subseteq worked'
    PROVE  Kernel'
<1>1. QueueTypeOK /\ DirsOK /\ FilesOK
  BY TypeSplit DEF Kernel
<1>2. Moves({}, {}) /\ Named' = Named
  BY <1>1, StillMoves
<1>3. FilesOK'
  BY <1>1, <1>2, FdSame, SameFiles
<1> QED
  BY <1>2, <1>3, StepOfOne

(* Steps that move or remove a name, and may close a file. *)
LEMMA MoveKeeps ==
    ASSUME Kernel, NEW c \in Clients, Alone(c), ClientOK(c)',
           client'[c].fd \in {None, client[c].fd},
           NEW gone, Moves(gone, {}), Named' \subseteq Named, Kept(file),
           gone \subseteq worked' \cup Parked', unsent' = unsent, worked \subseteq worked'
    PROVE  Kernel'
<1>1. QueueTypeOK /\ FilesOK
  BY TypeSplit DEF Kernel
<1>2. Opened' \subseteq Opened
  BY <1>1, FdSame, FdClosed
<1>3. FilesOK'
  BY <1>1, <1>2, KeptFiles DEF FilesOK
<1> QED
  BY <1>3, StepOfOne

-----------------------------------------------------------------------------
(* The steps of a worker: those that look.                                  *)
LEMMA AtIsClient ==
    ASSUME NEW pc \in {"down", "top", "empty", "reap", "depth", "done"}
    PROVE  At(pc) \in Client /\ At(pc).pc = pc /\ At(pc).fd = None /\ At(pc).cur = None
BY DEF At, Client

LEMMA LeavesKeeps ==
    ASSUME Kernel, NEW c \in Clients, NEW pc \in {"down", "top", "empty", "done"}, Leaves(c, pc)
    PROVE  Alone(c) /\ ClientOK(c)' /\ client'[c].fd = None
<1>1. client' = [client EXCEPT ![c] = At(pc)] /\ client \in [Clients -> Client]
  BY DEF Leaves, Kernel, QueueTypeOK
<1>2. At(pc) \in Client /\ At(pc).pc = pc /\ At(pc).fd = None
  BY AtIsClient
<1>3. client'[c] = At(pc)
  BY <1>1
<1>4. ClientOK(c)'
  BY <1>2, <1>3 DEF ClientOK, Busy
<1> QED
  BY <1>1, <1>2, <1>3, <1>4 DEF Alone

LEMMA ReapingKeeps ==
    ASSUME Kernel, NEW c \in Clients, client[c].pc \in {"down", "top"},
           NEW pc \in {"reap", "depth"}, Reaping(c, pc),
           UNCHANGED <<dirs, file>>, unsent' = unsent, worked' = worked
    PROVE  Kernel'
<1>1. /\ client' = [client EXCEPT ![c] = [At(pc) EXCEPT !.names = DOMAIN inflight]]
      /\ client \in [Clients -> Client] /\ DOMAIN inflight \subseteq Messages
  BY DEF Reaping, Kernel, QueueTypeOK
<1>2. client[c].fd = None
  BY NoneAssumption DEF Kernel, ClientOK
<1>3. /\ client'[c] \in Client /\ client'[c].pc = pc /\ client'[c].fd = None
      /\ Alone(c)
  BY <1>1 DEF At, Client, Alone
<1>4. ClientOK(c)'
  BY <1>3 DEF ClientOK, Busy
<1> QED
  BY <1>2, <1>3, <1>4, LookKeeps

LEMMA ReapStatKeeps ==
    ASSUME Kernel, NEW c \in Clients, NEW m \in Messages, ReapStat(c, m),
           unsent' = unsent, worked' = worked
    PROVE  Kernel'
<1>1. client[c] \in Client /\ client \in [Clients -> Client]
  BY DEF Kernel, QueueTypeOK
<1>2. /\ Alone(c) /\ client'[c].fd = client[c].fd /\ client'[c].pc = client[c].pc
  BY <1>1 DEF ReapStat, Alone, Client
<1>3. ClientOK(c)'
  BY <1>2 DEF ReapStat, Kernel, ClientOK, Busy
<1> QED
  BY <1>2, <1>3, LookKeeps DEF ReapStat

LEMMA ReapEndKeeps ==
    ASSUME Kernel, NEW c \in Clients, ReapEnd(c), unsent' = unsent, worked' = worked
    PROVE  Kernel'
<1>1. /\ client[c] \in Client /\ client \in [Clients -> Client]
      /\ DOMAIN ready \subseteq Messages
  BY DEF Kernel, QueueTypeOK
<1>2. /\ Alone(c) /\ client'[c].fd = client[c].fd /\ client'[c].pc \in {"claim", "top"}
  BY <1>1 DEF ReapEnd, Alone, Client
<1>3. ClientOK(c)'
  BY <1>2 DEF ReapEnd, Kernel, ClientOK, Busy
<1> QED
  BY <1>2, <1>3, LookKeeps DEF ReapEnd

LEMMA ClaimNoneKeeps ==
    ASSUME Kernel, NEW c \in Clients, ClaimNone(c), unsent' = unsent, worked' = worked
    PROVE  Kernel'
<1>1. Alone(c) /\ ClientOK(c)' /\ client'[c].fd = None
  BY LeavesKeeps DEF ClaimNone
<1>2. client[c].fd = None
  BY NoneAssumption DEF Kernel, ClientOK, ClaimNone
<1> QED
  BY <1>1, <1>2, LookKeeps DEF ClaimNone

LEMMA LoadKeeps ==
    ASSUME Kernel, NEW c \in Clients, Load(c), unsent' = unsent, worked' = worked
    PROVE  Kernel'
<1> DEFINE m == client[c].cur
<1>1. /\ client[c] \in Client /\ client \in [Clients -> Client]
      /\ m \in DOMAIN inflight => file[inflight[m]] \in Content
  BY DEF Kernel, QueueTypeOK, InUse, Range
<1>2. CASE client' = [client EXCEPT ![c].pc = "claim", ![c].cur = None]
  <2>1. Alone(c) /\ client'[c].fd = client[c].fd /\ client'[c].pc = "claim"
    BY <1>1, <1>2 DEF Alone, Client
  <2>2. ClientOK(c)'
    BY <2>1 DEF Load, Kernel, ClientOK, Busy
  <2> QED
    BY <2>1, <2>2, LookKeeps DEF Load
<1>3. CASE client' # [client EXCEPT ![c].pc = "claim", ![c].cur = None]
  <2> DEFINE readable == m \in DOMAIN inflight /\ file[inflight[m]].shape # "torn"
             Seen == /\ Alone(c) /\ client'[c].fd = client[c].fd
                     /\ client'[c].pc = "open" /\ client'[c].cur = client[c].cur
  <2>1. readable => Seen
    BY <1>1, <1>3 DEF Load, Alone, Client, Content, Counting
  <2>2. ~readable => Seen
    BY <1>1, <1>3 DEF Load, Alone, Client
  <2>3. Seen
    BY <2>1, <2>2
  <2>4. ClientOK(c)'
    BY <2>3 DEF Load, Kernel, ClientOK, Busy
  <2> QED
    BY <2>3, <2>4, LookKeeps DEF Load
<1> QED
  BY <1>2, <1>3

LEMMA NackKeeps ==
    ASSUME Kernel, NEW c \in Clients, Nack(c), unsent' = unsent, worked' = worked
    PROVE  Kernel'
<1>1. client[c] \in Client /\ client \in [Clients -> Client] /\ client[c].fd = None
  BY NoneAssumption DEF Kernel, QueueTypeOK, ClientOK, Nack
<1>2. CASE Leaves(c, "top")
  BY <1>1, <1>2, LeavesKeeps, LookKeeps DEF Nack
<1>3. CASE client' = [client EXCEPT ![c].pc = "load", ![c].doing = "nack"]
  <2>1. /\ Alone(c) /\ client'[c].fd = client[c].fd /\ client'[c].pc = "load"
        /\ client'[c].cur = client[c].cur
    BY <1>1, <1>3 DEF Alone, Client
  <2>2. ClientOK(c)'
    BY <2>1 DEF Nack, Kernel, ClientOK, Busy
  <2> QED
    BY <2>1, <2>2, LookKeeps DEF Nack
<1> QED
  BY <1>2, <1>3 DEF Nack

LEMMA ParkKeeps ==
    ASSUME Kernel, NEW c \in Clients, Park(c), unsent' = unsent, worked' = worked
    PROVE  Kernel'
<1>1. client[c] \in Client /\ client \in [Clients -> Client]
  BY DEF Kernel, QueueTypeOK
<1>2. /\ Alone(c) /\ client'[c].fd = client[c].fd /\ client'[c].pc = "load"
      /\ client'[c].cur = client[c].cur
  BY <1>1 DEF Park, Alone, Client
<1>3. ClientOK(c)'
  BY <1>2 DEF Park, Kernel, ClientOK, Busy
<1> QED
  BY <1>2, <1>3, LookKeeps DEF Park

LEMMA IdleKeeps ==
    ASSUME Kernel, NEW c \in Clients, Idle(c)
    PROVE  Kernel'
<1>1. client[c].fd = None
  BY NoneAssumption DEF Kernel, ClientOK, Idle
<1> QED
  BY <1>1, LeavesKeeps, LookKeeps DEF Idle

LEMMA StartKeeps ==
    ASSUME Kernel, NEW c \in Clients, Start(c)
    PROVE  Kernel'
BY ReapingKeeps DEF Start

LEMMA ReceiveKeeps ==
    ASSUME Kernel, NEW c \in Clients, Receive(c)
    PROVE  Kernel'
<1>1. client[c].pc = "top" /\ client[c].fd = None
  BY NoneAssumption DEF Kernel, ClientOK, Receive
<1>2. CASE Reaping(c, "reap")
  BY <1>1, <1>2, ReapingKeeps DEF Receive
<1>3. CASE Leaves(c, "done")
  BY <1>1, <1>3, LeavesKeeps, LookKeeps DEF Receive
<1> QED
  BY <1>2, <1>3 DEF Receive

LEMMA HandleKeeps ==
    ASSUME Kernel, NEW c \in Clients, Handle(c)
    PROVE  Kernel'
<1>1. client[c] \in Client /\ client \in [Clients -> Client]
  BY DEF Kernel, QueueTypeOK
<1>2. /\ Alone(c) /\ client'[c].fd = client[c].fd /\ client'[c].cur = client[c].cur
      /\ client'[c].pc \in {"ack", "park", "nack"}
      /\ client'[c].pc = "ack" => worked' = worked \cup {client[c].cur}
  BY <1>1 DEF Handle, Alone, Client
<1>3. ClientOK(c)' /\ worked \subseteq worked'
  BY <1>2 DEF Handle, Kernel, ClientOK, Busy
<1> QED
  BY <1>2, <1>3, LookKeeps DEF Handle

-----------------------------------------------------------------------------
(* The steps of a worker: those that rename or unlink.                      *)
LEMMA ReapMoveKeeps ==
    ASSUME Kernel, NEW c \in Clients, ReapMove(c), unsent' = unsent, worked' = worked
    PROVE  Kernel'
<1>1. client[c] \in Client /\ client \in [Clients -> Client] /\ DirsOK
  BY TypeSplit DEF Kernel, QueueTypeOK
<1>2. Alone(c) /\ client'[c].fd = client[c].fd /\ client'[c].pc = client[c].pc
  BY <1>1 DEF ReapMove, Alone, Client
<1>3. ClientOK(c)'
  BY <1>2 DEF ReapMove, Kernel, ClientOK, Busy
<1>4. Moves({}, {}) /\ Named' \subseteq Named
  BY <1>1, BackMoves, StillMoves DEF ReapMove
<1> QED
  BY <1>2, <1>3, <1>4, MoveKeeps DEF ReapMove

LEMMA ClaimKeeps ==
    ASSUME Kernel, NEW c \in Clients, NEW m \in Messages, Claim(c, m),
           unsent' = unsent, worked' = worked
    PROVE  Kernel'
<1>1. client[c] \in Client /\ client \in [Clients -> Client] /\ DirsOK
  BY TypeSplit DEF Kernel, QueueTypeOK
<1>2. /\ Alone(c) /\ client'[c].fd = client[c].fd
      /\ \/ client'[c].pc = "claim"
         \/ client'[c].pc = "load" /\ client'[c].cur = m /\ m \in DOMAIN ready
  BY <1>1 DEF Claim, Alone, Client
<1>3. ClientOK(c)'
  BY <1>2 DEF Claim, Kernel, ClientOK, Busy, Owed
<1>4. Moves({}, {}) /\ Named' \subseteq Named
  BY <1>1, TakenMoves, StillMoves DEF Claim
<1> QED
  BY <1>2, <1>3, <1>4, MoveKeeps DEF Claim

LEMMA ReturnKeeps ==
    ASSUME Kernel, NEW c \in Clients, Return(c), unsent' = unsent, worked' = worked
    PROVE  Kernel'
<1>1. DirsOK
  BY TypeSplit DEF Kernel
<1>2. Alone(c) /\ ClientOK(c)' /\ client'[c].fd = None
  BY LeavesKeeps DEF Return
<1>3. Moves({}, {}) /\ Named' \subseteq Named
  BY <1>1, BackMoves, StillMoves DEF Return
<1> QED
  BY <1>2, <1>3, MoveKeeps DEF Return

LEMMA UnlinkKeeps ==
    ASSUME Kernel, NEW c \in Clients, Unlink(c), unsent' = unsent, worked' = worked
    PROVE  Kernel'
<1> DEFINE m == client[c].cur
<1>1. DirsOK /\ m \in worked \cup Parked
  BY TypeSplit DEF Kernel, ClientOK, Unlink
<1>2. Alone(c) /\ ClientOK(c)' /\ client'[c].fd = None
  BY LeavesKeeps DEF Unlink
<1>3. inflight' = Without(inflight, {m}) /\ ready' = ready /\ dead' = dead
  BY DEF Unlink
<1>4. /\ DOMAIN inflight' = DOMAIN inflight \ {m} /\ DOMAIN inflight' \subseteq Messages
      /\ inflight' \in [DOMAIN inflight' -> Files] /\ Range(inflight') \subseteq Range(inflight)
  BY <1>1, <1>3 DEF DirsOK, Without, Range
<1>5. Moves({m}, {}) /\ Named' \subseteq Named
  BY <1>1, <1>3, <1>4 DEF Moves, DirsOK, Named, Owed, Parked
<1>6. {m} \subseteq worked' \cup Parked'
  BY <1>1, <1>3 DEF Parked
<1> QED
  BY <1>2, <1>5, <1>6, MoveKeeps DEF Unlink

LEMMA CrashKeeps ==
    ASSUME Kernel, NEW c \in Clients, Crash(c)
    PROVE  Kernel'
<1>1. DirsOK
  BY TypeSplit DEF Kernel
<1>2. Alone(c) /\ ClientOK(c)' /\ client'[c].fd = None
  BY LeavesKeeps DEF Crash
<1>3. Moves({}, {}) /\ Named' = Named
  BY <1>1, StillMoves DEF Crash
<1> QED
  BY <1>2, <1>3, MoveKeeps DEF Crash

-----------------------------------------------------------------------------
(* The steps of a worker: those that open or write a file.                  *)
LEMMA MoreFiles ==
    ASSUME FilesOK, NEW f, NEW y \in Content, file' = With(file, f, y),
           Named' \cup Opened' = Named \cup Opened \cup {f}
    PROVE  FilesOK'
BY DEF FilesOK, With

LEMMA OpenKeeps ==
    ASSUME Kernel, NEW c \in Clients, Open(c), unsent' = unsent, worked' = worked
    PROVE  Kernel'
<1> DEFINE m == client[c].cur
           target == IF client[c].doing = "park" THEN dead ELSE inflight
<1>1. /\ QueueTypeOK /\ DirsOK /\ FilesOK
      /\ client[c] \in Client /\ client \in [Clients -> Client]
      /\ client[c].pc = "open" /\ client[c].fd = None /\ m \in Messages \ unsent
  BY TypeSplit, NoneAssumption DEF Kernel, QueueTypeOK, ClientOK, Busy, Open
<1>2. PICK f \in Files :
        /\ Opening(c, f)
        /\ Moves({}, {m})
        /\ Named' \cup {f} = Named \cup {f}
        /\ client[c].doing = "park" => m \in Parked'
  <2>1. CASE m \in DOMAIN target
    <3>1. Opening(c, target[m]) /\ UNCHANGED dirs
      BY <2>1 DEF Open
    <3>2. target[m] \in Files
      BY <1>1, <2>1 DEF DirsOK
    <3>3. Moves({}, {m}) /\ Named' = Named
      BY <1>1, <3>1, StillMoves DEF Moves
    <3>4. client[c].doing = "park" => m \in Parked'
      BY <2>1, <3>1 DEF Parked, dirs
    <3> QED
      BY <3>1, <3>2, <3>3, <3>4
  <2>2. CASE m \notin DOMAIN target
    <3>1. Files \ InUse # {} /\ Opening(c, Blank)
      BY <2>2 DEF Open
    <3>2. Blank \in Files
      BY <3>1, BlankIsFree
    <3>3. CASE client[c].doing = "park"
      <4>1. dead' = With(dead, m, Blank) /\ UNCHANGED <<ready, inflight>> /\ m \notin DOMAIN dead
        BY <2>2, <3>3 DEF Open
      <4>2. /\ DOMAIN dead' = DOMAIN dead \cup {m} /\ DOMAIN dead' \subseteq Messages
            /\ dead' \in [DOMAIN dead' -> Files] /\ Range(dead') = Range(dead) \cup {Blank}
        BY <1>1, <3>2, <4>1 DEF DirsOK, With, Range
      <4>3. Moves({}, {m}) /\ Named' \cup {Blank} = Named \cup {Blank} /\ m \in Parked'
        BY <1>1, <4>1, <4>2 DEF Moves, DirsOK, Named, Owed, Parked
      <4> QED
        BY <3>1, <3>2, <4>3
    <3>4. CASE client[c].doing # "park"
      <4>1. /\ inflight' = With(inflight, m, Blank) /\ UNCHANGED <<ready, dead>>
            /\ m \notin DOMAIN inflight
        BY <2>2, <3>4 DEF Open
      <4>2. /\ DOMAIN inflight' = DOMAIN inflight \cup {m} /\ DOMAIN inflight' \subseteq Messages
            /\ inflight' \in [DOMAIN inflight' -> Files]
            /\ Range(inflight') = Range(inflight) \cup {Blank}
        BY <1>1, <3>2, <4>1 DEF DirsOK, With, Range
      <4>3. Moves({}, {m}) /\ Named' \cup {Blank} = Named \cup {Blank}
        BY <1>1, <4>1, <4>2 DEF Moves, DirsOK, Named, Owed, Parked
      <4> QED
        BY <3>1, <3>2, <3>4, <4>3
    <3> QED
      BY <3>3, <3>4
  <2> QED
    BY <2>1, <2>2
<1>3. /\ Alone(c) /\ client'[c].fd = f /\ client'[c].pc = "write"
      /\ client'[c].cur = m /\ client'[c].doing = client[c].doing
  BY <1>1, <1>2 DEF Opening, Alone, Client
<1>4. ClientOK(c)'
  BY <1>1, <1>2, <1>3, NoneAssumption DEF ClientOK, Busy
<1>5. Opened' = Opened \cup {f}
  BY <1>1, <1>3, FdOpens
<1>6. FilesOK'
  BY <1>1, <1>2, <1>5, MoreFiles, ContentsOK DEF Opening
<1> QED
  BY <1>1, <1>2, <1>3, <1>4, <1>6, StepOfOne

LEMMA WriteKeeps ==
    ASSUME Kernel, NEW c \in Clients, Write(c), unsent' = unsent, worked' = worked
    PROVE  Kernel'
<1> DEFINE f == client[c].fd
           files == [file EXCEPT ![f] = Written(client[c].attempts, client[c].shape, @)]
<1>1. /\ QueueTypeOK /\ DirsOK /\ FilesOK
      /\ client[c] \in Client /\ client \in [Clients -> Client]
      /\ client[c].pc = "write" /\ client[c].cur \in Messages \ unsent
      /\ client[c].doing = "park" => client[c].cur \in Parked
  BY TypeSplit DEF Kernel, QueueTypeOK, ClientOK, Busy, Write
<1>2. Moves({}, {}) /\ Named' = Named
  BY <1>1, StillMoves DEF Write
<1>3. /\ Alone(c) /\ client'[c].fd = None /\ client'[c].cur = client[c].cur
      /\ client'[c].pc \in {"handle", "return", "unlink"}
      /\ client'[c].pc = "unlink" => client[c].doing = "park"
  BY <1>1 DEF Write, Alone, Client
<1>4. ClientOK(c)'
  BY <1>1, <1>2, <1>3 DEF ClientOK, Busy, Moves
<1>5. Opened' \subseteq Opened
  BY <1>1, <1>3, FdClosed
<1>6. files \in [Named \cup Opened -> Content]
  BY <1>1, ContentsOK DEF FilesOK, Client
<1>7. FilesOK'
  BY <1>2, <1>5, <1>6, KeptFiles DEF Write
<1> QED
  BY <1>2, <1>3, <1>4, <1>7, StepOfOne

-----------------------------------------------------------------------------
(* What goes on around the workers.                                         *)
LEMMA PublishKeeps ==
    ASSUME Kernel, NEW m \in Messages, PublishNew(m)
    PROVE  Kernel'
<1>1. QueueTypeOK /\ DirsOK /\ FilesOK /\ m \in unsent /\ m \notin DOMAIN ready
  BY TypeSplit DEF Kernel, PublishNew, Owed
<1>2. /\ ready' = With(ready, m, Blank) /\ file' = With(file, Blank, Published)
      /\ UNCHANGED <<inflight, dead, client>> /\ unsent' = unsent \ {m} /\ worked' = worked
      /\ Blank \in Files
  BY BlankIsFree DEF PublishNew, Publish
<1>3. /\ DOMAIN ready' = DOMAIN ready \cup {m} /\ DOMAIN ready' \subseteq Messages
      /\ ready' \in [DOMAIN ready' -> Files] /\ Range(ready') = Range(ready) \cup {Blank}
  BY <1>1, <1>2 DEF DirsOK, With, Range
<1>4. DirsOK' /\ Named' = Named \cup {Blank} /\ Opened' = Opened
  BY <1>1, <1>2, <1>3 DEF DirsOK, Named, Opened
<1>5. FilesOK'
  BY <1>1, <1>2, <1>4, MoreFiles, ContentsOK
<1>6. QueueTypeOK'
  BY <1>1, <1>2, <1>4, <1>5 DEF QueueTypeOK, DirsOK, FilesOK, Named, Opened, InUse
<1>7. (unsent \cap (Owed \cup Parked) = {})' /\ NoMessageLost'
  BY <1>2, <1>3 DEF Kernel, NoMessageLost, Owed, Parked
<1>8. ASSUME NEW c \in Clients PROVE ClientOK(c)'
  BY <1>2 DEF Kernel, ClientOK, Parked
<1> QED
  BY <1>6, <1>7, <1>8 DEF Kernel

LEMMA AgesKeeps ==
    ASSUME Kernel, NEW m \in Messages, Ages(m)
    PROVE  Kernel'
<1>1. QueueTypeOK /\ DirsOK /\ FilesOK
  BY TypeSplit DEF Kernel
<1>2. UNCHANGED <<dirs, client, unsent, worked>>
  BY DEF Ages
<1>3. Named' = Named /\ Opened' = Opened /\ DirsOK'
  BY <1>1, <1>2 DEF dirs, Named, Opened, DirsOK
<1>4. ASSUME NEW f, file' = [file EXCEPT ![f].old = TRUE]
      PROVE  FilesOK'
  BY <1>1, <1>3, <1>4 DEF FilesOK, Content
<1>5. FilesOK'
  BY <1>4 DEF Ages
<1>6. QueueTypeOK'
  BY <1>1, <1>2, <1>3, <1>5 DEF QueueTypeOK, DirsOK, FilesOK, Named, Opened, InUse
<1> QED
  BY <1>2, <1>6 DEF Kernel, dirs, ClientOK, NoMessageLost, Owed, Parked

-----------------------------------------------------------------------------
LEMMA CallKeeps ==
    ASSUME Kernel, NEW c \in Clients, Call(c), unsent' = unsent, worked' = worked
    PROVE  Kernel'
BY ReapStatKeeps, ClaimKeeps, ReapMoveKeeps, ReapEndKeeps, ClaimNoneKeeps, LoadKeeps,
   OpenKeeps, WriteKeeps, NackKeeps, ReturnKeeps, ParkKeeps, UnlinkKeeps DEF Call

LEMMA WorkerKeeps ==
    ASSUME Kernel, NEW c \in Clients, Worker(c)
    PROVE  Kernel'
BY StartKeeps, ReceiveKeeps, IdleKeeps, HandleKeeps, CallKeeps DEF Worker, Called

-----------------------------------------------------------------------------
(* The variables around the queue, and the limit of consume().              *)
Around ==
    /\ unsent \subseteq Messages
    /\ left \in [Clients -> Nat]
    /\ signalled \subseteq Clients
    /\ faults \in Nat
    /\ handed \in [Messages -> Nat]
    /\ worked \subseteq Messages

Room == "max_messages" \in Options => \A c \in Clients : InReceive(c) => left[c] > 0

LEMMA Split ==
    /\ IndInv <=> Kernel /\ Around /\ Room
    /\ IndInv' <=> Kernel' /\ Around' /\ Room'
BY DEF IndInv, TypeOK, Kernel, Around, Room

LEMMA LeastType == \A a, b \in Nat : Least(a, b) \in Nat
BY DEF Least

(* Nobody gets into receive() by a call made inside it, and write() ends it. *)
LEMMA CallStaysIn ==
    ASSUME client \in [Clients -> Client], NEW c \in Clients, Call(c), InReceive(c)'
    PROVE  InReceive(c) /\ client[c].pc # "write"
<1> USE DEF InReceive, Client
<1>1. CASE \E m \in Messages : ReapStat(c, m)
  BY <1>1 DEF ReapStat
<1>2. CASE \E m \in Messages : Claim(c, m)
  BY <1>2 DEF Claim
<1>3. CASE ReapMove(c)
  BY <1>3 DEF ReapMove
<1>4. CASE ReapEnd(c)
  BY <1>4 DEF ReapEnd
<1>5. CASE Load(c)
  BY <1>5 DEF Load
<1>6. CASE Open(c)
  BY <1>6 DEF Open, Opening
<1>7. CASE Write(c)
  BY <1>7 DEF Write
<1>8. CASE Nack(c)
  BY <1>8 DEF Nack, Leaves, At
<1>9. CASE Park(c)
  BY <1>9 DEF Park
<1>10. CASE ClaimNone(c) \/ Return(c) \/ Unlink(c)
  BY <1>10 DEF ClaimNone, Return, Unlink, Leaves, At
<1> QED
  BY <1>1, <1>2, <1>3, <1>4, <1>5, <1>6, <1>7, <1>8, <1>9, <1>10 DEF Call

LEMMA CallIsAlone ==
    ASSUME client \in [Clients -> Client], NEW c \in Clients, Call(c)
    PROVE  \A d \in Clients \ {c} : client'[d] = client[d]
BY DEF Call, ReapStat, Claim, ReapMove, ReapEnd, ClaimNone, Load, Open, Opening, Write, Nack,
       Return, Park, Unlink, Leaves

LEMMA CalledAround ==
    ASSUME Kernel, Around, Room, NEW c \in Clients, Called(c)
    PROVE  Around' /\ Room'
<1>1. client \in [Clients -> Client] /\ client[c] \in Client /\ Call(c)
  BY DEF Kernel, QueueTypeOK, Called
<1>2. \A d \in Clients \ {c} : client'[d] = client[d] /\ left'[d] = left[d]
  BY <1>1, CallIsAlone DEF Called, Around
<1>3. CASE client[c].pc = "write" /\ client[c].doing = "claim"
  <2>1. /\ left' = [left EXCEPT ![c] = IF "max_messages" \in Options THEN @ - 1 ELSE @]
        /\ handed' = [handed EXCEPT ![client[c].cur] = Least(@ + 1, MaxAttempts + 1)]
        /\ UNCHANGED <<unsent, signalled, faults, worked>>
    BY <1>3 DEF Called
  <2>2. client[c].cur \in Messages
    BY <1>3 DEF Kernel, ClientOK, Busy
  <2>3. left[c] \in Nat /\ ("max_messages" \in Options => left[c] > 0)
    BY <1>3 DEF Around, Room, InReceive
  <2>4. handed' \in [Messages -> Nat]
    <3>1. /\ handed \in [Messages -> Nat] /\ handed[client[c].cur] + 1 \in Nat
          /\ MaxAttempts + 1 \in Nat
      BY <2>2, ConsumeAssumption DEF Around
    <3>2. Least(handed[client[c].cur] + 1, MaxAttempts + 1) \in Nat
      BY <3>1, LeastType
    <3> QED
      BY <2>1, <3>1, <3>2
  <2>5. left' \in [Clients -> Nat]
    BY <2>1, <2>3 DEF Around
  <2>6. Room'
    BY <1>1, <1>2, <1>3, CallStaysIn DEF Room, InReceive
  <2> QED
    BY <2>1, <2>4, <2>5, <2>6 DEF Around
<1>4. CASE ~(client[c].pc = "write" /\ client[c].doing = "claim")
  <2>1. UNCHANGED <<left, handed, unsent, signalled, faults, worked>>
    BY <1>4 DEF Called
  <2>2. Room'
    BY <1>1, <1>2, <2>1, CallStaysIn DEF Room, InReceive
  <2> QED
    BY <2>1, <2>2 DEF Around
<1> QED
  BY <1>3, <1>4

LEMMA WorkerAround ==
    ASSUME Kernel, Around, Room, NEW c \in Clients, Worker(c)
    PROVE  Around' /\ Room'
<1>1. client \in [Clients -> Client] /\ client[c] \in Client
  BY DEF Kernel, QueueTypeOK
<1>2. CASE Start(c)
  BY <1>1, <1>2, ConsumeAssumption DEF Start, Reaping, At, Around, Room, InReceive
<1>3. CASE Receive(c)
  <2>1. CASE MayReceive(c) /\ Reaping(c, "reap")
    BY <1>1, <1>3, <2>1 DEF Receive, MayReceive, Reaping, At, Around, Room, InReceive
  <2>2. CASE Leaves(c, "done")
    BY <1>1, <1>3, <2>2 DEF Receive, Leaves, At, Around, Room, InReceive
  <2> QED
    BY <1>3, <2>1, <2>2 DEF Receive
<1>4. CASE Idle(c)
  BY <1>1, <1>4 DEF Idle, Leaves, At, Around, Room, InReceive
<1>5. CASE Handle(c)
  <2>1. client[c].cur \in Messages
    BY <1>5 DEF Handle, Kernel, ClientOK, Busy
  <2>2. Room'
    BY <1>1, <1>5 DEF Handle, Client, Room, InReceive
  <2> QED
    BY <1>5, <2>1, <2>2 DEF Handle, Around
<1>6. CASE Called(c)
  BY <1>6, CalledAround
<1> QED
  BY <1>2, <1>3, <1>4, <1>5, <1>6 DEF Worker

-----------------------------------------------------------------------------
LEMMA InitHolds == Init => IndInv
<1> SUFFICES ASSUME Init PROVE IndInv
  OBVIOUS
<1>1. client \in [Clients -> Client] /\ \A c \in Clients : client[c] = At("down")
  BY AtIsClient DEF Init
<1>2. DirsOK /\ Named = {} /\ Owed \cup Parked = {}
  BY DEF Init, DirsOK, Named, Owed, Parked, Range
<1>3. Opened = {}
  BY <1>1, AtIsClient DEF Opened
<1>4. FilesOK
  BY <1>2, <1>3 DEF Init, FilesOK
<1>5. \A c \in Clients : ClientOK(c) /\ ~InReceive(c)
  BY <1>1, AtIsClient DEF ClientOK, Busy, InReceive
<1>6. Around
  BY ConsumeAssumption DEF Init, Around
<1> QED
  BY <1>1, <1>2, <1>4, <1>5, <1>6, TypeSplit, Split DEF Init, Kernel, NoMessageLost, Room

LEMMA NextKeeps == IndInv /\ [Next]_vars => IndInv'
<1> SUFFICES ASSUME IndInv, [Next]_vars PROVE IndInv'
  OBVIOUS
<1> USE Split
<1>1. ASSUME NEW c \in Clients, Worker(c) PROVE IndInv'
  BY <1>1, WorkerKeeps, WorkerAround
<1>2. ASSUME NEW c \in Clients, Signal(c) PROVE IndInv'
  BY <1>2 DEF Signal, queueVars, dirs, IndInv, TypeOK, QueueTypeOK, InUse, ClientOK,
              NoMessageLost, Owed, Parked, InReceive
<1>3. ASSUME NEW c \in Clients, Crash(c) PROVE IndInv'
  <2>1. Kernel'
    BY <1>3, CrashKeeps
  <2>2. Around'
    BY <1>3 DEF Crash, Fault, Around
  <2>3. Room'
    BY <1>3 DEF Kernel, QueueTypeOK, Crash, Leaves, At, Room, InReceive
  <2> QED
    BY <2>1, <2>2, <2>3
<1>4. ASSUME NEW m \in Messages, PublishNew(m) PROVE IndInv'
  <2>1. Kernel'
    BY <1>4, PublishKeeps
  <2>2. Around' /\ Room'
    BY <1>4 DEF PublishNew, Publish, Around, Room, InReceive
  <2> QED
    BY <2>1, <2>2
<1>5. ASSUME NEW m \in Messages, Ages(m) PROVE IndInv'
  <2>1. Kernel'
    BY <1>5, AgesKeeps
  <2>2. faults' \in Nat /\ UNCHANGED <<client, unsent, left, signalled, handed, worked>>
    BY <1>5 DEF Ages, Fault, Around
  <2>3. Around' /\ Room'
    BY <2>2 DEF Around, Room, InReceive
  <2> QED
    BY <2>1, <2>3
<1>6. CASE UNCHANGED vars
  BY <1>6 DEF vars, queueVars, dirs, IndInv, TypeOK, QueueTypeOK, InUse, ClientOK,
              NoMessageLost, Owed, Parked, InReceive
<1> QED
  BY <1>1, <1>2, <1>3, <1>4, <1>5, <1>6 DEF Next

(* For any number of workers, messages and faults: what a worker that is    *)
(* about to unlink a claim knows stays true whatever the others do to the   *)
(* name meanwhile (IndInv).                                                 *)
THEOREM InvariantHolds == Spec => []IndInv
BY InitHolds, NextKeeps, PTL DEF Spec

(* The types hold of the queue's files, of the workers' calls and of what   *)
(* consume() counts; no worker takes more than max_messages.                *)
THEOREM TypesHold == Spec => []TypeOK
<1>1. IndInv => TypeOK
  BY DEF IndInv
<1> QED
  BY <1>1, InvariantHolds, PTL

(* A published message is waiting, claimed, parked or worked off, however   *)
(* claims, reclaims, acks, crashes and lapsed deadlines interleave.         *)
THEOREM NoMessageIsLost == Spec => []NoMessageLost
<1>1. IndInv => NoMessageLost
  BY DEF IndInv
<1> QED
  BY <1>1, InvariantHolds, PTL

-----------------------------------------------------------------------------
(* Without faults, a message is at one place and each claim in one hand.     *)
FileOf(dir, m) == {dir[x] : x \in DOMAIN dir \cap {m}}
FilesOf(m) == FileOf(ready, m) \cup FileOf(inflight, m) \cup FileOf(dead, m)

(* A message in ready/ has a whole young file with the real count. *)
WaitsOK(m) ==
    /\ m \notin DOMAIN inflight \cup Parked
    /\ ~file[ready[m]].old /\ file[ready[m]].shape # "torn"
    /\ file[ready[m]].attempts = handed[m]
    /\ handed[m] < MaxAttempts

MessageOK(m) ==
    /\ m \in DOMAIN ready => WaitsOK(m)
    /\ m \in DOMAIN inflight => \E c \in Clients : client[c].cur = m
    /\ m \in Parked => handed[m] = MaxAttempts
    /\ m \in unsent => handed[m] = 0
    /\ handed[m] <= MaxAttempts

(* A claim stays where its worker left it, and what the worker knows of the  *)
(* deliveries made is the count in the file and the real one.               *)
HolderOK(c) ==
    LET k == client[c]
        m == k.cur
        f == file[inflight[m]]
        receiving == k.doing = "claim" /\ k.pc \in {"load", "open", "write"}
    IN  /\ m \in DOMAIN inflight /\ ~f.old
        /\ m \in Parked => k.doing = "park"
        /\ k.pc \in {"handle", "ack", "nack", "park"} => k.doing = "claim"
        /\ receiving => handed[m] < MaxAttempts
        /\ receiving /\ k.pc # "load" => k.attempts = handed[m] + 1
        /\ ~receiving => k.attempts = handed[m]
        /\ (receiving /\ k.pc = "load") \/ k.pc = "return" =>
                f.shape # "torn" /\ f.attempts = handed[m]
        /\ k.pc = "return" => k.doing = "nack"
        /\ k.pc = "unlink" => k.doing = "park"
        /\ k.doing = "nack" \/ k.pc = "nack" => handed[m] < MaxAttempts
        /\ k.doing = "park" \/ k.pc = "park" => handed[m] = MaxAttempts
        /\ k.pc = "write" /\ k.doing = "park" => m \in DOMAIN dead /\ k.fd = dead[m]
        /\ k.pc = "write" /\ k.doing # "park" => k.fd = inflight[m] /\ f.shape = "torn"

WorkerOK(c) ==
    /\ client[c].cur # None <=> client[c].pc \in Busy
    /\ client[c].pc \in Busy => HolderOK(c)
    /\ client[c].pc \in {"reap", "claim"} => client[c].doing = "claim"

CalmOK ==
    /\ \A m, x \in Messages : m # x => FilesOf(m) \cap FilesOf(x) = {}
    /\ \A m \in Messages : MessageOK(m)
    /\ \A c \in Clients : WorkerOK(c)
    /\ \A c, d \in Clients : client[c].cur = client[d].cur /\ client[c].cur # None => c = d

CalmInv == faults = 0 => CalmOK

(* A step that touches no name but m, and no worker but those in C. *)
Elsewhere(m) ==
    \A x \in Messages \ {m} :
        /\ handed'[x] = handed[x] /\ (x \in unsent' => x \in unsent)
        /\ x \in DOMAIN ready' <=> x \in DOMAIN ready
        /\ x \in DOMAIN inflight' <=> x \in DOMAIN inflight
        /\ x \in DOMAIN dead' <=> x \in DOMAIN dead
        /\ x \in DOMAIN ready => ready'[x] = ready[x] /\ file'[ready[x]] = file[ready[x]]
        /\ x \in DOMAIN inflight =>
                inflight'[x] = inflight[x] /\ file'[inflight[x]] = file[inflight[x]]
        /\ x \in DOMAIN dead => dead'[x] = dead[x]

LEMMA CalmStep ==
    ASSUME CalmOK, client \in [Clients -> Client],
           NEW m \in Messages, Elsewhere(m), MessageOK(m)',
           \A x \in Messages \ {m} : FilesOf(m)' \cap FilesOf(x) = {},
           NEW C \in SUBSET Clients, \A c, d \in C : c = d,
           \A c \in C : /\ client[c].cur \in {m, None} /\ client'[c].cur \in {m, None}
                        /\ WorkerOK(c)',
           \A d \in Clients \ C : client'[d] = client[d] /\ client[d].cur # m
    PROVE  CalmOK'
<1>1. \A x \in Messages \ {m} : FilesOf(x)' = FilesOf(x)
  BY DEF Elsewhere, FilesOf, FileOf
<1>2. \A a, b \in Messages : a # b => FilesOf(a)' \cap FilesOf(b)' = {}
  BY <1>1 DEF CalmOK
<1>3. ASSUME NEW x \in Messages \ {m} PROVE MessageOK(x)'
  <2>1. MessageOK(x)
    BY DEF CalmOK
  <2>2. x \in DOMAIN ready' => WaitsOK(x)'
    BY <2>1 DEF Elsewhere, MessageOK, WaitsOK, Parked
  <2>3. ASSUME x \in DOMAIN inflight' PROVE \E d \in Clients : client'[d].cur = x
    <3>1. PICK d \in Clients : client[d].cur = x
      BY <2>1, <2>3 DEF Elsewhere, MessageOK
    <3>2. d \notin C
      BY <3>1, NoneAssumption
    <3> QED
      BY <3>1, <3>2
  <2> QED
    BY <2>1, <2>2, <2>3 DEF Elsewhere, MessageOK, Parked
<1>4. ASSUME NEW d \in Clients \ C PROVE WorkerOK(d)'
  <2>1. WorkerOK(d) /\ client'[d] = client[d] /\ client[d] \in Client
    BY DEF CalmOK
  <2>2. CASE client[d].pc \notin Busy
    BY <2>1, <2>2 DEF WorkerOK
  <2>3. CASE client[d].pc \in Busy
    <3>1. PICK x \in Messages \ {m} : x = client[d].cur
      BY <2>1, <2>3 DEF WorkerOK, Client
    <3>2. HolderOK(d) /\ HolderOK(d)'
      BY <2>1, <2>3, <3>1 DEF WorkerOK, HolderOK, Elsewhere, Parked
    <3> QED
      BY <2>1, <2>3, <3>2 DEF WorkerOK
  <2> QED
    BY <2>2, <2>3
<1>5. \A c, d \in Clients : client'[c].cur = client'[d].cur /\ client'[c].cur # None => c = d
  BY DEF CalmOK
<1> QED
  BY <1>2, <1>3, <1>4, <1>5 DEF CalmOK

LEMMA CalmStepOf ==
    ASSUME CalmOK, client \in [Clients -> Client],
           NEW m \in Messages, Elsewhere(m), MessageOK(m)',
           \A x \in Messages \ {m} : FilesOf(m)' \cap FilesOf(x) = {},
           NEW c \in Clients, client[c].cur \in {m, None}, client'[c].cur \in {m, None},
           WorkerOK(c)',
           \A d \in Clients \ {c} : client'[d] = client[d] /\ client[d].cur # m
    PROVE  CalmOK'
<1>1. PICK C \in SUBSET Clients : C = {c}
  OBVIOUS
<1>2. /\ \A a, b \in C : a = b
      /\ \A a \in C : /\ client[a].cur \in {m, None} /\ client'[a].cur \in {m, None}
                      /\ WorkerOK(a)'
      /\ \A d \in Clients \ C : client'[d] = client[d] /\ client[d].cur # m
  BY <1>1
<1> QED
  BY <1>2, CalmStep

(* What a step that keeps the files leaves as it was. *)
LEMMA KeptSame ==
    ASSUME NEW files, Kept(files), NEW x
    PROVE  /\ x \in DOMAIN ready' => file'[ready'[x]] = files[ready'[x]]
           /\ x \in DOMAIN inflight' => file'[inflight'[x]] = files[inflight'[x]]
           /\ x \in DOMAIN dead' => file'[dead'[x]] = files[dead'[x]]
BY DEF Kept, Restrict, InUse, Range

(* A step that moves no name and writes no file. *)
LEMMA CalmLooks ==
    ASSUME CalmOK, NEW c \in Clients, Alone(c), client'[c].cur = client[c].cur, WorkerOK(c)',
           UNCHANGED <<dirs, handed, unsent>>, file' = file \/ Kept(file)
    PROVE  CalmOK'
<1>1. \A x \in Messages :
        /\ x \in DOMAIN ready => file'[ready[x]] = file[ready[x]]
        /\ x \in DOMAIN inflight => file'[inflight[x]] = file[inflight[x]]
  BY KeptSame DEF dirs
<1>2. /\ UNCHANGED <<ready, inflight, dead, handed, unsent>> /\ Parked' = Parked
      /\ \A d \in Clients : client'[d].cur = client[d].cur
  BY DEF dirs, Alone, Parked
<1>3. \A x \in Messages : FilesOf(x)' = FilesOf(x)
  BY <1>2 DEF FilesOf, FileOf
<1>4. \A x \in Messages : MessageOK(x)'
  BY <1>1, <1>2 DEF CalmOK, MessageOK, WaitsOK
<1>5. ASSUME NEW d \in Clients \ {c} PROVE WorkerOK(d)'
  <2>1. WorkerOK(d) /\ client'[d] = client[d]
    BY DEF CalmOK, Alone
  <2>2. client[d].pc \in Busy => HolderOK(d)'
    <3>1. SUFFICES ASSUME client[d].pc \in Busy PROVE HolderOK(d)'
      OBVIOUS
    <3>2. HolderOK(d) /\ client'[d].cur \in Messages
      BY <2>1, <3>1 DEF WorkerOK, Alone, Client
    <3> QED
      BY <1>1, <1>2, <2>1, <3>2 DEF HolderOK
  <2> QED
    BY <2>1, <2>2 DEF WorkerOK
<1> QED
  BY <1>2, <1>3, <1>4, <1>5 DEF CalmOK

-----------------------------------------------------------------------------
(* The steps of a worker in a calm system: those that look.                  *)
LEMMA CalmLeaves ==
    ASSUME CalmOK, Kernel, NEW c \in Clients, client[c].cur = None,
           NEW pc \in {"down", "top", "empty", "done"}, Leaves(c, pc),
           UNCHANGED <<dirs, file, handed, unsent>>
    PROVE  CalmOK'
<1>1. Alone(c) /\ client'[c] = At(pc)
  BY LeavesKeeps DEF Leaves, Kernel, QueueTypeOK
<1>2. At(pc).pc = pc /\ At(pc).cur = None
  BY AtIsClient
<1>3. WorkerOK(c)'
  BY <1>1, <1>2 DEF WorkerOK, Busy
<1> QED
  BY <1>1, <1>2, <1>3, CalmLooks

LEMMA CalmReaping ==
    ASSUME CalmOK, Kernel, NEW c \in Clients, client[c].cur = None,
           NEW pc \in {"depth", "reap"}, Reaping(c, pc),
           UNCHANGED <<dirs, file, handed, unsent>>
    PROVE  CalmOK'
<1>1. /\ client' = [client EXCEPT ![c] = [At(pc) EXCEPT !.names = DOMAIN inflight]]
      /\ client \in [Clients -> Client] /\ DOMAIN inflight \subseteq Messages
  BY DEF Reaping, Kernel, QueueTypeOK
<1>2. /\ client'[c] \in Client /\ client'[c].pc = pc /\ client'[c].cur = None
      /\ client'[c].doing = "claim" /\ Alone(c)
  BY <1>1 DEF At, Client, Alone
<1>3. WorkerOK(c)'
  BY <1>2 DEF WorkerOK, Busy
<1> QED
  BY <1>2, <1>3, CalmLooks

LEMMA CalmOuter ==
    ASSUME CalmOK, Kernel, NEW c \in Clients, Start(c) \/ Receive(c) \/ Idle(c)
    PROVE  CalmOK'
<1>1. client[c].cur = None /\ UNCHANGED <<dirs, file, handed, unsent>>
  BY DEF CalmOK, WorkerOK, Busy, Start, Receive, Idle
<1>2. \/ \E pc \in {"depth", "reap"} : Reaping(c, pc)
      \/ \E pc \in {"down", "top", "empty", "done"} : Leaves(c, pc)
  BY DEF Start, Receive, Idle
<1> QED
  BY <1>1, <1>2, CalmLeaves, CalmReaping

LEMMA CalmHandle ==
    ASSUME CalmOK, Kernel, Around, NEW c \in Clients, Handle(c)
    PROVE  CalmOK'
<1>1. /\ client[c] \in Client /\ client \in [Clients -> Client] /\ WorkerOK(c)
      /\ client[c].pc = "handle" /\ HolderOK(c) /\ client[c].doing = "claim"
      /\ client[c].cur \in Messages /\ MessageOK(client[c].cur)
  BY DEF Kernel, QueueTypeOK, CalmOK, Handle, WorkerOK, HolderOK, Busy, Client
<1>2. /\ UNCHANGED <<dirs, file, handed, unsent>>
      /\ UNCHANGED <<ready, inflight, dead>>
  BY DEF Handle, dirs
<1>3. PICK pc \in {"ack", "park", "nack"} :
        /\ client' = [client EXCEPT ![c].pc = pc]
        /\ pc = "park" => OutOfAttempts(c)
        /\ pc = "nack" => ~OutOfAttempts(c)
  BY DEF Handle
<1>4. /\ Alone(c) /\ client'[c].cur = client[c].cur /\ client'[c].pc = pc
      /\ client'[c].doing = "claim" /\ client'[c].attempts = client[c].attempts
      /\ client'[c].fd = client[c].fd
  BY <1>1, <1>3 DEF Alone, Client
<1>5. /\ handed[client[c].cur] \in Nat /\ handed[client[c].cur] <= MaxAttempts
      /\ client[c].attempts = handed[client[c].cur] /\ MaxAttempts \in Nat
  BY <1>1, ConsumeAssumption DEF HolderOK, MessageOK, Around
<1>6. /\ pc = "park" => handed[client[c].cur] = MaxAttempts
      /\ pc = "nack" => handed[client[c].cur] < MaxAttempts
  BY <1>3, <1>5 DEF OutOfAttempts
<1>7. HolderOK(c)'
  BY <1>1, <1>2, <1>4, <1>5, <1>6 DEF HolderOK, Parked
<1>8. WorkerOK(c)'
  BY <1>1, <1>3, <1>4, <1>7 DEF WorkerOK, Busy
<1> QED
  BY <1>2, <1>4, <1>8, CalmLooks

LEMMA CalmNames ==
    ASSUME CalmOK, Kernel, NEW c \in Clients,
           \/ \E m \in Messages : ReapStat(c, m)
           \/ ReapMove(c) \/ ReapEnd(c) \/ ClaimNone(c),
           UNCHANGED <<handed, unsent>>
    PROVE  CalmOK'
<1>1. /\ client[c] \in Client /\ client \in [Clients -> Client] /\ WorkerOK(c)
      /\ client[c].cur = None /\ client[c].pc \in {"depth", "reap", "claim"}
  BY DEF Kernel, QueueTypeOK, CalmOK, WorkerOK, Busy, ReapStat, ReapMove, ReapEnd, ClaimNone
<1>2. CASE ClaimNone(c)
  BY <1>1, <1>2, CalmLeaves DEF ClaimNone
<1>3. CASE ReapMove(c)
  BY <1>1, <1>3 DEF ReapMove
<1>4. ASSUME NEW m \in Messages, ReapStat(c, m) PROVE CalmOK'
  <2>1. ~Lapsed(m)
    <3>1. SUFFICES ASSUME m \in DOMAIN inflight PROVE ~file[inflight[m]].old
      BY DEF Lapsed
    <3>2. PICK d \in Clients : client[d].cur = m
      BY <3>1 DEF CalmOK, MessageOK
    <3>3. HolderOK(d)
      BY <3>2, NoneAssumption DEF CalmOK, WorkerOK
    <3> QED
      BY <3>2, <3>3 DEF HolderOK
  <2>2. /\ Alone(c) /\ client'[c].cur = None /\ client'[c].pc = client[c].pc
        /\ client'[c].doing = client[c].doing
    BY <1>1, <1>4, <2>1 DEF ReapStat, Alone, Client
  <2>3. WorkerOK(c)'
    BY <1>1, <2>2 DEF WorkerOK, Busy
  <2> QED
    BY <1>1, <1>4, <2>2, <2>3, CalmLooks DEF ReapStat
<1>5. CASE ReapEnd(c)
  <2>1. DOMAIN ready \subseteq Messages
    BY DEF Kernel, QueueTypeOK
  <2>2. /\ Alone(c) /\ client'[c].cur = None /\ client'[c].pc \in {"claim", "top"}
        /\ client'[c].pc = "claim" => client[c].pc = "reap"
        /\ client'[c].doing = client[c].doing
    BY <1>1, <1>5, <2>1 DEF ReapEnd, Alone, Client
  <2>3. WorkerOK(c)'
    BY <1>1, <2>2 DEF WorkerOK, Busy
  <2> QED
    BY <1>1, <1>5, <2>2, <2>3, CalmLooks DEF ReapEnd
<1> QED
  BY <1>2, <1>3, <1>4, <1>5

LEMMA CalmLoad ==
    ASSUME CalmOK, Kernel, NEW c \in Clients, Load(c) \/ Nack(c) \/ Park(c),
           UNCHANGED <<handed, unsent>>
    PROVE  CalmOK'
<1>1. /\ client[c] \in Client /\ client \in [Clients -> Client] /\ WorkerOK(c)
      /\ client[c].pc \in {"load", "nack", "park"} /\ HolderOK(c)
      /\ client[c].cur \in Messages
  BY DEF Kernel, QueueTypeOK, CalmOK, WorkerOK, Busy, Load, Nack, Park, Client
<1>2. /\ UNCHANGED <<dirs, file, handed, unsent>>
      /\ UNCHANGED <<ready, inflight, dead>>
  BY DEF Load, Nack, Park, dirs
<1>3. /\ client[c].cur \in DOMAIN inflight
      /\ file[inflight[client[c].cur]] \in Content
  BY <1>1 DEF HolderOK, Kernel, QueueTypeOK, InUse, Range
<1>4. /\ Alone(c) /\ client'[c].cur = client[c].cur
      /\ \/ /\ client[c].pc = "load" /\ client'[c].pc = "open"
            /\ client'[c].doing = client[c].doing
            /\ client'[c].attempts = IF client[c].doing = "claim"
                                     THEN file[inflight[client[c].cur]].attempts + 1
                                     ELSE client[c].attempts
         \/ /\ client[c].pc = "nack" /\ client'[c].pc = "load" /\ client'[c].doing = "nack"
            /\ client'[c].attempts = client[c].attempts
         \/ /\ client[c].pc = "park" /\ client'[c].pc = "load" /\ client'[c].doing = "park"
            /\ client'[c].attempts = client[c].attempts
  <2>1. CASE Load(c)
    BY <1>1, <1>3, <2>1 DEF Load, Counting, HolderOK, Alone, Client, Content
  <2>2. CASE Nack(c)
    BY <1>1, <1>3, <2>2 DEF Nack, Alone, Client
  <2>3. CASE Park(c)
    BY <1>1, <2>3 DEF Park, Alone, Client
  <2> QED
    BY <2>1, <2>2, <2>3
<1>5. HolderOK(c)'
  BY <1>1, <1>2, <1>3, <1>4 DEF HolderOK, Parked
<1>6. WorkerOK(c)'
  BY <1>1, <1>4, <1>5 DEF WorkerOK, Busy
<1> QED
  BY <1>2, <1>4, <1>6, CalmLooks

-----------------------------------------------------------------------------
(* Those that move a name or write a file.  The claim on m is in one hand,    *)
(* and no other name stands for the file of m.                              *)
LEMMA CalmHand ==
    ASSUME CalmOK, Kernel, Around, NEW c \in Clients, client[c].pc \in Busy,
           NEW m, m = client[c].cur
    PROVE  /\ m \in Messages /\ m \in DOMAIN inflight /\ m \notin DOMAIN ready
           /\ MessageOK(m) /\ HolderOK(c)
           /\ client[c] \in Client /\ client \in [Clients -> Client]
           /\ handed[m] \in Nat /\ m \notin unsent
           /\ inflight[m] \in DOMAIN file /\ file[inflight[m]] \in Content
           /\ \A d \in Clients \ {c} : client[d].cur # m
           /\ \A x \in Messages \ {m} : FilesOf(m) \cap FilesOf(x) = {}
<1>1. /\ client[c] \in Client /\ client \in [Clients -> Client] /\ WorkerOK(c) /\ HolderOK(c)
      /\ m \in Messages /\ m # None /\ m \notin unsent
  BY NoneAssumption DEF Kernel, QueueTypeOK, CalmOK, WorkerOK, Client, ClientOK
<1>2. /\ m \in DOMAIN inflight /\ MessageOK(m) /\ handed[m] \in Nat
  BY <1>1 DEF HolderOK, CalmOK, Around
<1>3. m \notin DOMAIN ready
  BY <1>2 DEF MessageOK, WaitsOK
<1>4. inflight[m] \in DOMAIN file /\ file[inflight[m]] \in Content
  BY <1>2 DEF Kernel, QueueTypeOK, InUse, Range
<1>5. /\ \A d \in Clients \ {c} : client[d].cur # m
      /\ \A x \in Messages \ {m} : FilesOf(m) \cap FilesOf(x) = {}
  BY <1>1 DEF CalmOK
<1> QED
  BY <1>1, <1>2, <1>3, <1>4, <1>5

LEMMA CalmClaim ==
    ASSUME CalmOK, Kernel, NEW c \in Clients, NEW m \in Messages, Claim(c, m),
           UNCHANGED <<handed, unsent>>
    PROVE  CalmOK'
<1>1. /\ client[c] \in Client /\ client \in [Clients -> Client] /\ WorkerOK(c)
      /\ client[c].cur = None /\ client[c].pc = "claim" /\ client[c].doing = "claim"
  BY DEF Kernel, QueueTypeOK, CalmOK, WorkerOK, Busy, Claim
<1>2. CASE m \notin DOMAIN ready
  <2>1. /\ Alone(c) /\ client'[c].cur = None /\ client'[c].pc = "claim"
        /\ client'[c].doing = "claim" /\ UNCHANGED dirs /\ Kept(file)
    BY <1>1, <1>2 DEF Claim, Alone, Client
  <2>2. WorkerOK(c)'
    BY <2>1 DEF WorkerOK, Busy
  <2> QED
    BY <1>1, <2>1, <2>2, CalmLooks
<1>3. CASE m \in DOMAIN ready
  <2>1. /\ Taken(m) /\ Kept(file)
        /\ client' = [client EXCEPT ![c].pc = "load", ![c].cur = m, ![c].names = @ \ {m}]
    BY <1>3 DEF Claim
  <2>2. /\ \A d \in Clients \ {c} : client'[d] = client[d]
        /\ client'[c].pc = "load" /\ client'[c].cur = m /\ client'[c].doing = "claim"
        /\ client'[c].attempts = client[c].attempts
    BY <1>1, <2>1 DEF Client
  <2>3. /\ DOMAIN ready' = DOMAIN ready \ {m} /\ DOMAIN inflight' = DOMAIN inflight \cup {m}
        /\ \A x \in DOMAIN ready' : ready'[x] = ready[x]
        /\ \A x \in DOMAIN inflight' : inflight'[x] = IF x = m THEN ready[m] ELSE inflight[x]
        /\ dead' = dead /\ Parked' = Parked
    BY <2>1 DEF Taken, With, Without, Parked
  <2>4. Elsewhere(m)
    BY <2>1, <2>3, KeptSame DEF Elsewhere
  <2>5. MessageOK(m) /\ WaitsOK(m)
    BY <1>3 DEF CalmOK, MessageOK
  <2>6. file'[inflight'[m]] = file[ready[m]]
    BY <2>1, <2>3, KeptSame
  <2>7. MessageOK(m)'
    BY <2>2, <2>3, <2>5 DEF MessageOK
  <2>8. HolderOK(c)'
    BY <2>2, <2>3, <2>5, <2>6 DEF HolderOK, WaitsOK
  <2>9. WorkerOK(c)'
    BY <2>2, <2>8, NoneAssumption DEF WorkerOK, Busy
  <2>10. FilesOf(m)' \subseteq FilesOf(m)
    BY <1>3, <2>3 DEF FilesOf, FileOf
  <2>11. \A d \in Clients \ {c} : client[d].cur # m
    <3>1. ASSUME NEW d \in Clients, client[d].cur = m PROVE FALSE
      <4>1. HolderOK(d)
        BY <3>1, NoneAssumption DEF CalmOK, WorkerOK
      <4> QED
        BY <2>5, <3>1, <4>1 DEF HolderOK, WaitsOK
    <3> QED
      BY <3>1
  <2>12. \A x \in Messages \ {m} : FilesOf(m)' \cap FilesOf(x) = {}
    BY <2>10 DEF CalmOK
  <2> QED
    BY <1>1, <2>2, <2>4, <2>7, <2>9, <2>11, <2>12, CalmStepOf
<1> QED
  BY <1>2, <1>3

LEMMA CalmOpen ==
    ASSUME CalmOK, Kernel, Around, NEW c \in Clients, Open(c),
           UNCHANGED <<handed, unsent>>
    PROVE  CalmOK'
<1>1. PICK m : m = client[c].cur
  OBVIOUS
<1>2. client[c].pc = "open" /\ client[c].pc \in Busy
  BY DEF Open, Busy
<1>3. /\ m \in Messages /\ m \in DOMAIN inflight /\ m \notin DOMAIN ready
      /\ MessageOK(m) /\ HolderOK(c)
      /\ client[c] \in Client /\ client \in [Clients -> Client]
      /\ \A d \in Clients \ {c} : client[d].cur # m
      /\ \A x \in Messages \ {m} : FilesOf(m) \cap FilesOf(x) = {}
  BY <1>1, <1>2, CalmHand
<1>4. PICK f : /\ Opening(c, f) /\ ready' = ready /\ inflight' = inflight
               /\ \/ /\ client[c].doing # "park" /\ f = inflight[m] /\ dead' = dead
                  \/ /\ client[c].doing = "park" /\ m \in DOMAIN dead /\ f = dead[m]
                     /\ dead' = dead
                  \/ /\ client[c].doing = "park" /\ f \notin InUse /\ dead' = With(dead, m, f)
  BY <1>1, <1>3 DEF Open, dirs, Blank
<1>5. /\ \A d \in Clients \ {c} : client'[d] = client[d]
      /\ client'[c].pc = "write" /\ client'[c].cur = m /\ client'[c].fd = f
      /\ client'[c].doing = client[c].doing /\ client'[c].attempts = client[c].attempts
  BY <1>1, <1>3, <1>4 DEF Opening, Client
<1>6. /\ \A g \in DOMAIN file : g # f => file'[g] = file[g]
      /\ file'[f] = Truncated
  BY <1>4 DEF Opening, With
<1>7. \A x \in Messages \ {m} : f \notin FilesOf(x) /\ FilesOf(x) \subseteq DOMAIN file
  <2>1. \A x \in Messages : FilesOf(x) \subseteq InUse
    BY DEF FilesOf, FileOf, InUse, Range
  <2>2. f \in FilesOf(m) \/ f \notin InUse
    BY <1>3, <1>4 DEF FilesOf, FileOf
  <2> QED
    BY <1>3, <2>1, <2>2 DEF Kernel, QueueTypeOK
<1>8. Elsewhere(m)
  <2>1. \A x \in Messages \ {m} :
            /\ x \in DOMAIN dead' <=> x \in DOMAIN dead
            /\ x \in DOMAIN dead => dead'[x] = dead[x]
    BY <1>4 DEF With
  <2> QED
    BY <1>4, <1>6, <1>7, <2>1 DEF Elsewhere, FilesOf, FileOf
<1>9. DOMAIN dead' \subseteq DOMAIN dead \cup {m}
  BY <1>4 DEF With
<1>10. client[c].doing = "park" => m \in DOMAIN dead' /\ dead'[m] = f
  BY <1>4 DEF With
<1>11. MessageOK(m)'
  BY <1>1, <1>2, <1>3, <1>4, <1>5, <1>9 DEF MessageOK, HolderOK, Parked
<1>12. ~file'[inflight[m]].old
  <2>1. inflight[m] \in DOMAIN file
    BY <1>3 DEF Kernel, QueueTypeOK, InUse, Range
  <2> QED
    BY <1>1, <1>3, <1>6, <2>1 DEF HolderOK, Truncated
<1>13. HolderOK(c)'
  <2>1. client[c].doing # "park" => dead' = dead /\ f = inflight[m]
    BY <1>4
  <2> QED
    BY <1>1, <1>2, <1>3, <1>4, <1>5, <1>6, <1>10, <1>12, <2>1
       DEF HolderOK, Parked, Truncated
<1>14. WorkerOK(c)'
  BY <1>3, <1>5, <1>13, NoneAssumption DEF WorkerOK, Busy
<1>15. \A x \in Messages \ {m} : FilesOf(m)' \cap FilesOf(x) = {}
  <2>1. FilesOf(m)' \subseteq FilesOf(m) \cup {f}
    BY <1>3, <1>4 DEF FilesOf, FileOf, With
  <2> QED
    BY <1>3, <1>7, <2>1
<1> QED
  BY <1>1, <1>3, <1>5, <1>8, <1>11, <1>14, <1>15, CalmStepOf

LEMMA CalmWrite ==
    ASSUME CalmOK, Kernel, Around, NEW c \in Clients, Write(c), Called(c)
    PROVE  CalmOK'
<1>1. PICK m : m = client[c].cur
  OBVIOUS
<1>2. client[c].pc = "write" /\ client[c].pc \in Busy
  BY DEF Write, Busy
<1>3. /\ m \in Messages /\ m \in DOMAIN inflight /\ m \notin DOMAIN ready
      /\ MessageOK(m) /\ HolderOK(c) /\ handed[m] \in Nat /\ m \notin unsent
      /\ client[c] \in Client /\ client \in [Clients -> Client]
      /\ inflight[m] \in DOMAIN file /\ file[inflight[m]] \in Content
      /\ \A d \in Clients \ {c} : client[d].cur # m
      /\ \A x \in Messages \ {m} : FilesOf(m) \cap FilesOf(x) = {}
  BY <1>1, <1>2, CalmHand
<1>4. PICK f, k, shape, files :
        /\ f = client[c].fd /\ k = client[c].attempts /\ shape = client[c].shape
        /\ files = [file EXCEPT ![f] = Written(k, shape, @)]
  OBVIOUS
<1>5. /\ Kept(files) /\ UNCHANGED <<ready, inflight, dead, unsent>> /\ Parked' = Parked
  BY <1>4 DEF Write, Called, dirs, Parked
<1>6. /\ \A d \in Clients \ {c} : client'[d] = client[d]
      /\ client'[c].pc = CASE client[c].doing = "claim" -> "handle"
                           [] client[c].doing = "nack"  -> "return"
                           [] client[c].doing = "park"  -> "unlink"
      /\ client'[c].cur = m /\ client'[c].doing = client[c].doing
      /\ client'[c].attempts = k
  BY <1>1, <1>3, <1>4 DEF Write, Client
<1>7. /\ k \in Nat /\ shape \in {"full", "bare"}
      /\ client[c].doing \in {"claim", "nack", "park"}
  BY <1>3, <1>4 DEF Client
<1>8. f \in FilesOf(m)
  BY <1>1, <1>2, <1>3, <1>4 DEF HolderOK, FilesOf, FileOf
<1>9. /\ \A g \in DOMAIN file : g # f => files[g] = file[g]
      /\ f \in DOMAIN file => files[f] = Written(k, shape, file[f])
  BY <1>4
<1>10. \A x \in Messages \ {m} : f \notin FilesOf(x) /\ FilesOf(x) \subseteq DOMAIN file
  <2>1. \A x \in Messages : FilesOf(x) \subseteq InUse
    BY DEF FilesOf, FileOf, InUse, Range
  <2> QED
    BY <1>3, <1>8, <2>1 DEF Kernel, QueueTypeOK
<1>11. /\ \A x \in Messages \ {m} : handed'[x] = handed[x]
       /\ handed'[m] = IF client[c].doing = "claim" THEN Least(handed[m] + 1, MaxAttempts + 1)
                       ELSE handed[m]
  BY <1>1, <1>2, <1>3 DEF Called, Around
<1>12. Elsewhere(m)
  <2>1. \A x \in Messages \ {m} :
            /\ x \in DOMAIN ready => file'[ready[x]] = file[ready[x]]
            /\ x \in DOMAIN inflight => file'[inflight[x]] = file[inflight[x]]
    BY <1>5, <1>9, <1>10, KeptSame DEF FilesOf, FileOf
  <2> QED
    BY <1>5, <1>11, <2>1 DEF Elsewhere
<1>13. client[c].doing = "claim" =>
            /\ handed[m] < MaxAttempts /\ k = handed[m] + 1
            /\ m \notin Parked
  BY <1>1, <1>2, <1>3, <1>4 DEF HolderOK
<1>14. /\ client[c].doing = "claim" => handed'[m] = handed[m] + 1
       /\ handed'[m] = k /\ handed'[m] <= MaxAttempts
  <2>1. client[c].doing # "claim" => k = handed[m]
    BY <1>1, <1>2, <1>3, <1>4 DEF HolderOK
  <2>2. handed[m] <= MaxAttempts /\ MaxAttempts \in Nat
    BY <1>3, ConsumeAssumption DEF MessageOK
  <2> QED
    BY <1>3, <1>11, <1>13, <2>1, <2>2 DEF Least
<1>15. MessageOK(m)'
  <2>1. m \in Parked => handed'[m] = MaxAttempts
    BY <1>3, <1>11, <1>13 DEF MessageOK
  <2> QED
    BY <1>3, <1>5, <1>6, <1>14, <2>1 DEF MessageOK
<1>16. /\ ~file'[inflight[m]].old
       /\ client[c].doing = "nack" => file'[inflight[m]].shape # "torn"
                                      /\ file'[inflight[m]].attempts = k
  <2>1. file'[inflight[m]] = files[inflight[m]]
    BY <1>3, <1>5, KeptSame
  <2>2. CASE f = inflight[m]
    <3>1. file'[inflight[m]] = Written(k, shape, file[f])
      BY <1>3, <1>9, <2>1, <2>2
    <3>2. client[c].doing = "nack" => file[f].shape = "torn"
      BY <1>1, <1>2, <1>3, <2>2 DEF HolderOK
    <3> QED
      BY <1>7, <3>1, <3>2 DEF Written
  <2>3. CASE f # inflight[m]
    <3>1. file'[inflight[m]] = file[inflight[m]]
      BY <1>3, <1>9, <2>1, <2>3
    <3>2. client[c].doing = "park"
      BY <1>1, <1>2, <1>3, <1>4, <2>3 DEF HolderOK
    <3> QED
      BY <1>1, <1>3, <3>1, <3>2 DEF HolderOK
  <2> QED
    BY <2>2, <2>3
<1>17. /\ client[c].doing = "nack" => handed'[m] < MaxAttempts
       /\ client[c].doing = "park" => handed'[m] = MaxAttempts
  BY <1>1, <1>3, <1>11 DEF HolderOK
<1>18. HolderOK(c)'
  <2>1. m \in Parked => client[c].doing = "park"
    BY <1>1, <1>3 DEF HolderOK
  <2> QED
    BY <1>3, <1>5, <1>6, <1>7, <1>14, <1>16, <1>17, <2>1 DEF HolderOK
<1>19. WorkerOK(c)'
  BY <1>3, <1>6, <1>7, <1>18, NoneAssumption DEF WorkerOK, Busy
<1>20. FilesOf(m)' = FilesOf(m)
  BY <1>5 DEF FilesOf, FileOf
<1> QED
  BY <1>1, <1>3, <1>6, <1>12, <1>15, <1>19, <1>20, CalmStepOf

LEMMA CalmReturn ==
    ASSUME CalmOK, Kernel, Around, NEW c \in Clients, Return(c) \/ Unlink(c),
           UNCHANGED <<handed, unsent>>
    PROVE  CalmOK'
<1>1. PICK m : m = client[c].cur
  OBVIOUS
<1>2. client[c].pc \in {"return", "ack", "unlink"} /\ client[c].pc \in Busy
  BY DEF Return, Unlink, Busy
<1>3. /\ m \in Messages /\ m \in DOMAIN inflight /\ m \notin DOMAIN ready
      /\ MessageOK(m) /\ HolderOK(c) /\ m \notin unsent
      /\ client[c] \in Client /\ client \in [Clients -> Client]
      /\ \A d \in Clients \ {c} : client[d].cur # m
      /\ \A x \in Messages \ {m} : FilesOf(m) \cap FilesOf(x) = {}
  BY <1>1, <1>2, CalmHand
<1>4. /\ Leaves(c, "top") /\ Kept(file)
      /\ inflight' = Without(inflight, {m}) /\ dead' = dead
      /\ \/ client[c].pc = "return" /\ ready' = With(ready, m, inflight[m])
         \/ client[c].pc \in {"ack", "unlink"} /\ ready' = ready
  BY <1>1, <1>3 DEF Return, Unlink, Back
<1>5. /\ client'[c].pc = "top" /\ client'[c].cur = None
      /\ \A d \in Clients \ {c} : client'[d] = client[d]
  BY <1>3, <1>4 DEF Leaves, At
<1>6. /\ DOMAIN inflight' = DOMAIN inflight \ {m}
      /\ \A x \in DOMAIN inflight' : inflight'[x] = inflight[x]
      /\ DOMAIN ready' \subseteq DOMAIN ready \cup {m} /\ DOMAIN ready \subseteq DOMAIN ready'
      /\ \A x \in DOMAIN ready' : ready'[x] = IF x = m THEN inflight[m] ELSE ready[x]
      /\ dead' = dead /\ Parked' = Parked
  BY <1>3, <1>4 DEF With, Without, Parked
<1>7. Elsewhere(m)
  BY <1>4, <1>6, KeptSame DEF Elsewhere
<1>8. MessageOK(m)'
  <2>1. ASSUME m \in DOMAIN ready' PROVE WaitsOK(m)'
    <3>1. client[c].pc = "return"
      BY <1>3, <1>4, <2>1
    <3>2. file'[ready'[m]] = file[inflight[m]]
      BY <1>4, <1>6, <2>1, KeptSame
    <3> QED
      BY <1>1, <1>3, <1>6, <3>1, <3>2 DEF WaitsOK, HolderOK
  <2> QED
    BY <1>3, <1>6, <2>1 DEF MessageOK
<1>9. WorkerOK(c)'
  BY <1>5 DEF WorkerOK, Busy
<1>10. FilesOf(m)' \subseteq FilesOf(m)
  BY <1>3, <1>6 DEF FilesOf, FileOf
<1> QED
  BY <1>1, <1>3, <1>5, <1>7, <1>8, <1>9, <1>10, CalmStepOf

LEMMA CalmPublish ==
    ASSUME CalmOK, Kernel, Around, NEW m \in Messages, PublishNew(m)
    PROVE  CalmOK'
<1>1. /\ m \in unsent /\ unsent' = unsent \ {m} /\ Files \ InUse # {}
      /\ ready' = With(ready, m, Blank) /\ file' = With(file, Blank, Published)
      /\ inflight' = inflight /\ dead' = dead /\ client' = client /\ handed' = handed
  BY DEF PublishNew, Publish
<1>2. PICK f : f = Blank
  OBVIOUS
<1>3. f \notin InUse /\ DOMAIN file = InUse
  BY <1>1, <1>2 DEF Blank, Kernel, QueueTypeOK
<1>4. m \notin DOMAIN ready /\ m \notin DOMAIN inflight /\ m \notin Parked
  BY <1>1 DEF Kernel, Owed
<1>5. /\ DOMAIN ready' = DOMAIN ready \cup {m} /\ ready'[m] = f
      /\ \A x \in DOMAIN ready : ready'[x] = ready[x]
      /\ \A g \in DOMAIN file : file'[g] = file[g]
      /\ file'[f] = Published
  BY <1>1, <1>2, <1>3, <1>4 DEF With
<1>6. \A x \in Messages : FilesOf(x) \subseteq InUse
  BY DEF FilesOf, FileOf, InUse, Range
<1>7. Elsewhere(m)
  <2>1. \A x \in Messages :
            /\ x \in DOMAIN ready => ready[x] \in DOMAIN file
            /\ x \in DOMAIN inflight => inflight[x] \in DOMAIN file
    BY <1>3 DEF InUse, Range
  <2> QED
    BY <1>1, <1>5, <2>1 DEF Elsewhere
<1>8. MessageOK(m)'
  <2>1. MessageOK(m) /\ handed[m] = 0 /\ 0 < MaxAttempts
    BY <1>1, ConsumeAssumption DEF CalmOK, MessageOK
  <2>2. WaitsOK(m)'
    BY <1>1, <1>4, <1>5, <2>1 DEF WaitsOK, Published, Parked
  <2> QED
    BY <1>1, <1>4, <2>1, <2>2 DEF MessageOK, Parked
<1>9. \A x \in Messages \ {m} : FilesOf(m)' \cap FilesOf(x) = {}
  <2>1. FilesOf(m)' = {f}
    BY <1>1, <1>4, <1>5 DEF FilesOf, FileOf, Parked
  <2> QED
    BY <1>3, <1>6, <2>1
<1>10. \A d \in Clients : client[d].cur # m
  <2>1. ASSUME NEW d \in Clients, client[d].cur = m PROVE FALSE
    <3>1. HolderOK(d)
      BY <2>1, NoneAssumption DEF CalmOK, WorkerOK
    <3> QED
      BY <1>4, <2>1, <3>1 DEF HolderOK
  <2> QED
    BY <2>1
<1>11. PICK C \in SUBSET Clients : C = {}
  OBVIOUS
<1>12. /\ \A c, d \in C : c = d
       /\ \A c \in C : /\ client[c].cur \in {m, None} /\ client'[c].cur \in {m, None}
                       /\ WorkerOK(c)'
       /\ \A d \in Clients \ C : client'[d] = client[d] /\ client[d].cur # m
  BY <1>1, <1>10, <1>11
<1> QED
  BY <1>7, <1>8, <1>9, <1>12, CalmStep DEF Kernel, QueueTypeOK

-----------------------------------------------------------------------------
LEMMA CalmInit == Init => CalmInv
<1> SUFFICES ASSUME Init PROVE CalmOK
  BY DEF CalmInv
<1>1. /\ DOMAIN ready = {} /\ DOMAIN inflight = {} /\ DOMAIN dead = {}
      /\ \A m \in Messages : handed[m] = 0
      /\ \A c \in Clients : client[c].cur = None /\ client[c].pc = "down"
  BY DEF Init, At
<1> QED
  BY <1>1, ConsumeAssumption
     DEF CalmOK, FilesOf, FileOf, MessageOK, WorkerOK, Busy, Parked

LEMMA CalmNext == IndInv /\ CalmInv /\ [Next]_vars => CalmInv'
<1> SUFFICES ASSUME IndInv, CalmInv, [Next]_vars, faults' = 0 PROVE CalmOK'
  BY DEF CalmInv
<1>1. Kernel /\ Around
  BY Split
<1>2. faults = 0 /\ CalmOK
  <2>1. faults' = faults \/ faults' = faults + 1
    BY DEF Next, Worker, Start, Receive, Idle, Handle, Called, Signal, Crash, PublishNew,
       Ages, Fault, vars
  <2> QED
    BY <1>1, <2>1 DEF Around, CalmInv
<1>3. \A kind : ~Fault(kind)
  BY <1>2 DEF Fault
<1>4. ASSUME NEW c \in Clients, Called(c) PROVE CalmOK'
  <2>1. CASE Write(c)
    BY <1>1, <1>2, <1>4, <2>1, CalmWrite
  <2>2. CASE client[c].pc # "write"
    <3>1. UNCHANGED <<handed, unsent>> /\ Call(c)
      BY <1>4, <2>2 DEF Called
    <3>2. ~Write(c)
      BY <2>2 DEF Write
    <3> QED
      BY <1>1, <1>2, <3>1, <3>2, CalmNames, CalmClaim, CalmLoad, CalmOpen, CalmReturn
         DEF Call
  <2>3. client[c].pc = "write" => Write(c)
    BY <1>4 DEF Called, Call, ReapStat, Claim, ReapMove, ReapEnd, ClaimNone, Load, Open,
       Nack, Return, Park, Unlink
  <2> QED
    BY <2>1, <2>2, <2>3
<1>5. ASSUME NEW c \in Clients, Worker(c) PROVE CalmOK'
  BY <1>1, <1>2, <1>4, <1>5, CalmOuter, CalmHandle DEF Worker
<1>6. ASSUME NEW m \in Messages, Ages(m) PROVE FALSE
  <2>1. m \in DOMAIN inflight /\ ~\E c \in Clients : Holds(c, m)
    BY <1>3, <1>6 DEF Ages
  <2>2. PICK c \in Clients : client[c].cur = m
    BY <1>2, <2>1 DEF CalmOK, MessageOK
  <2>3. client[c].pc \in Busy
    BY <1>2, <2>2, NoneAssumption DEF CalmOK, WorkerOK
  <2> QED
    BY <2>1, <2>2, <2>3 DEF Holds, Busy
<1>7. ASSUME NEW m \in Messages, PublishNew(m) PROVE CalmOK'
  BY <1>1, <1>2, <1>7, CalmPublish
<1>8. CASE (\E c \in Clients : Signal(c)) \/ UNCHANGED vars
  <2>1. UNCHANGED <<queueVars, handed, unsent>>
    BY <1>8 DEF Signal, vars
  <2> QED
    BY <1>2, <2>1 DEF queueVars, dirs, CalmOK, FilesOf, FileOf, MessageOK, WaitsOK,
       WorkerOK, HolderOK, Parked
<1> QED
  BY <1>3, <1>5, <1>6, <1>7, <1>8 DEF Next, Crash

LEMMA CalmHolds == Spec => []CalmInv
BY CalmInit, CalmNext, InvariantHolds, PTL DEF Spec

(* As long as nobody dies and no deadline passes, each claimed message is    *)
(* with exactly one worker from the rename to the settlement, for any       *)
(* number of workers racing for the same names.                             *)
THEOREM ClaimsAreExclusive == Spec => []Exclusive
<1>1. IndInv /\ CalmInv => Exclusive
  <2> SUFFICES ASSUME IndInv, CalmOK
               PROVE  /\ \A c, d \in Clients, m \in Messages :
                            Holds(c, m) /\ Holds(d, m) => c = d
                      /\ DOMAIN inflight = {m \in Messages : \E c \in Clients : Holds(c, m)}
    BY DEF Exclusive, CalmInv
  <2>1. ASSUME NEW c \in Clients, NEW m \in Messages
        PROVE  /\ Holds(c, m) <=> client[c].cur = m
               /\ Holds(c, m) => m \in DOMAIN inflight
    BY <2>1, NoneAssumption DEF CalmOK, WorkerOK, HolderOK, Holds, Busy
  <2>2. \A c, d \in Clients, m \in Messages : Holds(c, m) /\ Holds(d, m) => c = d
    BY <2>1, NoneAssumption DEF CalmOK
  <2>3. DOMAIN inflight \subseteq Messages
    BY DEF IndInv, TypeOK, QueueTypeOK
  <2>4. \A m \in DOMAIN inflight : \E c \in Clients : Holds(c, m)
    BY <2>1, <2>3 DEF CalmOK, MessageOK
  <2> QED
    BY <2>1, <2>2, <2>3, <2>4
<1> QED
  BY <1>1, InvariantHolds, CalmHolds, PTL

(* As long as nobody dies and no deadline passes, the count a worker sees is  *)
(* the number of deliveries, and a message is parked after exactly          *)
(* max_attempts of them.                                                    *)
THEOREM CountsAreReal == Spec => []AttemptsReal
<1>1. IndInv /\ CalmInv => AttemptsReal
  <2> SUFFICES ASSUME IndInv, CalmOK
               PROVE  /\ \A c \in Clients : client[c].pc = "handle"
                            => client[c].attempts = handed[client[c].cur]
                      /\ \A m \in Messages : handed[m] <= MaxAttempts
                      /\ \A m \in Parked : handed[m] = MaxAttempts
    BY DEF AttemptsReal, CalmInv
  <2>1. Parked \subseteq Messages
    BY DEF IndInv, TypeOK, QueueTypeOK, Parked
  <2>2. \A m \in Messages : handed[m] <= MaxAttempts /\ (m \in Parked => handed[m] = MaxAttempts)
    BY DEF CalmOK, MessageOK
  <2>3. \A c \in Clients : client[c].pc = "handle" => client[c].attempts = handed[client[c].cur]
    BY DEF CalmOK, WorkerOK, HolderOK, Busy
  <2> QED
    BY <2>1, <2>2, <2>3
<1> QED
  BY <1>1, InvariantHolds, CalmHolds, PTL

-----------------------------------------------------------------------------
(* With any faults: a count that a worker or a file carries is one of       *)
(* deliveries made, until they are all used up.                             *)
Counted(k, m) == k <= handed[m] \/ handed[m] >= MaxAttempts

(* No file of m counts deliveries that were never made. *)
Carries(m) ==
    /\ \A f \in FilesOf(m) : Counted(file[f].attempts, m)
    /\ m \in Parked => handed[m] >= MaxAttempts
    /\ handed[m] <= MaxAttempts + 1

(* From _load to the end of receive() the count is one ahead. *)
Receiving(c) == client[c].doing = "claim" /\ client[c].pc \in {"load", "open", "write"}

(* Nor does a worker; the file it has open, whatever became of its name, is *)
(* no other message's; and whoever parks a message has used its deliveries. *)
Knows(c) ==
    LET k == client[c]
    IN  /\ k.pc \in {"reap", "claim"} => k.doing = "claim"
        /\ k.pc \in Busy =>
            /\ Receiving(c) /\ k.pc # "load" => Counted(k.attempts - 1, k.cur)
            /\ ~Receiving(c) => Counted(k.attempts, k.cur)
            /\ k.doing = "park" \/ k.pc = "park" => handed[k.cur] >= MaxAttempts
            /\ k.pc = "write" => \A x \in Messages \ {k.cur} : k.fd \notin FilesOf(x)

TriesOK ==
    /\ \A m, x \in Messages : m # x => FilesOf(m) \cap FilesOf(x) = {}
    /\ \A m \in Messages : Carries(m)
    /\ \A c \in Clients : Knows(c)

LEMMA FilesAreInUse ==
    /\ \A x : FilesOf(x) \subseteq InUse
    /\ \A c \in Clients : client[c].fd # None => client[c].fd \in InUse
BY DEF FilesOf, FileOf, InUse, Range

(* A step that gives m the files N that nothing referred to, and leaves all *)
(* workers but those in C where they are.                                   *)
LEMMA TriesStep ==
    ASSUME TriesOK, Kernel, Around, NEW m, NEW N, N \cap InUse = {},
           \A x \in Messages : /\ FilesOf(x)' \subseteq FilesOf(x) \cup (IF x = m THEN N ELSE {})
                               /\ handed'[x] \in Nat /\ handed'[x] >= handed[x]
                               /\ Carries(x)',
           NEW C, \A c \in C : Knows(c)',
           \A d \in Clients \ C : client'[d] = client[d]
    PROVE  TriesOK'
<1>1. ASSUME NEW a \in Messages, NEW b \in Messages, a # b
      PROVE  FilesOf(a)' \cap FilesOf(b)' = {}
  BY <1>1, FilesAreInUse DEF TriesOK
<1>2. ASSUME NEW d \in Clients \ C PROVE Knows(d)'
  <2>1. /\ Knows(d) /\ client'[d] = client[d] /\ client[d] \in Client
        /\ client[d].attempts \in Nat
    BY DEF TriesOK, Kernel, QueueTypeOK, Client
  <2>2. SUFFICES ASSUME client[d].pc \in Busy PROVE Knows(d)'
    BY <2>1 DEF Knows
  <2>3. PICK x \in Messages : x = client[d].cur
    BY <2>2 DEF Kernel, ClientOK
  <2>4. handed[x] \in Nat /\ handed'[x] \in Nat /\ handed'[x] >= handed[x] /\ MaxAttempts \in Nat
    BY ConsumeAssumption DEF Around
  <2>5. \A k \in Int : Counted(k, x) => Counted(k, x)'
    BY <2>4 DEF Counted
  <2>6. Receiving(d)' <=> Receiving(d)
    BY <2>1 DEF Receiving
  <2>7. ASSUME client[d].pc = "write", NEW y \in Messages \ {x}
        PROVE  client[d].fd \notin FilesOf(y)'
    <3>1. client[d].fd \notin FilesOf(y)
      BY <2>1, <2>2, <2>3, <2>7 DEF Knows
    <3>2. client[d].fd \in InUse
      BY <2>7, FilesAreInUse DEF Kernel, ClientOK
    <3> QED
      BY <3>1, <3>2
  <2>8. /\ client[d].doing = "park" \/ client[d].pc = "park" => handed'[x] >= MaxAttempts
        /\ client[d].pc \in {"reap", "claim"} => client[d].doing = "claim"
    BY <2>1, <2>2, <2>3, <2>4 DEF Knows
  <2>9. /\ Receiving(d) /\ client[d].pc # "load" => Counted(client[d].attempts - 1, x)'
        /\ ~Receiving(d) => Counted(client[d].attempts, x)'
    BY <2>1, <2>2, <2>3, <2>5 DEF Knows
  <2> QED
    BY <2>1, <2>2, <2>3, <2>6, <2>7, <2>8, <2>9 DEF Knows
<1> QED
  BY <1>1, <1>2 DEF TriesOK

LEMMA TriesStepOf ==
    ASSUME TriesOK, Kernel, Around, NEW m, NEW N, N \cap InUse = {},
           \A x \in Messages : FilesOf(x)' \subseteq FilesOf(x) \cup (IF x = m THEN N ELSE {}),
           \A x \in Messages : /\ handed'[x] \in Nat /\ handed'[x] >= handed[x]
                               /\ Carries(x)',
           NEW c \in Clients, Knows(c)',
           \A d \in Clients \ {c} : client'[d] = client[d]
    PROVE  TriesOK'
<1>1. PICK C : C = {c}
  OBVIOUS
<1>2. (\A d \in C : Knows(d)') /\ \A d \in Clients \ C : client'[d] = client[d]
  BY <1>1
<1>3. \A x \in Messages : /\ FilesOf(x)' \subseteq FilesOf(x) \cup (IF x = m THEN N ELSE {})
                          /\ handed'[x] \in Nat /\ handed'[x] >= handed[x]
                          /\ Carries(x)'
  OBVIOUS
<1> QED
  BY <1>2, <1>3, TriesStep

LEMMA TriesStepNone ==
    ASSUME TriesOK, Kernel, Around, NEW m, NEW N, N \cap InUse = {},
           \A x \in Messages : FilesOf(x)' \subseteq FilesOf(x) \cup (IF x = m THEN N ELSE {}),
           \A x \in Messages : /\ handed'[x] \in Nat /\ handed'[x] >= handed[x]
                               /\ Carries(x)',
           client' = client
    PROVE  TriesOK'
<1>1. PICK C : C = {}
  OBVIOUS
<1>2. (\A d \in C : Knows(d)') /\ \A d \in Clients \ C : client'[d] = client[d]
  BY <1>1
<1>3. \A x \in Messages : /\ FilesOf(x)' \subseteq FilesOf(x) \cup (IF x = m THEN N ELSE {})
                          /\ handed'[x] \in Nat /\ handed'[x] >= handed[x]
                          /\ Carries(x)'
  OBVIOUS
<1> QED
  BY <1>2, <1>3, TriesStep

(* What a step that keeps the files leaves as it was. *)
LEMMA KeptFilesOf ==
    ASSUME NEW files, Kept(files), NEW x, NEW f \in FilesOf(x)'
    PROVE  file'[f] = files[f]
BY KeptSame DEF FilesOf, FileOf

(* Steps that move or remove a name, or only look. *)
LEMMA TriesMoves ==
    ASSUME TriesOK, Kernel, Around, NEW c \in Clients, Knows(c)',
           \A d \in Clients \ {c} : client'[d] = client[d],
           \A x \in Messages : FilesOf(x)' \subseteq FilesOf(x),
           file' = file \/ Kept(file), Parked' \subseteq Parked, handed' = handed
    PROVE  TriesOK'
<1>1. ASSUME NEW x \in Messages PROVE Carries(x)'
  <2>1. \A f \in FilesOf(x)' : file'[f] = file[f]
    BY KeptFilesOf
  <2> QED
    BY <2>1 DEF TriesOK, Carries, Counted
<1>2. \A x \in Messages : handed[x] \in Nat /\ handed'[x] >= handed[x]
  BY DEF Around
<1>3. PICK N : N = {}
  OBVIOUS
<1>4. N \cap InUse = {}
  BY <1>3
<1>5. \A x \in Messages : FilesOf(x)' \subseteq FilesOf(x) \cup (IF x = c THEN N ELSE {})
  OBVIOUS
<1> QED
  BY <1>1, <1>2, <1>4, <1>5, TriesStepOf

LEMMA TriesLooks ==
    ASSUME TriesOK, Kernel, Around, NEW c \in Clients, Knows(c)',
           \A d \in Clients \ {c} : client'[d] = client[d],
           UNCHANGED <<dirs, handed>>, file' = file \/ Kept(file)
    PROVE  TriesOK'
<1>1. \A x \in Messages : FilesOf(x)' \subseteq FilesOf(x)
  BY DEF dirs, FilesOf, FileOf
<1> QED
  BY <1>1, TriesMoves DEF dirs, Parked

LEMMA TriesLeaves ==
    ASSUME Kernel, NEW c \in Clients, NEW pc \in {"down", "top", "empty", "done"}, Leaves(c, pc)
    PROVE  Knows(c)' /\ \A d \in Clients \ {c} : client'[d] = client[d]
<1>1. client'[c] = At(pc) /\ \A d \in Clients \ {c} : client'[d] = client[d]
  BY DEF Leaves, Kernel, QueueTypeOK
<1>2. At(pc).pc = pc
  BY AtIsClient
<1> QED
  BY <1>1, <1>2 DEF Knows, Busy

-----------------------------------------------------------------------------
LEMMA TriesOuter ==
    ASSUME TriesOK, Kernel, Around, NEW c \in Clients,
           Start(c) \/ Receive(c) \/ Idle(c) \/ ClaimNone(c) \/ Crash(c),
           UNCHANGED handed
    PROVE  TriesOK'
<1>1. UNCHANGED dirs /\ (file' = file \/ Kept(file))
  BY DEF Start, Receive, Idle, ClaimNone, Crash
<1>2. CASE \E pc \in {"down", "top", "empty", "done"} : Leaves(c, pc)
  BY <1>1, <1>2, TriesLeaves, TriesLooks
<1>3. CASE \E pc \in {"depth", "reap"} : Reaping(c, pc)
  <2>1. PICK pc \in {"depth", "reap"} : Reaping(c, pc)
    BY <1>3
  <2>2. /\ \A d \in Clients \ {c} : client'[d] = client[d]
        /\ client'[c].pc = pc /\ client'[c].doing = "claim"
    BY <2>1 DEF Reaping, At, Kernel, QueueTypeOK
  <2>3. Knows(c)'
    BY <2>2 DEF Knows, Busy
  <2> QED
    BY <1>1, <2>2, <2>3, TriesLooks
<1> QED
  BY <1>2, <1>3 DEF Start, Receive, Idle, ClaimNone, Crash

LEMMA TriesHandle ==
    ASSUME TriesOK, Kernel, Around, NEW c \in Clients, Handle(c)
    PROVE  TriesOK'
<1>1. /\ client[c] \in Client /\ client \in [Clients -> Client] /\ Knows(c)
      /\ client[c].pc = "handle" /\ UNCHANGED <<dirs, file, handed>>
  BY DEF Kernel, QueueTypeOK, TriesOK, Handle
<1>2. PICK pc \in {"ack", "park", "nack"} :
        /\ client' = [client EXCEPT ![c].pc = pc]
        /\ pc = "park" => client[c].attempts >= MaxAttempts
  BY DEF Handle, OutOfAttempts
<1>3. /\ client'[c].cur = client[c].cur /\ client'[c].pc = pc
      /\ client'[c].doing = client[c].doing /\ client'[c].attempts = client[c].attempts
      /\ \A d \in Clients \ {c} : client'[d] = client[d]
  BY <1>1, <1>2 DEF Client
<1>4. /\ client[c].cur \in Messages /\ Counted(client[c].attempts, client[c].cur)
      /\ client[c].doing = "park" => handed[client[c].cur] >= MaxAttempts
  BY <1>1 DEF Knows, Kernel, ClientOK, Busy, Receiving
<1>5. pc = "park" => handed[client[c].cur] >= MaxAttempts
  <2>1. client[c].attempts \in Nat /\ handed[client[c].cur] \in Nat /\ MaxAttempts \in Nat
    BY <1>1, <1>4, ConsumeAssumption DEF Around, Client
  <2> QED
    BY <1>2, <1>4, <2>1 DEF Counted
<1>6. Knows(c)'
  BY <1>1, <1>3, <1>4, <1>5 DEF Knows, Receiving, Counted, Busy
<1> QED
  BY <1>1, <1>3, <1>6, TriesLooks

LEMMA TriesNames ==
    ASSUME TriesOK, Kernel, Around, NEW c \in Clients,
           (\E m \in Messages : ReapStat(c, m)) \/ ReapEnd(c), UNCHANGED handed
    PROVE  TriesOK'
<1>1. /\ client[c] \in Client /\ client \in [Clients -> Client] /\ Knows(c)
      /\ UNCHANGED <<dirs, file>>
  BY DEF Kernel, QueueTypeOK, TriesOK, ReapStat, ReapEnd
<1>2. /\ client'[c].doing = client[c].doing
      /\ client'[c].pc \in {"depth", "reap", "claim", "top"}
      /\ client'[c].pc \in {"reap", "claim"} => client[c].pc = "reap"
      /\ \A d \in Clients \ {c} : client'[d] = client[d]
  <2>1. ASSUME NEW m \in Messages, ReapStat(c, m)
        PROVE  /\ client'[c].doing = client[c].doing /\ client'[c].pc = client[c].pc
               /\ client[c].pc \in {"depth", "reap"}
               /\ \A d \in Clients \ {c} : client'[d] = client[d]
    BY <1>1, <2>1 DEF ReapStat, Client
  <2>2. ASSUME ReapEnd(c)
        PROVE  /\ client'[c].doing = client[c].doing
               /\ client'[c].pc = IF client[c].pc = "reap" THEN "claim" ELSE "top"
               /\ \A d \in Clients \ {c} : client'[d] = client[d]
    BY <1>1, <2>2 DEF ReapEnd, Client
  <2> QED
    BY <2>1, <2>2
<1>3. Knows(c)'
  BY <1>1, <1>2 DEF Knows, Busy
<1> QED
  BY <1>1, <1>2, <1>3, TriesLooks

(* The deliveries made are read from the file, or stay as they were received.*)
LEMMA TriesLoad ==
    ASSUME TriesOK, Kernel, Around, NEW c \in Clients, Load(c) \/ Nack(c) \/ Park(c),
           UNCHANGED handed
    PROVE  TriesOK'
<1>1. /\ client[c] \in Client /\ client \in [Clients -> Client] /\ Knows(c)
      /\ client[c].pc \in {"load", "nack", "park"} /\ client[c].cur \in Messages
      /\ UNCHANGED <<dirs, file>> /\ client[c].attempts \in Nat
  BY DEF Kernel, QueueTypeOK, TriesOK, Load, Nack, Park, ClientOK, Busy, Client
<1>2. PICK m \in Messages : m = client[c].cur
  BY <1>1
<1>3. /\ client[c].pc # "load" \/ client[c].doing # "claim" => Counted(client[c].attempts, m)
      /\ client[c].doing = "park" \/ client[c].pc = "park" => handed[m] >= MaxAttempts
  BY <1>1, <1>2 DEF Knows, Busy, Receiving
<1>4. CASE Load(c)
  <2>1. CASE /\ client[c].doing = "claim"
             /\ client' = [client EXCEPT ![c].pc = "claim", ![c].cur = None]
    <3>1. /\ client'[c].pc = "claim" /\ client'[c].doing = "claim"
          /\ \A d \in Clients \ {c} : client'[d] = client[d]
      BY <1>1, <2>1 DEF Client
    <3>2. Knows(c)'
      BY <3>1 DEF Knows, Busy
    <3> QED
      BY <1>1, <3>1, <3>2, TriesLooks
  <2>2. CASE /\ m \in DOMAIN inflight
             /\ client' = [client EXCEPT ![c].pc = "open", ![c].shape = file[inflight[m]].shape,
                             ![c].attempts = IF client[c].doing = "claim"
                                             THEN Counting(file[inflight[m]].attempts) ELSE @]
    <3>1. file[inflight[m]].attempts \in Nat /\ Counted(file[inflight[m]].attempts, m)
      <4>1. inflight[m] \in FilesOf(m) /\ file[inflight[m]] \in Content
        BY <2>2 DEF FilesOf, FileOf, Kernel, QueueTypeOK, InUse, Range
      <4> QED
        BY <4>1 DEF TriesOK, Carries, Content
    <3>2. PICK k \in Nat : k = file[inflight[m]].attempts
      BY <3>1
    <3>3. /\ client'[c].pc = "open" /\ client'[c].cur = m
          /\ client'[c].doing = client[c].doing
          /\ client'[c].attempts = IF client[c].doing = "claim" THEN k + 1 ELSE client[c].attempts
          /\ \A d \in Clients \ {c} : client'[d] = client[d]
      BY <1>1, <1>2, <2>2, <3>2 DEF Client, Counting
    <3>4. Receiving(c)' => client'[c].attempts - 1 = k
      BY <3>2, <3>3 DEF Receiving
    <3>5. ~Receiving(c)' => client'[c].attempts = client[c].attempts /\ client[c].doing # "claim"
      BY <3>3 DEF Receiving
    <3>6. Knows(c)'
      BY <1>3, <3>1, <3>2, <3>3, <3>4, <3>5 DEF Knows, Counted, Busy
    <3> QED
      BY <1>1, <3>3, <3>6, TriesLooks
  <2>3. CASE client' = [client EXCEPT ![c].pc = "open", ![c].shape = "bare"]
             /\ client[c].doing # "claim"
    <3>1. /\ client'[c].pc = "open" /\ client'[c].cur = m
          /\ client'[c].doing = client[c].doing /\ client[c].doing # "claim"
          /\ client'[c].attempts = client[c].attempts
          /\ \A d \in Clients \ {c} : client'[d] = client[d]
      BY <1>1, <1>2, <2>3 DEF Client
    <3>2. Knows(c)'
      BY <1>3, <3>1 DEF Knows, Receiving, Counted, Busy
    <3> QED
      BY <1>1, <3>1, <3>2, TriesLooks
  <2> QED
    BY <1>2, <1>4, <2>1, <2>2, <2>3 DEF Load
<1>5. CASE Nack(c)
  <2>1. CASE Leaves(c, "top")
    BY <1>1, <2>1, TriesLeaves, TriesLooks
  <2>2. CASE client' = [client EXCEPT ![c].pc = "load", ![c].doing = "nack"]
    <3>1. /\ client'[c].pc = "load" /\ client'[c].cur = m /\ client'[c].doing = "nack"
          /\ client'[c].attempts = client[c].attempts /\ client[c].pc = "nack"
          /\ \A d \in Clients \ {c} : client'[d] = client[d]
      BY <1>1, <1>2, <1>5, <2>2 DEF Nack, Client
    <3>2. Knows(c)'
      BY <1>3, <3>1 DEF Knows, Receiving, Counted, Busy
    <3> QED
      BY <1>1, <3>1, <3>2, TriesLooks
  <2> QED
    BY <1>5, <2>1, <2>2 DEF Nack
<1>6. CASE Park(c)
  <2>1. /\ client'[c].pc = "load" /\ client'[c].cur = m /\ client'[c].doing = "park"
        /\ client'[c].attempts = client[c].attempts /\ client[c].pc = "park"
        /\ \A d \in Clients \ {c} : client'[d] = client[d]
    BY <1>1, <1>2, <1>6 DEF Park, Client
  <2>2. Knows(c)'
    BY <1>3, <2>1 DEF Knows, Receiving, Counted, Busy
  <2> QED
    BY <1>1, <2>1, <2>2, TriesLooks
<1> QED
  BY <1>4, <1>5, <1>6

-----------------------------------------------------------------------------
LEMMA BackFiles ==
    ASSUME NEW m \in DOMAIN inflight, Back(m)
    PROVE  (\A x : FilesOf(x)' \subseteq FilesOf(x)) /\ Parked' = Parked
<1>1. /\ DOMAIN inflight' = DOMAIN inflight \ {m} /\ dead' = dead
      /\ \A x \in DOMAIN inflight' : inflight'[x] = inflight[x]
      /\ DOMAIN ready' = DOMAIN ready \cup {m}
      /\ \A x \in DOMAIN ready' : ready'[x] = IF x = m THEN inflight[m] ELSE ready[x]
  BY DEF Back, With, Without
<1> QED
  BY <1>1 DEF FilesOf, FileOf, Parked

LEMMA TriesReapMove ==
    ASSUME TriesOK, Kernel, Around, NEW c \in Clients, ReapMove(c), UNCHANGED handed
    PROVE  TriesOK'
<1>1. /\ client[c] \in Client /\ client \in [Clients -> Client] /\ Knows(c) /\ Kept(file)
  BY DEF Kernel, QueueTypeOK, TriesOK, ReapMove
<1>2. /\ client'[c].pc = client[c].pc /\ client'[c].doing = client[c].doing
      /\ client[c].pc \in {"depth", "reap"}
      /\ \A d \in Clients \ {c} : client'[d] = client[d]
  BY <1>1 DEF ReapMove, Client
<1>3. Knows(c)'
  BY <1>1, <1>2 DEF Knows, Busy
<1>4. (\A x : FilesOf(x)' \subseteq FilesOf(x)) /\ Parked' = Parked
  <2>1. CASE UNCHANGED dirs
    BY <2>1 DEF dirs, FilesOf, FileOf, Parked
  <2> QED
    BY <2>1, BackFiles DEF ReapMove
<1> QED
  BY <1>1, <1>2, <1>3, <1>4, TriesMoves

LEMMA TriesClaim ==
    ASSUME TriesOK, Kernel, Around, NEW c \in Clients, NEW m \in Messages, Claim(c, m),
           UNCHANGED handed
    PROVE  TriesOK'
<1>1. /\ client[c] \in Client /\ client \in [Clients -> Client] /\ Knows(c) /\ Kept(file)
      /\ client[c].pc = "claim" /\ client[c].doing = "claim"
  BY DEF Kernel, QueueTypeOK, TriesOK, Claim, Knows
<1>2. CASE m \notin DOMAIN ready
  <2>1. /\ client'[c].pc = "claim" /\ client'[c].doing = "claim" /\ UNCHANGED dirs
        /\ \A d \in Clients \ {c} : client'[d] = client[d]
    BY <1>1, <1>2 DEF Claim, Client
  <2>2. Knows(c)'
    BY <2>1 DEF Knows, Busy
  <2> QED
    BY <1>1, <2>1, <2>2, TriesLooks
<1>3. CASE m \in DOMAIN ready
  <2>1. /\ Taken(m)
        /\ client' = [client EXCEPT ![c].pc = "load", ![c].cur = m, ![c].names = @ \ {m}]
    BY <1>3 DEF Claim
  <2>2. /\ DOMAIN ready' = DOMAIN ready \ {m} /\ dead' = dead
        /\ \A x \in DOMAIN ready' : ready'[x] = ready[x]
        /\ DOMAIN inflight' = DOMAIN inflight \cup {m}
        /\ \A x \in DOMAIN inflight' : inflight'[x] = IF x = m THEN ready[m] ELSE inflight[x]
    BY <2>1 DEF Taken, With, Without
  <2>3. (\A x : FilesOf(x)' \subseteq FilesOf(x)) /\ Parked' = Parked
    BY <1>3, <2>2 DEF FilesOf, FileOf, Parked
  <2>4. /\ client'[c].pc = "load" /\ client'[c].cur = m /\ client'[c].doing = "claim"
        /\ client'[c].attempts = client[c].attempts
        /\ \A d \in Clients \ {c} : client'[d] = client[d]
    BY <1>1, <2>1 DEF Client
  <2>5. Knows(c)'
    BY <2>4 DEF Knows, Receiving
  <2> QED
    BY <1>1, <2>3, <2>4, <2>5, TriesMoves
<1> QED
  BY <1>2, <1>3

LEMMA TriesReturn ==
    ASSUME TriesOK, Kernel, Around, NEW c \in Clients, Return(c) \/ Unlink(c),
           UNCHANGED handed
    PROVE  TriesOK'
<1>1. Kept(file) /\ \E pc \in {"down", "top"} : Leaves(c, pc)
  BY DEF Return, Unlink
<1>2. Knows(c)' /\ \A d \in Clients \ {c} : client'[d] = client[d]
  BY <1>1, TriesLeaves
<1>3. (\A x : FilesOf(x)' \subseteq FilesOf(x)) /\ Parked' = Parked
  <2>1. CASE Return(c)
    <3>1. CASE UNCHANGED dirs
      BY <3>1 DEF dirs, FilesOf, FileOf, Parked
    <3> QED
      BY <2>1, <3>1, BackFiles DEF Return
  <2>2. CASE Unlink(c)
    BY <2>2 DEF Unlink, Without, FilesOf, FileOf, Parked
  <2> QED
    BY <2>1, <2>2
<1> QED
  BY <1>1, <1>2, <1>3, TriesMoves

(* The file that is opened is the message's own, or a new one. *)
LEMMA TriesOpen ==
    ASSUME TriesOK, Kernel, Around, NEW c \in Clients, Open(c), UNCHANGED handed
    PROVE  TriesOK'
<1>1. /\ client[c] \in Client /\ client \in [Clients -> Client] /\ Knows(c)
      /\ client[c].pc = "open" /\ client[c].cur \in Messages
  BY DEF Kernel, QueueTypeOK, TriesOK, Open, ClientOK, Busy
<1>2. PICK m \in Messages : m = client[c].cur
  BY <1>1
<1>3. PICK f :
        /\ Opening(c, f)
        /\ f \in FilesOf(m) \/ f \notin InUse
        /\ \A x \in Messages : FilesOf(x)' \subseteq FilesOf(x) \cup (IF x = m THEN {f} ELSE {})
        /\ Parked' \subseteq Parked \cup (IF client[c].doing = "park" THEN {m} ELSE {})
  <2>1. PICK target : target = IF client[c].doing = "park" THEN dead ELSE inflight
    OBVIOUS
  <2>2. CASE m \in DOMAIN target
    <3>1. Opening(c, target[m]) /\ UNCHANGED dirs
      BY <1>2, <2>1, <2>2 DEF Open
    <3>2. target[m] \in FilesOf(m)
      BY <2>1, <2>2 DEF FilesOf, FileOf
    <3>3. (\A x : FilesOf(x)' = FilesOf(x)) /\ Parked' = Parked
      BY <3>1 DEF dirs, FilesOf, FileOf, Parked
    <3> QED
      BY <3>1, <3>2, <3>3
  <2>3. CASE m \notin DOMAIN target
    <3>1. /\ Files \ InUse # {} /\ Opening(c, Blank)
          /\ IF client[c].doing = "park"
             THEN dead' = With(dead, m, Blank) /\ UNCHANGED <<ready, inflight>>
             ELSE inflight' = With(inflight, m, Blank) /\ UNCHANGED <<ready, dead>>
      BY <1>2, <2>1, <2>3 DEF Open
    <3>2. Blank \notin InUse
      BY <3>1 DEF Blank
    <3>3. PICK f : f = Blank
      OBVIOUS
    <3>4. CASE client[c].doing = "park"
      <4>1. /\ DOMAIN dead' = DOMAIN dead \cup {m} /\ ready' = ready /\ inflight' = inflight
            /\ \A x \in DOMAIN dead' : dead'[x] = IF x = m THEN f ELSE dead[x]
        BY <3>1, <3>3, <3>4 DEF With
      <4>2. \A x \in Messages : FilesOf(x)' \subseteq FilesOf(x) \cup (IF x = m THEN {f} ELSE {})
        BY <4>1 DEF FilesOf, FileOf
      <4> QED
        BY <3>1, <3>2, <3>3, <3>4, <4>1, <4>2 DEF Parked
    <3>5. CASE client[c].doing # "park"
      <4>1. /\ DOMAIN inflight' = DOMAIN inflight \cup {m} /\ ready' = ready /\ dead' = dead
            /\ \A x \in DOMAIN inflight' : inflight'[x] = IF x = m THEN f ELSE inflight[x]
        BY <3>1, <3>3, <3>5 DEF With
      <4>2. \A x \in Messages : FilesOf(x)' \subseteq FilesOf(x) \cup (IF x = m THEN {f} ELSE {})
        BY <4>1 DEF FilesOf, FileOf
      <4> QED
        BY <3>1, <3>2, <3>3, <4>1, <4>2 DEF Parked
    <3> QED
      BY <3>4, <3>5
  <2> QED
    BY <2>2, <2>3
<1>4. /\ client'[c].pc = "write" /\ client'[c].cur = m /\ client'[c].fd = f
      /\ client'[c].doing = client[c].doing /\ client'[c].attempts = client[c].attempts
      /\ \A d \in Clients \ {c} : client'[d] = client[d]
  BY <1>1, <1>2, <1>3 DEF Opening, Client
<1>5. \A x \in Messages \ {m} : f \notin FilesOf(x) /\ f \notin FilesOf(x)'
  <2>1. \A x \in Messages \ {m} : f \notin FilesOf(x)
    BY <1>3, FilesAreInUse DEF TriesOK
  <2> QED
    BY <1>3, <2>1
<1>6. Knows(c)'
  BY <1>1, <1>2, <1>4, <1>5 DEF Knows, Receiving, Counted, Busy
<1>7. ASSUME NEW x \in Messages PROVE Carries(x)'
  <2>1. /\ Carries(x) /\ handed'[x] = handed[x]
        /\ handed[x] \in Nat
    BY DEF TriesOK, Around
  <2>2. ASSUME NEW g \in FilesOf(x)' PROVE Counted(file[g].attempts, x)'
    <3>1. CASE g = f
      BY <1>3, <2>1, <3>1 DEF Opening, With, Truncated, Counted
    <3>2. CASE g # f
      <4>1. g \in FilesOf(x) /\ g \in DOMAIN file
        BY <1>3, <3>2, FilesAreInUse DEF Kernel, QueueTypeOK
      <4>2. file'[g] = file[g]
        BY <1>3, <3>2, <4>1 DEF Opening, With
      <4> QED
        BY <2>1, <4>1, <4>2 DEF Carries, Counted
    <3> QED
      BY <3>1, <3>2
  <2>3. x \in Parked' => handed[x] >= MaxAttempts
    BY <1>1, <1>2, <1>3, <2>1 DEF Carries, Knows, Busy
  <2> QED
    BY <2>1, <2>2, <2>3 DEF Carries
<1>8. PICK N : N = {f} \ InUse
  OBVIOUS
<1>9. \A x \in Messages : FilesOf(x)' \subseteq FilesOf(x) \cup (IF x = m THEN N ELSE {})
  BY <1>3, <1>8, FilesAreInUse
<1>10. \A x \in Messages : handed'[x] \in Nat /\ handed'[x] >= handed[x]
  BY DEF Around
<1>11. N \cap InUse = {}
  BY <1>8
<1> QED
  BY <1>4, <1>6, <1>7, <1>9, <1>10, <1>11, TriesStepOf

(* The write that ends receive() is when the delivery is counted. *)
LEMMA TriesWrite ==
    ASSUME TriesOK, Kernel, Around, NEW c \in Clients, Write(c), Called(c)
    PROVE  TriesOK'
<1>1. /\ client[c] \in Client /\ client \in [Clients -> Client] /\ Knows(c)
      /\ client[c].pc = "write" /\ client[c].cur \in Messages /\ client[c].attempts \in Nat
  BY DEF Kernel, QueueTypeOK, TriesOK, Write, ClientOK, Busy, Client
<1>2. PICK m, k, f, shape, files :
        /\ m \in Messages /\ m = client[c].cur /\ k \in Nat /\ k = client[c].attempts
        /\ f = client[c].fd /\ shape = client[c].shape
        /\ files = [file EXCEPT ![f] = Written(k, shape, @)]
  BY <1>1
<1>3. /\ Kept(files) /\ UNCHANGED <<ready, inflight, dead>> /\ Parked' = Parked
      /\ \A x : FilesOf(x)' = FilesOf(x)
  BY <1>2 DEF Write, dirs, Parked, FilesOf, FileOf
<1>4. /\ \A d \in Clients \ {c} : client'[d] = client[d]
      /\ client'[c].pc \in {"handle", "return", "unlink"}
      /\ client'[c].cur = m /\ client'[c].doing = client[c].doing
      /\ client'[c].attempts = k
  BY <1>1, <1>2 DEF Write, Client
<1>5. /\ \A x \in Messages \ {m} : handed'[x] = handed[x] /\ f \notin FilesOf(x)
      /\ handed'[m] = IF client[c].doing = "claim" THEN Least(handed[m] + 1, MaxAttempts + 1)
                      ELSE handed[m]
  BY <1>1, <1>2 DEF Called, Around, Knows, Busy
<1>6. \A x \in Messages : handed[x] \in Nat /\ handed[x] <= MaxAttempts + 1 /\ MaxAttempts \in Nat
  BY ConsumeAssumption DEF Around, TriesOK, Carries
<1>7. \A x \in Messages : /\ handed'[x] \in Nat /\ handed'[x] >= handed[x]
                          /\ handed'[x] <= MaxAttempts + 1
  BY <1>5, <1>6 DEF Least
<1>8. k <= handed'[m] \/ handed'[m] >= MaxAttempts
  <2>1. CASE client[c].doing = "claim"
    <3>1. k - 1 <= handed[m] \/ handed[m] >= MaxAttempts
      BY <1>1, <1>2, <2>1 DEF Knows, Receiving, Counted, Busy
    <3>2. m \in Messages /\ k \in Nat
      BY <1>2
    <3> QED
      BY <1>5, <1>6, <2>1, <3>1, <3>2 DEF Least
  <2>2. CASE client[c].doing # "claim"
    BY <1>1, <1>2, <1>5, <2>2 DEF Knows, Receiving, Counted, Busy
  <2> QED
    BY <2>1, <2>2
<1>9. client[c].doing = "park" => handed'[m] >= MaxAttempts
  BY <1>1, <1>2, <1>5 DEF Knows, Busy
<1>10. Knows(c)'
  BY <1>4, <1>8, <1>9 DEF Knows, Receiving, Counted, Busy
<1>11. ASSUME NEW x \in Messages PROVE Carries(x)'
  <2>1. Carries(x)
    BY DEF TriesOK
  <2>2. ASSUME NEW g \in FilesOf(x)' PROVE Counted(file[g].attempts, x)'
    <3>1. g \in FilesOf(x) /\ g \in DOMAIN file /\ file'[g] = files[g] /\ file[g] \in Content
      BY <1>3, KeptFilesOf, FilesAreInUse DEF Kernel, QueueTypeOK
    <3>2. CASE g = f
      <4>1. x = m /\ files[g].attempts = k
        BY <1>2, <1>5, <3>1, <3>2 DEF Written
      <4> QED
        BY <1>8, <3>1, <4>1 DEF Counted
    <3>3. CASE g # f
      <4>1. file'[g] = file[g] /\ Counted(file[g].attempts, x) /\ file[g].attempts \in Nat
        BY <1>2, <2>1, <3>1, <3>3 DEF Carries, Content
      <4>2. PICK j \in Nat : j = file[g].attempts
        BY <4>1
      <4> QED
        BY <1>6, <1>7, <4>1, <4>2 DEF Counted
    <3> QED
      BY <3>2, <3>3
  <2>3. x \in Parked' => handed'[x] >= MaxAttempts
    BY <1>3, <1>6, <1>7, <2>1 DEF Carries
  <2> QED
    BY <1>7, <2>2, <2>3 DEF Carries
<1>12. PICK N : N = {}
  OBVIOUS
<1>13. N \cap InUse = {}
  BY <1>12
<1>14. \A x \in Messages : FilesOf(x)' \subseteq FilesOf(x) \cup (IF x = m THEN N ELSE {})
  BY <1>3
<1> QED
  BY <1>4, <1>7, <1>10, <1>11, <1>13, <1>14, TriesStepOf

LEMMA TriesPublish ==
    ASSUME TriesOK, Kernel, Around, NEW m \in Messages, PublishNew(m)
    PROVE  TriesOK'
<1>1. /\ Files \ InUse # {} /\ ready' = With(ready, m, Blank)
      /\ file' = With(file, Blank, Published)
      /\ inflight' = inflight /\ dead' = dead /\ client' = client /\ handed' = handed
  BY DEF PublishNew, Publish
<1>2. PICK f : f = Blank /\ f \notin InUse
  BY <1>1 DEF Blank
<1>3. \A x \in Messages : FilesOf(x)' \subseteq FilesOf(x) \cup (IF x = m THEN {f} ELSE {})
  <2>1. /\ DOMAIN ready' = DOMAIN ready \cup {m}
        /\ \A x \in DOMAIN ready' : ready'[x] = IF x = m THEN f ELSE ready[x]
    BY <1>1, <1>2 DEF With
  <2> QED
    BY <1>1, <2>1 DEF FilesOf, FileOf
<1>4. ASSUME NEW x \in Messages PROVE Carries(x)'
  <2>1. Carries(x) /\ handed[x] \in Nat /\ Parked' = Parked
    BY <1>1 DEF TriesOK, Around, Parked
  <2>2. ASSUME NEW g \in FilesOf(x)' PROVE Counted(file[g].attempts, x)'
    <3>1. CASE g = f
      BY <1>1, <1>2, <2>1, <3>1 DEF With, Published, Counted
    <3>2. CASE g # f
      <4>1. g \in FilesOf(x) /\ g \in DOMAIN file
        BY <1>3, <3>2, FilesAreInUse DEF Kernel, QueueTypeOK
      <4>2. file'[g] = file[g]
        BY <1>1, <1>2, <3>2, <4>1 DEF With
      <4> QED
        BY <1>1, <2>1, <4>1, <4>2 DEF Carries, Counted
    <3> QED
      BY <3>1, <3>2
  <2> QED
    BY <1>1, <2>1, <2>2 DEF Carries
<1>5. \A x \in Messages : handed'[x] \in Nat /\ handed'[x] >= handed[x]
  BY <1>1 DEF Around
<1>6. PICK N : N = {f}
  OBVIOUS
<1>7. N \cap InUse = {}
  BY <1>2, <1>6
<1>8. \A x \in Messages : FilesOf(x)' \subseteq FilesOf(x) \cup (IF x = m THEN N ELSE {})
  BY <1>3, <1>6
<1> QED
  BY <1>1, <1>4, <1>5, <1>7, <1>8, TriesStepNone

LEMMA TriesAges ==
    ASSUME TriesOK, Kernel, Around, NEW m \in Messages, Ages(m)
    PROVE  TriesOK'
<1>1. UNCHANGED <<ready, inflight, dead, client, handed>> /\ Parked' = Parked
  BY DEF Ages, dirs, Parked
<1>2. \A x : FilesOf(x)' = FilesOf(x)
  BY <1>1 DEF FilesOf, FileOf
<1>3. PICK f : file' = [file EXCEPT ![f].old = TRUE]
  BY DEF Ages
<1>4. \A g \in InUse : file'[g].attempts = file[g].attempts
  BY <1>3 DEF Kernel, QueueTypeOK, Content
<1>5. \A x \in Messages : Carries(x)'
  BY <1>1, <1>2, <1>4, FilesAreInUse DEF TriesOK, Carries, Counted
<1>6. \A x \in Messages : handed'[x] \in Nat /\ handed'[x] >= handed[x]
  BY <1>1 DEF Around
<1>7. PICK N : N = {}
  OBVIOUS
<1>8. N \cap InUse = {}
  BY <1>7
<1>9. \A x \in Messages : FilesOf(x)' \subseteq FilesOf(x) \cup (IF x = m THEN N ELSE {})
  BY <1>2
<1> QED
  BY <1>1, <1>5, <1>6, <1>8, <1>9, TriesStepNone

-----------------------------------------------------------------------------
LEMMA TriesInit == Init => TriesOK
<1> SUFFICES ASSUME Init PROVE TriesOK
  OBVIOUS
<1>1. /\ DOMAIN ready = {} /\ DOMAIN inflight = {} /\ DOMAIN dead = {}
      /\ \A m \in Messages : handed[m] = 0
      /\ \A c \in Clients : client[c].pc = "down"
  BY DEF Init, At
<1> QED
  BY <1>1, ConsumeAssumption
     DEF TriesOK, Carries, Knows, FilesOf, FileOf, Parked, Busy

LEMMA TriesNext == IndInv /\ TriesOK /\ [Next]_vars => TriesOK'
<1> SUFFICES ASSUME IndInv, TriesOK, [Next]_vars PROVE TriesOK'
  OBVIOUS
<1>1. Kernel /\ Around
  BY Split
<1>2. ASSUME NEW c \in Clients, Called(c) PROVE TriesOK'
  <2>1. CASE Write(c)
    BY <1>1, <1>2, <2>1, TriesWrite
  <2>2. CASE client[c].pc # "write"
    <3>1. UNCHANGED handed /\ Call(c) /\ ~Write(c)
      BY <1>2, <2>2 DEF Called, Write
    <3> QED
      BY <1>1, <3>1, TriesNames, TriesClaim, TriesReapMove, TriesOuter, TriesLoad, TriesOpen,
         TriesReturn DEF Call
  <2>3. client[c].pc = "write" => Write(c)
    BY <1>2 DEF Called, Call, ReapStat, Claim, ReapMove, ReapEnd, ClaimNone, Load, Open,
       Nack, Return, Park, Unlink
  <2> QED
    BY <2>1, <2>2, <2>3
<1>3. ASSUME NEW c \in Clients, Worker(c) \/ Crash(c) PROVE TriesOK'
  <2>1. CASE Called(c)
    BY <1>2, <2>1
  <2>2. CASE Handle(c)
    BY <1>1, <2>2, TriesHandle
  <2>3. CASE Start(c) \/ Receive(c) \/ Idle(c) \/ Crash(c)
    <3>1. UNCHANGED handed
      BY <2>3 DEF Start, Receive, Idle, Crash
    <3> QED
      BY <1>1, <2>3, <3>1, TriesOuter
  <2> QED
    BY <1>3, <2>1, <2>2, <2>3 DEF Worker
<1>4. ASSUME NEW m \in Messages, PublishNew(m) \/ Ages(m) PROVE TriesOK'
  BY <1>1, <1>4, TriesPublish, TriesAges
<1>5. CASE (\E c \in Clients : Signal(c)) \/ UNCHANGED vars
  <2>1. UNCHANGED <<ready, inflight, dead, file, client, handed>>
    BY <1>5 DEF Signal, vars, queueVars, dirs
  <2> QED
    BY <2>1 DEF TriesOK, Carries, Counted, Knows, Receiving, FilesOf, FileOf, Parked
<1> QED
  BY <1>3, <1>4, <1>5 DEF Next

LEMMA TriesHold == Spec => []TriesOK
BY TriesInit, TriesNext, InvariantHolds, PTL DEF Spec

(* Whatever lapses and whoever dies, no message is parked before it has been *)
(* handed over max_attempts times: reclaims, torn envelopes and the counts  *)
(* that racing workers write over each other never run ahead.               *)
THEOREM ParkedOnlyAfterTries == Spec => []ParkedAfterTries
<1>1. IndInv /\ TriesOK => ParkedAfterTries
  BY DEF IndInv, TypeOK, QueueTypeOK, TriesOK, Carries, ParkedAfterTries, Parked
<1> QED
  BY <1>1, InvariantHolds, TriesHold, PTL


-----------------------------------------------------------------------------
(* The promise of AtLeastOnce.  While each worker's message is in inflight/, *)
(* a write_text of a claim makes no name anew, and the names of messages    *)
(* change as the ledger does: by publishing, by parking, and by an unlink   *)
(* of what was worked off or is in dead/.                                   *)
InHand == \A c \in Clients : client[c].pc \in Busy => client[c].cur \in DOMAIN inflight

Promised == [Promise!Next]_<<unsent, Owed, Parked, worked>>

LEMMA QuietPromise ==
    ASSUME UNCHANGED <<unsent, Owed, Parked>>, worked \subseteq worked'
    PROVE  Promised
BY DEF Promised, Promise!Next

LEMMA BackOwes ==
    ASSUME NEW m \in DOMAIN inflight, Back(m)
    PROVE  UNCHANGED <<Owed, Parked>>
BY DEF Back, With, Without, Owed, Parked

LEMMA OpenPromised ==
    ASSUME IndInv, InHand, NEW c \in Clients, Open(c), UNCHANGED <<unsent, worked>>
    PROVE  Promised
<1>1. client[c].cur \in Messages /\ client[c].cur \in DOMAIN inflight
  BY DEF IndInv, ClientOK, InHand, Open, Busy
<1>2. CASE UNCHANGED dirs
  BY <1>2, QuietPromise DEF dirs, Owed, Parked
<1>3. CASE ~UNCHANGED dirs
  <2>1. /\ dead' = With(dead, client[c].cur, Blank)
        /\ UNCHANGED <<ready, inflight>>
    BY <1>1, <1>3 DEF Open
  <2>2. Promise!Park(client[c].cur)
    BY <2>1 DEF Promise!Park, With, Owed, Parked
  <2> QED
    BY <1>1, <2>2 DEF Promised, Promise!Next
<1> QED
  BY <1>2, <1>3

LEMMA UnlinkPromised ==
    ASSUME IndInv, InHand, NEW c \in Clients, Unlink(c), UNCHANGED <<unsent, worked>>
    PROVE  Promised
<1> DEFINE m == client[c].cur
<1>1. m \in Messages /\ m \in DOMAIN inflight
  BY DEF IndInv, ClientOK, InHand, Unlink, Busy
<1>2. Parked' = Parked /\ (Owed' = Owed \/ Owed' = Owed \ {m})
  BY DEF Unlink, Without, Owed, Parked
<1>3. CASE Owed' = Owed
  BY <1>2, <1>3, QuietPromise
<1>4. CASE Owed' = Owed \ {m} /\ client[c].pc = "ack"
  <2>1. m \in worked /\ m \in Owed
    BY <1>1, <1>4 DEF IndInv, ClientOK, Owed
  <2>2. Promise!Finish(m)
    BY <1>1, <1>2, <1>4, <2>1 DEF Promise!Finish
  <2> QED
    BY <1>1, <2>2 DEF Promised, Promise!Next
<1>5. CASE Owed' = Owed \ {m} /\ client[c].pc = "unlink"
  <2>1. m \in Parked
    BY <1>1, <1>5 DEF IndInv, ClientOK
  <2>2. Promise!Park(m)
    BY <1>1, <1>2, <1>5, <2>1 DEF Promise!Park
  <2> QED
    BY <1>1, <2>2 DEF Promised, Promise!Next
<1> QED
  BY <1>2, <1>3, <1>4, <1>5 DEF Unlink

LEMMA CallPromised ==
    ASSUME IndInv, InHand, NEW c \in Clients, Call(c), UNCHANGED <<unsent, worked>>
    PROVE  Promised
<1>1. CASE Open(c) \/ Unlink(c)
  BY <1>1, OpenPromised, UnlinkPromised
<1>2. CASE UNCHANGED dirs
  BY <1>2, QuietPromise DEF dirs, Owed, Parked
<1>3. CASE ReapMove(c) \/ Return(c)
  BY <1>2, <1>3, BackOwes, QuietPromise DEF ReapMove, Return
<1>4. ASSUME NEW m \in Messages, Claim(c, m) PROVE Promised
  <2>1. CASE m \in DOMAIN ready /\ Taken(m)
    BY <2>1, QuietPromise DEF Taken, With, Without, Owed, Parked
  <2> QED
    BY <1>2, <1>4, <2>1 DEF Claim
<1>5. (\E m \in Messages : ReapStat(c, m)) \/ ReapEnd(c) \/ ClaimNone(c) \/ Load(c)
      \/ Write(c) \/ Nack(c) \/ Park(c) => UNCHANGED dirs
  BY DEF ReapStat, ReapEnd, ClaimNone, Load, Write, Nack, Park
<1> QED
  BY <1>1, <1>2, <1>3, <1>4, <1>5 DEF Call

LEMMA NextPromised == IndInv /\ InHand /\ [Next]_vars => Promised
<1> SUFFICES ASSUME IndInv, InHand, [Next]_vars PROVE Promised
  OBVIOUS
<1>1. CASE UNCHANGED dirs /\ unsent' = unsent /\ worked \subseteq worked'
  BY <1>1, QuietPromise DEF dirs, Owed, Parked
<1>2. ASSUME NEW c \in Clients, Called(c) PROVE Promised
  BY <1>2, CallPromised DEF Called
<1>3. ASSUME NEW m \in Messages, PublishNew(m) PROVE Promised
  <2>1. /\ m \in unsent /\ unsent' = unsent \ {m} /\ worked' = worked
        /\ ready' = With(ready, m, Blank) /\ UNCHANGED <<inflight, dead>>
    BY <1>3 DEF PublishNew, Publish
  <2>2. Promise!Publish(m)
    BY <2>1 DEF Promise!Publish, With, Owed, Parked
  <2> QED
    BY <2>1, <2>2 DEF Promised, Promise!Next
<1>4. ASSUME NEW c \in Clients, Start(c) \/ Receive(c) \/ Idle(c) \/ Handle(c) \/ Signal(c)
                                \/ Crash(c)
      PROVE  UNCHANGED dirs /\ unsent' = unsent /\ worked \subseteq worked'
  BY <1>4 DEF Start, Receive, Idle, Handle, Signal, Crash, queueVars
<1>5. ASSUME (\E m \in Messages : Ages(m)) \/ UNCHANGED vars
      PROVE  UNCHANGED dirs /\ unsent' = unsent /\ worked \subseteq worked'
  BY <1>5 DEF Ages, vars, queueVars
<1> QED
  BY <1>1, <1>2, <1>3, <1>4, <1>5 DEF Next, Worker

LEMMA InitPromised == Init => Promise!Init
BY DEF Init, Promise!Init, Owed, Parked

LEMMA PromiseOf == Spec /\ []InHand => KeepsPromise
BY InitPromised, NextPromised, InvariantHolds, PTL
   DEF Spec, KeepsPromise, Promise!Spec, Promise!ledger, Promised

-----------------------------------------------------------------------------
(* One worker: nobody else touches its claim, which it reclaims itself only  *)
(* when it has none in hand.                                                *)
Sole == \A c, d \in Clients : c = d

LEMMA SoleHand ==
    ASSUME Sole, InHand, NEW c \in Clients,
           client'[c].pc \in Busy => client'[c].cur \in DOMAIN inflight'
    PROVE  InHand'
BY DEF Sole, InHand

LEMMA SoleCall ==
    ASSUME Sole, IndInv, InHand, NEW c \in Clients, Call(c)
    PROVE  InHand'
<1>1. client[c] \in Client /\ client \in [Clients -> Client]
  BY DEF IndInv, TypeOK, QueueTypeOK
<1>2. SUFFICES client'[c].pc \in Busy => client'[c].cur \in DOMAIN inflight'
  BY SoleHand
<1>3. client[c].pc \in Busy => client[c].cur \in DOMAIN inflight
  BY DEF InHand
<1>4. CASE \/ \E m \in Messages : ReapStat(c, m)
           \/ ReapMove(c) \/ ReapEnd(c)
  <2>1. CASE ReapMove(c)
    BY <1>1, <2>1 DEF ReapMove, Busy
  <2>2. CASE ReapEnd(c)
    BY <1>1, <2>2 DEF ReapEnd, Busy, Client
  <2>3. CASE \E m \in Messages : ReapStat(c, m)
    BY <1>1, <2>3 DEF ReapStat, Busy
  <2> QED
    BY <1>4, <2>1, <2>2, <2>3
<1>5. ASSUME NEW m \in Messages, Claim(c, m)
      PROVE  client'[c].pc \in Busy => client'[c].cur \in DOMAIN inflight'
  BY <1>1, <1>5 DEF Claim, Taken, With, Busy, Client
<1>6. CASE Load(c) \/ Write(c) \/ Nack(c) \/ Park(c)
  <2>1. UNCHANGED dirs
    BY <1>6 DEF Load, Write, Nack, Park
  <2>2. client[c].pc \in Busy
    BY <1>6 DEF Load, Write, Nack, Park, Busy
  <2>3. client'[c].cur = client[c].cur \/ client'[c].pc \notin Busy
    BY <1>1, <1>6 DEF Load, Write, Nack, Park, Leaves, At, Busy, Client
  <2> QED
    BY <1>3, <2>1, <2>2, <2>3 DEF dirs
<1>7. CASE Open(c)
  <2>1. client'[c].cur = client[c].cur /\ client[c].pc \in Busy
    BY <1>1, <1>7 DEF Open, Opening, Client, Busy
  <2>2. DOMAIN inflight \subseteq DOMAIN inflight'
    BY <1>7 DEF Open, dirs, With
  <2> QED
    BY <1>3, <2>1, <2>2
<1>8. CASE ClaimNone(c) \/ Return(c) \/ Unlink(c)
  BY <1>1, <1>8 DEF ClaimNone, Return, Unlink, Leaves, At, Busy
<1> QED
  BY <1>4, <1>5, <1>6, <1>7, <1>8 DEF Call

LEMMA SoleNext == ASSUME Sole PROVE IndInv /\ InHand /\ [Next]_vars => InHand'
<1> SUFFICES ASSUME IndInv, InHand, [Next]_vars PROVE InHand'
  OBVIOUS
<1>1. client \in [Clients -> Client]
  BY DEF IndInv, TypeOK, QueueTypeOK
<1>2. ASSUME NEW c \in Clients, Called(c) PROVE InHand'
  BY <1>2, SoleCall DEF Called
<1>3. ASSUME NEW c \in Clients, Start(c) \/ Receive(c) \/ Idle(c) \/ Crash(c) PROVE InHand'
  <2>1. client'[c].pc \notin Busy
    BY <1>1, <1>3 DEF Start, Receive, Idle, Crash, Reaping, Leaves, At, Busy
  <2> QED
    BY <2>1, SoleHand
<1>4. ASSUME NEW c \in Clients, Handle(c) PROVE InHand'
  <2>1. client[c] \in Client /\ client[c].pc \in Busy /\ UNCHANGED dirs
    BY <1>1, <1>4 DEF Handle, Busy
  <2>2. client'[c].cur = client[c].cur
    BY <1>1, <1>4, <2>1 DEF Handle, Client
  <2>3. client[c].cur \in DOMAIN inflight'
    BY <2>1 DEF InHand, dirs
  <2> QED
    BY <2>2, <2>3, SoleHand
<1>5. ASSUME NEW m \in Messages, PublishNew(m) \/ Ages(m) PROVE InHand'
  BY <1>5 DEF PublishNew, Publish, Ages, dirs, InHand
<1>6. CASE (\E c \in Clients : Signal(c)) \/ UNCHANGED vars
  BY <1>6 DEF Signal, vars, queueVars, dirs, InHand
<1> QED
  BY <1>2, <1>3, <1>4, <1>5, <1>6 DEF Next, Worker

LEMMA InitInHand == Init => InHand
BY DEF Init, At, InHand, Busy

(* One worker keeps the promise of AtLeastOnce whatever lapses and however   *)
(* often it dies: a message it no longer owes was worked off or is parked,  *)
(* and none comes back once it is settled.                                  *)
THEOREM OneWorkerKeepsPromise ==
    ASSUME \A c, d \in Clients : c = d
    PROVE  Spec => KeepsPromise
<1>1. IndInv /\ InHand /\ [Next]_vars => InHand'
  BY SoleNext DEF Sole
<1>2. Spec => []InHand
  BY <1>1, InitInHand, InvariantHolds, PTL DEF Spec
<1> QED
  BY <1>2, PromiseOf, PTL

Faultless == faults = 0

(* Any number of workers do, as long as no claim lapses under one of them    *)
(* and none dies: then no two of them hold a message at once.               *)
THEOREM WorkersKeepPromise ==
    ASSUME Faults = {}
    PROVE  Spec => KeepsPromise
<1>1. Init => Faultless
  BY DEF Init, Faultless
<1>2. Faultless /\ [Next]_vars => Faultless'
  <2> SUFFICES ASSUME faults = 0, [Next]_vars PROVE faults' = 0
    BY DEF Faultless
  <2>1. \A kind : ~Fault(kind)
    BY DEF Fault
  <2> QED
    BY <2>1 DEF Next, vars, Worker, Start, Receive, Idle, Handle, Called, Signal, Crash,
       PublishNew, Ages
<1>3. Exclusive /\ Faultless /\ IndInv => InHand
  <2> SUFFICES ASSUME Exclusive, faults = 0, IndInv, NEW c \in Clients,
                      client[c].pc \in Busy
               PROVE  client[c].cur \in DOMAIN inflight
    BY DEF InHand, Faultless
  <2>1. PICK m \in Messages : m = client[c].cur /\ Holds(c, m)
    BY DEF IndInv, ClientOK, Holds, Busy
  <2>2. m \in DOMAIN inflight
    BY <2>1 DEF Exclusive
  <2> QED
    BY <2>1, <2>2
<1>4. Spec => []InHand
  BY <1>1, <1>2, <1>3, ClaimsAreExclusive, InvariantHolds, PTL DEF Spec
<1> QED
  BY <1>4, PromiseOf, PTL

=============================================================================
