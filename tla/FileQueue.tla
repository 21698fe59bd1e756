----------------------------- MODULE FileQueue -----------------------------
(***************************************************************************)
(* FileQueue (queues/files.py): the queue the services share through a      *)
(* bind mount.  One file per message, in one of the directories ready/,     *)
(* inflight/ and dead/; a claim is a rename.  There is no lock, so every    *)
(* step below is one filesystem call of one client, and the calls of the    *)
(* other clients come between any two of them.                              *)
(*                                                                         *)
(* A directory maps names to files, and a rename moves the file: whoever    *)
(* has it open goes on writing to it under its new name, or under none.     *)
(* Directories are listed at once, as iterdir() does; the order in which    *)
(* the names are then gone through is left open.                            *)
(***************************************************************************)
EXTENDS Maps, Naturals, FiniteSets, Functions

CONSTANTS
    Messages,    \* message ids, which are also the file names
    Clients,     \* processes with a handle on the queue
    Files,       \* what names can refer to
    None         \* no message, and no file

ASSUME NoneAssumption == None \notin Messages \cup Files

VARIABLES
    ready,       \* ready/: name -> file
    inflight,    \* inflight/: name -> file
    dead,        \* dead/: name -> file
    file,        \* the content and age of each file that is still referred to
    client       \* where each client is in the call it makes

dirs == <<ready, inflight, dead>>
queueVars == <<dirs, file, client>>

-----------------------------------------------------------------------------
(* The envelope in a file: the attempts made, and whether it parses.  One   *)
(* rebuilt from a claim alone ("bare") is shorter than the one publish()    *)
(* wrote ("full").  A file is old once its mtime is further back than       *)
(* visibility_timeout.                                                      *)
Content == [attempts : Nat, shape : {"full", "bare", "torn"}, old : BOOLEAN]

Published == [attempts |-> 0, shape |-> "full", old |-> FALSE]
Truncated == [attempts |-> 0, shape |-> "torn", old |-> FALSE]

(* A client inside receive(), nack() or dead_letter(): the names it still   *)
(* has to go through, the message it is at, the attempts of the delivery,   *)
(* the envelope it has loaded, and the file it has open for writing.        *)
Client == [pc : {"down", "top", "depth", "reap", "claim", "empty", "load", "open",
                 "write", "handle", "ack", "nack", "park", "return", "unlink", "done"},
           doing : {"claim", "nack", "park"},
           names : SUBSET Messages,
           cur : Messages \cup {None},
           attempts : Nat,
           shape : {"full", "bare"},
           fd : Files \cup {None}]

At(pc) == [pc |-> pc, doing |-> "claim", names |-> {}, cur |-> None,
           attempts |-> 0, shape |-> "full", fd |-> None]

Leaves(c, pc) == client' = [client EXCEPT ![c] = At(pc)]

InUse == Range(ready) \cup Range(inflight) \cup Range(dead) \cup
         ({client[c].fd : c \in Clients} \ {None})

(* The files after a call; those nothing refers to any more are gone. *)
Kept(files) == file' = Restrict(files, InUse')

Blank == CHOOSE f \in Files : f \notin InUse

(* Names and descriptors refer to files that exist. *)
QueueTypeOK ==
    /\ \A dir \in {ready, inflight, dead} :
        /\ DOMAIN dir \subseteq Messages
        /\ dir \in [DOMAIN dir -> Files]
    /\ client \in [Clients -> Client]
    /\ DOMAIN file = InUse
    /\ file \in [InUse -> Content]

-----------------------------------------------------------------------------
(* publish() stages the file under tmp/, which no client looks at, and      *)
(* renames it whole.                                                        *)
Publish(m) ==
    /\ Files \ InUse # {}
    /\ ready' = With(ready, m, Blank)
    /\ file' = With(file, Blank, Published)
    /\ UNCHANGED <<inflight, dead, client>>

(* receive() and depth() begin with _reap, which lists inflight/.           *)
Reaping(c, pc) ==
    client' = [client EXCEPT ![c] = [At(pc) EXCEPT !.names = DOMAIN inflight]]

(* Mutant: no claim is ever found old. *)
NeverLapsed(m) == FALSE

Lapsed(m) == m \in DOMAIN inflight /\ file[inflight[m]].old

(* _reap: stat() of the next name.  The file may be gone; it may be young.  *)
ReapStat(c, m) ==
    /\ client[c].pc \in {"depth", "reap"}
    /\ client[c].cur = None
    /\ m \in client[c].names
    /\ client' = [client EXCEPT ![c].names = @ \ {m},
                                ![c].cur = IF Lapsed(m) THEN m ELSE None]
    /\ UNCHANGED <<dirs, file>>

(* Mutant: what is reclaimed is thrown away. *)
BackGone(m) ==
    /\ inflight' = Without(inflight, {m})
    /\ UNCHANGED <<ready, dead>>

(* inflight/m is renamed to ready/m. *)
Back(m) ==
    /\ inflight' = Without(inflight, {m})
    /\ ready' = With(ready, m, inflight[m])
    /\ UNCHANGED dead

(* _reap: the rename, of whatever the name stands for by now.               *)
ReapMove(c) ==
    LET m == client[c].cur
    IN  /\ client[c].pc \in {"depth", "reap"}
        /\ m # None
        /\ client' = [client EXCEPT ![c].cur = None]
        /\ \/ m \in DOMAIN inflight /\ Back(m)
           \/ m \notin DOMAIN inflight /\ UNCHANGED dirs
        /\ Kept(file)

(* The end of _reap; receive() goes on to list ready/.                      *)
ReapEnd(c) ==
    /\ client[c].pc \in {"depth", "reap"}
    /\ client[c].names = {}
    /\ client[c].cur = None
    /\ client' = [client EXCEPT
                    ![c].pc    = IF @ = "reap" THEN "claim" ELSE "top",
                    ![c].names = IF client[c].pc = "reap" THEN DOMAIN ready ELSE {}]
    /\ UNCHANGED <<dirs, file>>

(* Mutant: the claim leaves the name in ready/. *)
TakenCopy(m) ==
    /\ inflight' = With(inflight, m, ready[m])
    /\ UNCHANGED <<ready, dead>>

(* ready/m is renamed to inflight/m. *)
Taken(m) ==
    /\ ready' = Without(ready, {m})
    /\ inflight' = With(inflight, m, ready[m])
    /\ UNCHANGED dead

(* "The whole concurrency story, in one syscall": the rename that claims a  *)
(* message.  It leaves the mtime as it was.  Losing the race is no error.   *)
Claim(c, m) ==
    /\ client[c].pc = "claim"
    /\ m \in client[c].names
    /\ \/ /\ m \in DOMAIN ready
          /\ Taken(m)
          /\ client' = [client EXCEPT ![c].pc = "load", ![c].cur = m, ![c].names = @ \ {m}]
       \/ /\ m \notin DOMAIN ready
          /\ client' = [client EXCEPT ![c].names = @ \ {m}]
          /\ UNCHANGED dirs
    /\ Kept(file)

ClaimNone(c) ==
    /\ client[c].pc = "claim"
    /\ client[c].names = {}
    /\ Leaves(c, "empty")
    /\ UNCHANGED <<dirs, file>>

(* Mutant: the count is not raised by the claim. *)
CountingNot(k) == k

Counting(k) == k + 1

(* _load of the claimed file.  A receive() that finds it gone, or not JSON, *)
(* goes on to the next name and leaves it where it is; nack() and           *)
(* dead_letter() make up an envelope from the message they hold.            *)
Load(c) ==
    LET m == client[c].cur
        readable == m \in DOMAIN inflight /\ file[inflight[m]].shape # "torn"
        f == file[inflight[m]]
    IN  /\ client[c].pc = "load"
        /\ \/ /\ readable
              /\ client' = [client EXCEPT
                    ![c].pc = "open",
                    ![c].shape = f.shape,
                    ![c].attempts = IF client[c].doing = "claim" THEN Counting(f.attempts)
                                    ELSE @]
           \/ /\ ~readable /\ client[c].doing = "claim"
              /\ client' = [client EXCEPT ![c].pc = "claim", ![c].cur = None]
           \/ /\ ~readable /\ client[c].doing # "claim"
              /\ client' = [client EXCEPT ![c].pc = "open", ![c].shape = "bare"]
        /\ UNCHANGED <<dirs, file>>

(* write_text, the open(): the file is truncated, or created.               *)
Opening(c, f) ==
    /\ client' = [client EXCEPT ![c].pc = "write", ![c].fd = f]
    /\ file' = With(file, f, Truncated)

Open(c) ==
    LET m == client[c].cur
        target == IF client[c].doing = "park" THEN dead ELSE inflight
    IN  /\ client[c].pc = "open"
        /\ \/ /\ m \in DOMAIN target
              /\ Opening(c, target[m])
              /\ UNCHANGED dirs
           \/ /\ m \notin DOMAIN target
              /\ Files \ InUse # {}
              /\ Opening(c, Blank)
              /\ IF client[c].doing = "park"
                 THEN dead' = With(dead, m, Blank) /\ UNCHANGED <<ready, inflight>>
                 ELSE inflight' = With(inflight, m, Blank) /\ UNCHANGED <<ready, dead>>

(* write_text, the write().  If another client has written a longer         *)
(* envelope to the file since it was truncated, its tail is left over.      *)
Written(k, shape, before) ==
    [attempts |-> k,
     shape |-> IF before.shape = "full" /\ shape = "bare" THEN "torn" ELSE shape,
     old |-> FALSE]

Write(c) ==
    LET f == client[c].fd
    IN  /\ client[c].pc = "write"
        /\ client' = [client EXCEPT
              ![c].pc = CASE client[c].doing = "claim" -> "handle"
                          [] client[c].doing = "nack"  -> "return"
                          [] client[c].doing = "park"  -> "unlink",
              ![c].names = {},
              ![c].fd = None]
        /\ UNCHANGED dirs
        /\ Kept([file EXCEPT ![f] = Written(client[c].attempts, client[c].shape, @)])

(* nack(): exists(), and no more if the claim is gone.                      *)
Nack(c) ==
    /\ client[c].pc = "nack"
    /\ \/ /\ client[c].cur \in DOMAIN inflight
          /\ client' = [client EXCEPT ![c].pc = "load", ![c].doing = "nack"]
       \/ /\ client[c].cur \notin DOMAIN inflight
          /\ Leaves(c, "top")
    /\ UNCHANGED <<dirs, file>>

(* nack(): the rename.  If the file has been moved since, it raises, and    *)
(* consume() with it.                                                       *)
Return(c) ==
    LET m == client[c].cur
    IN  /\ client[c].pc = "return"
        /\ \/ m \in DOMAIN inflight /\ Back(m) /\ Leaves(c, "top")
           \/ m \notin DOMAIN inflight /\ UNCHANGED dirs /\ Leaves(c, "down")
        /\ Kept(file)

(* Mutant: the claim is dropped first. *)
ParkUnlinking(c) ==
    /\ client[c].pc = "park"
    /\ inflight' = Without(inflight, {client[c].cur})
    /\ UNCHANGED <<ready, dead>>
    /\ client' = [client EXCEPT ![c].pc = "load", ![c].doing = "park"]
    /\ Kept(file)

(* dead_letter() begins.                                                    *)
Park(c) ==
    /\ client[c].pc = "park"
    /\ client' = [client EXCEPT ![c].pc = "load", ![c].doing = "park"]
    /\ UNCHANGED <<dirs, file>>

(* ack(), and the end of dead_letter(): unlink, whoever's claim it is.      *)
Unlink(c) ==
    /\ client[c].pc \in {"ack", "unlink"}
    /\ inflight' = Without(inflight, {client[c].cur})
    /\ UNCHANGED <<ready, dead>>
    /\ Leaves(c, "top")
    /\ Kept(file)

(* Any of these calls. *)
Call(c) ==
    \/ \E m \in Messages : ReapStat(c, m) \/ Claim(c, m)
    \/ ReapMove(c) \/ ReapEnd(c) \/ ClaimNone(c)
    \/ Load(c) \/ Open(c) \/ Write(c)
    \/ Nack(c) \/ Return(c) \/ Park(c) \/ Unlink(c)

=============================================================================
