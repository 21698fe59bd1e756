----------------------------- MODULE Documents -----------------------------
(***************************************************************************)
(* A document's way through the pipeline: a parse container reads it,       *)
(* keeps the parse in the cache under the hash of its content and           *)
(* announces it on to-index; an index worker takes the announcement, reads  *)
(* the parse and writes both branches to Postgres in one transaction.       *)
(*                                                                         *)
(* Containers (workers/parse_worker.py, cache.py, blobstore.py) share the   *)
(* cache directory and nothing else, so they take one step per filesystem   *)
(* call.  The dispatcher is reduced to the claims it holds on to-parse;     *)
(* to-index is the reference queue.                                         *)
(***************************************************************************)
EXTENDS MemoryQueue

CONSTANTS
    Docs,            \* the uris of ParseRequests
    Contents,        \* what a document's bytes may be, and so the shas
    Containers,      \* parse containers; each runs once
    Workers,         \* index workers
    Asked,           \* the branches an enqueuer may ask for
    OwnPidNamespace, \* every container's worker is PID 1, as under docker run
    MaxAttempts,     \* max_attempts, on both queues
    Faults,          \* the kinds of fault that may happen
    MaxFaults,       \* how many of them may
    None             \* no document, no content, no parse

ASSUME DocumentsAssumption ==
    /\ Containers \subseteq Messages
    /\ IsFiniteSet(Contents)
    /\ Asked \subseteq {{"tables", "chunks"}, {"tables"}, {"chunks"}}
    /\ OwnPidNamespace \in BOOLEAN
    /\ MaxAttempts \in Nat \ {0}
    /\ MaxFaults \in Nat
    /\ Faults \subseteq {"expiry", "kill", "crash"}
    /\ None \notin Docs \cup Contents \cup Containers

VARIABLES
    source,      \* the bytes behind each uri
    forced,      \* the requests that were made with --force
    waiting,     \* to-parse: the requests that wait
    claimed,     \* to-parse: the requests on which the dispatcher has a claim
    parked,      \* to-parse: the requests that were dead-lettered
    tries,       \* to-parse: the deliveries of each request
    container,   \* where each container is
    final,       \* the cache: sha -> file
    tmp,         \* the cache: <<sha, pid>> -> file, what writing() yields
    file,        \* the parse in each file, None when it was cut short
    meta,        \* the manifests: sha -> uri
    body,        \* the IndexRequest of each message on to-index
    worker,      \* where each index worker is
    db,          \* sha -> row of documents, with what its branches hold
    enqueuer,    \* enqueue_cached, when it runs
    faults       \* faults so far

given      == <<source, forced>>
parseVars  == <<waiting, claimed, parked, tries>>
cacheVars  == <<final, tmp, file, meta>>
indexVars  == <<queueVars, body>>
storeVars  == <<worker, db, enqueuer>>
vars == <<given, parseVars, container, cacheVars, indexVars, storeVars, faults>>

(* What a step inside a container leaves alone. *)
outside == <<given, parseVars, indexVars, storeVars, faults>>

-----------------------------------------------------------------------------
Branches == {"tables", "chunks"}

(* A container creates at most one file and makes at most one parse, so     *)
(* both have its name.  got: the parse this container made or loaded.       *)
Container == [pc : {"unused", "fetch", "drop", "dropmeta", "look", "load", "convert",
                    "create", "write", "replace", "clean", "manifest", "publish",
                    "exit", "exited", "failed"},
              doc : Docs \cup {None},
              attempt : Nat,
              sha : Contents \cup {None},
              fd : Containers \cup {None},
              got : Containers \cup {None},
              stored : BOOLEAN,
              before : SUBSET Containers]     \* history: those over by then

Unused == [pc |-> "unused", doc |-> None, attempt |-> 0, sha |-> None, fd |-> None,
           got |-> None, stored |-> FALSE, before |-> {}]

IndexRequest == [sha : Contents, uri : Docs, branches : SUBSET Branches]

Worker == [pc : {"idle", "load", "write", "ack", "failed"},
           d : Delivery \cup {None},
           parse : Containers \cup {None}]

Idle == [pc |-> "idle", d |-> None, parse |-> None]

Row == [uri : Docs, tables : Containers \cup {None}, chunks : Containers \cup {None}]

NotEnqueuing == [todo |-> {}, branches |-> {}]

Over    == {k \in Containers : container[k].pc \in {"exited", "failed"}}
Running == {k \in Containers : container[k].pc \notin {"unused", "exited", "failed"}}
Exited  == {k \in Containers : container[k].pc = "exited"}

(* The worker's process in a container has no siblings to differ from.      *)
Pid(k) == IF OwnPidNamespace THEN None ELSE k

Scratch(k) == <<container[k].sha, Pid(k)>>

Fault(kind) ==
    /\ kind \in Faults
    /\ faults < MaxFaults
    /\ faults' = faults + 1

Init ==
    /\ source \in [Docs -> Contents]
    /\ forced \in SUBSET Docs
    /\ waiting = Docs
    /\ claimed = {}
    /\ parked = {}
    /\ tries = [d \in Docs |-> 0]
    /\ container = [k \in Containers |-> Unused]
    /\ final = [s \in {} |-> None]
    /\ tmp = [s \in {} |-> None]
    /\ file = [k \in Containers |-> None]
    /\ meta = [s \in {} |-> None]
    /\ ready = <<>>
    /\ inflight = [m \in {} |-> None]
    /\ dead = {}
    /\ body = [m \in {} |-> None]
    /\ worker = [w \in Workers |-> Idle]
    /\ db = [s \in {} |-> None]
    /\ enqueuer = NotEnqueuing
    /\ faults = 0

-----------------------------------------------------------------------------
(* The dispatcher and to-parse.  A delivery is claimed and its container    *)
(* launched; the exit code settles it.                                      *)
Launch(d) ==
    /\ d \in waiting
    /\ \E k \in Containers : container[k].pc = "unused"
    /\ waiting' = waiting \ {d}
    /\ claimed' = claimed \cup {d}
    /\ tries' = [tries EXCEPT ![d] = @ + 1]
    /\ LET k == CHOOSE k \in Containers : container[k].pc = "unused"
       IN  container' = [container EXCEPT ![k] =
              [Unused EXCEPT !.pc = "fetch", !.doc = d, !.attempt = tries'[d],
                             !.before = Over]]
    /\ UNCHANGED <<given, parked, cacheVars, indexVars, storeVars, faults>>

(* The claim outlives its visibility_timeout, or the dispatcher.            *)
Lapse(d) ==
    /\ d \in claimed
    /\ Fault("expiry")
    /\ claimed' = claimed \ {d}
    /\ waiting' = waiting \cup {d}
    /\ UNCHANGED <<given, parked, tries, container, cacheVars, indexVars, storeVars>>

(* Exit code 0: the message is acked. *)
Exit(k) ==
    /\ container[k].pc = "exit"
    /\ container' = [container EXCEPT ![k].pc = "exited", ![k].attempt = 0,
                                      ![k].stored = FALSE]
    /\ claimed' = claimed \ {container[k].doc}
    /\ UNCHANGED <<given, waiting, parked, tries, cacheVars, indexVars, storeVars, faults>>

(* Any other: it is parked when it is out of attempts, or given back, which *)
(* does nothing to a claim that has lapsed.                                 *)
Failing(k) ==
    LET d == container[k].doc
        spent == container[k].attempt >= MaxAttempts
    IN  /\ container' = [container EXCEPT ![k] = [Unused EXCEPT !.pc = "failed"]]
        /\ claimed' = claimed \ {d}
        /\ parked' = IF spent THEN parked \cup {d} ELSE parked
        /\ waiting' = IF ~spent /\ d \in claimed THEN waiting \cup {d} ELSE waiting
        /\ UNCHANGED <<given, tries, indexVars, storeVars>>

(* Something raises: the document is gone, Docling fails on it, the disk is *)
(* full or the queue's directory is not there.                              *)
Raises(k) ==
    /\ container[k].pc \in {"fetch", "convert", "manifest", "publish"}
    /\ Failing(k)
    /\ UNCHANGED <<cacheVars, faults>>

(* The container is killed, by the timeout or for its memory.               *)
Kill(k) ==
    /\ k \in Running
    /\ Fault("kill")
    /\ Failing(k)
    /\ UNCHANGED cacheVars

-----------------------------------------------------------------------------
(* The parse container: handle(). *)
Step(k, from, to) ==
    /\ container[k].pc = from
    /\ container' = [container EXCEPT ![k].pc = to]
    /\ UNCHANGED outside

Fetch(k) ==
    /\ container[k].pc = "fetch"
    /\ container' = [container EXCEPT
          ![k].sha = source[container[k].doc],
          ![k].pc = IF container[k].doc \in forced THEN "drop" ELSE "look"]
    /\ UNCHANGED <<outside, cacheVars>>

(* Mutant: the manifest is forgotten, the parse kept. *)
DropParseNot(k) == Step(k, "drop", "dropmeta") /\ UNCHANGED cacheVars

(* drop_cached: the parse, then the manifest. *)
DropParse(k) ==
    /\ Step(k, "drop", "dropmeta")
    /\ final' = Without(final, {container[k].sha})
    /\ UNCHANGED <<tmp, file, meta>>

DropMeta(k) ==
    /\ Step(k, "dropmeta", "look")
    /\ meta' = Without(meta, {container[k].sha})
    /\ UNCHANGED <<final, tmp, file>>

(* parse_and_cache: exists(). *)
Look(k) ==
    /\ Step(k, "look", IF container[k].sha \in DOMAIN final THEN "load" ELSE "convert")
    /\ UNCHANGED cacheVars

(* A hit is read; it may have been dropped since, and it may be torn.       *)
Load(k) ==
    LET s == container[k].sha
        readable == s \in DOMAIN final /\ file[final[s]] # None
    IN  /\ container[k].pc = "load"
        /\ \/ /\ readable
              /\ container' = [container EXCEPT ![k].pc = "manifest",
                                                ![k].got = file[final[s]]]
              /\ UNCHANGED <<given, parseVars, indexVars, storeVars>>
           \/ ~readable /\ Failing(k)
        /\ UNCHANGED <<cacheVars, faults>>

Convert(k) ==
    /\ container[k].pc = "convert"
    /\ container' = [container EXCEPT ![k].pc = "create", ![k].got = k]
    /\ UNCHANGED <<outside, cacheVars>>

(* Mutant: the parse is saved under its final name. *)
CreateInPlace(k) ==
    LET s == container[k].sha
        f == IF s \in DOMAIN final THEN final[s] ELSE k
    IN  /\ container[k].pc = "create"
        /\ container' = [container EXCEPT ![k].pc = "write", ![k].fd = f]
        /\ file' = [file EXCEPT ![f] = None]
        /\ final' = With(final, s, f)
        /\ tmp' = With(tmp, Scratch(k), f)
        /\ UNCHANGED <<outside, meta>>

(* save_as_json opens the path writing() has yielded: what is there is      *)
(* truncated, whoever put it there.                                         *)
Create(k) ==
    LET f == IF Scratch(k) \in DOMAIN tmp THEN tmp[Scratch(k)] ELSE k
    IN  /\ container[k].pc = "create"
        /\ container' = [container EXCEPT ![k].pc = "write", ![k].fd = f]
        /\ file' = [file EXCEPT ![f] = None]
        /\ tmp' = With(tmp, Scratch(k), f)
        /\ UNCHANGED <<outside, final, meta>>

(* ... and writes it, or raises half-way, which goes to the finally.        *)
Write(k) ==
    /\ container[k].pc = "write"
    /\ \/ /\ file' = [file EXCEPT ![container[k].fd] = k]
          /\ container' = [container EXCEPT ![k].pc = "replace", ![k].fd = None]
       \/ /\ container' = [container EXCEPT ![k].pc = "clean", ![k].fd = None]
          /\ UNCHANGED file
    /\ UNCHANGED <<outside, final, tmp, meta>>

(* tmp.exists() and os.replace: with the file gone either one raises.       *)
Replace(k) ==
    LET t == Scratch(k)
    IN  /\ container[k].pc = "replace"
        /\ container' = [container EXCEPT ![k].pc = "clean",
                                          ![k].stored = t \in DOMAIN tmp]
        /\ \/ /\ t \in DOMAIN tmp
              /\ final' = With(final, container[k].sha, tmp[t])
              /\ tmp' = Without(tmp, {t})
           \/ t \notin DOMAIN tmp /\ UNCHANGED <<final, tmp>>
        /\ UNCHANGED <<outside, file, meta>>

(* The finally of writing(): whatever has the name goes.                    *)
Clean(k) ==
    /\ container[k].pc = "clean"
    /\ tmp' = Without(tmp, {Scratch(k)})
    /\ \/ /\ container[k].stored
          /\ container' = [container EXCEPT ![k].pc = "manifest"]
          /\ UNCHANGED <<given, parseVars, indexVars, storeVars>>
       \/ ~container[k].stored /\ Failing(k)
    /\ UNCHANGED <<final, file, meta, faults>>

(* Manifest.write, through a scratch file nobody else can name.             *)
WriteManifest(k) ==
    /\ Step(k, "manifest", "publish")
    /\ meta' = With(meta, container[k].sha, container[k].doc)
    /\ UNCHANGED <<final, tmp, file>>

Announcing(k) == [sha |-> container[k].sha, uri |-> container[k].doc, branches |-> Branches]

(* Mutant: only new parses are announced. *)
AnnounceNew(k) ==
    /\ container[k].pc = "publish"
    /\ container' = [container EXCEPT ![k].pc = "exit"]
    /\ \/ /\ container[k].got = k
          /\ Publish(k)
          /\ body' = With(body, k, Announcing(k))
       \/ container[k].got # k /\ UNCHANGED indexVars
    /\ UNCHANGED <<given, parseVars, cacheVars, storeVars, faults>>

Announce(k) ==
    /\ container[k].pc = "publish"
    /\ container' = [container EXCEPT ![k].pc = "exit"]
    /\ Publish(k)
    /\ body' = With(body, k, Announcing(k))
    /\ UNCHANGED <<given, parseVars, cacheVars, storeVars, faults>>

Parse(k) ==
    \/ Fetch(k) \/ DropParse(k) \/ DropMeta(k) \/ Look(k) \/ Load(k) \/ Convert(k)
    \/ Create(k) \/ Write(k) \/ Replace(k) \/ Clean(k) \/ WriteManifest(k)
    \/ Announce(k) \/ Exit(k)

-----------------------------------------------------------------------------
(* The index worker: consume() around handle(). *)
others == <<given, parseVars, container, cacheVars>>

Take(w) ==
    /\ worker[w].pc = "idle"
    /\ \E q \in AfterReap :
        /\ Receive(q)
        /\ worker' = [worker EXCEPT ![w] = [Idle EXCEPT !.pc = "load", !.d = Delivering(q)]]
    /\ UNCHANGED <<others, body, db, enqueuer, faults>>

(* load_cached raises when the parse is gone, or torn.                      *)
LoadCached(w) ==
    LET s == body[worker[w].d.id].sha
    IN  /\ worker[w].pc = "load"
        /\ \/ /\ s \in DOMAIN final /\ file[final[s]] # None
              /\ worker' = [worker EXCEPT ![w].pc = "write", ![w].parse = file[final[s]]]
           \/ /\ ~(s \in DOMAIN final /\ file[final[s]] # None)
              /\ worker' = [worker EXCEPT ![w].pc = "failed"]
        /\ UNCHANGED <<others, indexVars, db, enqueuer, faults>>

Stored(s) == IF s \in DOMAIN db THEN db[s]
             ELSE [uri |-> None, tables |-> None, chunks |-> None]

(* Mutant: a branch that has rows keeps them. *)
WrittenOnce(request, parse) ==
    LET branch(b) == IF b \in request.branches /\ Stored(request.sha)[b] = None
                     THEN parse ELSE Stored(request.sha)[b]
    IN  [uri |-> request.uri, tables |-> branch("tables"), chunks |-> branch("chunks")]

(* The row, and the branches asked for; the other "is left untouched".      *)
Written(request, parse) ==
    LET branch(b) == IF b \in request.branches THEN parse ELSE Stored(request.sha)[b]
    IN  [uri |-> request.uri, tables |-> branch("tables"), chunks |-> branch("chunks")]

(* Extraction, embedding and write_all.  The upsert locks the row, so the   *)
(* transactions on one document come one after the other.                   *)
WriteAll(w) ==
    LET request == body[worker[w].d.id]
    IN  /\ worker[w].pc = "write"
        /\ \/ /\ db' = With(db, request.sha, Written(request, worker[w].parse))
              /\ worker' = [worker EXCEPT ![w].pc = "ack", ![w].parse = None]
           \/ /\ worker' = [worker EXCEPT ![w].pc = "failed", ![w].parse = None]
              /\ UNCHANGED db
        /\ UNCHANGED <<others, indexVars, enqueuer, faults>>

Settle(w) ==
    LET d == worker[w].d
    IN  /\ \/ worker[w].pc = "ack" /\ Ack(d)
           \/ worker[w].pc = "failed" /\ d.attempts >= MaxAttempts /\ DeadLetter(d)
           \/ worker[w].pc = "failed" /\ d.attempts < MaxAttempts /\ Nack(d)
        /\ worker' = [worker EXCEPT ![w] = Idle]
        /\ UNCHANGED <<others, body, db, enqueuer, faults>>

Index(w) == Take(w) \/ LoadCached(w) \/ WriteAll(w) \/ Settle(w)

Crash(w) ==
    /\ worker[w].pc # "idle"
    /\ Fault("crash")
    /\ worker' = [worker EXCEPT ![w] = Idle]
    /\ UNCHANGED <<others, indexVars, db, enqueuer>>

Held(m) == \E w \in Workers : worker[w].pc # "idle" /\ worker[w].d.id = m

Expires(m) ==
    /\ IF Held(m) THEN Fault("expiry") ELSE UNCHANGED faults
    /\ ClaimExpires(m)
    /\ UNCHANGED <<others, body, storeVars>>

-----------------------------------------------------------------------------
(* cached_shas: "every sha with both a parse and a manifest".               *)
Cached == DOMAIN final \cap DOMAIN meta

(* enqueue_cached and enqueue_stale select what is cached, or some shas by  *)
(* name or from the database; then comes one message for each, made from    *)
(* its manifest.  A manifest that is gone by then ends the enqueuer.        *)
FreeIds == Messages \ (Containers \cup DOMAIN body)

Enqueue ==
    /\ enqueuer.todo = {}
    /\ \E todo \in {Cached} \cup SUBSET Contents, branches \in Asked :
        /\ todo # {}
        /\ Cardinality(todo) <= Cardinality(FreeIds)
        /\ enqueuer' = [todo |-> todo, branches |-> branches]
    /\ UNCHANGED <<others, indexVars, worker, db, faults>>

EnqueueNext(s) ==
    /\ s \in enqueuer.todo
    /\ \/ /\ s \in DOMAIN meta
          /\ LET m == CHOOSE m \in FreeIds : TRUE
             IN  /\ Publish(m)
                 /\ body' = With(body, m, [sha |-> s, uri |-> meta[s],
                                           branches |-> enqueuer.branches])
          /\ enqueuer' = IF enqueuer.todo = {s} THEN NotEnqueuing
                         ELSE [enqueuer EXCEPT !.todo = @ \ {s}]
       \/ /\ s \notin DOMAIN meta
          /\ enqueuer' = NotEnqueuing
          /\ UNCHANGED indexVars
    /\ UNCHANGED <<others, worker, db, faults>>

-----------------------------------------------------------------------------
Next ==
    \/ \E d \in Docs : Launch(d) \/ Lapse(d)
    \/ \E k \in Containers : Parse(k) \/ Raises(k) \/ Kill(k)
    \/ \E w \in Workers : Index(w) \/ Crash(w)
    \/ \E m \in Messages : Expires(m)
    \/ Enqueue
    \/ \E s \in Contents : EnqueueNext(s)

Spec == Init /\ [][Next]_vars

(* The dispatcher and the workers keep going, a container goes on or fails, *)
(* and time passes for claims nobody works on.                              *)
Fairness ==
    /\ \A d \in Docs : WF_vars(Launch(d))
    /\ \A k \in Containers : WF_vars(Parse(k) \/ Raises(k))
    /\ \A w \in Workers : WF_vars(Index(w))
    /\ \A m \in Messages : WF_vars(~Held(m) /\ Expires(m))

FairSpec == Spec /\ Fairness

-----------------------------------------------------------------------------
(* Properties. *)

(* The variables have the types the code gives them.                        *)
TypeOK ==
    /\ source \in [Docs -> Contents]
    /\ forced \subseteq Docs
    /\ waiting \subseteq Docs /\ claimed \subseteq Docs /\ parked \subseteq Docs
    /\ tries \in [Docs -> Nat]
    /\ container \in [Containers -> Container]
    /\ final \in [DOMAIN final -> Containers] /\ DOMAIN final \subseteq Contents
    /\ tmp \in [DOMAIN tmp -> Containers]
    /\ DOMAIN tmp \subseteq Contents \X (Containers \cup {None})
    /\ file \in [Containers -> Containers \cup {None}]
    /\ meta \in [DOMAIN meta -> Docs] /\ DOMAIN meta \subseteq Contents
    /\ QueueTypeOK
    /\ body \in [DOMAIN body -> IndexRequest] /\ DOMAIN body \subseteq Messages
    /\ worker \in [Workers -> Worker]
    /\ db \in [DOMAIN db -> Row] /\ DOMAIN db \subseteq Contents
    /\ enqueuer.todo \subseteq Contents
    /\ faults \in Nat

(* What the cache holds "was stored on clean exit": whoever opens a parse   *)
(* reads a whole one, whenever a container is killed or fails.              *)
CacheWhole == \A s \in DOMAIN final : file[final[s]] # None

Announced(s) ==
    \E m \in Outstanding \cup {d.id : d \in dead} :
        body[m].sha = s /\ body[m].branches = Branches

Indexed(s) == s \in DOMAIN db /\ db[s].tables # None /\ db[s].chunks # None

(* A document whose message left to-parse with its container's exit code is *)
(* in the database with both branches, or a message that asks for it is on  *)
(* to-index or parked there: nothing falls between the two queues.          *)
NotLostBetween == \A k \in Exited : Announced(container[k].sha) \/ Indexed(container[k].sha)

(* Once the announcement of a cached parse has been worked off, the         *)
(* database holds that parse in both branches, not one an earlier           *)
(* announcement, a redelivery or enqueue_cached brought there; one index    *)
(* worker is assumed.                                                       *)
DbIsCurrent ==
    \A k \in Exited :
        LET s == container[k].sha
        IN  /\ s \in DOMAIN final
            /\ file[final[s]] = container[k].got
            /\ k \notin Outstanding \cup {d.id : d \in dead}
            /\ \A w \in Workers : worker[w].pc # "write"
            => /\ s \in DOMAIN db
               /\ db[s].tables = container[k].got
               /\ db[s].chunks = container[k].got

(* --force: "re-parse even if the cache already holds this content".  A     *)
(* container that was over when the forced one started made no parse the    *)
(* forced one returns.                                                      *)
ForcedIsFresh ==
    \A k \in Exited : container[k].doc \in forced => container[k].got \notin container[k].before

(* Every request is in the end indexed, or parked on one of the queues.     *)
EventuallyIndexed ==
    \A d \in Docs :
        d \in waiting \cup claimed ~>
            \/ d \in parked
            \/ Indexed(source[d])
            \/ \E e \in dead : body[e.id].sha = source[d]

=============================================================================
