------------------------------ MODULE Storage ------------------------------
(***************************************************************************)
(* The two tables a parse ends up in, and everybody who writes them: index  *)
(* workers (workers/index_worker.py, storage/writer.py), callers of the     *)
(* library (pipeline.py), and the enqueuer that looks for documents of      *)
(* another profile (workers/enqueue.py).                                    *)
(*                                                                         *)
(* Postgres runs at READ COMMITTED: a statement sees what was committed     *)
(* when it began, waits for rows another transaction has changed, and then  *)
(* skips those that are gone.  Only write_all locks the document's row;     *)
(* rechunk and reextract rely on the unique keys of schema.sql.             *)
(*                                                                         *)
(* The cache holds some parse of a document or none; Documents.tla is about *)
(* how it gets there.  to-index is a set of requests.                       *)
(***************************************************************************)
EXTENDS Integers, FiniteSets

CONSTANTS
    Docs,            \* the documents, by sha
    Profiles,        \* the embedding profiles in use during a change of profile
    Active,          \* the one the enqueuer and new workers are started with
    Size,            \* Size[b][p]: rows a parse yields in branch b under p
    Vectors,         \* Vectors[p][i]: what the embedder may give chunk i under p
    Workers,         \* index workers
    Callers,         \* callers of ingest, reextract and rechunk
    ProfileOf,       \* the profile each worker and caller was started with
    MaxAttempts,     \* max_attempts
    MaxParses,       \* how many parses a document may get
    MaxEvents,       \* how many calls, new parses and faults there may be
    None             \* nothing

Branches == {"tables", "chunks"}

ASSUME StorageAssumption ==
    /\ Active \in Profiles
    /\ Size \in [Branches -> [Profiles -> Nat]]
    /\ \A b \in Branches : \/ \A p \in Profiles : Size[b][p] = 0
                          \/ \A p \in Profiles : Size[b][p] > 0
    /\ \A p \in Profiles : DOMAIN Vectors[p] = 0 .. Size["chunks"][p] - 1
    /\ ProfileOf \in [Workers \cup Callers -> Profiles]
    /\ Workers \cap Callers = {}
    /\ MaxAttempts \in Nat \ {0} /\ MaxParses \in Nat \ {0}
    /\ MaxEvents \in Nat
    /\ None \notin Docs \cup Profiles

VARIABLES
    cache,       \* the parse of each document in the cache, 0 when there is none
    known,       \* documents that have a row in the documents table
    stored,      \* the rows of each document in doc_tables and chunks
    asked,       \* to-index: the requests that wait
    parked,      \* the documents of requests that were dead-lettered
    proc,        \* what each worker and each caller is doing
    retired,     \* workers that were asked to stop
    cut,         \* workers whose connection is lost
    todo,        \* enqueue_stale: the documents still to be published
    events       \* calls, new parses and faults so far

vars == <<cache, known, stored, asked, parked, proc, retired, cut, todo,
          events>>

-----------------------------------------------------------------------------
Processes == Workers \cup Callers

(* encode_passages(texts), by profile and position. *)
Embedded == Vectors

VectorSets ==
    {{}} \cup UNION {{Embedded[p][i] : i \in DOMAIN Embedded[p]} : p \in Profiles}

Row == [branch : Branches, ord : Nat, config : Profiles \cup {None}, parse : Nat,
        vectors : VectorSets]

Of(rows, b) == {r \in rows : r.branch = b}

(* extract_tables and build_chunks: rows numbered from zero in the order of *)
(* the document, those of a chunk under the profile's version and with the  *)
(* vector zip pairs it with.                                                *)
TableRow(i, parse) ==
    [branch |-> "tables", ord |-> i, config |-> None, parse |-> parse, vectors |-> {}]

ChunkRow(i, p, parse) ==
    [branch |-> "chunks", ord |-> i, config |-> p, parse |-> parse,
     vectors |-> Embedded[p][i]]

Build(b, p, parse) ==
    {IF b = "tables" THEN TableRow(i, parse) ELSE ChunkRow(i, p, parse) :
        i \in 0 .. Size[b][p] - 1}

Request == [doc : Docs, branches : (SUBSET Branches) \ {{}}, tries : Nat]

(* What a container announces: all there is to write. *)
Announcement(d) == [doc |-> d, branches |-> Branches, tries |-> 0]

(* call: what is being run; profile: the one it embeds with; sees: rows a   *)
(* delete is waiting for; gone, new: rows deleted and inserted so far.      *)
Idle == [pc |-> "idle", call |-> None, doc |-> None, profile |-> None, all |-> {},
         left |-> {}, tries |-> 0, parse |-> 0, sees |-> {}, gone |-> {}, new |-> {}]

Starting(call, d, p, branches, tries) ==
    [Idle EXCEPT !.pc = "load", !.call = call, !.doc = d, !.profile = p,
                 !.all = branches, !.left = branches, !.tries = tries]

(* Something that need not happen: there are at most MaxEvents of these.    *)
Event == events < MaxEvents /\ events' = events + 1

(* Every document has a parse, which was announced; some were stored        *)
(* before, each under a profile.                                            *)
Init ==
    /\ cache = [d \in Docs |-> 1]
    /\ known \in SUBSET Docs
    /\ \E before \in [Docs -> Profiles] :
         stored = [d \in Docs |-> IF d \in known
                                 THEN UNION {Build(b, before[d], 1) : b \in Branches} ELSE {}]
    /\ asked = {Announcement(d) : d \in Docs}
    /\ parked = {}
    /\ proc = [p \in Processes |-> Idle]
    /\ retired = {} /\ cut = {}
    /\ todo = {}
    /\ events = 0

-----------------------------------------------------------------------------
(* Who begins what.  *)
Take(w, d, tries) ==
    /\ w \notin retired /\ proc[w].pc = "idle"
    /\ \E r \in asked :
        /\ r.doc = d /\ r.tries = tries
        /\ asked' = asked \ {r}
        /\ proc' = [proc EXCEPT ![w] =
              Starting("index", d, ProfileOf[w], r.branches, tries + 1)]
    /\ UNCHANGED <<cache, known, stored, parked, retired, cut, todo, events>>

(* ingest leaves a document alone that has a row; reextract and rechunk are *)
(* for one branch.                                                          *)
BranchesOf ==
    [ingest |-> Branches, reextract |-> {"tables"}, rechunk |-> {"chunks"}]

Call(c) ==
    /\ proc[c].pc = "idle"
    /\ Event
    /\ \E d \in Docs, call \in {"ingest", "reextract", "rechunk"} :
        /\ call = "ingest" => d \notin known
        /\ proc' = [proc EXCEPT ![c] = Starting(call, d, ProfileOf[c], BranchesOf[call], 0)]
    /\ UNCHANGED <<cache, known, stored, asked, parked, retired, cut, todo>>

(* The message p holds, as it is delivered again. *)
Held(p) == [doc |-> proc[p].doc, branches |-> proc[p].all, tries |-> proc[p].tries]

(* What p does raises: nothing of an open transaction stays.  A worker's    *)
(* message is parked when it is out of attempts, or redelivered.            *)
GivingUp(p) ==
    LET again == p \in Workers /\ proc[p].tries < MaxAttempts
    IN  /\ proc' = [proc EXCEPT ![p] = Idle]
        /\ asked' = IF again THEN asked \cup {Held(p)} ELSE asked
        /\ parked' = IF p \in Workers /\ ~again THEN parked \cup {proc[p].doc} ELSE parked
        /\ UNCHANGED <<cache, known, stored, retired, todo>>

Breaks(p) ==
    /\ proc[p].pc # "idle"
    /\ Event
    /\ GivingUp(p)
    /\ UNCHANGED cut

(* The process dies and is started anew; a worker's claim lapses.           *)
Dies(p) ==
    /\ proc[p].pc # "idle"
    /\ Event
    /\ proc' = [proc EXCEPT ![p] = Idle]
    /\ asked' = IF p \in Workers THEN asked \cup {Held(p)} ELSE asked
    /\ cut' = cut \ {p}
    /\ UNCHANGED <<cache, known, stored, parked, retired, todo>>

InTransaction(p) == proc[p].pc \in {"delete", "wait", "insert", "commit"}

(* The connection of a worker is lost, and with it an open transaction.  It *)
(* is opened once: from now on every message fails at the first statement.  *)
Disconnects(w) ==
    /\ w \notin cut
    /\ Event
    /\ cut' = cut \cup {w}
    /\ \/ InTransaction(w) /\ GivingUp(w)
       \/ ~InTransaction(w) /\ UNCHANGED <<cache, known, stored, asked, parked, proc,
                                           retired, todo>>

Moving(p, w) ==
    /\ proc' = [proc EXCEPT ![p] = w]
    /\ UNCHANGED <<cache, known, stored, asked, parked, retired, cut, todo, events>>

(* load_cached, then extraction and embedding; ingest parses what is not    *)
(* cached.                                                                  *)
Load(p) ==
    LET w == proc[p]
        next == IF w.call \in {"index", "ingest"} THEN "upsert" ELSE "lookup"
    IN  /\ w.pc = "load"
        /\ \/ /\ cache[w.doc] # 0
              /\ Moving(p, [w EXCEPT !.pc = next, !.parse = cache[w.doc]])
           \/ /\ cache[w.doc] = 0 /\ w.call = "ingest"
              /\ cache' = [cache EXCEPT ![w.doc] = 1]
              /\ proc' = [proc EXCEPT ![p] = [w EXCEPT !.pc = next, !.parse = 1]]
              /\ UNCHANGED <<known, stored, asked, parked, retired, cut, todo, events>>
           \/ cache[w.doc] = 0 /\ w.call # "ingest" /\ GivingUp(p) /\ UNCHANGED <<cut, events>>

(* document_id_for: a LookupError when the document has no row.             *)
Lookup(p) ==
    /\ proc[p].pc = "lookup"
    /\ \/ proc[p].doc \in known /\ Moving(p, [proc[p] EXCEPT !.pc = "delete"])
       \/ proc[p].doc \notin known /\ GivingUp(p) /\ UNCHANGED <<cut, events>>

-----------------------------------------------------------------------------
(* A transaction. *)
Others(p) == {q \in Processes \ {p} : proc[q].doc = proc[p].doc}

LocksDocument(q) ==
    proc[q].call \in {"index", "ingest"} /\ InTransaction(q)

(* DOC_UPSERT: the row is locked until the transaction ends.                *)
Upsert(p) ==
    /\ proc[p].pc = "upsert"
    /\ \/ /\ p \notin cut
          /\ \A q \in Others(p) : ~LocksDocument(q)
          /\ Moving(p, [proc[p] EXCEPT !.pc = "delete"])
       \/ p \in cut /\ GivingUp(p) /\ UNCHANGED <<cut, events>>

(* The tables come first, in every transaction that has both.               *)
Branch(p) == IF "tables" \in proc[p].left THEN "tables" ELSE "chunks"

(* Mutant: every statement commits, so that a delete holds nothing. *)
BlockedNever(p, rows) == FALSE

(* Rows another transaction is about to delete. *)
Blocked(p, rows) == \E q \in Others(p) : proc[q].gone \cap rows # {}

(* Mutant: a delete that forgets which table it is for. *)
OldOfBoth(p) == stored[proc[p].doc]

(* TABLE_DELETE, CHUNK_DELETE: the rows of the branch, ... *)
Old(p) == Of(stored[proc[p].doc], Branch(p))

(* ... those that were there when the statement began, once no other        *)
(* transaction has them.                                                    *)
Delete(p) ==
    LET rows == Old(p)
    IN  /\ proc[p].pc = "delete"
        /\ \/ /\ Blocked(p, rows)
              /\ Moving(p, [proc[p] EXCEPT !.pc = "wait", !.sees = rows])
           \/ /\ ~Blocked(p, rows)
              /\ Moving(p, [proc[p] EXCEPT !.pc = "insert", !.gone = @ \cup rows])

Deleted(p) ==
    /\ proc[p].pc = "wait"
    /\ ~Blocked(p, proc[p].sees)
    /\ Moving(p, [proc[p] EXCEPT !.pc = "insert", !.gone = @ \cup proc[p].sees, !.sees = {}])

(* Mutant: schema.sql without its unique keys. *)
NoClash(rows, there) == FALSE

(* unique (document_id, table_index) and unique (document_id, ord).         *)
Clash(rows, there) ==
    \E r \in rows, t \in there : r.branch = t.branch /\ r.ord = t.ord

(* TABLE_INSERT, CHUNK_INSERT: waits for another transaction that has rows  *)
(* of these keys in hand, and fails on committed ones.  The first row       *)
(* decides for all: every build has the same first key.                     *)
Insert(p) ==
    LET w    == proc[p]
        rows == Build(Branch(p), w.profile, w.parse)
        left == w.left \ {Branch(p)}
    IN  /\ w.pc = "insert"
        /\ \A q \in Others(p) : ~Clash(rows, proc[q].new \cup proc[q].gone)
        /\ \/ /\ ~Clash(rows, stored[w.doc] \ w.gone)
              /\ Moving(p, [w EXCEPT !.pc = IF left = {} THEN "commit" ELSE "delete",
                                     !.left = left, !.new = @ \cup rows])
           \/ Clash(rows, stored[w.doc] \ w.gone) /\ GivingUp(p) /\ UNCHANGED <<cut, events>>

(* The commit.  A delete that waited for the rows now gone skips them.  A   *)
(* worker acks its message, or dies before it does.                         *)
Commit(p) ==
    LET w == proc[p]
    IN  /\ w.pc = "commit"
        /\ stored' = [stored EXCEPT ![w.doc] = (@ \ w.gone) \cup w.new]
        /\ known' = known \cup {w.doc}
        /\ proc' = [q \in Processes |->
              IF q \in Others(p) THEN [proc[q] EXCEPT !.sees = @ \ w.gone]
              ELSE IF q = p THEN Idle ELSE proc[q]]
        /\ \/ UNCHANGED <<asked, events>>
           \/ /\ p \in Workers
              /\ Event
              /\ asked' = asked \cup {Held(p)}
        /\ UNCHANGED <<cache, parked, retired, cut, todo>>

Work(p) ==
    \/ Load(p) \/ Lookup(p) \/ Upsert(p) \/ Delete(p) \/ Deleted(p) \/ Insert(p)
    \/ Commit(p)

-----------------------------------------------------------------------------
(* A worker of another profile is asked to stop: it finishes the message it *)
(* holds and takes no other.                                                *)
Retire(w) ==
    /\ ProfileOf[w] # Active /\ w \notin retired
    /\ retired' = retired \cup {w}
    /\ UNCHANGED <<cache, known, stored, asked, parked, proc, cut, todo, events>>

(* A parse is dropped with its manifest, or a container makes it anew and   *)
(* announces it.                                                            *)
Drop(d) ==
    /\ cache[d] # 0
    /\ Event
    /\ cache' = [cache EXCEPT ![d] = 0]
    /\ UNCHANGED <<known, stored, asked, parked, proc, retired, cut, todo>>

Parse(d) ==
    /\ cache[d] \in 1 .. MaxParses - 1
    /\ Event
    /\ cache' = [cache EXCEPT ![d] = @ + 1]
    /\ asked' = asked \cup {Announcement(d)}
    /\ UNCHANGED <<known, stored, parked, proc, retired, cut, todo>>

(* STALE_BY_CHUNK_CONFIG. *)
Stale(d) == \E r \in Of(stored[d], "chunks") : r.config # Active

Cached == {d \in Docs : cache[d] # 0}

(* enqueue_stale: "list(shas) if shas else cached_shas": with nothing stale *)
(* it asks for the whole cache.                                             *)
EnqueueStale ==
    LET stale == {d \in Docs : Stale(d)}
    IN  /\ todo = {}
        /\ todo' = IF stale # {} THEN stale ELSE Cached
        /\ UNCHANGED <<cache, known, stored, asked, parked, proc, retired, cut, events>>

(* Mutant: the message asks for the tables. *)
RechunkTables(d) == [doc |-> d, branches |-> {"tables"}, tries |-> 0]

(* What enqueue_stale sends: the chunks alone are to be written anew. *)
Rechunk(d) == [doc |-> d, branches |-> {"chunks"}, tries |-> 0]

(* One message for each, made from its manifest; one that is missing ends   *)
(* the enqueuer with the rest unpublished.                                  *)
EnqueueNext(d) ==
    /\ d \in todo
    /\ \/ /\ d \in Cached
          /\ asked' = asked \cup {Rechunk(d)}
          /\ todo' = todo \ {d}
       \/ d \notin Cached /\ todo' = {} /\ UNCHANGED asked
    /\ UNCHANGED <<cache, known, stored, parked, proc, retired, cut, events>>

-----------------------------------------------------------------------------
Next ==
    \/ \E p \in Processes : Work(p) \/ Breaks(p) \/ Dies(p)
    \/ \E w \in Workers : Retire(w) \/ Disconnects(w)
    \/ \E w \in Workers, d \in Docs, n \in 0 .. MaxAttempts + MaxEvents : Take(w, d, n)
    \/ \E c \in Callers : Call(c)
    \/ \E d \in Docs : Drop(d) \/ Parse(d) \/ EnqueueNext(d)
    \/ EnqueueStale

Spec == Init /\ [][Next]_vars

(* Processes and the enqueuer keep going, and enqueue_stale is run again.   *)
(* Postgres grants a row in the order it was asked for and the queue gives  *)
(* every message its turn: hence strong fairness.                           *)
Fairness ==
    /\ \A p \in Processes : SF_vars(Work(p))
    /\ \A d \in Docs, n \in 0 .. MaxAttempts - 1 : SF_vars(\E w \in Workers : Take(w, d, n))
    /\ WF_vars(\E w \in Workers : Retire(w))
    /\ WF_vars(EnqueueStale)
    /\ WF_vars(\E d \in Docs : EnqueueNext(d))

FairSpec == Spec /\ Fairness

-----------------------------------------------------------------------------
(* Properties. *)

Process == [pc : {"idle", "load", "lookup", "upsert", "delete", "wait", "insert",
                  "commit"},
            call : {"index", "ingest", "reextract", "rechunk", None},
            doc : Docs \cup {None}, profile : Profiles \cup {None},
            all : SUBSET Branches, left : SUBSET Branches, tries : Nat, parse : Nat,
            sees : SUBSET Row, gone : SUBSET Row, new : SUBSET Row]

TypeOK ==
    /\ cache \in [Docs -> 0 .. MaxParses]
    /\ stored \in [Docs -> SUBSET Row]
    /\ known \subseteq Docs /\ parked \subseteq Docs /\ retired \cup cut \subseteq Workers
    /\ asked \subseteq Request
    /\ proc \in [Processes -> Process]
    /\ todo \subseteq Docs /\ events \in Nat

(* Whatever order the transactions of workers and callers run in, wait and  *)
(* fail in, a branch of a document holds the rows of one build, all of      *)
(* them: never rows of two parses or profiles, never a part.                *)
OneBuild ==
    \A d \in Docs, b \in Branches :
        \/ Of(stored[d], b) = {}
        \/ \E p \in Profiles, parse \in 1 .. MaxParses : Of(stored[d], b) = Build(b, p, parse)

(* What each stage of a process has behind it. *)
Stages ==
    \A p \in Processes :
        LET w == proc[p]
        IN  /\ IF w.pc = "idle" THEN w = Idle
               ELSE w.doc \in Docs /\ w.profile \in Profiles /\ w.all # {}
            /\ w.pc \in {"load", "lookup", "upsert"} =>
                  w.left = w.all /\ w.gone = {} /\ w.new = {}
            /\ w.pc \notin {"idle", "load"} => w.parse \in 1 .. MaxParses
            /\ w.pc \in {"delete", "wait", "insert"} => w.left # {}
            /\ w.pc = "commit" => w.left = {}
            /\ w.pc # "wait" => w.sees = {}
            /\ w.left \subseteq w.all

Written(p) == proc[p].all \ proc[p].left

(* A transaction has a branch of its document in hand as a whole or not at  *)
(* all, and the branches it has written are its own.                        *)
WholeBranches ==
    \A p \in {q \in Processes : proc[q].pc # "idle"} : \A b \in Branches :
        LET w == proc[p]
        IN  /\ Of(w.new, b) = IF b \in Written(p) THEN Build(b, w.profile, w.parse) ELSE {}
            /\ Of(w.gone, b) = {} \/ Of(w.gone, b) = Of(stored[w.doc], b)
            /\ w.sees = {} \/ w.sees = Old(p)
            /\ b \notin w.all => Of(w.gone, b) = {}
            /\ b \in Written(p) => Of(stored[w.doc], b) = Of(w.gone, b)

(* Two transactions on a document delete different rows and write different *)
(* branches.                                                                *)
Apart ==
    \A p \in Processes : \A q \in Others(p) :
        /\ proc[p].gone \cap proc[q].gone = {}
        /\ \A b \in Branches : Of(proc[p].new, b) = {} \/ Of(proc[q].new, b) = {}

IndInv == TypeOK /\ OneBuild /\ Stages /\ WholeBranches /\ Apart

(* A stored chunk has the vector of its own text, whatever the lengths of   *)
(* the passages it was embedded with.                                       *)
EmbeddingSound ==
    \A d \in Docs : \A r \in Of(stored[d], "chunks") : r.vectors = {[of |-> r.ord]}

(* "Both branches land in one commit": a step that changes the rows of a    *)
(* document brings all that one process has built for it, every branch it   *)
(* was to write and no other, and ends that process's transaction.          *)
OneCommit ==
    [][\A d \in Docs : stored'[d] # stored[d] =>
         \E p \in Processes :
            /\ proc[p].doc = d /\ proc[p].pc # "idle" /\ proc'[p].pc = "idle"
            /\ \A b \in Branches : Of(stored'[d], b) =
                 IF b \in proc[p].all THEN Build(b, proc[p].profile, proc[p].parse)
                 ELSE Of(stored[d], b)]_vars

(* A change of profile comes to an end: a document with chunks of another   *)
(* profile gets rid of them or has a message parked, whoever else is at it  *)
(* and though workers of the old profile take messages until they stop --   *)
(* unless a document that is stale as well has lost its manifest.  A worker *)
(* that lost its connection may be what parks it.                           *)
StaleConverges ==
    \A d \in Docs :
        Stale(d) ~> \/ ~Stale(d) \/ d \in parked
                   \/ \E e \in Docs : Stale(e) /\ cache[e] = 0

=============================================================================
