-------------------------- MODULE DocumentsProofs --------------------------
(***************************************************************************)
(* Proofs about a document's way through the pipeline, for any documents,   *)
(* contents, containers, index workers and faults: what is announced to the *)
(* second queue is indexed or still owed, containers that differ in their   *)
(* process ids keep every parse in the cache whole, and with one index      *)
(* worker besides the database ends as the last parse announced.            *)
(***************************************************************************)
EXTENDS Documents, MemoryQueueProofs

-----------------------------------------------------------------------------
(* Containers and cache. *)

(* Where a container knows the hash of what it parses.                      *)
Hashed == {"drop", "dropmeta", "look", "load", "convert", "create", "write", "replace",
           "clean", "manifest", "publish", "exit", "exited"}

ContainerOK(k) ==
    /\ container[k].pc \in Hashed \cup {"fetch"} => container[k].doc \in Docs
    /\ container[k].pc \in Hashed => container[k].sha \in Contents
    /\ container[k].pc = "write" => container[k].fd \in Containers

ParseOK ==
    /\ source \in [Docs -> Contents]
    /\ forced \subseteq Docs
    /\ waiting \subseteq Docs /\ claimed \subseteq Docs /\ parked \subseteq Docs
    /\ tries \in [Docs -> Nat]
    /\ container \in [Containers -> Container]
    /\ \A k \in Containers : ContainerOK(k)

CacheOK ==
    /\ final \in [DOMAIN final -> Containers] /\ DOMAIN final \subseteq Contents
    /\ tmp \in [DOMAIN tmp -> Containers]
    /\ DOMAIN tmp \subseteq Contents \X (Containers \cup {None})
    /\ file \in [Containers -> Containers \cup {None}]
    /\ meta \in [DOMAIN meta -> Docs] /\ DOMAIN meta \subseteq Contents

LEMMA WithoutOK ==
    ASSUME NEW S, NEW T, NEW f, f \in [DOMAIN f -> T], DOMAIN f \subseteq S, NEW X
    PROVE  /\ Without(f, X) \in [DOMAIN Without(f, X) -> T]
           /\ DOMAIN Without(f, X) \subseteq S
BY DEF Without

LEMMA WithOK ==
    ASSUME NEW S, NEW T, NEW f, f \in [DOMAIN f -> T], DOMAIN f \subseteq S,
           NEW x \in S, NEW y \in T
    PROVE  /\ With(f, x, y) \in [DOMAIN With(f, x, y) -> T]
           /\ DOMAIN With(f, x, y) \subseteq S
BY DEF With

(* One container moves, and what it is then fits its place. *)
LEMMA OneMoves ==
    ASSUME ParseOK, NEW k \in Containers, NEW c \in Container,
           container' = [container EXCEPT ![k] = c],
           c.pc \in Hashed \cup {"fetch"} => c.doc \in Docs,
           c.pc \in Hashed => c.sha \in Contents,
           c.pc = "write" => c.fd \in Containers
    PROVE  /\ container' \in [Containers -> Container]
           /\ \A x \in Containers : ContainerOK(x)'
<1>1. container' \in [Containers -> Container]
  BY DEF ParseOK
<1>2. container'[k] = c /\ \A x \in Containers \ {k} : container'[x] = container[x]
  BY DEF ParseOK
<1> QED
  BY <1>1, <1>2 DEF ParseOK, ContainerOK

LEMMA FailingOK ==
    ASSUME ParseOK, NEW k \in Containers, Failing(k), container[k].pc \notin {"unused", "failed"}
    PROVE  ParseOK'
<1> DEFINE c == [Unused EXCEPT !.pc = "failed"]
<1>1. c \in Container /\ c.pc = "failed"
  BY DEF Unused, Container
<1>2. container' = [container EXCEPT ![k] = c] /\ UNCHANGED <<source, forced, tries>>
  BY DEF Failing, given
<1>3. container' \in [Containers -> Container] /\ \A x \in Containers : ContainerOK(x)'
  BY <1>1, <1>2, OneMoves DEF Hashed
<1>4. container[k].doc \in Docs
  BY DEF ParseOK, ContainerOK, Container, Hashed
<1>5. waiting' \subseteq Docs /\ claimed' \subseteq Docs /\ parked' \subseteq Docs
  BY <1>4 DEF Failing, ParseOK
<1> QED
  BY <1>2, <1>3, <1>5 DEF ParseOK

LEMMA LaunchOK ==
    ASSUME ParseOK, NEW d \in Docs, Launch(d)
    PROVE  ParseOK'
<1> DEFINE k == CHOOSE k \in Containers : container[k].pc = "unused"
           c == [Unused EXCEPT !.pc = "fetch", !.doc = d, !.attempt = tries'[d], !.before = Over]
<1>1. k \in Containers
  BY DEF Launch
<1>2. tries' \in [Docs -> Nat] /\ container' = [container EXCEPT ![k] = c]
  BY DEF Launch, ParseOK
<1>3. c \in Container /\ c.pc = "fetch" /\ c.doc = d
  BY <1>2 DEF Unused, Container, Over
<1>4. container' \in [Containers -> Container] /\ \A x \in Containers : ContainerOK(x)'
  BY <1>1, <1>2, <1>3, OneMoves DEF Hashed
<1> QED
  BY <1>2, <1>4 DEF Launch, ParseOK, given

(* The steps of a container's own program. *)
LEMMA ParseStepOK ==
    ASSUME ParseOK, CacheOK, NEW k \in Containers, Parse(k)
    PROVE  ParseOK'
<1> DEFINE r == container[k]
<1>r. r \in Container /\ container = [x \in Containers |-> container[x]] /\ ContainerOK(k)
  BY DEF ParseOK
<1>1. ASSUME NEW to, to \in Hashed, to # "write", r.pc \in Hashed,
             container' = [container EXCEPT ![k].pc = to], UNCHANGED <<given, parseVars>>
      PROVE  ParseOK'
  <2> DEFINE c == [r EXCEPT !.pc = to]
  <2>1. /\ c \in Container /\ c.pc = to /\ c.doc = r.doc /\ c.sha = r.sha
        /\ container' = [container EXCEPT ![k] = c]
    BY <1>1, <1>r DEF Container, Hashed
  <2>2. container' \in [Containers -> Container] /\ \A x \in Containers : ContainerOK(x)'
    BY <1>1, <1>r, <2>1, OneMoves DEF ContainerOK
  <2> QED
    BY <1>1, <2>2 DEF ParseOK, given, parseVars
<1>2. CASE Fetch(k)
  <2> DEFINE c == [r EXCEPT !.sha = source[r.doc],
                            !.pc = IF r.doc \in forced THEN "drop" ELSE "look"]
  <2>1. r.doc \in Docs
    BY <1>r, <1>2 DEF ContainerOK, Fetch
  <2>2. c \in Container /\ c.pc \in Hashed /\ c.pc # "write" /\ c.doc \in Docs /\ c.sha \in Contents
    BY <1>r, <2>1 DEF Container, Hashed, ParseOK
  <2>3. container' = [container EXCEPT ![k] = c]
    BY <1>r, <1>2 DEF Fetch
  <2>4. container' \in [Containers -> Container] /\ \A x \in Containers : ContainerOK(x)'
    BY <2>2, <2>3, OneMoves
  <2> QED
    BY <1>2, <2>4 DEF Fetch, ParseOK, outside, given, parseVars
<1>3. CASE DropParse(k) \/ DropMeta(k) \/ Look(k) \/ WriteManifest(k) \/ Announce(k)
  <2>1. CASE DropParse(k)
    BY <2>1, <1>1 DEF DropParse, Step, outside, Hashed
  <2>2. CASE DropMeta(k)
    BY <2>2, <1>1 DEF DropMeta, Step, outside, Hashed
  <2>3. CASE Look(k)
    BY <2>3, <1>1 DEF Look, Step, outside, Hashed
  <2>4. CASE WriteManifest(k)
    BY <2>4, <1>1 DEF WriteManifest, Step, outside, Hashed
  <2>5. CASE Announce(k)
    BY <2>5, <1>1 DEF Announce, Hashed
  <2> QED
    BY <1>3, <2>1, <2>2, <2>3, <2>4, <2>5
<1>4. ASSUME NEW c \in Container, container' = [container EXCEPT ![k] = c],
             r.pc \in Hashed, c.doc = r.doc, c.sha = r.sha,
             c.pc = "write" => c.fd \in Containers, UNCHANGED <<given, parseVars>>
      PROVE  ParseOK'
  <2>1. container' \in [Containers -> Container] /\ \A x \in Containers : ContainerOK(x)'
    BY <1>4, <1>r, OneMoves DEF ContainerOK
  <2> QED
    BY <1>4, <2>1 DEF ParseOK, given, parseVars
<1>5. CASE Load(k)
  <2>1. CASE Failing(k)
    BY <2>1, <1>5, FailingOK DEF Load
  <2>2. CASE ~Failing(k)
    <3> DEFINE s == r.sha
               c == [r EXCEPT !.pc = "manifest", !.got = file[final[s]]]
    <3>1. /\ s \in DOMAIN final /\ container' = [container EXCEPT ![k] = c]
          /\ UNCHANGED <<given, parseVars>>
      BY <1>r, <1>5, <2>2 DEF Load
    <3>2. c \in Container /\ c.pc = "manifest" /\ c.doc = r.doc /\ c.sha = r.sha
      BY <1>r, <3>1 DEF Container, CacheOK
    <3> QED
      BY <1>4, <1>5, <3>1, <3>2 DEF Load, Hashed
  <2> QED
    BY <2>1, <2>2
<1>6. CASE Convert(k)
  <2> DEFINE c == [r EXCEPT !.pc = "create", !.got = k]
  <2>1. c \in Container /\ c.pc = "create" /\ c.doc = r.doc /\ c.sha = r.sha
    BY <1>r DEF Container
  <2> QED
    BY <1>4, <1>6, <1>r, <2>1 DEF Convert, Hashed, outside
<1>7. CASE Create(k)
  <2> DEFINE f == IF Scratch(k) \in DOMAIN tmp THEN tmp[Scratch(k)] ELSE k
             c == [r EXCEPT !.pc = "write", !.fd = f]
  <2>1. f \in Containers
    BY DEF CacheOK
  <2>2. c \in Container /\ c.fd = f /\ c.doc = r.doc /\ c.sha = r.sha
    BY <1>r, <2>1 DEF Container
  <2> QED
    BY <1>4, <1>7, <1>r, <2>1, <2>2 DEF Create, Hashed, outside
<1>8. CASE Write(k)
  <2>1. ASSUME NEW to \in {"replace", "clean"},
               container' = [container EXCEPT ![k].pc = to, ![k].fd = None]
        PROVE  ParseOK'
    <3> DEFINE c == [r EXCEPT !.pc = to, !.fd = None]
    <3>1. c \in Container /\ c.pc = to /\ c.doc = r.doc /\ c.sha = r.sha
      BY <1>r, <2>1 DEF Container
    <3> QED
      BY <1>4, <1>8, <1>r, <2>1, <3>1 DEF Write, Hashed, outside
  <2> QED
    BY <1>8, <2>1 DEF Write
<1>9. CASE Replace(k)
  <2> DEFINE c == [r EXCEPT !.pc = "clean", !.stored = Scratch(k) \in DOMAIN tmp]
  <2>0. PICK b \in BOOLEAN : b = (Scratch(k) \in DOMAIN tmp)
    <3>1. CASE Scratch(k) \in DOMAIN tmp
      <4>1. (Scratch(k) \in DOMAIN tmp) = TRUE
        BY <3>1, Zenon
      <4> QED
        BY <4>1, Zenon
    <3>2. CASE Scratch(k) \notin DOMAIN tmp
      <4>1. (Scratch(k) \in DOMAIN tmp) = FALSE
        BY <3>2, SMT
      <4> QED
        BY <4>1, Zenon
    <3> QED
      BY <3>1, <3>2
  <2>1. c \in Container /\ c.pc = "clean" /\ c.doc = r.doc /\ c.sha = r.sha
    <3>1. c = [r EXCEPT !.pc = "clean", !.stored = b]
      BY <2>0
    <3> QED
      BY <1>r, <3>1 DEF Container
  <2> QED
    BY <1>4, <1>9, <1>r, <2>1 DEF Replace, Hashed, outside
<1>10. CASE Clean(k)
  <2>1. CASE Failing(k)
    BY <2>1, <1>10, FailingOK DEF Clean
  <2>2. CASE ~Failing(k)
    BY <2>2, <1>1, <1>10 DEF Clean, Hashed
  <2> QED
    BY <2>1, <2>2
<1>11. CASE Exit(k)
  <2> DEFINE c == [r EXCEPT !.pc = "exited", !.attempt = 0, !.stored = FALSE]
  <2>1. c \in Container /\ c.pc = "exited" /\ c.doc = r.doc /\ c.sha = r.sha
    BY <1>r DEF Container
  <2>2. r.doc \in Docs /\ r.sha \in Contents
    BY <1>r, <1>11 DEF Exit, ContainerOK, Hashed
  <2>3. container' = [container EXCEPT ![k] = c]
    BY <1>r, <1>11 DEF Exit
  <2>4. container' \in [Containers -> Container] /\ \A x \in Containers : ContainerOK(x)'
    BY <2>1, <2>2, <2>3, OneMoves
  <2> QED
    BY <1>11, <2>4 DEF Exit, ParseOK, given
<1> QED
  BY <1>2, <1>3, <1>5, <1>6, <1>7, <1>8, <1>9, <1>10, <1>11 DEF Parse

LEMMA CacheStepOK ==
    ASSUME ParseOK, CacheOK, NEW k \in Containers, Parse(k)
    PROVE  CacheOK'
<1> DEFINE r == container[k]
<1>r. r \in Container /\ ContainerOK(k)
  BY DEF ParseOK
<1>s. r.sha \in Contents => Scratch(k) \in Contents \X (Containers \cup {None})
  BY DEF Scratch, Pid
<1>1. CASE UNCHANGED cacheVars
  BY <1>1 DEF CacheOK, cacheVars
<1>2. CASE DropParse(k)
  BY <1>2, WithoutOK DEF DropParse, CacheOK
<1>3. CASE DropMeta(k)
  BY <1>3, WithoutOK DEF DropMeta, CacheOK
<1>4. CASE Create(k)
  <2> DEFINE f == IF Scratch(k) \in DOMAIN tmp THEN tmp[Scratch(k)] ELSE k
  <2>1. f \in Containers /\ Scratch(k) \in Contents \X (Containers \cup {None})
    BY <1>r, <1>s, <1>4 DEF CacheOK, Create, ContainerOK, Hashed
  <2>2. file' = [file EXCEPT ![f] = None] /\ tmp' = With(tmp, Scratch(k), f)
    BY <1>4 DEF Create
  <2>3. tmp' \in [DOMAIN tmp' -> Containers]
        /\ DOMAIN tmp' \subseteq Contents \X (Containers \cup {None})
    <3>1. tmp \in [DOMAIN tmp -> Containers]
          /\ DOMAIN tmp \subseteq Contents \X (Containers \cup {None})
      BY DEF CacheOK
    <3> HIDE DEF f
    <3> QED
      BY <2>1, <2>2, <3>1, WithOK
  <2> QED
    BY <1>4, <2>2, <2>3 DEF Create, CacheOK
<1>5. CASE Write(k)
  BY <1>5 DEF Write, CacheOK
<1>6. CASE Replace(k)
  <2>1. r.sha \in Contents
    BY <1>r, <1>6 DEF Replace, ContainerOK, Hashed
  <2>2. CASE Scratch(k) \in DOMAIN tmp
    <3>1. tmp[Scratch(k)] \in Containers
      BY <2>2 DEF CacheOK
    <3>2. final' = With(final, r.sha, tmp[Scratch(k)]) /\ tmp' = Without(tmp, {Scratch(k)})
      BY <1>6, <2>2 DEF Replace
    <3>3. final' \in [DOMAIN final' -> Containers] /\ DOMAIN final' \subseteq Contents
      BY <2>1, <3>1, <3>2, WithOK DEF CacheOK
    <3>4. tmp' \in [DOMAIN tmp' -> Containers]
          /\ DOMAIN tmp' \subseteq Contents \X (Containers \cup {None})
      BY <3>2, WithoutOK DEF CacheOK
    <3> QED
      BY <1>6, <3>3, <3>4 DEF Replace, CacheOK
  <2>3. CASE Scratch(k) \notin DOMAIN tmp
    BY <1>6, <2>3 DEF Replace, CacheOK
  <2> QED
    BY <2>2, <2>3
<1>7. CASE Clean(k)
  <2>1. tmp' \in [DOMAIN tmp' -> Containers]
        /\ DOMAIN tmp' \subseteq Contents \X (Containers \cup {None})
    BY <1>7, WithoutOK DEF Clean, CacheOK
  <2> QED
    BY <1>7, <2>1 DEF Clean, CacheOK
<1>8. CASE WriteManifest(k)
  <2>1. r.sha \in Contents /\ r.doc \in Docs
    BY <1>r, <1>8 DEF WriteManifest, Step, ContainerOK, Hashed
  <2>2. meta \in [DOMAIN meta -> Docs] /\ DOMAIN meta \subseteq Contents
    BY DEF CacheOK
  <2>3. meta' = With(meta, r.sha, r.doc)
    BY <1>8 DEF WriteManifest
  <2>4. meta' \in [DOMAIN meta' -> Docs] /\ DOMAIN meta' \subseteq Contents
    BY <2>1, <2>2, <2>3, WithOK
  <2> QED
    BY <1>8, <2>4 DEF WriteManifest, CacheOK
<1>9. CASE Fetch(k) \/ Look(k) \/ Load(k) \/ Convert(k) \/ Announce(k) \/ Exit(k)
  BY <1>1, <1>9 DEF Fetch, Look, Load, Convert, Announce, Exit
<1> QED
  BY <1>2, <1>3, <1>4, <1>5, <1>6, <1>7, <1>8, <1>9 DEF Parse

(* What the containers do, and what the rest leaves alone. *)
ParseInv == ParseOK /\ CacheOK

LEMMA ParseInvStep == ParseInv /\ [Next]_vars => ParseInv'
<1> SUFFICES ASSUME ParseInv, [Next]_vars PROVE ParseInv'
  OBVIOUS
<1>1. CASE UNCHANGED <<given, parseVars, container, cacheVars>>
  BY <1>1 DEF ParseInv, ParseOK, ContainerOK, CacheOK, given, parseVars, cacheVars
<1>2. ASSUME NEW d \in Docs, Launch(d) PROVE ParseInv'
  <2>1. ParseOK'
    BY <1>2, LaunchOK DEF ParseInv
  <2> QED
    BY <1>2, <2>1 DEF ParseInv, Launch, CacheOK, cacheVars
<1>3. ASSUME NEW d \in Docs, Lapse(d) PROVE ParseInv'
  BY <1>3 DEF ParseInv, ParseOK, ContainerOK, CacheOK, Lapse, given, cacheVars
<1>4. ASSUME NEW k \in Containers, Parse(k) PROVE ParseInv'
  BY <1>4, ParseStepOK, CacheStepOK DEF ParseInv
<1>5. ASSUME NEW k \in Containers, Raises(k) \/ Kill(k) PROVE ParseInv'
  <2>1. Failing(k) /\ container[k].pc \notin {"unused", "failed"} /\ UNCHANGED cacheVars
    BY <1>5 DEF Raises, Kill, Running
  <2>2. ParseOK'
    BY <2>1, FailingOK DEF ParseInv
  <2> QED
    BY <2>1, <2>2 DEF ParseInv, CacheOK, cacheVars
<1>6. ASSUME NEW w \in Workers, Index(w) \/ Crash(w) PROVE ParseInv'
  BY <1>1, <1>6 DEF Index, Crash, Take, LoadCached, WriteAll, Settle, others
<1>7. ASSUME NEW m \in Messages, Expires(m) PROVE ParseInv'
  BY <1>1, <1>7 DEF Expires, others
<1>8. CASE Enqueue
  BY <1>1, <1>8 DEF Enqueue, others
<1>9. ASSUME NEW s \in Contents, EnqueueNext(s) PROVE ParseInv'
  BY <1>1, <1>9 DEF EnqueueNext, others
<1>10. CASE UNCHANGED vars
  BY <1>1, <1>10 DEF vars
<1> QED
  BY <1>2, <1>3, <1>4, <1>5, <1>6, <1>7, <1>8, <1>9, <1>10 DEF Next

LEMMA ParseInvInit == Init => ParseInv
BY DEF Init, ParseInv, ParseOK, CacheOK, ContainerOK, Container, Unused, Hashed

-----------------------------------------------------------------------------
(* Scratch files.  When no two containers have a process id in common, the   *)
(* file a container writes is under no other's name, so that what is in it   *)
(* is the container's own parse or nothing, and what is under a final name   *)
(* belongs to a container that will not write again.                        *)
Through == {"clean", "manifest", "publish", "exit", "exited", "failed"}

Parsed == {"create", "write", "replace", "clean", "manifest", "publish", "exit", "exited"}

(* Of a container and, for a forced one, of what it may still find or has    *)
(* got: no parse of a container that was over when it started.              *)
PrivateOK(k) ==
    LET r == container[k]
    IN  /\ file[k] \in {k, None}
        /\ r.pc = "write" => r.fd = k
        /\ r.pc = "replace" => file[k] = k
        /\ r.before \subseteq Over \ {k}
        /\ r.doc \in forced /\ r.pc \in {"dropmeta", "look", "load"} /\ r.sha \in DOMAIN final
              => final[r.sha] \notin r.before
        /\ r.doc \in forced /\ r.pc \in Parsed => r.got \notin r.before

Private ==
    /\ \A t \in DOMAIN tmp : tmp[t] = t[2]
    /\ \A s \in DOMAIN final : file[final[s]] # None /\ container[final[s]].pc \in Through
    /\ \A k \in Containers : PrivateOK(k)

LEMMA PrivateStep ==
    ASSUME ParseInv, Private, NEW k \in Containers, forced' = forced,
           \A x \in Containers \ {k} : container'[x] = container[x] /\ file'[x] = file[x],
           container[k].pc \notin {"exited", "failed"},
           \A t \in DOMAIN tmp' : tmp'[t] = t[2],
           \A s \in DOMAIN final' :
               /\ file'[final'[s]] # None
               /\ container'[final'[s]].pc \in Through
               /\ \/ s \in DOMAIN final /\ final'[s] = final[s]
                  \/ final'[s] \notin Over,
           PrivateOK(k)'
    PROVE  Private'
<1>1. Over \subseteq Over'
  BY DEF Over
<1>2. ASSUME NEW x \in Containers \ {k} PROVE PrivateOK(x)'
  BY <1>1 DEF Private, PrivateOK
<1> QED
  BY <1>2 DEF Private

(* A step that leaves the cache alone. *)
LEMMA PrivateQuiet ==
    ASSUME ParseInv, Private, NEW k \in Containers, forced' = forced,
           \A x \in Containers \ {k} : container'[x] = container[x],
           container[k].pc \notin {"exited", "failed"},
           container[k].pc \in Through => container'[k].pc \in Through,
           UNCHANGED <<final, tmp, file>>,
           PrivateOK(k)'
    PROVE  Private'
<1>1. \A s \in DOMAIN final' :
        file'[final'[s]] # None /\ container'[final'[s]].pc \in Through
  BY DEF Private, ParseInv, CacheOK
<1>2. \A t \in DOMAIN tmp' : tmp'[t] = t[2]
  BY DEF Private
<1> QED
  BY <1>1, <1>2, PrivateStep

LEMMA PrivateFailing ==
    ASSUME ParseInv, Private, NEW k \in Containers, Failing(k),
           container[k].pc \notin {"exited", "failed"}, UNCHANGED <<final, file>>,
           \A t \in DOMAIN tmp' : t \in DOMAIN tmp /\ tmp'[t] = tmp[t]
    PROVE  Private'
<1>1. /\ container' = [container EXCEPT ![k] = [Unused EXCEPT !.pc = "failed"]]
      /\ forced' = forced
  BY DEF Failing, given
<1>2. /\ container'[k] = [Unused EXCEPT !.pc = "failed"]
      /\ \A x \in Containers \ {k} : container'[x] = container[x]
  BY <1>1 DEF ParseInv, ParseOK
<1>3. container'[k].pc = "failed" /\ container'[k].before = {}
  BY <1>2 DEF Unused
<1>4. PrivateOK(k)'
  BY <1>3 DEF Private, PrivateOK, Parsed
<1>5. \A t \in DOMAIN tmp' : tmp'[t] = t[2]
  BY DEF Private
<1>6. \A s \in DOMAIN final' :
        file'[final'[s]] # None /\ container'[final'[s]].pc \in Through
  BY <1>2, <1>3 DEF Private, ParseInv, CacheOK, Through
<1> QED
  BY <1>1, <1>2, <1>4, <1>5, <1>6, PrivateStep

LEMMA PrivateLaunch ==
    ASSUME ParseInv, Private, NEW d \in Docs, Launch(d)
    PROVE  Private'
<1>1. PICK k \in Containers : /\ k = CHOOSE x \in Containers : container[x].pc = "unused"
                              /\ container[k].pc = "unused"
  BY DEF Launch
<1> DEFINE c == [Unused EXCEPT !.pc = "fetch", !.doc = d, !.attempt = tries'[d], !.before = Over]
<1>2. /\ container' = [container EXCEPT ![k] = c] /\ forced' = forced
      /\ UNCHANGED <<final, tmp, file>>
  BY <1>1 DEF Launch, given, cacheVars
<1>3. container'[k] = c /\ \A x \in Containers \ {k} : container'[x] = container[x]
  BY <1>1, <1>2 DEF ParseInv, ParseOK
<1>4. container'[k].pc = "fetch" /\ container'[k].before = Over
  BY <1>3 DEF Unused
<1> HIDE DEF c
<1>5. Over \subseteq Over' /\ k \notin Over
  BY <1>1, <1>3 DEF Over
<1>6. PrivateOK(k)'
  <2>1. file[k] \in {k, None}
    BY <1>1 DEF Private, PrivateOK
  <2>2. container'[k].before \subseteq Over' \ {k}
    BY <1>4, <1>5
  <2> QED
    BY <1>2, <1>4, <2>1, <2>2 DEF PrivateOK, Parsed
<1> QED
  BY <1>1, <1>2, <1>3, <1>6, PrivateQuiet DEF Through

LEMMA PrivateParse ==
    ASSUME ParseInv, ParseInv', Private, ~OwnPidNamespace, NEW k \in Containers, Parse(k)
    PROVE  Private'
<1> DEFINE r == container[k]
           n == container'[k]
<1>r. r \in Container /\ n \in Container /\ PrivateOK(k)
  BY DEF ParseInv, ParseOK, Private
<1>0. /\ forced' = forced
      /\ \A x \in Containers \ {k} : container'[x] = container[x]
      /\ r.pc \notin {"exited", "failed"}
  BY DEF Parse, Fetch, DropParse, DropMeta, Look, Load, Convert, Create, Write, Replace, Clean,
         WriteManifest, Announce, Exit, Step, Failing, outside, given, ParseInv, ParseOK
<1>v. Over \subseteq Over' /\ k \notin Over
  BY <1>0 DEF Over
<1>t. Scratch(k) = <<r.sha, k>>
  BY DEF Scratch, Pid
<1>1. ASSUME n.before = r.before, n.doc = r.doc, n.pc \notin {"write", "replace"},
             n.sha = r.sha, n.got = r.got,
             n.pc \in {"dropmeta", "look", "load"} => r.pc \in {"dropmeta", "look", "load"},
             n.pc \in Parsed => r.pc \in Parsed,
             r.pc \in Through => n.pc \in Through,
             UNCHANGED <<final, tmp, file>>
      PROVE  Private'
  <2>1. PrivateOK(k)'
    BY <1>0, <1>1, <1>r, <1>v DEF PrivateOK
  <2> QED
    BY <1>0, <1>1, <2>1, PrivateQuiet
<1>2. CASE Fetch(k)
  <2>0. UNCHANGED <<final, tmp, file>>
    BY <1>2 DEF Fetch, cacheVars
  <2>1. n.before = r.before /\ n.pc \in {"drop", "look"} /\ n.doc = r.doc
        /\ (n.pc = "look" => r.doc \notin forced) /\ r.pc = "fetch"
    BY <1>2, <1>r DEF Fetch, ParseInv, ParseOK, Container
  <2>2. PrivateOK(k)'
    BY <1>0, <1>r, <1>v, <2>0, <2>1 DEF PrivateOK, Parsed
  <2> QED
    BY <1>0, <2>0, <2>1, <2>2, PrivateQuiet DEF Through
<1>3. CASE DropParse(k)
  <2>1. n = [r EXCEPT !.pc = "dropmeta"] /\ final' = Without(final, {r.sha})
        /\ UNCHANGED <<tmp, file>>
    BY <1>3 DEF DropParse, Step, ParseInv, ParseOK
  <2>2. /\ DOMAIN final' = DOMAIN final \ {r.sha}
        /\ \A s \in DOMAIN final' : final'[s] = final[s]
    BY <2>1 DEF Without
  <2>3. n.pc = "dropmeta" /\ n.before = r.before /\ n.sha = r.sha
    BY <2>1, <1>r DEF Container
  <2>4. PrivateOK(k)'
    BY <1>r, <1>v, <2>1, <2>2, <2>3 DEF PrivateOK, Parsed
  <2>5. r.pc = "drop"
    BY <1>3 DEF DropParse, Step
  <2>6. \A s \in DOMAIN final' :
          file'[final'[s]] # None /\ container'[final'[s]].pc \in Through
    <3>1. \A s \in DOMAIN final : final[s] # k /\ final[s] \in Containers
      BY <2>5 DEF Private, Through, ParseInv, CacheOK
    <3>2. file' = file
      BY <2>1
    <3> QED
      BY <1>0, <2>2, <3>1, <3>2 DEF Private
  <2> QED
    BY <1>0, <2>1, <2>2, <2>4, <2>6, PrivateStep DEF Private
<1>4. CASE DropMeta(k) \/ Look(k) \/ WriteManifest(k) \/ Announce(k) \/ Exit(k)
  <2>1. UNCHANGED <<final, tmp, file>>
    BY <1>4 DEF DropMeta, Look, WriteManifest, Announce, Exit, cacheVars
  <2>2. CASE DropMeta(k)
    <3>1. n = [r EXCEPT !.pc = "look"] /\ r.pc = "dropmeta"
      BY <2>2 DEF DropMeta, Step, ParseInv, ParseOK
    <3> QED
      BY <1>1, <1>r, <2>1, <3>1 DEF Container, Parsed, Through
  <2>3. CASE Look(k)
    <3>1. \E to \in {"load", "convert"} : n = [r EXCEPT !.pc = to]
      BY <2>3 DEF Look, Step, ParseInv, ParseOK
    <3>2. r.pc = "look"
      BY <2>3 DEF Look, Step
    <3> QED
      BY <1>1, <1>r, <2>1, <3>1, <3>2 DEF Container, Parsed, Through
  <2>4. CASE WriteManifest(k)
    <3>1. n = [r EXCEPT !.pc = "publish"] /\ r.pc = "manifest"
      BY <2>4 DEF WriteManifest, Step, ParseInv, ParseOK
    <3> QED
      BY <1>1, <1>r, <2>1, <3>1 DEF Container, Parsed, Through
  <2>5. CASE Announce(k)
    <3>1. n = [r EXCEPT !.pc = "exit"] /\ r.pc = "publish"
      BY <2>5 DEF Announce, ParseInv, ParseOK
    <3> QED
      BY <1>1, <1>r, <2>1, <3>1 DEF Container, Parsed, Through
  <2>6. CASE Exit(k)
    <3>1. n = [r EXCEPT !.pc = "exited", !.attempt = 0, !.stored = FALSE] /\ r.pc = "exit"
      BY <2>6 DEF Exit, ParseInv, ParseOK
    <3> QED
      BY <1>1, <1>r, <2>1, <3>1 DEF Container, Parsed, Through
  <2> QED
    BY <1>4, <2>2, <2>3, <2>4, <2>5, <2>6
<1>5. CASE Load(k)
  <2>1. r.pc = "load" /\ UNCHANGED <<final, tmp, file>>
    BY <1>5 DEF Load, cacheVars
  <2>2. CASE Failing(k)
    BY <1>0, <2>1, <2>2, PrivateFailing
  <2>3. CASE ~Failing(k)
    <3>1. /\ r.sha \in DOMAIN final /\ file[final[r.sha]] # None
          /\ n = [r EXCEPT !.pc = "manifest", !.got = file[final[r.sha]]]
      BY <1>5, <2>3 DEF Load, ParseInv, ParseOK
    <3>2. file[final[r.sha]] = final[r.sha]
      BY <3>1 DEF Private, PrivateOK, ParseInv, CacheOK
    <3>3. n.pc = "manifest" /\ n.got = final[r.sha] /\ n.before = r.before /\ n.doc = r.doc
      BY <1>r, <3>1, <3>2 DEF Container
    <3>4. PrivateOK(k)'
      BY <1>0, <1>r, <1>v, <2>1, <3>1, <3>3 DEF PrivateOK
    <3> QED
      BY <1>0, <2>1, <3>3, <3>4, PrivateQuiet DEF Through
  <2> QED
    BY <2>2, <2>3
<1>6. CASE Convert(k)
  <2>1. /\ r.pc = "convert" /\ UNCHANGED <<final, tmp, file>>
        /\ n = [r EXCEPT !.pc = "create", !.got = k]
    BY <1>6 DEF Convert, cacheVars, ParseInv, ParseOK
  <2>2. n.pc = "create" /\ n.got = k /\ n.before = r.before
    BY <1>r, <2>1 DEF Container
  <2>3. PrivateOK(k)'
    BY <1>0, <1>r, <1>v, <2>1, <2>2 DEF PrivateOK
  <2> QED
    BY <1>0, <2>1, <2>2, <2>3, PrivateQuiet DEF Through
<1>7. CASE Create(k)
  <2>1. r.pc = "create" /\ final' = final /\ file' = [file EXCEPT ![k] = None]
        /\ tmp' = With(tmp, <<r.sha, k>>, k) /\ n = [r EXCEPT !.pc = "write", !.fd = k]
    BY <1>7, <1>t DEF Create, Private, ParseInv, ParseOK
  <2>2. n.pc = "write" /\ n.fd = k /\ n.before = r.before /\ n.got = r.got /\ n.doc = r.doc
    BY <1>r, <2>1 DEF Container
  <2>3. \A x \in Containers : file'[x] = IF x = k THEN None ELSE file[x]
    BY <2>1 DEF ParseInv, CacheOK
  <2>4. \A s \in DOMAIN final : final[s] # k /\ final[s] \in Containers
    BY <2>1 DEF Private, Through, ParseInv, CacheOK
  <2>5. \A t \in DOMAIN tmp' : tmp'[t] = t[2]
    BY <2>1 DEF With, Private
  <2>6. PrivateOK(k)'
    BY <1>0, <1>r, <1>v, <2>1, <2>2, <2>3 DEF PrivateOK, Parsed
  <2>7. \A s \in DOMAIN final' :
          file'[final'[s]] # None /\ container'[final'[s]].pc \in Through
    BY <1>0, <2>1, <2>3, <2>4 DEF Private
  <2> QED
    BY <1>0, <2>1, <2>3, <2>5, <2>6, <2>7, PrivateStep
<1>8. CASE Write(k)
  <2>1. r.pc = "write" /\ r.fd = k /\ UNCHANGED <<final, tmp>>
    BY <1>8, <1>r DEF Write, PrivateOK
  <2>2. PICK to \in {"replace", "clean"} :
          /\ n = [r EXCEPT !.pc = to, !.fd = None]
          /\ \/ to = "replace" /\ file' = [file EXCEPT ![k] = k]
             \/ to = "clean" /\ file' = file
    <3>1. CASE /\ file' = [file EXCEPT ![r.fd] = k]
               /\ container' = [container EXCEPT ![k].pc = "replace", ![k].fd = None]
      <4>1. n = [r EXCEPT !.pc = "replace", !.fd = None]
        BY <3>1 DEF ParseInv, ParseOK
      <4>2. file' = [file EXCEPT ![k] = k]
        BY <2>1, <3>1
      <4> QED
        BY <4>1, <4>2
    <3>2. CASE /\ container' = [container EXCEPT ![k].pc = "clean", ![k].fd = None]
               /\ UNCHANGED file
      <4>1. n = [r EXCEPT !.pc = "clean", !.fd = None]
        BY <3>2 DEF ParseInv, ParseOK
      <4> QED
        BY <3>2, <4>1
    <3> QED
      BY <1>8, <3>1, <3>2 DEF Write
  <2>3. n.pc = to /\ n.before = r.before /\ n.got = r.got /\ n.doc = r.doc
    BY <1>r, <2>2 DEF Container
  <2>4. /\ \A x \in Containers \ {k} : file'[x] = file[x]
        /\ file'[k] \in {k, file[k]} /\ (to = "replace" => file'[k] = k)
    BY <2>2 DEF ParseInv, CacheOK
  <2>5. PrivateOK(k)'
    BY <1>0, <1>r, <1>v, <2>1, <2>2, <2>3, <2>4 DEF PrivateOK, Parsed
  <2>6. \A s \in DOMAIN final : final[s] # k /\ final[s] \in Containers
    BY <2>1 DEF Private, Through, ParseInv, CacheOK
  <2>7. \A s \in DOMAIN final' :
          file'[final'[s]] # None /\ container'[final'[s]].pc \in Through
    BY <1>0, <2>1, <2>4, <2>6 DEF Private
  <2> QED
    BY <1>0, <2>1, <2>4, <2>5, <2>7, PrivateStep DEF Private
<1>9. CASE Replace(k)
  <2>1. r.pc = "replace" /\ file[k] = k /\ file' = file
    BY <1>9, <1>r DEF Replace, PrivateOK
  <2>2. /\ n.pc = "clean" /\ n.before = r.before /\ n.got = r.got /\ n.doc = r.doc
    BY <1>9, <1>r DEF Replace, ParseInv, ParseOK, Container
  <2>3. PrivateOK(k)'
    BY <1>0, <1>r, <1>v, <2>1, <2>2 DEF PrivateOK, Parsed
  <2>4. k # None
    BY DocumentsAssumption
  <2>5. CASE Scratch(k) \in DOMAIN tmp
    <3>1. tmp[Scratch(k)] = k
      BY <1>t, <2>5 DEF Private
    <3>2. final' = With(final, r.sha, k) /\ tmp' = Without(tmp, {Scratch(k)})
      BY <1>9, <2>5, <3>1 DEF Replace
    <3>3. \A s \in DOMAIN final' : IF s = r.sha THEN final'[s] = k
                                    ELSE s \in DOMAIN final /\ final'[s] = final[s]
      BY <3>2 DEF With
    <3>4. \A t \in DOMAIN tmp' : tmp'[t] = t[2]
      BY <3>2 DEF Without, Private
    <3>5. \A s \in DOMAIN final' :
            file'[final'[s]] # None /\ container'[final'[s]].pc \in Through
      BY <1>0, <2>1, <2>2, <2>4, <3>3 DEF Private, Through, ParseInv, CacheOK
    <3> QED
      BY <1>0, <1>v, <2>1, <2>3, <3>3, <3>4, <3>5, PrivateStep
  <2>6. CASE Scratch(k) \notin DOMAIN tmp
    <3>1. UNCHANGED <<final, tmp, file>>
      BY <1>9, <2>6 DEF Replace
    <3> QED
      BY <1>0, <2>1, <2>2, <2>3, <3>1, PrivateQuiet DEF Through
  <2> QED
    BY <2>5, <2>6
<1>10. CASE Clean(k)
  <2>1. /\ r.pc = "clean" /\ UNCHANGED <<final, file>>
        /\ \A t \in DOMAIN tmp' : t \in DOMAIN tmp /\ tmp'[t] = tmp[t]
    BY <1>10 DEF Clean, Without
  <2>2. CASE Failing(k)
    BY <1>0, <2>1, <2>2, PrivateFailing
  <2>3. CASE ~Failing(k)
    <3>1. n = [r EXCEPT !.pc = "manifest"]
      BY <1>10, <2>3 DEF Clean, ParseInv, ParseOK
    <3>2. n.pc = "manifest" /\ n.before = r.before /\ n.got = r.got /\ n.doc = r.doc
      BY <1>r, <3>1 DEF Container
    <3>3. PrivateOK(k)'
      BY <1>0, <1>r, <1>v, <2>1, <3>2 DEF PrivateOK, Parsed
    <3>4. \A s \in DOMAIN final' :
            file'[final'[s]] # None /\ container'[final'[s]].pc \in Through
      BY <1>0, <2>1, <3>2 DEF Private, Through, ParseInv, CacheOK
    <3> QED
      BY <1>0, <2>1, <3>3, <3>4, PrivateStep DEF Private
  <2> QED
    BY <2>2, <2>3
<1> QED
  BY <1>2, <1>3, <1>4, <1>5, <1>6, <1>7, <1>8, <1>9, <1>10 DEF Parse

LEMMA PrivateInvStep ==
    ASSUME ~OwnPidNamespace
    PROVE  ParseInv /\ ParseInv' /\ Private /\ [Next]_vars => Private'
<1> SUFFICES ASSUME ParseInv, ParseInv', Private, [Next]_vars PROVE Private'
  OBVIOUS
<1>1. CASE UNCHANGED <<given, container, cacheVars>>
  BY <1>1 DEF Private, PrivateOK, Over, given, cacheVars
<1>2. ASSUME NEW d \in Docs, Launch(d) \/ Lapse(d) PROVE Private'
  <2>1. CASE Launch(d)
    BY <2>1, PrivateLaunch
  <2>2. CASE Lapse(d)
    BY <1>1, <2>2 DEF Lapse
  <2> QED
    BY <1>2, <2>1, <2>2
<1>3. ASSUME NEW k \in Containers, Parse(k) PROVE Private'
  BY <1>3, PrivateParse
<1>4. ASSUME NEW k \in Containers, Raises(k) \/ Kill(k) PROVE Private'
  <2>1. /\ Failing(k) /\ container[k].pc \notin {"exited", "failed"}
        /\ UNCHANGED <<final, tmp, file>>
    BY <1>4 DEF Raises, Kill, Running, cacheVars
  <2> QED
    BY <2>1, PrivateFailing
<1>5. ASSUME NEW w \in Workers, Index(w) \/ Crash(w) PROVE Private'
  BY <1>1, <1>5 DEF Index, Crash, Take, LoadCached, WriteAll, Settle, others
<1>6. ASSUME NEW m \in Messages, Expires(m) PROVE Private'
  BY <1>1, <1>6 DEF Expires, others
<1>7. CASE Enqueue
  BY <1>1, <1>7 DEF Enqueue, others
<1>8. ASSUME NEW s \in Contents, EnqueueNext(s) PROVE Private'
  BY <1>1, <1>8 DEF EnqueueNext, others
<1>9. CASE UNCHANGED vars
  BY <1>1, <1>9 DEF vars
<1> QED
  BY <1>2, <1>3, <1>4, <1>5, <1>6, <1>7, <1>8, <1>9 DEF Next

-----------------------------------------------------------------------------
(* The second queue and its workers.  A worker that is about to write has a  *)
(* parse, and one that is about to ack has filled every branch its message   *)
(* asks for; no step takes a parse out of a branch again.                   *)
Filled(s, b) == s \in DOMAIN db /\ db[s][b] # None

Answered(request) == \A b \in request.branches : Filled(request.sha, b)

OwedIds == Outstanding \cup {d.id : d \in dead}

Sent(k) == container[k].pc \in {"exit", "exited"}

WorkerOK(w) ==
    LET r == worker[w]
    IN  /\ r.pc # "idle" => r.d \in Delivery /\ r.d.id \in DOMAIN body
        /\ r.pc = "write" => r.parse \in Containers
        /\ r.pc = "ack" => Answered(body[r.d.id])

(* An enqueuer has ids left for what it has yet to announce. *)
EnqueuerOK ==
    /\ enqueuer \in [todo : SUBSET Contents, branches : SUBSET Branches]
    /\ Cardinality(enqueuer.todo) <= Cardinality(FreeIds)

IndexTypeOK ==
    /\ QueueTypeOK
    /\ body \in [DOMAIN body -> IndexRequest] /\ DOMAIN body \subseteq Messages
    /\ worker \in [Workers -> Worker]
    /\ db \in [DOMAIN db -> Row] /\ DOMAIN db \subseteq Contents

(* A container's id is on the queue only once it is past publishing. *)
BodiesOK ==
    /\ OwedIds \subseteq DOMAIN body
    /\ \A k \in Containers \cap DOMAIN body : Sent(k) \/ container[k].pc = "failed"

HandedOn == \A k \in Containers : Sent(k) =>
                Announced(container[k].sha) \/ Indexed(container[k].sha)

IndexInv ==
    /\ IndexTypeOK
    /\ EnqueuerOK
    /\ BodiesOK
    /\ \A w \in Workers : WorkerOK(w)
    /\ HandedOn

LEMMA FreeIdsFinite ==
    /\ IsFiniteSet(FreeIds) /\ Cardinality(FreeIds) \in Nat
    /\ \A S \in SUBSET Contents : IsFiniteSet(S) /\ Cardinality(S) \in Nat
BY MessagesAssumption, DocumentsAssumption, FS_Subset, FS_CardinalityType DEF FreeIds

(* A step of the containers that announces nothing. *)
LEMMA IndexInside ==
    ASSUME IndexInv, UNCHANGED <<indexVars, storeVars>>,
           \A k \in Containers :
               /\ Sent(k)' => Sent(k) /\ container'[k].sha = container[k].sha
               /\ Sent(k) \/ container[k].pc = "failed"
                     => Sent(k)' \/ container'[k].pc = "failed"
    PROVE  IndexInv'
<1> USE DEF indexVars, queueVars, storeVars
<1>1. IndexTypeOK'
  BY DEF IndexInv, IndexTypeOK, QueueTypeOK
<1>2. EnqueuerOK'
  BY DEF IndexInv, EnqueuerOK, FreeIds
<1>3. BodiesOK'
  BY DEF IndexInv, BodiesOK, OwedIds, Outstanding, ReadyIds
<1>4. \A w \in Workers : WorkerOK(w)'
  BY DEF IndexInv, WorkerOK, Answered, Filled
<1>5. \A s : (Announced(s) => Announced(s)') /\ (Indexed(s) => Indexed(s)')
  BY DEF Announced, Indexed, Outstanding, ReadyIds
<1>6. HandedOn'
  BY <1>5 DEF IndexInv, HandedOn
<1> QED
  BY <1>1, <1>2, <1>3, <1>4, <1>6 DEF IndexInv

(* Any other step: bodies stay, a branch that is filled stays so, and a      *)
(* message leaves the queue only when it has been answered.                 *)
LEMMA HandedStep ==
    ASSUME IndexInv, IndexTypeOK',
           \A m \in DOMAIN body : m \in DOMAIN body' /\ body'[m] = body[m],
           \A s, b : b \in Branches /\ Filled(s, b) => Filled(s, b)',
           \A m \in OwedIds \ OwedIds' : Answered(body[m])',
           NEW k \in Containers, Sent(k), container'[k].sha = container[k].sha
    PROVE  Announced(container[k].sha)' \/ Indexed(container[k].sha)'
<1> DEFINE s == container[k].sha
<1>1. CASE Indexed(s)
  BY <1>1 DEF Indexed, Filled, Branches
<1>2. CASE Announced(s)
  <2>1. PICK m \in OwedIds : body[m].sha = s /\ body[m].branches = Branches
    BY <1>2 DEF Announced, OwedIds
  <2>2. m \in DOMAIN body /\ body'[m] = body[m]
    BY <2>1 DEF IndexInv, BodiesOK
  <2>3. CASE m \in OwedIds'
    BY <2>1, <2>2, <2>3 DEF Announced, OwedIds, Branches
  <2>4. CASE m \notin OwedIds'
    <3>1. \A b \in Branches : Filled(s, b)'
      BY <2>1, <2>2, <2>4 DEF Answered, Branches
    <3> QED
      BY <3>1 DEF Indexed, Filled, Branches
  <2> QED
    BY <2>3, <2>4
<1> QED
  BY <1>1, <1>2 DEF IndexInv, HandedOn

(* The workers other than w, when bodies stay and branches stay filled.      *)
LEMMA OtherWorkers ==
    ASSUME IndexInv,
           \A m \in DOMAIN body : m \in DOMAIN body' /\ body'[m] = body[m],
           \A s, b : b \in Branches /\ Filled(s, b) => Filled(s, b)',
           NEW x \in Workers, worker'[x] = worker[x]
    PROVE  WorkerOK(x)'
<1>1. WorkerOK(x)
  BY DEF IndexInv
<1>2. worker[x].pc = "ack" => /\ worker[x].d.id \in DOMAIN body
                              /\ Answered(body[worker[x].d.id])
  BY <1>1 DEF WorkerOK
<1>3. worker[x].pc = "ack" => Answered(body[worker[x].d.id])'
  <2> SUFFICES ASSUME worker[x].pc = "ack" PROVE Answered(body[worker[x].d.id])'
    OBVIOUS
  <2>1. /\ body'[worker[x].d.id] = body[worker[x].d.id]
        /\ body[worker[x].d.id].branches \subseteq Branches
    BY <1>2 DEF IndexInv, IndexTypeOK, IndexRequest
  <2> QED
    BY <1>2, <2>1 DEF Answered
<1> QED
  BY <1>1, <1>3 DEF WorkerOK

(* A step of one worker, with the containers, the bodies and the enqueuer    *)
(* left alone.                                                              *)
LEMMA WorkerStep ==
    ASSUME IndexInv, NEW w \in Workers, NEW r \in Worker,
           worker' = [worker EXCEPT ![w] = r],
           UNCHANGED <<container, body, enqueuer>>,
           QueueTypeOK', OwedIds' \subseteq OwedIds \cup DOMAIN body,
           db' \in [DOMAIN db' -> Row], DOMAIN db' \subseteq Contents,
           \A s, b : b \in Branches /\ Filled(s, b) => Filled(s, b)',
           \A m \in OwedIds \ OwedIds' : Answered(body[m])',
           WorkerOK(w)'
    PROVE  IndexInv'
<1>1. IndexTypeOK'
  BY DEF IndexInv, IndexTypeOK
<1>2. EnqueuerOK'
  BY DEF IndexInv, EnqueuerOK, FreeIds
<1>3. BodiesOK'
  BY DEF IndexInv, BodiesOK, Sent
<1>4. \A x \in Workers \ {w} : worker'[x] = worker[x]
  BY DEF IndexInv, IndexTypeOK
<1>5. \A x \in Workers : WorkerOK(x)'
  BY <1>4, OtherWorkers
<1>6. ASSUME NEW k \in Containers, Sent(k)'
      PROVE  (Announced(container[k].sha) \/ Indexed(container[k].sha))'
  BY <1>1, <1>6, HandedStep DEF Sent
<1> QED
  BY <1>1, <1>2, <1>3, <1>5, <1>6 DEF IndexInv, HandedOn

LEMMA TakeOK ==
    ASSUME IndexInv, NEW w \in Workers, Take(w)
    PROVE  IndexInv'
<1>1. PICK q \in AfterReap :
        /\ Receive(q)
        /\ worker' = [worker EXCEPT ![w] = [Idle EXCEPT !.pc = "load", !.d = Delivering(q)]]
  BY DEF Take
<1> DEFINE r == [Idle EXCEPT !.pc = "load", !.d = Delivering(q)]
<1>2. /\ QueueTypeOK' /\ Delivering(q) \in Delivery
      /\ Outstanding' = Outstanding /\ dead' = dead
  BY <1>1, ReceiveEffect DEF IndexInv, IndexTypeOK
<1>3. Delivering(q).id \in Outstanding
  <2>1. Delivering(q).id \in DOMAIN inflight'
    BY <1>1 DEF Receive, With
  <2> QED
    BY <1>2, <2>1 DEF Outstanding
<1>4. UNCHANGED <<container, body, enqueuer, db>>
  BY DEF Take, others
<1>5. r \in Worker /\ r.pc = "load" /\ r.d = Delivering(q)
  BY <1>2 DEF Idle, Worker
<1>6. worker'[w] = r
  BY <1>1 DEF IndexInv, IndexTypeOK
<1>7. WorkerOK(w)'
  BY <1>2, <1>3, <1>4, <1>5, <1>6 DEF WorkerOK, IndexInv, BodiesOK, OwedIds
<1> QED
  BY <1>1, <1>2, <1>4, <1>5, <1>7, WorkerStep DEF OwedIds, Filled, IndexInv, IndexTypeOK

LEMMA LoadCachedOK ==
    ASSUME IndexInv, CacheOK, NEW w \in Workers, LoadCached(w)
    PROVE  IndexInv'
<1> DEFINE o == worker[w]
           s == body[o.d.id].sha
<1>1. UNCHANGED <<container, body, enqueuer, db, ready, inflight, dead>> /\ o.pc = "load"
  BY DEF LoadCached, others, indexVars, queueVars
<1>2. o \in Worker /\ WorkerOK(w)
  BY DEF IndexInv, IndexTypeOK
<1>3. ASSUME NEW r \in Worker, worker' = [worker EXCEPT ![w] = r], r.d = o.d,
             r.pc # "ack", r.pc = "write" => r.parse \in Containers
      PROVE  IndexInv'
  <2>1. worker'[w] = r
    BY <1>3 DEF IndexInv, IndexTypeOK
  <2>2. WorkerOK(w)'
    BY <1>1, <1>2, <1>3, <2>1 DEF WorkerOK
  <2>3. QueueTypeOK' /\ OwedIds' = OwedIds
    BY <1>1 DEF IndexInv, IndexTypeOK, QueueTypeOK, OwedIds, Outstanding, ReadyIds
  <2> QED
    BY <1>1, <1>3, <2>2, <2>3, WorkerStep DEF Filled, IndexInv, IndexTypeOK
<1>4. CASE s \in DOMAIN final /\ file[final[s]] # None
  <2> DEFINE r == [o EXCEPT !.pc = "write", !.parse = file[final[s]]]
  <2>1. file[final[s]] \in Containers
    BY <1>4 DEF CacheOK
  <2>2. r \in Worker /\ r.d = o.d /\ r.pc = "write" /\ r.parse \in Containers
    BY <1>2, <2>1 DEF Worker
  <2>3. worker' = [worker EXCEPT ![w] = r]
    BY <1>4 DEF LoadCached, IndexInv, IndexTypeOK
  <2> QED
    BY <1>3, <2>2, <2>3
<1>5. CASE ~(s \in DOMAIN final /\ file[final[s]] # None)
  <2> DEFINE r == [o EXCEPT !.pc = "failed"]
  <2>1. r \in Worker /\ r.d = o.d /\ r.pc = "failed"
    BY <1>2 DEF Worker
  <2>2. worker' = [worker EXCEPT ![w] = r]
    BY <1>5 DEF LoadCached, IndexInv, IndexTypeOK
  <2> QED
    BY <1>3, <2>1, <2>2
<1> QED
  BY <1>4, <1>5

(* The transaction fills the branches asked for and empties none.            *)
LEMMA WrittenFills ==
    ASSUME IndexTypeOK, NEW request \in IndexRequest, NEW parse \in Containers,
           db' = With(db, request.sha, Written(request, parse))
    PROVE  /\ db' \in [DOMAIN db' -> Row] /\ DOMAIN db' \subseteq Contents
           /\ \A s, b : b \in Branches /\ Filled(s, b) => Filled(s, b)'
           /\ \A b \in request.branches : Filled(request.sha, b)'
<1> DEFINE s == request.sha
           row == Written(request, parse)
           branch(b) == IF b \in request.branches THEN parse ELSE Stored(s)[b]
<1>1. s \in Contents /\ request.uri \in Docs /\ request.branches \subseteq {"tables", "chunks"}
  BY DEF IndexRequest, Branches
<1>2. parse # None
  BY DocumentsAssumption
<1>3. \A b \in Branches : /\ Stored(s)[b] \in Containers \cup {None}
                          /\ Filled(s, b) => Stored(s)[b] # None
  BY DEF Stored, IndexTypeOK, Row, Filled, Branches
<1>4. row \in Row /\ row.tables = branch("tables") /\ row.chunks = branch("chunks")
  BY <1>1, <1>3 DEF Written, Row, Branches
<1>5. \A b \in Branches : row[b] = branch(b)
  BY <1>4 DEF Branches
<1>6. /\ DOMAIN db' = DOMAIN db \cup {s} /\ db'[s] = row
      /\ \A x \in DOMAIN db \ {s} : db'[x] = db[x]
  BY DEF With
<1>7. db' \in [DOMAIN db' -> Row] /\ DOMAIN db' \subseteq Contents
  BY <1>1, <1>4, WithOK DEF IndexTypeOK
<1>8. \A x, b : b \in Branches /\ Filled(x, b) => Filled(x, b)'
  BY <1>2, <1>3, <1>5, <1>6 DEF Filled
<1>9. \A b \in request.branches : Filled(s, b)'
  BY <1>1, <1>2, <1>5, <1>6 DEF Filled, Branches
<1> QED
  BY <1>7, <1>8, <1>9

LEMMA WriteAllOK ==
    ASSUME IndexInv, NEW w \in Workers, WriteAll(w)
    PROVE  IndexInv'
<1> DEFINE o == worker[w]
           request == body[o.d.id]
<1>1. UNCHANGED <<container, body, enqueuer, ready, inflight, dead>> /\ o.pc = "write"
  BY DEF WriteAll, others, indexVars, queueVars
<1>2. o \in Worker /\ o.d.id \in DOMAIN body /\ o.parse \in Containers /\ o.d \in Delivery
  BY <1>1 DEF IndexInv, IndexTypeOK, WorkerOK
<1>3. QueueTypeOK' /\ OwedIds' = OwedIds /\ request \in IndexRequest
  BY <1>1, <1>2 DEF IndexInv, IndexTypeOK, QueueTypeOK, OwedIds, Outstanding, ReadyIds
<1>4. CASE /\ db' = With(db, request.sha, Written(request, o.parse))
           /\ worker' = [worker EXCEPT ![w].pc = "ack", ![w].parse = None]
  <2> DEFINE r == [o EXCEPT !.pc = "ack", !.parse = None]
  <2>1. r \in Worker /\ r.d = o.d /\ r.pc = "ack"
    BY <1>2 DEF Worker
  <2>2. worker' = [worker EXCEPT ![w] = r] /\ worker'[w] = r
    BY <1>4 DEF IndexInv, IndexTypeOK
  <2>0. PICK q \in IndexRequest, p \in Containers : q = request /\ p = o.parse
    BY <1>2, <1>3
  <2>3. /\ db' \in [DOMAIN db' -> Row] /\ DOMAIN db' \subseteq Contents
        /\ \A s, b : b \in Branches /\ Filled(s, b) => Filled(s, b)'
        /\ \A b \in q.branches : Filled(q.sha, b)'
    <3>1. IndexTypeOK /\ db' = With(db, q.sha, Written(q, p))
      BY <1>4, <2>0 DEF IndexInv
    <3> QED
      BY <3>1, WrittenFills
  <2>4. Answered(request)'
    BY <1>1, <2>0, <2>1, <2>2, <2>3 DEF Answered
  <2>5. WorkerOK(w)'
    BY <1>1, <1>2, <2>1, <2>2, <2>4 DEF WorkerOK
  <2> QED
    BY <1>1, <1>3, <2>1, <2>2, <2>3, <2>5, WorkerStep
<1>5. CASE /\ worker' = [worker EXCEPT ![w].pc = "failed", ![w].parse = None]
           /\ UNCHANGED db
  <2> DEFINE r == [o EXCEPT !.pc = "failed", !.parse = None]
  <2>1. r \in Worker /\ r.d = o.d /\ r.pc = "failed"
    BY <1>2 DEF Worker
  <2>2. worker' = [worker EXCEPT ![w] = r] /\ worker'[w] = r
    BY <1>5 DEF IndexInv, IndexTypeOK
  <2>3. WorkerOK(w)'
    BY <1>1, <1>2, <2>1, <2>2 DEF WorkerOK
  <2> QED
    BY <1>1, <1>3, <1>5, <2>1, <2>2, <2>3, WorkerStep DEF Filled, IndexInv, IndexTypeOK
<1> QED
  BY <1>4, <1>5 DEF WriteAll

LEMMA SettleOK ==
    ASSUME IndexInv, NEW w \in Workers, Settle(w)
    PROVE  IndexInv'
<1> DEFINE d == worker[w].d
<1>1. UNCHANGED <<container, body, enqueuer, db>> /\ worker' = [worker EXCEPT ![w] = Idle]
  BY DEF Settle, others
<1>2. /\ worker[w].pc \in {"ack", "failed"} /\ d \in Delivery /\ d.id \in DOMAIN body
      /\ worker[w].pc = "ack" => Answered(body[d.id])
  BY DEF Settle, IndexInv, WorkerOK
<1>3. Idle \in Worker /\ worker'[w] = Idle
  BY <1>1 DEF Idle, Worker, IndexInv, IndexTypeOK
<1>4. WorkerOK(w)'
  BY <1>3 DEF WorkerOK, Idle
<1>5. ASSUME QueueTypeOK', OwedIds' \subseteq OwedIds \cup {d.id},
             \/ OwedIds \subseteq OwedIds'
             \/ worker[w].pc = "ack" /\ OwedIds \ OwedIds' \subseteq {d.id}
      PROVE  IndexInv'
  <2>1. \A m \in OwedIds \ OwedIds' : Answered(body[m])'
    BY <1>1, <1>2, <1>5 DEF Answered, Filled
  <2>2. OwedIds' \subseteq DOMAIN body
    BY <1>2, <1>5 DEF IndexInv, BodiesOK
  <2> QED
    BY <1>1, <1>3, <1>4, <1>5, <2>1, <2>2, WorkerStep DEF Filled, IndexInv, IndexTypeOK
<1>6. CASE worker[w].pc = "ack" /\ Ack(d)
  <2>1. QueueTypeOK' /\ Outstanding' \in {Outstanding, Outstanding \ {d.id}} /\ dead' = dead
    BY <1>2, <1>6, AckEffect DEF IndexInv, IndexTypeOK
  <2> QED
    BY <1>5, <1>6, <2>1 DEF OwedIds
<1>7. CASE DeadLetter(d)
  <2>1. /\ QueueTypeOK' /\ Outstanding' \in {Outstanding, Outstanding \ {d.id}}
        /\ dead' = dead \cup {d}
    BY <1>2, <1>7, DeadLetterEffect DEF IndexInv, IndexTypeOK
  <2> QED
    BY <1>5, <2>1 DEF OwedIds
<1>8. CASE Nack(d)
  <2>1. QueueTypeOK' /\ Outstanding' = Outstanding /\ dead' = dead
    BY <1>2, <1>8, NackEffect DEF IndexInv, IndexTypeOK
  <2> QED
    BY <1>5, <2>1 DEF OwedIds
<1> QED
  BY <1>6, <1>7, <1>8 DEF Settle

LEMMA CrashOK ==
    ASSUME IndexInv, NEW w \in Workers, Crash(w)
    PROVE  IndexInv'
<1>1. /\ UNCHANGED <<container, body, enqueuer, db, ready, inflight, dead>>
      /\ worker' = [worker EXCEPT ![w] = Idle]
  BY DEF Crash, others, indexVars, queueVars
<1>2. Idle \in Worker /\ worker'[w] = Idle
  BY <1>1 DEF Idle, Worker, IndexInv, IndexTypeOK
<1>3. WorkerOK(w)'
  BY <1>2 DEF WorkerOK, Idle
<1>4. QueueTypeOK' /\ OwedIds' = OwedIds
  BY <1>1 DEF IndexInv, IndexTypeOK, QueueTypeOK, OwedIds, Outstanding, ReadyIds
<1> QED
  BY <1>1, <1>2, <1>3, <1>4, WorkerStep DEF Filled, IndexInv, IndexTypeOK

LEMMA ExpiresOK ==
    ASSUME IndexInv, NEW m \in Messages, Expires(m)
    PROVE  IndexInv'
<1>1. QueueTypeOK' /\ OwedIds' = OwedIds
  BY ClaimExpiresEffect DEF Expires, IndexInv, IndexTypeOK, OwedIds
<1>2. UNCHANGED <<container, body, worker, db, enqueuer>>
  BY DEF Expires, others, storeVars
<1>3. IndexTypeOK' /\ EnqueuerOK' /\ BodiesOK'
  BY <1>1, <1>2 DEF IndexInv, IndexTypeOK, EnqueuerOK, BodiesOK, FreeIds, Sent
<1>4. \A w \in Workers : WorkerOK(w)'
  BY <1>2 DEF IndexInv, WorkerOK, Answered, Filled
<1>5. ASSUME NEW k \in Containers, Sent(k)'
      PROVE  (Announced(container[k].sha) \/ Indexed(container[k].sha))'
  BY <1>1, <1>2, <1>3, <1>5, HandedStep DEF Sent, Filled
<1> QED
  BY <1>3, <1>4, <1>5 DEF IndexInv, HandedOn

LEMMA EnqueueOK ==
    ASSUME IndexInv, CacheOK, Enqueue
    PROVE  IndexInv'
<1>1. PICK todo \in {Cached} \cup SUBSET Contents, branches \in Asked :
        /\ Cardinality(todo) <= Cardinality(FreeIds)
        /\ enqueuer' = [todo |-> todo, branches |-> branches]
  BY DEF Enqueue
<1>2. UNCHANGED <<container, body, worker, db, ready, inflight, dead>>
  BY DEF Enqueue, others, indexVars, queueVars
<1>3. EnqueuerOK'
  BY <1>1, <1>2, DocumentsAssumption DEF EnqueuerOK, FreeIds, Cached, CacheOK, Branches
<1>4. IndexTypeOK' /\ BodiesOK' /\ OwedIds' = OwedIds
  BY <1>2 DEF IndexInv, IndexTypeOK, QueueTypeOK, BodiesOK, OwedIds, Outstanding, ReadyIds, Sent
<1>5. \A w \in Workers : WorkerOK(w)'
  BY <1>2 DEF IndexInv, WorkerOK, Answered, Filled
<1>6. ASSUME NEW k \in Containers, Sent(k)'
      PROVE  (Announced(container[k].sha) \/ Indexed(container[k].sha))'
  BY <1>2, <1>4, <1>6, HandedStep DEF Sent, Filled
<1> QED
  BY <1>3, <1>4, <1>5, <1>6 DEF IndexInv, HandedOn

(* A message is published under an id that was free. *)
LEMMA PublishOK ==
    ASSUME IndexInv, NEW m \in Messages \ DOMAIN body, NEW request \in IndexRequest,
           Publish(m), body' = With(body, m, request), UNCHANGED <<worker, db>>
    PROVE  /\ IndexTypeOK'
           /\ OwedIds' = OwedIds \cup {m} /\ DOMAIN body' = DOMAIN body \cup {m}
           /\ body'[m] = request
           /\ \A x \in DOMAIN body : body'[x] = body[x]
           /\ \A w \in Workers : WorkerOK(w)'
<1>1. QueueTypeOK' /\ OwedIds' = OwedIds \cup {m}
  BY PublishEffect DEF IndexInv, IndexTypeOK, OwedIds
<1>2. /\ DOMAIN body' = DOMAIN body \cup {m} /\ body'[m] = request
      /\ \A x \in DOMAIN body : body'[x] = body[x]
  BY DEF With
<1>3. body' \in [DOMAIN body' -> IndexRequest] /\ DOMAIN body' \subseteq Messages
  BY WithOK DEF IndexInv, IndexTypeOK
<1>4. IndexTypeOK'
  BY <1>1, <1>3 DEF IndexInv, IndexTypeOK
<1>5. \A w \in Workers : WorkerOK(w)'
  BY <1>2, OtherWorkers DEF Filled
<1> QED
  BY <1>1, <1>2, <1>4, <1>5

LEMMA EnqueueNextOK ==
    ASSUME IndexInv, CacheOK, NEW s \in Contents, EnqueueNext(s)
    PROVE  IndexInv'
<1>1. UNCHANGED <<container, worker, db>>
  BY DEF EnqueueNext, others
<1>t. /\ s \in enqueuer.todo /\ enqueuer.todo \subseteq Contents
      /\ enqueuer.branches \subseteq Branches
      /\ Cardinality(enqueuer.todo) <= Cardinality(FreeIds)
  BY DEF EnqueueNext, IndexInv, EnqueuerOK
<1>2. CASE s \notin DOMAIN meta
  <2>1. enqueuer' = NotEnqueuing /\ UNCHANGED <<body, ready, inflight, dead>>
    BY <1>2 DEF EnqueueNext, indexVars, queueVars
  <2>2. EnqueuerOK'
    BY <2>1, FS_EmptySet, FreeIdsFinite DEF EnqueuerOK, NotEnqueuing, FreeIds
  <2>3. IndexTypeOK' /\ BodiesOK' /\ OwedIds' = OwedIds
    BY <1>1, <2>1
       DEF IndexInv, IndexTypeOK, QueueTypeOK, BodiesOK, OwedIds, Outstanding, ReadyIds, Sent
  <2>4. \A w \in Workers : WorkerOK(w)'
    BY <1>1, <2>1 DEF IndexInv, WorkerOK, Answered, Filled
  <2>5. ASSUME NEW k \in Containers, Sent(k)'
        PROVE  (Announced(container[k].sha) \/ Indexed(container[k].sha))'
    BY <1>1, <2>1, <2>3, <2>5, HandedStep DEF Sent, Filled
  <2> QED
    BY <2>2, <2>3, <2>4, <2>5 DEF IndexInv, HandedOn
<1>3. CASE s \in DOMAIN meta
  <2>1. PICK m : m = CHOOSE x \in FreeIds : TRUE
    OBVIOUS
  <2> DEFINE request == [sha |-> s, uri |-> meta[s], branches |-> enqueuer.branches]
  <2>2. /\ Cardinality(enqueuer.todo) \in Nat
        /\ Cardinality(enqueuer.todo \ {s}) = Cardinality(enqueuer.todo) - 1
    BY <1>t, FreeIdsFinite, FS_RemoveElement
  <2>3. FreeIds # {}
    BY <1>t, <2>2, FreeIdsFinite, FS_EmptySet
  <2>4. m \in FreeIds /\ m \in Messages \ DOMAIN body /\ m \notin Containers
    BY <2>1, <2>3 DEF FreeIds
  <2>5. /\ Publish(m) /\ body' = With(body, m, request)
        /\ enqueuer' = IF enqueuer.todo = {s} THEN NotEnqueuing
                       ELSE [enqueuer EXCEPT !.todo = @ \ {s}]
    BY <1>3, <2>1 DEF EnqueueNext
  <2>6. request \in IndexRequest
    BY <1>t, <1>3 DEF IndexRequest, CacheOK
  <2>7. /\ IndexTypeOK'
        /\ OwedIds' = OwedIds \cup {m} /\ DOMAIN body' = DOMAIN body \cup {m}
        /\ \A x \in DOMAIN body : body'[x] = body[x]
        /\ \A w \in Workers : WorkerOK(w)'
    BY <1>1, <2>4, <2>5, <2>6, PublishOK
  <2>8. FreeIds' = FreeIds \ {m} /\ Cardinality(FreeIds') = Cardinality(FreeIds) - 1
    <3>1. FreeIds' = FreeIds \ {m}
      BY <2>7 DEF FreeIds
    <3> QED
      BY <3>1, <2>4, FreeIdsFinite, FS_RemoveElement
  <2>9. EnqueuerOK'
    <3>1. enqueuer' \in [todo : SUBSET Contents, branches : SUBSET Branches]
      BY <2>5 DEF IndexInv, EnqueuerOK, NotEnqueuing
    <3>2. Cardinality(enqueuer'.todo) <= Cardinality(FreeIds) - 1
      <4>1. CASE enqueuer.todo = {s}
        <5>1. enqueuer.todo \ {s} = {} /\ enqueuer'.todo = {}
          BY <2>5, <4>1 DEF NotEnqueuing
        <5> QED
          BY <1>t, <2>2, <5>1, FreeIdsFinite
      <4>2. CASE enqueuer.todo # {s}
        <5>1. enqueuer'.todo = enqueuer.todo \ {s}
          BY <2>5, <4>2 DEF IndexInv, EnqueuerOK
        <5> QED
          BY <1>t, <2>2, <5>1, FreeIdsFinite
      <4> QED
        BY <4>1, <4>2
    <3> QED
      BY <2>8, <3>1, <3>2 DEF EnqueuerOK
  <2>10. BodiesOK'
    BY <1>1, <2>4, <2>7 DEF IndexInv, BodiesOK, Sent
  <2>11. ASSUME NEW k \in Containers, Sent(k)'
         PROVE  (Announced(container[k].sha) \/ Indexed(container[k].sha))'
    BY <1>1, <2>7, <2>11, HandedStep DEF Sent, Filled
  <2> QED
    BY <2>7, <2>9, <2>10, <2>11 DEF IndexInv, HandedOn
<1> QED
  BY <1>2, <1>3

LEMMA AnnounceOK ==
    ASSUME IndexInv, ParseInv, NEW k \in Containers, Announce(k)
    PROVE  IndexInv'
<1> DEFINE r == container[k]
           request == Announcing(k)
<1>1. /\ UNCHANGED <<worker, db, enqueuer>> /\ Publish(k) /\ r.pc = "publish"
      /\ body' = With(body, k, request) /\ container' = [container EXCEPT ![k].pc = "exit"]
  BY DEF Announce, storeVars
<1>2. r \in Container /\ r.sha \in Contents /\ r.doc \in Docs
  BY <1>1 DEF ParseInv, ParseOK, ContainerOK, Hashed
<1>3. request \in IndexRequest /\ request.sha = r.sha /\ request.branches = Branches
  BY <1>2 DEF Announcing, IndexRequest
<1>4. k \in Messages \ DOMAIN body
  BY <1>1, DocumentsAssumption DEF IndexInv, BodiesOK, Sent
<1>5. /\ IndexTypeOK'
      /\ OwedIds' = OwedIds \cup {k} /\ DOMAIN body' = DOMAIN body \cup {k}
      /\ body'[k] = request
      /\ \A x \in DOMAIN body : body'[x] = body[x]
      /\ \A w \in Workers : WorkerOK(w)'
  BY <1>1, <1>3, <1>4, PublishOK
<1>6. /\ container'[k].pc = "exit" /\ container'[k].sha = r.sha
      /\ \A x \in Containers \ {k} : container'[x] = container[x]
  BY <1>1, <1>2 DEF ParseInv, ParseOK, Container
<1>7. BodiesOK'
  BY <1>5, <1>6 DEF IndexInv, BodiesOK, Sent
<1>8. EnqueuerOK'
  <2>1. FreeIds' = FreeIds
    BY <1>5 DEF FreeIds
  <2> QED
    BY <1>1, <2>1 DEF IndexInv, EnqueuerOK
<1>9. (Announced(container[k].sha))'
  BY <1>3, <1>5, <1>6 DEF Announced, OwedIds, Branches
<1>10. ASSUME NEW x \in Containers \ {k}, Sent(x)'
       PROVE  (Announced(container[x].sha) \/ Indexed(container[x].sha))'
  BY <1>1, <1>5, <1>6, <1>10, HandedStep DEF Sent, Filled
<1> QED
  BY <1>5, <1>7, <1>8, <1>9, <1>10 DEF IndexInv, HandedOn

LEMMA IndexInvStep == ParseInv /\ IndexInv /\ [Next]_vars => IndexInv'
<1> SUFFICES ASSUME ParseInv, IndexInv, [Next]_vars PROVE IndexInv'
  OBVIOUS
<1> USE DEF ParseInv
<1>1. ASSUME NEW d \in Docs, Launch(d) \/ Lapse(d) PROVE IndexInv'
  <2>1. UNCHANGED <<indexVars, storeVars>>
    BY <1>1 DEF Launch, Lapse
  <2>2. \A k \in Containers : \/ container'[k] = container[k]
                              \/ container[k].pc = "unused" /\ container'[k].pc = "fetch"
    <3>1. CASE Lapse(d)
      <4>1. container' = container
        BY <3>1 DEF Lapse
      <4> QED
        BY <4>1
    <3>2. CASE Launch(d)
      <4>1. PICK k \in Containers :
              /\ k = CHOOSE x \in Containers : container[x].pc = "unused"
              /\ container[k].pc = "unused"
        BY <3>2 DEF Launch
      <4>2. container' = [container EXCEPT ![k] =
                [Unused EXCEPT !.pc = "fetch", !.doc = d, !.attempt = tries'[d], !.before = Over]]
        BY <3>2, <4>1 DEF Launch
      <4>3. /\ container'[k].pc = "fetch"
            /\ \A x \in Containers \ {k} : container'[x] = container[x]
        BY <4>2 DEF Unused, ParseOK
      <4> QED
        BY <4>1, <4>3
    <3> QED
      BY <1>1, <3>1, <3>2
  <2> QED
    BY <2>1, <2>2, IndexInside DEF Sent
<1>2. ASSUME NEW k \in Containers, Raises(k) \/ Kill(k) \/ Failing(k)
      PROVE  IndexInv'
  <2>1. /\ Failing(k) /\ UNCHANGED <<indexVars, storeVars>>
    BY <1>2 DEF Raises, Kill, Failing
  <2>2. container'[k].pc = "failed" /\ \A x \in Containers \ {k} : container'[x] = container[x]
    BY <2>1 DEF Failing, Unused, ParseOK
  <2> QED
    BY <2>1, <2>2, IndexInside DEF Sent
<1>3. ASSUME NEW k \in Containers, Parse(k) PROVE IndexInv'
  <2>1. CASE Announce(k)
    BY <2>1, AnnounceOK
  <2>2. CASE Failing(k)
    BY <1>2, <2>2
  <2>3. CASE Exit(k)
    <3>1. /\ container[k].pc = "exit" /\ container'[k].pc = "exited"
          /\ container'[k].sha = container[k].sha
          /\ \A x \in Containers \ {k} : container'[x] = container[x]
      BY <2>3 DEF Exit, ParseOK, Container
    <3>2. UNCHANGED <<indexVars, storeVars>>
      BY <2>3 DEF Exit
    <3> QED
      BY <3>1, <3>2, IndexInside DEF Sent
  <2>4. CASE ~Announce(k) /\ ~Failing(k) /\ ~Exit(k)
    <3>1. /\ container[k].pc \notin {"exit", "exited", "failed"}
          /\ UNCHANGED <<indexVars, storeVars>>
      BY <1>3, <2>4 DEF Parse, Fetch, DropParse, DropMeta, Look, Load, Convert, Create, Write,
                  Replace, Clean, WriteManifest, Step, outside
    <3>2. /\ container'[k].pc \notin {"exit", "exited"}
          /\ \A x \in Containers \ {k} : container'[x] = container[x]
      BY <1>3, <2>4 DEF Parse, Fetch, DropParse, DropMeta, Look, Load, Convert, Create, Write,
                  Replace, Clean, WriteManifest, Step, ParseOK, Container
    <3> QED
      BY <3>1, <3>2, IndexInside DEF Sent
  <2> QED
    BY <2>1, <2>2, <2>3, <2>4
<1>4. ASSUME NEW w \in Workers, Index(w) \/ Crash(w) PROVE IndexInv'
  BY <1>4, TakeOK, LoadCachedOK, WriteAllOK, SettleOK, CrashOK DEF Index
<1>5. ASSUME NEW m \in Messages, Expires(m) PROVE IndexInv'
  BY <1>5, ExpiresOK
<1>6. CASE Enqueue
  BY <1>6, EnqueueOK
<1>7. ASSUME NEW s \in Contents, EnqueueNext(s) PROVE IndexInv'
  BY <1>7, EnqueueNextOK
<1>8. CASE UNCHANGED vars
  BY <1>8, IndexInside DEF vars, Sent
<1> QED
  <2> HIDE DEF ParseInv
  <2> QED
    BY <1>1, <1>2, <1>3, <1>4, <1>5, <1>6, <1>7, <1>8 DEF Next

-----------------------------------------------------------------------------
LEMMA FaultsCounted == faults \in Nat /\ [Next]_vars => faults' \in Nat
<1> SUFFICES ASSUME faults \in Nat, [Next]_vars
             PROVE  faults' = faults \/ faults' = faults + 1
  OBVIOUS
<1>1. ASSUME NEW d \in Docs, Launch(d) \/ Lapse(d) PROVE faults' = faults \/ faults' = faults + 1
  BY <1>1 DEF Launch, Lapse, Fault
<1>2. ASSUME NEW k \in Containers, Parse(k) PROVE faults' = faults
  BY <1>2 DEF Parse, Fetch, DropParse, DropMeta, Look, Load, Convert, Create, Write, Replace,
              Clean, WriteManifest, Announce, Exit, Step, outside
<1>3. ASSUME NEW k \in Containers, Raises(k) \/ Kill(k)
      PROVE  faults' = faults \/ faults' = faults + 1
  BY <1>3 DEF Raises, Kill, Fault
<1>4. ASSUME NEW w \in Workers, Index(w) \/ Crash(w)
      PROVE  faults' = faults \/ faults' = faults + 1
  BY <1>4 DEF Index, Take, LoadCached, WriteAll, Settle, Crash, Fault
<1>5. ASSUME NEW m \in Messages, Expires(m) PROVE faults' = faults \/ faults' = faults + 1
  BY <1>5 DEF Expires, Fault
<1>6. CASE Enqueue \/ \E s \in Contents : EnqueueNext(s)
  BY <1>6 DEF Enqueue, EnqueueNext
<1>7. CASE UNCHANGED vars
  BY <1>7 DEF vars
<1> QED
  BY <1>1, <1>2, <1>3, <1>4, <1>5, <1>6, <1>7 DEF Next

(* The inductive invariant.  *)
IndInv ==
    /\ ParseInv
    /\ IndexInv
    /\ ~OwnPidNamespace => Private
    /\ faults \in Nat

LEMMA InitOK == Init => IndInv
<1> SUFFICES ASSUME Init PROVE IndInv
  OBVIOUS
<1>1. ParseInv
  BY ParseInvInit
<1>2. \A k \in Containers : container[k].pc = "unused" /\ container[k].before = {}
  BY DEF Init, Unused
<1>3. Private
  BY <1>2 DEF Init, Private, PrivateOK, Parsed
<1>4. IndexTypeOK
  BY DEF Init, IndexTypeOK, QueueTypeOK, Idle, Worker
<1>5. EnqueuerOK
  BY FS_EmptySet, FreeIdsFinite DEF Init, EnqueuerOK, NotEnqueuing
<1>6. BodiesOK
  BY DEF Init, BodiesOK, OwedIds, Outstanding, ReadyIds, Range
<1>7. \A w \in Workers : WorkerOK(w)
  BY DEF Init, WorkerOK, Idle
<1>8. HandedOn
  BY <1>2 DEF HandedOn, Sent
<1> QED
  BY <1>1, <1>3, <1>4, <1>5, <1>6, <1>7, <1>8 DEF IndInv, IndexInv, Init

(* Every reachable state of the pipeline satisfies the invariant. *)
THEOREM InvariantHolds == Spec => []IndInv
<1>1. IndInv /\ [Next]_vars => IndInv'
  BY ParseInvStep, IndexInvStep, PrivateInvStep, FaultsCounted DEF IndInv
<1> QED
  BY <1>1, InitOK, PTL DEF Spec

(* Type correctness of containers, cache, queue, workers and database. *)
THEOREM TypesHold == Spec => []TypeOK
<1>1. IndInv => TypeOK
  BY DEF IndInv, ParseInv, ParseOK, CacheOK, IndexInv, IndexTypeOK, EnqueuerOK, TypeOK
<1> QED
  BY <1>1, InvariantHolds, PTL

(* Nothing falls between the two queues: when to-parse is acked for a        *)
(* document, to-index owes it or the database has both its branches.        *)
THEOREM NothingFallsBetween == Spec => []NotLostBetween
<1>1. IndInv => NotLostBetween
  BY DEF IndInv, IndexInv, HandedOn, NotLostBetween, Exited, Sent
<1> QED
  BY <1>1, InvariantHolds, PTL

(* With process ids that differ, what is under a final name in the cache is  *)
(* a whole parse, whenever a container is killed or fails.                  *)
THEOREM CacheStaysWhole ==
    ASSUME ~OwnPidNamespace
    PROVE  Spec => []CacheWhole
<1>1. IndInv => CacheWhole
  BY DEF IndInv, Private, CacheWhole
<1> QED
  BY <1>1, InvariantHolds, PTL

(* ... and a forced container never returns a parse of one that was over     *)
(* when it started.                                                         *)
THEOREM ForcedStaysFresh ==
    ASSUME ~OwnPidNamespace
    PROVE  Spec => []ForcedIsFresh
<1>1. IndInv => ForcedIsFresh
  BY DEF IndInv, Private, PrivateOK, ForcedIsFresh, Exited, Parsed
<1> QED
  BY <1>1, InvariantHolds, PTL

-----------------------------------------------------------------------------
(* What the database reflects.  With process ids that differ a parse comes   *)
(* under a final name once at most, by the container that made it, and so    *)
(* only before any other container returns it; a cached parse that a         *)
(* container announced has been there since before it was announced.  Who    *)
(* takes that message, or a later one on the same content, therefore loads   *)
(* that parse, and a single worker has no older one in its hands.           *)

(* A container returns its own parse, or one whose maker is done with it. *)
GotOK(k) ==
    LET g == container[k].got
    IN  g \in {None, k} \/ container[g].pc \in Through

BodyOK(k) ==
    k \in DOMAIN body /\ Sent(k) =>
        body[k].sha = container[k].sha /\ body[k].branches = Branches

(* The cache still has the parse that container k returned. *)
InCache(k) ==
    container[k].sha \in DOMAIN final /\ final[container[k].sha] = container[k].got

Stands(s, g) == s \in DOMAIN db /\ db[s].tables = g /\ db[s].chunks = g

(* Once the message of k is worked off, or in the hands of a worker that is  *)
(* done writing, the database has that parse; a worker about to write then,  *)
(* or with that message, writes that parse.                                 *)
Reflects(k) ==
    LET s == container[k].sha
        g == container[k].got
    IN  /\ k \notin OwedIds => Stands(s, g)
        /\ \A w \in Workers :
            /\ worker[w].pc = "write" /\ body[worker[w].d.id].sha = s
               /\ (k \notin OwedIds \/ worker[w].d.id = k) => worker[w].parse = g
            /\ worker[w].pc = "ack" /\ worker[w].d.id = k => Stands(s, g)

CurrentInv ==
    \A k \in Containers :
        /\ GotOK(k)
        /\ BodyOK(k)
        /\ Sent(k) /\ InCache(k) => Reflects(k)

(* One container moves. *)
LEMMA GotStep ==
    ASSUME ParseInv, CurrentInv, NEW k \in Containers, NEW n, n = container'[k],
           \A x \in Containers \ {k} : container'[x] = container[x],
           container[k].pc \in Through => n.pc \in Through,
           \/ n.got \in {None, k, container[k].got}
           \/ n.got \in Containers /\ container[n.got].pc \in Through
    PROVE  \A x \in Containers : GotOK(x)'
<1>1. \A x \in Containers : container[x].got \in Containers \cup {None}
  BY DEF ParseInv, ParseOK, Container
<1>2. \A x \in Containers : container[x].pc \in Through => container'[x].pc \in Through
  OBVIOUS
<1>3. \A x \in Containers : GotOK(x)
  BY DEF CurrentInv
<1>4. ASSUME NEW x \in Containers PROVE GotOK(x)'
  <2>1. CASE x # k
    <3>1. container'[x].got = container[x].got
      BY <2>1
    <3> QED
      BY <1>1, <1>2, <1>3, <3>1 DEF GotOK
  <2>2. CASE x = k
    BY <1>1, <1>2, <1>3, <2>2 DEF GotOK
  <2> QED
    BY <2>1, <2>2
<1> QED
  BY <1>4

(* A step of the containers that announces nothing, and puts under a final   *)
(* name at most what no container has returned that announced it.           *)
LEMMA CurrentInside ==
    ASSUME CurrentInv, UNCHANGED <<indexVars, storeVars>>,
           \A k \in Containers : GotOK(k)',
           \A k \in Containers : Sent(k)' =>
               /\ Sent(k)
               /\ container'[k].sha = container[k].sha /\ container'[k].got = container[k].got,
           \A s \in DOMAIN final' :
               \/ s \in DOMAIN final /\ final'[s] = final[s]
               \/ \A k \in Containers : Sent(k) => container[k].got # final'[s]
    PROVE  CurrentInv'
<1>1. UNCHANGED <<ready, inflight, dead, body, worker, db>>
  BY DEF indexVars, storeVars, queueVars
<1>2. OwedIds' = OwedIds
  BY <1>1 DEF OwedIds, Outstanding, ReadyIds
<1>3. ASSUME NEW k \in Containers, Sent(k)'
      PROVE  BodyOK(k)' /\ (InCache(k)' => Reflects(k)')
  <2>1. /\ Sent(k)
        /\ container'[k].sha = container[k].sha /\ container'[k].got = container[k].got
    BY <1>3
  <2>2. InCache(k)' => InCache(k)
    BY <2>1 DEF InCache
  <2>3. BodyOK(k) /\ (InCache(k) => Reflects(k))
    BY <2>1 DEF CurrentInv
  <2>4. BodyOK(k)'
    BY <1>1, <2>1, <2>3 DEF BodyOK
  <2>5. Reflects(k) => Reflects(k)'
    BY <1>1, <1>2, <2>1 DEF Reflects, Stands
  <2> QED
    BY <2>2, <2>3, <2>4, <2>5
<1> QED
  BY <1>3 DEF CurrentInv, BodyOK

LEMMA CurrentFailing ==
    ASSUME ParseInv, CurrentInv, NEW k \in Containers, Failing(k), UNCHANGED final
    PROVE  CurrentInv'
<1>1. PICK n : n = container'[k]
  OBVIOUS
<1>2. /\ n.pc = "failed" /\ n.got = None
      /\ \A x \in Containers \ {k} : container'[x] = container[x]
      /\ UNCHANGED <<indexVars, storeVars>>
  BY <1>1 DEF Failing, Unused, ParseInv, ParseOK
<1>3. \A x \in Containers : GotOK(x)'
  BY <1>1, <1>2, GotStep DEF Through
<1>4. \A x \in Containers : Sent(x)' =>
        /\ Sent(x)
        /\ container'[x].sha = container[x].sha /\ container'[x].got = container[x].got
  BY <1>1, <1>2 DEF Sent
<1> QED
  BY <1>2, <1>3, <1>4, CurrentInside

(* What a container does to itself: its parse, and the final names. *)
LEMMA CurrentMove ==
    ASSUME ParseInv, CurrentInv, NEW k \in Containers, NEW n, n = container'[k],
           \A x \in Containers \ {k} : container'[x] = container[x],
           UNCHANGED <<indexVars, storeVars>>,
           container[k].pc \in Through => n.pc \in Through,
           \/ n.got \in {None, k, container[k].got}
           \/ n.got \in Containers /\ container[n.got].pc \in Through,
           n.pc \in {"exit", "exited"} =>
               /\ Sent(k) /\ n.sha = container[k].sha /\ n.got = container[k].got,
           \A s \in DOMAIN final' :
               \/ s \in DOMAIN final /\ final'[s] = final[s]
               \/ final'[s] = k /\ container[k].pc \notin Through
    PROVE  CurrentInv'
<1>1. \A x \in Containers : GotOK(x)'
  BY GotStep
<1>2. \A x \in Containers : Sent(x)' =>
        /\ Sent(x)
        /\ container'[x].sha = container[x].sha /\ container'[x].got = container[x].got
  BY DEF Sent
<1>3. container[k].pc \notin Through =>
        \A x \in Containers : Sent(x) => container[x].got # k
  BY DocumentsAssumption DEF CurrentInv, GotOK, Sent, Through
<1> QED
  BY <1>1, <1>2, <1>3, CurrentInside

LEMMA CurrentParse ==
    ASSUME ParseInv, Private, CurrentInv, ~OwnPidNamespace, NEW k \in Containers,
           Parse(k), ~Announce(k)
    PROVE  CurrentInv'
<1>1. PICK n : n = container'[k]
  OBVIOUS
<1>2. PICK r \in Container : r = container[k]
  BY DEF ParseInv, ParseOK
<1>3. container[k] \in Container /\ container \in [Containers -> Container]
  BY DEF ParseInv, ParseOK
<1>4. ASSUME \/ Fetch(k) \/ DropMeta(k) \/ Look(k) \/ Create(k) \/ Write(k) \/ WriteManifest(k)
             \/ DropParse(k) \/ Convert(k)
      PROVE  CurrentInv'
  <2>1. /\ \A x \in Containers \ {k} : container'[x] = container[x]
        /\ UNCHANGED <<indexVars, storeVars>>
    BY <1>3, <1>4 DEF Fetch, DropMeta, Look, Create, Write, WriteManifest, DropParse, Convert,
       Step, outside
  <2>2. /\ n.got \in {k, container[k].got} /\ n.pc \notin {"exit", "exited"}
        /\ container[k].pc \in Through => n.pc \in Through
    BY <1>1, <1>3, <1>4 DEF Fetch, DropMeta, Look, Create, Write, WriteManifest, DropParse,
       Convert, Step, Container, Through
  <2>3. \A s \in DOMAIN final' : s \in DOMAIN final /\ final'[s] = final[s]
    BY <1>4 DEF Fetch, DropMeta, Look, Create, Write, WriteManifest, DropParse, Convert,
       cacheVars, Without
  <2> QED
    BY <1>1, <2>1, <2>2, <2>3, CurrentMove
<1>5. CASE Load(k)
  <2>1. final' = final
    BY <1>5 DEF Load, cacheVars
  <2>2. CASE Failing(k)
    BY <2>1, <2>2, CurrentFailing
  <2>3. CASE ~Failing(k)
    <3>1. PICK s : s = container[k].sha /\ s \in DOMAIN final /\ file[final[s]] # None
      BY <1>5, <2>3 DEF Load
    <3>2. /\ \A x \in Containers \ {k} : container'[x] = container[x]
          /\ UNCHANGED <<indexVars, storeVars>>
          /\ n.got = file[final[s]] /\ n.pc = "manifest" /\ container[k].pc = "load"
      BY <1>1, <1>3, <1>5, <2>3, <3>1 DEF Load, Container
    <3>3. final[s] \in Containers /\ container[final[s]].pc \in Through
      BY <3>1 DEF Private, ParseInv, CacheOK
    <3>4. file[final[s]] = final[s]
      BY <3>1, <3>3 DEF Private, PrivateOK
    <3> QED
      BY <1>1, <2>1, <3>2, <3>3, <3>4, CurrentMove DEF Through
  <2> QED
    BY <2>2, <2>3
<1>6. CASE Replace(k)
  <2>1. /\ \A x \in Containers \ {k} : container'[x] = container[x]
        /\ UNCHANGED <<indexVars, storeVars>>
        /\ n.got = container[k].got /\ n.pc = "clean" /\ container[k].pc = "replace"
    BY <1>1, <1>3, <1>6 DEF Replace, Container, outside
  <2>2. PICK t : t = Scratch(k)
    OBVIOUS
  <2>3. t[2] = k
    BY <2>2 DEF Scratch, Pid
  <2>4. \A s \in DOMAIN final' :
            \/ s \in DOMAIN final /\ final'[s] = final[s]
            \/ final'[s] = k
    <3>1. CASE t \in DOMAIN tmp /\ final' = With(final, container[k].sha, tmp[t])
      <4>1. tmp[t] = k
        BY <2>3, <3>1 DEF Private
      <4> QED
        BY <3>1, <4>1 DEF With
    <3> QED
      BY <1>6, <2>2, <3>1 DEF Replace
  <2> QED
    BY <1>1, <2>1, <2>4, CurrentMove DEF Through
<1>7. CASE Clean(k)
  <2>1. final' = final
    BY <1>7 DEF Clean
  <2>2. CASE Failing(k)
    BY <2>1, <2>2, CurrentFailing
  <2>3. CASE ~Failing(k)
    <3>1. /\ \A x \in Containers \ {k} : container'[x] = container[x]
          /\ UNCHANGED <<indexVars, storeVars>>
          /\ n.got = container[k].got /\ n.pc = "manifest"
      BY <1>1, <1>3, <1>7, <2>3 DEF Clean, Container
    <3> QED
      BY <1>1, <2>1, <3>1, CurrentMove DEF Through
  <2> QED
    BY <2>2, <2>3
<1>8. CASE Exit(k)
  <2>1. /\ \A x \in Containers \ {k} : container'[x] = container[x]
        /\ UNCHANGED <<indexVars, storeVars, final>>
        /\ n.got = container[k].got /\ n.sha = container[k].sha
        /\ n.pc = "exited" /\ container[k].pc = "exit"
    BY <1>1, <1>3, <1>8 DEF Exit, Container, cacheVars
  <2> QED
    BY <1>1, <2>1, CurrentMove DEF Through, Sent
<1> QED
  BY <1>4, <1>5, <1>6, <1>7, <1>8 DEF Parse

(* A new announcement is owed, and no worker has it. *)
LEMMA CurrentAnnounce ==
    ASSUME ParseInv, IndexInv, CurrentInv, NEW k \in Containers, Announce(k)
    PROVE  CurrentInv'
<1>1. PICK n : n = container'[k]
  OBVIOUS
<1>2. /\ UNCHANGED <<worker, db, final>> /\ Publish(k) /\ container[k].pc = "publish"
      /\ body' = With(body, k, Announcing(k))
      /\ n.pc = "exit" /\ n.sha = container[k].sha /\ n.got = container[k].got
      /\ \A x \in Containers \ {k} : container'[x] = container[x]
  BY <1>1 DEF Announce, storeVars, cacheVars, ParseInv, ParseOK, Container
<1>3. k \in Messages /\ k \notin DOMAIN body /\ QueueTypeOK
  BY <1>2, DocumentsAssumption DEF IndexInv, IndexTypeOK, BodiesOK, Sent
<1>4. OwedIds' = OwedIds \cup {k}
  BY <1>2, <1>3, PublishEffect DEF OwedIds
<1>5. /\ \A m \in DOMAIN body : body'[m] = body[m]
      /\ DOMAIN body' = DOMAIN body \cup {k} /\ body'[k] = Announcing(k)
  BY <1>2, <1>3 DEF With
<1>6. \A x \in Containers : GotOK(x)'
  BY <1>1, <1>2, GotStep DEF Through
<1>7. \A w \in Workers : worker[w].pc # "idle" =>
        worker[w].d.id \in DOMAIN body /\ worker[w].d.id # k
  BY <1>3 DEF IndexInv, WorkerOK
<1>8. BodyOK(k)' /\ Reflects(k)'
  <2>1. BodyOK(k)'
    BY <1>1, <1>2, <1>5 DEF BodyOK, Announcing
  <2> QED
    BY <1>1, <1>2, <1>4, <1>7, <2>1 DEF Reflects
<1>9. ASSUME NEW x \in Containers \ {k}, Sent(x)'
      PROVE  BodyOK(x)' /\ (InCache(x)' => Reflects(x)')
  <2>1. Sent(x) /\ container'[x] = container[x]
    BY <1>2, <1>9 DEF Sent
  <2>2. InCache(x)' => InCache(x)
    BY <1>2, <2>1 DEF InCache
  <2>3. BodyOK(x) /\ (InCache(x) => Reflects(x))
    BY <2>1 DEF CurrentInv
  <2>4. BodyOK(x)'
    BY <1>5, <2>1, <2>3 DEF BodyOK, Sent
  <2>5. Reflects(x) => Reflects(x)'
    BY <1>2, <1>4, <1>5, <1>7, <2>1 DEF Reflects, Stands
  <2> QED
    BY <2>2, <2>3, <2>4, <2>5
<1> QED
  BY <1>6, <1>8, <1>9 DEF CurrentInv, BodyOK

(* A step of the index side: containers and cache stay, and a body once      *)
(* published stays what it is.                                              *)
LEMMA CurrentOutside ==
    ASSUME CurrentInv, UNCHANGED <<container, final>>,
           \A m \in DOMAIN body : m \in DOMAIN body' /\ body'[m] = body[m],
           Containers \cap DOMAIN body' \subseteq DOMAIN body,
           \A k \in Containers : Sent(k) /\ InCache(k) /\ Reflects(k) => Reflects(k)'
    PROVE  CurrentInv'
<1>1. ASSUME NEW k \in Containers
      PROVE  GotOK(k)' /\ BodyOK(k)' /\ (Sent(k)' /\ InCache(k)' => Reflects(k)')
  <2>1. GotOK(k) /\ BodyOK(k) /\ (Sent(k) /\ InCache(k) => Reflects(k))
    BY DEF CurrentInv
  <2>2. GotOK(k)'
    BY <2>1 DEF GotOK
  <2>3. BodyOK(k)'
    BY <2>1 DEF BodyOK, Sent
  <2>4. (Sent(k)' => Sent(k)) /\ (InCache(k)' => InCache(k))
    BY DEF Sent, InCache
  <2> QED
    BY <2>1, <2>2, <2>3, <2>4
<1> QED
  BY <1>1 DEF CurrentInv

(* A worker whose step neither writes nor acks. *)
LEMMA CurrentIdle ==
    ASSUME IndexInv, CurrentInv, NEW w \in Workers, UNCHANGED <<container, final, body, db>>,
           \A x \in Workers \ {w} : worker'[x] = worker[x],
           worker'[w].pc \notin {"write", "ack"}, OwedIds \subseteq OwedIds'
    PROVE  CurrentInv'
<1>1. ASSUME NEW k \in Containers, Reflects(k) PROVE Reflects(k)'
  BY <1>1 DEF Reflects, Stands
<1> QED
  BY <1>1, CurrentOutside

LEMMA CurrentTake ==
    ASSUME IndexInv, CurrentInv, NEW w \in Workers, Take(w) \/ Crash(w)
    PROVE  CurrentInv'
<1>1. QueueTypeOK /\ worker \in [Workers -> Worker]
  BY DEF IndexInv, IndexTypeOK
<1>2. CASE Take(w)
  <2>1. PICK q \in AfterReap :
          /\ Receive(q)
          /\ worker' = [worker EXCEPT ![w] = [Idle EXCEPT !.pc = "load", !.d = Delivering(q)]]
    BY <1>2 DEF Take
  <2>2. OwedIds' = OwedIds
    BY <1>1, <2>1, ReceiveEffect DEF OwedIds
  <2>3. worker'[w].pc = "load" /\ \A x \in Workers \ {w} : worker'[x] = worker[x]
    BY <1>1, <2>1 DEF Idle
  <2>4. UNCHANGED <<container, final, body, db>>
    BY <1>2 DEF Take, others, cacheVars
  <2> QED
    BY <2>2, <2>3, <2>4, CurrentIdle
<1>3. CASE Crash(w)
  <2>1. worker'[w].pc = "idle" /\ \A x \in Workers \ {w} : worker'[x] = worker[x]
    BY <1>1, <1>3 DEF Crash, Idle
  <2>2. UNCHANGED <<container, final, body, db, ready, inflight, dead>>
    BY <1>3 DEF Crash, others, cacheVars, indexVars, queueVars
  <2>3. OwedIds' = OwedIds
    BY <2>2 DEF OwedIds, Outstanding, ReadyIds
  <2> QED
    BY <2>1, <2>2, <2>3, CurrentIdle
<1> QED
  BY <1>2, <1>3

(* What a worker loads is what the cache has now. *)
LEMMA CurrentLoad ==
    ASSUME ParseInv, IndexInv, Private, CurrentInv, NEW w \in Workers, LoadCached(w)
    PROVE  CurrentInv'
<1>1. worker \in [Workers -> Worker] /\ worker[w] \in Worker
  BY DEF IndexInv, IndexTypeOK
<1>2. UNCHANGED <<container, final, body, db, ready, inflight, dead, file>>
  BY DEF LoadCached, others, cacheVars, indexVars, queueVars
<1>3. OwedIds' = OwedIds
  BY <1>2 DEF OwedIds, Outstanding, ReadyIds
<1>4. PICK s : s = body[worker[w].d.id].sha
  OBVIOUS
<1>5. CASE worker' = [worker EXCEPT ![w].pc = "failed"]
  <2>1. worker'[w].pc = "failed" /\ \A x \in Workers \ {w} : worker'[x] = worker[x]
    BY <1>1, <1>5 DEF Worker
  <2> QED
    BY <1>2, <1>3, <2>1, CurrentIdle
<1>6. CASE /\ s \in DOMAIN final /\ file[final[s]] # None
           /\ worker' = [worker EXCEPT ![w].pc = "write", ![w].parse = file[final[s]]]
  <2>1. /\ worker'[w].pc = "write" /\ worker'[w].d = worker[w].d
        /\ worker'[w].parse = file[final[s]]
        /\ \A x \in Workers \ {w} : worker'[x] = worker[x]
    BY <1>1, <1>6 DEF Worker
  <2>2. final[s] \in Containers /\ file[final[s]] = final[s]
    BY <1>6 DEF Private, PrivateOK, ParseInv, CacheOK
  <2>3. ASSUME NEW k \in Containers, InCache(k), Reflects(k) PROVE Reflects(k)'
    <3>1. body[worker[w].d.id].sha = container[k].sha => final[s] = container[k].got
      BY <1>4, <2>3 DEF InCache
    <3> QED
      BY <1>2, <1>3, <2>1, <2>2, <2>3, <3>1 DEF Reflects, Stands
  <2> QED
    BY <1>2, <2>3, CurrentOutside
<1> QED
  BY <1>4, <1>5, <1>6 DEF LoadCached

(* The transaction: a message of a container asks for both branches. *)
LEMMA CurrentWrite ==
    ASSUME IndexInv, CurrentInv, NEW w \in Workers, \A x \in Workers : x = w, WriteAll(w)
    PROVE  CurrentInv'
<1>1. worker \in [Workers -> Worker] /\ worker[w] \in Worker
  BY DEF IndexInv, IndexTypeOK
<1>2. UNCHANGED <<container, final, body, ready, inflight, dead>> /\ worker[w].pc = "write"
  BY DEF WriteAll, others, cacheVars, indexVars, queueVars
<1>3. OwedIds' = OwedIds
  BY <1>2 DEF OwedIds, Outstanding, ReadyIds
<1>4. PICK m : m = worker[w].d.id
  OBVIOUS
<1>5. m \in DOMAIN body /\ body[m] \in IndexRequest
  BY <1>2, <1>4 DEF IndexInv, WorkerOK, IndexTypeOK
<1>6. CASE worker' = [worker EXCEPT ![w].pc = "failed", ![w].parse = None] /\ UNCHANGED db
  <2>1. worker'[w].pc = "failed" /\ \A x \in Workers \ {w} : worker'[x] = worker[x]
    BY <1>1, <1>6 DEF Worker
  <2> QED
    BY <1>2, <1>3, <1>6, <2>1, CurrentIdle
<1>7. CASE /\ db' = With(db, body[m].sha, Written(body[m], worker[w].parse))
           /\ worker' = [worker EXCEPT ![w].pc = "ack", ![w].parse = None]
  <2>1. worker'[w].pc = "ack" /\ worker'[w].d = worker[w].d
    BY <1>1, <1>7 DEF Worker
  <2>2. ASSUME NEW k \in Containers, Sent(k), Reflects(k) PROVE Reflects(k)'
    <3>1. PICK s, g : s = container[k].sha /\ g = container[k].got
      OBVIOUS
    <3>2. PICK row : row = Written(body[m], worker[w].parse)
      OBVIOUS
    <3>3. /\ \A x \in DOMAIN db : x # body[m].sha => x \in DOMAIN db' /\ db'[x] = db[x]
          /\ body[m].sha \in DOMAIN db' /\ db'[body[m].sha] = row
      BY <1>7, <3>2 DEF With
    <3>4. CASE k \notin OwedIds
      <4>1. Stands(s, g)
        BY <2>2, <3>1, <3>4 DEF Reflects
      <4>2. ASSUME body[m].sha = s PROVE Stands(s, g)'
        <5>1. worker[w].parse = g
          BY <1>2, <1>4, <2>2, <3>1, <3>4, <4>2 DEF Reflects
        <5>2. row.tables = g /\ row.chunks = g
          BY <3>2, <4>1, <4>2, <5>1 DEF Written, Stored, Stands
        <5> QED
          BY <3>3, <4>2, <5>2 DEF Stands
      <4>3. ASSUME body[m].sha # s PROVE Stands(s, g)'
        BY <3>3, <4>1, <4>3 DEF Stands
      <4>4. Stands(s, g)'
        BY <4>2, <4>3
      <4> QED
        BY <1>2, <2>1, <3>1, <4>4 DEF Reflects
    <3>5. CASE k \in OwedIds /\ m = k
      <4>1. body[m].sha = s /\ body[m].branches = Branches
        BY <1>5, <2>2, <3>1, <3>5 DEF CurrentInv, BodyOK
      <4>2. worker[w].parse = g
        BY <1>2, <1>4, <2>2, <3>1, <3>5, <4>1 DEF Reflects
      <4>3. row.tables = g /\ row.chunks = g
        BY <3>2, <4>1, <4>2 DEF Written, Branches
      <4>4. Stands(s, g)'
        BY <3>3, <4>1, <4>3 DEF Stands
      <4> QED
        BY <1>2, <2>1, <3>1, <4>4 DEF Reflects
    <3>6. CASE k \in OwedIds /\ m # k
      BY <1>2, <1>3, <1>4, <2>1, <3>6 DEF Reflects
    <3> QED
      BY <3>4, <3>5, <3>6
  <2> QED
    BY <1>2, <2>2, CurrentOutside
<1> QED
  BY <1>4, <1>6, <1>7 DEF WriteAll

(* A message that leaves the queue for good was acked, by the one worker. *)
LEMMA CurrentSettle ==
    ASSUME IndexInv, CurrentInv, NEW w \in Workers, \A x \in Workers : x = w, Settle(w)
    PROVE  CurrentInv'
<1>1. /\ QueueTypeOK /\ worker \in [Workers -> Worker]
      /\ worker[w].pc \in {"ack", "failed"} /\ worker[w].d \in Delivery
  BY DEF IndexInv, IndexTypeOK, WorkerOK, Settle
<1>2. UNCHANGED <<container, final, body, db>> /\ worker'[w].pc = "idle"
  BY <1>1 DEF Settle, others, cacheVars, Idle
<1>3. PICK d \in Delivery : d = worker[w].d
  BY <1>1
<1>4. CASE worker[w].pc = "ack" /\ Ack(d)
  <2>1. Outstanding' \in {Outstanding, Outstanding \ {d.id}} /\ dead' = dead
    BY <1>1, <1>4, AckEffect
  <2>2. OwedIds \subseteq OwedIds' \cup {d.id}
    BY <2>1 DEF OwedIds
  <2>3. ASSUME NEW k \in Containers, Reflects(k) PROVE Reflects(k)'
    <3>1. PICK s, g : s = container[k].sha /\ g = container[k].got
      OBVIOUS
    <3>2. k \notin OwedIds' => Stands(s, g)
      BY <1>3, <1>4, <2>2, <2>3, <3>1 DEF Reflects
    <3> QED
      BY <1>2, <3>1, <3>2 DEF Reflects, Stands
  <2> QED
    BY <1>2, <2>3, CurrentOutside
<1>5. CASE DeadLetter(d) \/ Nack(d)
  <2>1. OwedIds \subseteq OwedIds'
    <3>1. ASSUME DeadLetter(d) PROVE OwedIds \subseteq OwedIds'
      <4>1. Outstanding' \in {Outstanding, Outstanding \ {d.id}} /\ dead' = dead \cup {d}
        BY <1>1, <3>1, DeadLetterEffect
      <4> QED
        BY <4>1 DEF OwedIds
    <3>2. ASSUME Nack(d) PROVE OwedIds \subseteq OwedIds'
      <4>1. Outstanding' = Outstanding /\ dead' = dead
        BY <1>1, <3>2, NackEffect
      <4> QED
        BY <4>1 DEF OwedIds
    <3> QED
      BY <1>5, <3>1, <3>2
  <2> QED
    BY <1>2, <2>1, CurrentIdle
<1> QED
  BY <1>3, <1>4, <1>5 DEF Settle

(* A lapse moves no message off the queue, and a new one is nobody's yet. *)
LEMMA CurrentQueue ==
    ASSUME IndexInv, CurrentInv,
           \/ \E m \in Messages : Expires(m)
           \/ Enqueue
           \/ \E s \in Contents : EnqueueNext(s)
    PROVE  CurrentInv'
<1>1. QueueTypeOK /\ UNCHANGED <<container, final, worker, db>>
  BY DEF IndexInv, IndexTypeOK, Expires, Enqueue, EnqueueNext, others, cacheVars, storeVars
<1>2. ASSUME OwedIds \subseteq OwedIds',
             \A m \in DOMAIN body : m \in DOMAIN body' /\ body'[m] = body[m],
             Containers \cap DOMAIN body' \subseteq DOMAIN body
      PROVE  CurrentInv'
  <2>1. \A x \in Workers : worker[x].pc # "idle" => worker[x].d.id \in DOMAIN body
    BY DEF IndexInv, WorkerOK
  <2>2. ASSUME NEW k \in Containers, Reflects(k) PROVE Reflects(k)'
    BY <1>1, <1>2, <2>1, <2>2 DEF Reflects, Stands
  <2> QED
    BY <1>1, <1>2, <2>2, CurrentOutside
<1>3. ASSUME NEW m \in Messages, Expires(m) PROVE CurrentInv'
  <2>1. OwedIds' = OwedIds /\ body' = body
    BY <1>1, <1>3, ClaimExpiresEffect DEF Expires, OwedIds
  <2> QED
    BY <1>2, <2>1
<1>4. CASE UNCHANGED indexVars
  <2>1. OwedIds' = OwedIds /\ body' = body
    BY <1>4 DEF indexVars, queueVars, OwedIds, Outstanding, ReadyIds
  <2> QED
    BY <1>2, <2>1
<1>5. ASSUME NEW s \in Contents, EnqueueNext(s), ~UNCHANGED indexVars PROVE CurrentInv'
  <2>1. PICK m : m = CHOOSE x \in FreeIds : TRUE
    OBVIOUS
  <2>2. PICK request : request = [sha |-> s, uri |-> meta[s], branches |-> enqueuer.branches]
    OBVIOUS
  <2>3. Publish(m) /\ body' = With(body, m, request) /\ s \in enqueuer.todo
    BY <1>5, <2>1, <2>2 DEF EnqueueNext
  <2>4. FreeIds # {}
    <3>1. /\ enqueuer.todo \subseteq Contents
          /\ Cardinality(enqueuer.todo) <= Cardinality(FreeIds)
      BY DEF IndexInv, EnqueuerOK
    <3>2. /\ IsFiniteSet(enqueuer.todo) /\ Cardinality(enqueuer.todo) \in Nat
          /\ IsFiniteSet(FreeIds) /\ Cardinality(FreeIds) \in Nat
      BY <3>1, FreeIdsFinite
    <3>3. Cardinality(enqueuer.todo) # 0
      BY <2>3, <3>2, FS_EmptySet
    <3> QED
      BY <3>1, <3>2, <3>3, FS_EmptySet
  <2>5. m \in FreeIds
    BY <2>1, <2>4
  <2>6. m \in Messages /\ m \notin Containers /\ m \notin DOMAIN body
    BY <2>5 DEF FreeIds
  <2>7. OwedIds' = OwedIds \cup {m}
    BY <1>1, <2>3, <2>6, PublishEffect DEF OwedIds
  <2>8. /\ DOMAIN body' = DOMAIN body \cup {m}
        /\ \A x \in DOMAIN body : body'[x] = body[x]
    BY <2>3, <2>6 DEF With
  <2> QED
    BY <1>2, <2>6, <2>7, <2>8
<1> QED
  BY <1>3, <1>4, <1>5 DEF Enqueue, EnqueueNext

(* A request is launched, or its claim lapses: no container got anything. *)
LEMMA CurrentLaunch ==
    ASSUME ParseInv, CurrentInv, NEW d \in Docs, Launch(d) \/ Lapse(d)
    PROVE  CurrentInv'
<1>1. UNCHANGED <<indexVars, storeVars, final>>
  BY DEF Launch, Lapse, cacheVars
<1>2. CASE Lapse(d)
  <2>1. container' = container
    BY <1>2 DEF Lapse
  <2> QED
    BY <1>1, <2>1, CurrentInside DEF CurrentInv, GotOK, Sent
<1>3. CASE Launch(d)
  <2>1. PICK k \in Containers :
          /\ k = CHOOSE x \in Containers : container[x].pc = "unused"
          /\ container[k].pc = "unused"
    BY <1>3 DEF Launch
  <2>2. container' = [container EXCEPT ![k] =
            [Unused EXCEPT !.pc = "fetch", !.doc = d, !.attempt = tries'[d], !.before = Over]]
    BY <1>3, <2>1 DEF Launch
  <2>3. PICK n : n = container'[k]
    OBVIOUS
  <2>4. /\ n.pc = "fetch" /\ n.got = None
        /\ \A x \in Containers \ {k} : container'[x] = container[x]
    BY <2>2, <2>3 DEF Unused, ParseInv, ParseOK
  <2> QED
    BY <1>1, <2>1, <2>3, <2>4, CurrentMove DEF Through
<1> QED
  BY <1>2, <1>3

LEMMA CurrentStep ==
    ASSUME ~OwnPidNamespace, \A v, w \in Workers : v = w
    PROVE  IndInv /\ CurrentInv /\ [Next]_vars => CurrentInv'
<1> SUFFICES ASSUME IndInv, CurrentInv, [Next]_vars PROVE CurrentInv'
  OBVIOUS
<1>1. ParseInv /\ IndexInv /\ Private
  BY DEF IndInv
<1>2. ASSUME NEW k \in Containers, Parse(k) PROVE CurrentInv'
  BY <1>1, <1>2, CurrentParse, CurrentAnnounce
<1>3. ASSUME NEW k \in Containers, Raises(k) \/ Kill(k) PROVE CurrentInv'
  <2>1. Failing(k) /\ UNCHANGED final
    BY <1>3 DEF Raises, Kill, cacheVars
  <2> QED
    BY <1>1, <2>1, CurrentFailing
<1>4. ASSUME NEW w \in Workers, Index(w) \/ Crash(w) PROVE CurrentInv'
  <2>1. \A x \in Workers : x = w
    OBVIOUS
  <2> QED
    BY <1>1, <1>4, <2>1, CurrentTake, CurrentLoad, CurrentWrite, CurrentSettle DEF Index
<1>5. CASE UNCHANGED vars
  <2>1. UNCHANGED <<container, final, indexVars, storeVars>>
    BY <1>5 DEF vars, cacheVars
  <2> QED
    BY <2>1, CurrentInside DEF CurrentInv, GotOK, Sent
<1> QED
  BY <1>1, <1>2, <1>3, <1>4, <1>5, CurrentQueue, CurrentLaunch DEF Next

(* With process ids that differ and a single index worker: once the          *)
(* announcement of a parse that is still cached has been worked off, the     *)
(* database holds that parse in both branches, whatever is redelivered,      *)
(* enqueued again, killed or forced.                                        *)
THEOREM DbStaysCurrent ==
    ASSUME ~OwnPidNamespace, \A v, w \in Workers : v = w
    PROVE  Spec => []DbIsCurrent
<1>1. Init => CurrentInv
  BY DEF Init, CurrentInv, GotOK, BodyOK, Sent, Unused
<1>2. IndInv /\ CurrentInv => DbIsCurrent
  <2> SUFFICES ASSUME IndInv, CurrentInv, NEW k \in Exited,
                      container[k].sha \in DOMAIN final,
                      file[final[container[k].sha]] = container[k].got,
                      k \notin Outstanding \cup {d.id : d \in dead}
               PROVE  Stands(container[k].sha, container[k].got)
    BY DEF DbIsCurrent, Stands
  <2>1. PICK f : f = final[container[k].sha]
    OBVIOUS
  <2>2. f \in Containers /\ file[f] # None
    BY <2>1 DEF IndInv, Private, ParseInv, CacheOK
  <2>3. file[f] = f
    BY <2>2 DEF IndInv, Private, PrivateOK
  <2>4. k \in Containers /\ Sent(k) /\ InCache(k) /\ k \notin OwedIds
    BY <2>1, <2>3 DEF Exited, Sent, InCache, OwedIds
  <2> QED
    BY <2>4 DEF CurrentInv, Reflects
<1> QED
  BY <1>1, <1>2, CurrentStep, InvariantHolds, PTL DEF Spec

=============================================================================
