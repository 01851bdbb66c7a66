------------------------- MODULE SteamAppScraper_proofs -------------------------
(***************************************************************************)
(* Proofs about the pool of workers that scrape storefronts and its three  *)
(* users, for any numbers of workers, jobs, cleaners and consumers.        *)
(*                                                                         *)
(* None of the properties is inductive.  That nobody but a goroutine that  *)
(* is not waited for panics needs where main and the dropper are when the  *)
(* channel is closed (Owned), and that DiscoveryPhase closes it after all  *)
(* others ended (Awaited).  That every job is answered needs where a       *)
(* job that is not can be (Located), and that nobody takes the answers of  *)
(* those handed to the consumers but them (Handed).  That a game is whole  *)
(* needs that no job is scraped twice (Once).                              *)
(***************************************************************************)
EXTENDS SteamAppScraper, FiniteSetTheorems, SequenceTheorems, TLAPS

(* The types of all that the pool and its users keep.                      *)
WorkerPcs == {"idle", "guard", "execute", "answer", "sleep", "ended"}
MainPcs == {"work", "left", "create", "select", "read", "changelist", "hand", "stopDropper", "dropAll", "clean",
            "wait", "drain", "join", "done"}
ReceiverPcs == {"off", "check", "send", "take", "await", "use", "ended"}
Answers == {"nil", "game"}

PoolShape ==
    /\ queue \in Seq(Jobs) /\ Len(queue) <= MaxJobs
    /\ closed \in BOOLEAN /\ finished \in BOOLEAN
    /\ worker \in [Workers -> [pc : WorkerPcs, job : Jobs \cup {NoJob}, answer : Answers]]
    /\ \A w \in Workers : worker[w].job = NoJob <=> worker[w].pc \in {"idle", "ended"}
    /\ scrape \in [Jobs -> {"none", "running", "done"}]
    /\ job \in [Jobs -> {"new", "refused", "accepted", "answered"}]
    /\ cleaning \in [Droppers -> Seq(Jobs)]
    /\ receiver \in [Receivers -> [pc : ReceiverPcs, job : Jobs \cup {NoJob}, answer : Answers]]

UserShape ==
    /\ user \in {"websocket", "update", "discovery"} /\ redditFailed \in BOOLEAN
    /\ main \in [pc : MainPcs, apps : Nat, adding : Jobs \cup {NoJob}]
    /\ stopping \in BOOLEAN /\ noMoreJobs \in BOOLEAN
    /\ consumerJobs \in Seq(Jobs) /\ Len(consumerJobs) <= MaxJobs
    /\ dropper \in [pc : {"off", "wait", "drop", "clean", "ended"}, previous : Int, toDrop : Nat]
    /\ dropper.toDrop <= 2 * JobsPerMinute
    /\ dropper.toDrop - 2 * JobsPerMinute <= dropper.previous /\ dropper.previous <= MaxJobs

Shape == PoolShape /\ UserShape

Guarded == Concurrent <= MaxConcurrentWorkers

(* The worker and the dropper that send on the channel or drop from it are *)
(* past that when it is closed.                                            *)
Owned ==
    /\ closed <=> main.pc \in {"wait", "drain", "join", "done"}
    /\ user # "websocket" => main.pc \in {"work", "left", "wait", "done"} /\ dropper.pc = "off"
    /\ user = "websocket" => main.pc \notin {"work", "left"}
    /\ main.pc = "create" => dropper.pc = "off"
    /\ main.pc \in {"dropAll", "clean", "wait", "drain", "join", "done"} => dropper.pc \in {"off", "ended"}
    /\ main.pc = "changelist" => main.apps \in 1 .. Cardinality(New)
    /\ main.pc = "hand" => main.apps \in 0 .. Cardinality(New)

(* So are the goroutines of DiscoveryPhase that were waited for.           *)
Awaited == user = "discovery" /\ closed => Discovered

(* A job that is new is nowhere; one that waits in the queue or behind the *)
(* guard is there once, and its scrape has not begun.                      *)
NewOnce == \A j \in Jobs : job[j] = "new" => scrape[j] = "none"
QueueOnce ==
    /\ \A i \in 1 .. Len(queue) : job[queue[i]] # "new" /\ scrape[queue[i]] = "none"
    /\ \A i, k \in 1 .. Len(queue) : i # k => queue[i] # queue[k]
WorkersOnce == \A w \in Workers : worker[w].pc \notin {"idle", "ended"} => job[worker[w].job] # "new"
GuardOnce ==
    \A w \in Workers : worker[w].pc = "guard" =>
         /\ scrape[worker[w].job] = "none"
         /\ \A i \in 1 .. Len(queue) : queue[i] # worker[w].job
         /\ \A u \in Workers : u # w /\ worker[u].pc = "guard" => worker[u].job # worker[w].job
CleaningOnce == \A d \in Droppers : \A i \in 1 .. Len(cleaning[d]) : job[cleaning[d][i]] # "new"
SendersOnce ==
    \A r \in Receivers : receiver[r].pc \in {"check", "send"} =>
        user # "websocket" /\ r \in Jobs /\ job[r] = "new"

Once == NewOnce /\ QueueOnce /\ WorkersOnce /\ GuardOnce /\ CleaningOnce /\ SendersOnce

(* An answer that is a game is of a scrape that is done.                   *)
Whole ==
    /\ \A w \in Workers :
         worker[w].pc = "answer" /\ worker[w].answer = "game" => scrape[worker[w].job] = "done"
    /\ \A r \in Receivers : receiver[r].pc = "use" =>
         receiver[r].job \in Jobs /\ (receiver[r].answer = "game" => scrape[receiver[r].job] = "done")

(* Who is to answer a job that Add accepted.                               *)
InQueue(j) == \E i \in 1 .. Len(queue) : queue[i] = j
AtWorker(j) == \E w \in Workers : worker[w].job = j /\ worker[w].pc \in {"guard", "execute", "answer"}
AtCleaner(j) == \E d \in Droppers : \E i \in 1 .. Len(cleaning[d]) : cleaning[d][i] = j

Placed(j) == InQueue(j) \/ AtWorker(j) \/ AtCleaner(j)
Pending == \A j \in Jobs : job[j] = "accepted" => Placed(j)

(* Each part of the pool ends when nobody can bring it work any more.      *)
WorkersEnd ==
    /\ \A w \in Workers : worker[w].pc = "ended" => closed /\ queue = <<>>
    /\ finished => closed /\ \A w \in Workers : worker[w].pc = "ended"
CleanersEnd ==
    /\ dropper.pc \in {"off", "wait", "ended"} => cleaning["dropper"] = <<>>
    /\ main.pc \notin {"dropAll", "clean"} => cleaning["main"] = <<>>

Located == Pending /\ WorkersEnd /\ CleanersEnd

(* A job that is handed to the consumers has no answer before one of them  *)
(* has taken it.                                                           *)
Unclaimed(j) ==
    job[j] = "accepted" /\ \A r \in Receivers : receiver[r].pc = "await" => receiver[r].job # j
HandedQueue ==
    /\ \A i \in 1 .. Len(consumerJobs) : Unclaimed(consumerJobs[i])
    /\ \A i, k \in 1 .. Len(consumerJobs) : i # k => consumerJobs[i] # consumerJobs[k]
HandedMain ==
    /\ main.pc = "hand" <=> main.adding # NoJob
    /\ main.pc = "hand" =>
         Unclaimed(main.adding) /\ \A i \in 1 .. Len(consumerJobs) : consumerJobs[i] # main.adding
HandedReceivers == \A r \in Receivers : receiver[r].pc = "await" => job[receiver[r].job] # "new"

Handed ==
    /\ HandedQueue /\ HandedMain
    /\ user # "websocket" => consumerJobs = <<>>
    /\ user = "websocket" => HandedReceivers

(* A receiver that adds a job or awaits its answer has a job.              *)
Awaiting == \A r \in Receivers : receiver[r].pc \in {"check", "send", "await"} => receiver[r].job \in Jobs

Inv == Shape /\ Guarded /\ Owned /\ Awaited /\ Once /\ Whole /\ Located /\ Handed /\ Awaiting /\ OnlyUnawaitedPanic

-----------------------------------------------------------------------------
(* Facts about sequences and about the constants.                          *)

LEMMA RemoveAtProperties ==
    ASSUME NEW S, NEW s \in Seq(S), NEW i \in 1 .. Len(s)
    PROVE  /\ RemoveAt(s, i) \in Seq(S)
           /\ \A k \in 1 .. Len(RemoveAt(s, i)) : \E m \in 1 .. Len(s) : RemoveAt(s, i)[k] = s[m]
           /\ \A m \in 1 .. Len(s) : m # i =>
                 \E k \in 1 .. Len(RemoveAt(s, i)) : RemoveAt(s, i)[k] = s[m]
<1> DEFINE a == SubSeq(s, 1, i - 1)
           b == SubSeq(s, i + 1, Len(s))
<1>1. Len(s) \in Nat /\ \A m \in 1 .. Len(s) : s[m] \in S
  BY LenProperties, ElementOfSeq
<1>2. a \in Seq(S) /\ Len(a) = i - 1 /\ \A m \in 1 .. i - 1 : a[m] = s[m]
  <2>1. \A m \in 1 .. i - 1 : s[m] \in S
    BY <1>1
  <2>2. QED
    BY <1>1, <2>1, SubSeqProperties
<1>3. b \in Seq(S) /\ Len(b) = Len(s) - i /\ \A m \in 1 .. Len(s) - i : b[m] = s[m + i]
  <2>1. \A m \in i + 1 .. Len(s) : s[m] \in S
    BY <1>1
  <2>2. i + 1 \in Nat /\ Len(s) \in Nat /\ i + 1 <= Len(s) + 1
    BY <1>1
  <2>3. /\ b \in Seq(S) /\ Len(b) = IF i + 1 <= Len(s) THEN Len(s) - (i + 1) + 1 ELSE 0
        /\ \A m \in 1 .. Len(s) - (i + 1) + 1 : b[m] = s[i + 1 + m - 1]
    BY <2>1, <2>2, SubSeqProperties
  <2> HIDE DEF b
  <2>4. Len(b) = Len(s) - i
    BY <1>1, <2>3
  <2>5. ASSUME NEW m \in 1 .. Len(s) - i PROVE b[m] = s[m + i]
    <3>1. m \in 1 .. Len(s) - (i + 1) + 1 /\ i + 1 + m - 1 = m + i
      BY <1>1
    <3>2. QED BY <2>3, <3>1
  <2>6. QED BY <2>3, <2>4, <2>5
<1> HIDE DEF a, b
<1> DEFINE c == a \o b
<1>4. /\ c \in Seq(S) /\ Len(c) = Len(a) + Len(b)
      /\ \A k \in 1 .. Len(a) + Len(b) : c[k] = IF k <= Len(a) THEN a[k] ELSE b[k - Len(a)]
  BY <1>2, <1>3, ConcatProperties, Zenon
<1> HIDE DEF c
<1>5. Len(c) = Len(s) - 1 /\ \A k \in 1 .. Len(s) - 1 : c[k] = IF k <= i - 1 THEN s[k] ELSE s[k + 1]
  <2>1. Len(s) \in Nat /\ i \in Nat /\ i <= Len(s) /\ i >= 1
    BY <1>1
  <2>2. Len(c) = Len(s) - 1 /\ Len(a) = i - 1 /\ Len(b) = Len(s) - i
    BY <1>2, <1>3, <1>4, <2>1
  <2>3. ASSUME NEW k \in 1 .. Len(s) - 1 PROVE c[k] = IF k <= i - 1 THEN s[k] ELSE s[k + 1]
    <3>1. c[k] = IF k <= i - 1 THEN a[k] ELSE b[k - (i - 1)]
      BY <1>4, <2>1, <2>2
    <3>2. CASE k <= i - 1
      BY <1>2, <2>1, <3>1, <3>2
    <3>3. CASE ~(k <= i - 1)
      <4>1. k - (i - 1) \in 1 .. Len(s) - i /\ (k - (i - 1)) + i = k + 1
        BY <2>1, <3>3
      <4>2. b[k - (i - 1)] = s[k + 1]
        BY <1>3, <4>1
      <4>3. QED BY <3>1, <3>3, <4>2
    <3>4. QED BY <3>2, <3>3
  <2>4. QED BY <2>2, <2>3
<1>6. ASSUME NEW m \in 1 .. Len(s), m # i
      PROVE  \E k \in 1 .. Len(c) : c[k] = s[m]
  <2>1. CASE m < i
    BY <1>1, <1>5, <2>1
  <2>2. CASE m > i
    <3>1. m - 1 \in 1 .. Len(c) /\ c[m - 1] = s[m]
      BY <1>1, <1>5, <2>2
    <3>2. QED BY <3>1
  <2>3. m < i \/ m > i
    BY <1>1, <1>6
  <2>4. QED BY <2>1, <2>2, <2>3
<1>7. ASSUME NEW k \in 1 .. Len(c)
      PROVE  \E m \in 1 .. Len(s) : c[k] = s[m]
  BY <1>1, <1>5
<1>8. c = RemoveAt(s, i)
  BY DEF RemoveAt, a, b, c
<1>9. QED
  BY <1>4, <1>6, <1>7, <1>8

(* A number of jobs that are new, and one that is added.                   *)
LEMMA JobsFinite == IsFiniteSet(Jobs) /\ \A S \in SUBSET Jobs : IsFiniteSet(S) /\ Cardinality(S) \in Nat
<1>1. IsFiniteSet(Jobs)
  BY ScrapersAssumption, FS_Interval DEF Jobs
<1>2. QED
  BY <1>1, FS_Subset, FS_CardinalityType

LEMMA MinInSet ==
    ASSUME NEW S \in SUBSET Jobs, S # {} PROVE Min(S) \in S
<1>1. S \subseteq Nat
  BY ScrapersAssumption DEF Jobs
<1>2. PICK x \in S : \A y \in S : ~(<<y, x>> \in OpToRel(<, Nat))
  BY <1>1, NatLessThanWellFounded, WFMin
<1>3. \A y \in S : ~(y < x)
  BY <1>1, <1>2 DEF OpToRel
<1>4. \A y \in S : x <= y
  BY <1>1, <1>3
<1>5. QED
  BY <1>4 DEF Min

LEMMA NamesDiffer ==
    /\ \A j \in Jobs : j \in Receivers /\ j \notin Consumers /\ j # NoJob
    /\ Consumers \subseteq Receivers /\ NoJob \notin Jobs
  BY ScrapersAssumption DEF Jobs, Receivers, NoJob

-----------------------------------------------------------------------------
(* Types.                                                                  *)

JobType == [Jobs -> {"new", "refused", "accepted", "answered"}]
RecordsOf(S, Pcs) == [S -> [pc : Pcs, job : Jobs \cup {NoJob}, answer : Answers]]
ReceiverType == RecordsOf(Receivers, ReceiverPcs)
WorkerType == RecordsOf(Workers, WorkerPcs)

(* One of these records, or a part of one, may be set to another.          *)
LEMMA RecordSet ==
    ASSUME NEW S, NEW Pcs, NEW f \in RecordsOf(S, Pcs), NEW x \in S,
           NEW p \in Pcs, NEW j \in Jobs \cup {NoJob}, NEW a \in Answers
    PROVE  /\ [f EXCEPT ![x] = [pc |-> p, job |-> j, answer |-> a]] \in RecordsOf(S, Pcs)
           /\ [f EXCEPT ![x].pc = p] \in RecordsOf(S, Pcs)
           /\ [f EXCEPT ![x].pc = p, ![x].job = j] \in RecordsOf(S, Pcs)
           /\ [f EXCEPT ![x].pc = p, ![x].answer = a] \in RecordsOf(S, Pcs)
<1> DEFINE Js == Jobs \cup {NoJob}
           R == [pc : Pcs, job : Js, answer : Answers]
           r == f[x]
           j0 == r.job
           a0 == r.answer
           Set(e) == [y \in S |-> IF y = x THEN e ELSE f[y]]
<1>0. f \in [S -> R] /\ j \in Js /\ p \in Pcs /\ a \in Answers
  BY DEF RecordsOf
<1> HIDE DEF Js
<1>1. j0 \in Js /\ a0 \in Answers /\ r = [pc |-> r.pc, job |-> j0, answer |-> a0]
  <2>1. r \in R
    BY <1>0
  <2> HIDE DEF r
  <2>2. QED BY <2>1
<1>2. [f EXCEPT ![x] = [pc |-> p, job |-> j, answer |-> a]] = Set([pc |-> p, job |-> j, answer |-> a])
  BY <1>0
<1>3. [f EXCEPT ![x].pc = p] = Set([pc |-> p, job |-> j0, answer |-> a0])
  <2>1. [r EXCEPT !.pc = p] = [pc |-> p, job |-> j0, answer |-> a0]
    <3> HIDE DEF j0, a0, r
    <3>1. QED BY <1>1
  <2>2. [f EXCEPT ![x].pc = p] = Set([r EXCEPT !.pc = p])
    BY <1>0
  <2> HIDE DEF Set, r, j0, a0
  <2>3. QED BY <2>1, <2>2, Zenon
<1>4. [f EXCEPT ![x].pc = p, ![x].job = j] = Set([pc |-> p, job |-> j, answer |-> a0])
  <2> DEFINE g == [f EXCEPT ![x].pc = p]
  <2>1. g = Set([pc |-> p, job |-> j0, answer |-> a0])
    BY <1>3
  <2> HIDE DEF g, j0, a0
  <2>2. [g EXCEPT ![x].job = j] = Set([pc |-> p, job |-> j, answer |-> a0])
    BY <2>1
  <2>3. QED BY <2>2, Zenon DEF g
<1>5. [f EXCEPT ![x].pc = p, ![x].answer = a] = Set([pc |-> p, job |-> j0, answer |-> a])
  <2> DEFINE g == [f EXCEPT ![x].pc = p]
  <2>1. g = Set([pc |-> p, job |-> j0, answer |-> a0])
    BY <1>3
  <2> HIDE DEF g, j0, a0
  <2>2. [g EXCEPT ![x].answer = a] = Set([pc |-> p, job |-> j0, answer |-> a])
    BY <2>1
  <2>3. QED BY <2>2, Zenon DEF g
<1> HIDE DEF j0, a0
<1>6. ASSUME NEW k \in Js, NEW b \in Answers
      PROVE  Set([pc |-> p, job |-> k, answer |-> b]) \in RecordsOf(S, Pcs)
  <2> DEFINE e == [pc |-> p, job |-> k, answer |-> b]
  <2>1. e \in R
    BY <1>0
  <2> HIDE DEF e, R
  <2>2. Set(e) \in [S -> R]
    BY <1>0, <2>1
  <2>3. QED BY <2>2 DEF e, R, Js, RecordsOf
<1> HIDE DEF Set
<1>7. QED BY <1>0, <1>1, <1>2, <1>3, <1>4, <1>5, <1>6

LEMMA InitShape ==
    ASSUME Init PROVE Shape /\ panic = {}
<1>1. receiver \in ReceiverType
  <2>1. ASSUME NEW r \in Receivers
        PROVE  /\ (CASE user # "websocket" /\ r \in Jobs -> "check"
                     [] user = "websocket" /\ r \in Consumers -> "take"
                     [] OTHER -> "off") \in ReceiverPcs
               /\ (IF user # "websocket" /\ r \in Jobs THEN r ELSE NoJob) \in Jobs \cup {NoJob}
    <3>1. CASE user # "websocket"
      BY <3>1 DEF ReceiverPcs, Receivers
    <3>2. CASE user = "websocket"
      BY <3>2 DEF ReceiverPcs, Receivers
    <3>3. QED BY <3>1, <3>2 DEF Init
  <2>2. QED
    BY <2>1 DEF Init, ReceiverType, RecordsOf, Answers
<1>2. PoolShape
  <2>1. worker = [w \in Workers |-> IdleWorker]
        /\ IdleWorker \in [pc : WorkerPcs, job : Jobs \cup {NoJob}, answer : Answers]
    BY DEF Init, PoolInit, IdleWorker, WorkerPcs, Answers
  <2>2. queue \in Seq(Jobs) /\ Len(queue) <= MaxJobs /\ cleaning \in [Droppers -> Seq(Jobs)]
    BY ScrapersAssumption DEF Init, PoolInit
  <2>3. worker \in [Workers -> [pc : WorkerPcs, job : Jobs \cup {NoJob}, answer : Answers]]
        /\ \A w \in Workers : worker[w].job = NoJob <=> worker[w].pc \in {"idle", "ended"}
    BY <2>1 DEF IdleWorker
  <2>4. /\ closed \in BOOLEAN /\ finished \in BOOLEAN
        /\ scrape \in [Jobs -> {"none", "running", "done"}]
        /\ job \in [Jobs -> {"new", "refused", "accepted", "answered"}]
    BY DEF Init, PoolInit
  <2>5. QED
    BY <1>1, <2>2, <2>3, <2>4 DEF PoolShape, ReceiverType, RecordsOf
<1>3. UserShape
  <2>1. main \in [pc : MainPcs, apps : Nat, adding : Jobs \cup {NoJob}]
    BY DEF Init, MainPcs
  <2>2. /\ dropper \in [pc : {"off", "wait", "drop", "clean", "ended"}, previous : Int, toDrop : Nat]
        /\ dropper.toDrop = 0 /\ dropper.previous = 0
    BY DEF Init
  <2>3. consumerJobs \in Seq(Jobs) /\ Len(consumerJobs) <= MaxJobs
    BY ScrapersAssumption DEF Init
  <2>6. /\ stopping \in BOOLEAN /\ noMoreJobs \in BOOLEAN /\ redditFailed \in BOOLEAN
        /\ user \in {"websocket", "update", "discovery"}
    BY Zenon DEF Init
  <2>4. 0 <= 2 * JobsPerMinute /\ 0 - 2 * JobsPerMinute <= 0 /\ 0 <= MaxJobs
    BY SockAssumption, ScrapersAssumption
  <2>5. QED
    BY <2>1, <2>2, <2>3, <2>4, <2>6 DEF UserShape
<1>4. panic = {}
  BY DEF Init, PoolInit
<1> QED BY <1>2, <1>3, <1>4 DEF Shape

LEMMA ReceiveShape ==
    ASSUME PoolShape, NEW j \in Jobs, NEW a \in Answers, Receive(j, a)
    PROVE  receiver' \in ReceiverType /\ job' \in JobType
<1>1. job' \in JobType
  BY DEF Receive, PoolShape, JobType
<1>2. PICK r \in Receivers : receiver' = [receiver EXCEPT ![r].pc = "use", ![r].answer = a]
  BY DEF Receive
<1>3. receiver \in ReceiverType /\ "use" \in ReceiverPcs
  BY DEF PoolShape, ReceiverType, RecordsOf, ReceiverPcs
<1>4. [receiver EXCEPT ![r].pc = "use", ![r].answer = a] \in ReceiverType
  <2>1. a \in Answers /\ NoJob \in Jobs \cup {NoJob}
    OBVIOUS
  <2>2. QED BY <1>3, <2>1, RecordSet, Zenon DEF ReceiverType
<1>5. QED BY <1>1, <1>2, <1>4, Zenon

(* What a step of a worker leaves of its record.                           *)
LEMMA WorkerStepShape ==
    ASSUME PoolShape, NEW w \in Workers, Worker(w)
    PROVE  /\ worker' \in WorkerType
           /\ \A u \in Workers : worker'[u].job = NoJob <=> worker'[u].pc \in {"idle", "ended"}
<1> DEFINE Fits(r) == r.job = NoJob <=> r.pc \in {"idle", "ended"}
<1>0. /\ worker \in WorkerType /\ \A u \in Workers : Fits(worker[u])
  BY DEF PoolShape, WorkerType, RecordsOf
<1>W. /\ \A p \in WorkerPcs : \A k \in Jobs \cup {NoJob} : \A a \in Answers :
            /\ [worker EXCEPT ![w] = [pc |-> p, job |-> k, answer |-> a]] \in WorkerType
            /\ [worker EXCEPT ![w].pc = p] \in WorkerType
            /\ [worker EXCEPT ![w].pc = p, ![w].job = k] \in WorkerType
            /\ [worker EXCEPT ![w].pc = p, ![w].answer = a] \in WorkerType
  BY <1>0, RecordSet, Zenon DEF WorkerType
<1>1. SUFFICES /\ worker' \in WorkerType /\ Fits(worker'[w])
               /\ \A u \in Workers : u # w => worker'[u] = worker[u]
  BY <1>0
<1>2. worker[w] \in [pc : WorkerPcs, job : Jobs \cup {NoJob}, answer : Answers] /\ DOMAIN worker = Workers
  BY <1>0 DEF WorkerType, RecordsOf
<1>3. CASE TakeJob(w)
  <2>1. Head(queue) \in Jobs /\ Head(queue) # NoJob /\ "guard" \in WorkerPcs /\ "nil" \in Answers
    BY <1>3, HeadTailProperties, NamesDiffer DEF TakeJob, PoolShape, WorkerPcs, Answers
  <2>2. worker' = [worker EXCEPT ![w].pc = "guard", ![w].job = Head(queue)]
    BY <1>3 DEF TakeJob
  <2>3. worker'[w].pc = "guard" /\ worker'[w].job = Head(queue)
    BY <1>2, <2>2
  <2>4. worker' \in WorkerType
    BY <1>W, <2>1, <2>2, Zenon
  <2>5. QED BY <1>2, <2>1, <2>2, <2>3, <2>4
<1>4. ASSUME NEW p \in {"execute", "sleep", "ended"}, worker' = [worker EXCEPT ![w].pc = p],
             worker[w].pc # "ended", p = "ended" <=> worker[w].pc = "idle"
      PROVE  /\ worker' \in WorkerType /\ Fits(worker'[w])
             /\ \A u \in Workers : u # w => worker'[u] = worker[u]
  <2>1. p \in WorkerPcs /\ NoJob \in Jobs \cup {NoJob} /\ "nil" \in Answers
    BY DEF WorkerPcs, Answers
  <2>2. worker' \in WorkerType
    BY <1>W, <1>4, <2>1, Zenon
  <2>3. /\ worker'[w].pc = p /\ worker'[w].job = worker[w].job
        /\ \A u \in Workers : u # w => worker'[u] = worker[u]
    BY <1>2, <1>4
  <2>4. Fits(worker'[w])
    BY <1>0, <1>4, <2>3
  <2>5. QED BY <2>2, <2>3, <2>4
<1>5. CASE AcquireGuard(w)
  BY <1>4, <1>5 DEF AcquireGuard
<1>6. CASE Answer(w)
  BY <1>4, <1>6 DEF Answer
<1>7. CASE EndWorker(w)
  BY <1>4, <1>7 DEF EndWorker
<1>8. CASE ExecuteJob(w)
  <2>1. PICK a \in Answers : worker' = [worker EXCEPT ![w].pc = "answer", ![w].answer = a]
    BY <1>8 DEF ExecuteJob, Answers
  <2>2. "answer" \in WorkerPcs /\ NoJob \in Jobs \cup {NoJob}
    BY DEF WorkerPcs
  <2>3. worker' \in WorkerType
    BY <1>W, <2>1, <2>2, Zenon
  <2>4. /\ worker'[w].pc = "answer" /\ worker'[w].job = worker[w].job
        /\ \A u \in Workers : u # w => worker'[u] = worker[u]
    BY <1>2, <2>1
  <2>5. worker[w].pc = "execute"
    BY <1>8 DEF ExecuteJob
  <2>6. QED BY <1>0, <2>3, <2>4, <2>5
<1>9. CASE ReleaseGuard(w)
  <2>1. worker' = [worker EXCEPT ![w] = [pc |-> "idle", job |-> NoJob, answer |-> "nil"]]
    BY <1>9 DEF ReleaseGuard, IdleWorker
  <2>2. "idle" \in WorkerPcs /\ NoJob \in Jobs \cup {NoJob} /\ "nil" \in Answers
    BY DEF WorkerPcs, Answers
  <2>3. worker' \in WorkerType
    BY <1>W, <2>1, <2>2, Zenon
  <2>4. /\ worker'[w].pc = "idle" /\ worker'[w].job = NoJob
        /\ \A u \in Workers : u # w => worker'[u] = worker[u]
    BY <1>2, <2>1
  <2>5. QED BY <2>3, <2>4
<1> QED BY <1>3, <1>5, <1>6, <1>7, <1>8, <1>9 DEF Worker

(* A job that is received leaves a pool and its users of the same types.   *)
LEMMA PoolStepShape ==
    ASSUME Shape, PoolNext, UNCHANGED userVars PROVE Shape'
<1>1. UserShape'
  BY DEF Shape, UserShape, userVars
<1>0. PoolShape
  BY DEF Shape
<1>2. ASSUME NEW w \in Workers, Worker(w) PROVE PoolShape'
  <2>1. /\ worker' \in WorkerType
        /\ \A u \in Workers : worker'[u].job = NoJob <=> worker'[u].pc \in {"idle", "ended"}
    BY <1>0, <1>2, WorkerStepShape
  <2>2. queue' \in Seq(Jobs) /\ Len(queue') <= MaxJobs
    <3>1. CASE TakeJob(w)
      BY <1>0, <3>1, HeadTailProperties, LenProperties, ScrapersAssumption DEF TakeJob, PoolShape
    <3>2. CASE ~TakeJob(w)
      BY <1>0, <1>2, <3>2 DEF Worker, AcquireGuard, ExecuteJob, Answer, ReleaseGuard, EndWorker, PoolShape
    <3>3. QED BY <3>1, <3>2
  <2>3. receiver' \in ReceiverType /\ job' \in JobType
    <3>1. CASE Answer(w)
      <4>1. worker[w].job \in Jobs /\ worker[w].answer \in Answers
        BY <1>0, <3>1 DEF Answer, PoolShape
      <4>2. QED BY <1>0, <3>1, <4>1, ReceiveShape DEF Answer
    <3>2. CASE ~Answer(w)
      BY <1>0, <1>2, <3>2
         DEF Worker, TakeJob, AcquireGuard, ExecuteJob, ReleaseGuard, EndWorker, PoolShape, ReceiverType, RecordsOf,
         JobType
    <3>3. QED BY <3>1, <3>2
  <2>4. scrape' \in [Jobs -> {"none", "running", "done"}]
    <3>1. scrape' = scrape \/ scrape' = [scrape EXCEPT ![worker[w].job] = "running"]
      BY <1>2 DEF Worker, TakeJob, AcquireGuard, ExecuteJob, Answer, ReleaseGuard, EndWorker
    <3>2. scrape \in [Jobs -> {"none", "running", "done"}]
      BY <1>0 DEF PoolShape
    <3>3. QED BY <3>1, <3>2
  <2>5. UNCHANGED <<closed, finished, cleaning>>
    BY <1>2 DEF Worker, TakeJob, AcquireGuard, ExecuteJob, Answer, ReleaseGuard, EndWorker
  <2>6. closed \in BOOLEAN /\ finished \in BOOLEAN /\ cleaning \in [Droppers -> Seq(Jobs)]
    BY <1>0 DEF PoolShape
  <2>7. QED BY <2>1, <2>2, <2>3, <2>4, <2>5, <2>6 DEF PoolShape, WorkerType, ReceiverType, RecordsOf, JobType
<1> USE DEF Shape, PoolShape
<1>8. ASSUME NEW j \in Jobs, Scrape(j) PROVE PoolShape'
  BY <1>8 DEF Scrape
<1>9. ASSUME NEW d \in Droppers, Clean(d) PROVE PoolShape'
  <2>1. PICK i \in 1 .. Len(cleaning[d]) :
            /\ Receive(cleaning[d][i], "nil")
            /\ cleaning' = [cleaning EXCEPT ![d] = RemoveAt(cleaning[d], i)]
    BY <1>9 DEF Clean
  <2>2. cleaning[d] \in Seq(Jobs) /\ cleaning[d][i] \in Jobs
    BY <1>9, ElementOfSeq
  <2>3. receiver' \in ReceiverType /\ job' \in JobType
    <3>1. PoolShape /\ "nil" \in Answers
      BY DEF Answers
    <3> HIDE DEF PoolShape
    <3>2. QED BY <2>1, <2>2, <3>1, ReceiveShape, Zenon
  <2>4. cleaning' \in [Droppers -> Seq(Jobs)]
    BY <2>1, <2>2, RemoveAtProperties
  <2>5. QED BY <1>9, <2>3, <2>4 DEF Clean, ReceiverType, RecordsOf, JobType
<1> QED
  BY <1>1, <1>2, <1>8, <1>9 DEF PoolNext

(* The step of a user that sends a job, or takes one out of the queue.     *)
LEMMA SendShape ==
    ASSUME PoolShape, NEW j \in Jobs, NEW name, Send(j, name)
    PROVE  queue' \in Seq(Jobs) /\ Len(queue') <= MaxJobs /\ job' \in JobType
<1>1. Len(queue) \in Nat /\ MaxJobs \in Nat
  BY ScrapersAssumption, LenProperties DEF PoolShape
<1>2. Append(queue, j) \in Seq(Jobs) /\ Len(Append(queue, j)) = Len(queue) + 1
  BY AppendProperties DEF PoolShape
<1>3. CASE closed
  BY <1>3 DEF Send, PoolShape, JobType
<1>4. CASE ~closed /\ Len(queue) < MaxJobs
  <2>1. queue' = Append(queue, j) /\ job' = [job EXCEPT ![j] = "accepted"]
    BY <1>4 DEF Send
  <2>2. queue' \in Seq(Jobs) /\ Len(queue') <= MaxJobs
    BY <1>1, <1>2, <1>4, <2>1
  <2>3. job' \in JobType
    BY <2>1 DEF PoolShape, JobType
  <2>4. QED BY <2>2, <2>3
<1>5. CASE ~closed /\ ~(Len(queue) < MaxJobs)
  BY <1>5 DEF Send, PoolShape, JobType
<1>6. QED
  BY <1>3, <1>4, <1>5

LEMMA DequeueShape ==
    ASSUME PoolShape, NEW d \in Droppers, Dequeue(d)
    PROVE  queue' \in Seq(Jobs) /\ Len(queue') <= MaxJobs /\ cleaning' \in [Droppers -> Seq(Jobs)]
<1>1. CASE queue = <<>>
  BY <1>1 DEF Dequeue, PoolShape
<1>2. CASE queue # <<>>
  <2>1. Head(queue) \in Jobs /\ Tail(queue) \in Seq(Jobs) /\ Len(Tail(queue)) <= MaxJobs
    BY <1>2, HeadTailProperties, LenProperties, ScrapersAssumption DEF PoolShape
  <2>2. Append(cleaning[d], Head(queue)) \in Seq(Jobs)
    BY <2>1, AppendProperties DEF PoolShape
  <2>3. QED
    BY <1>2, <2>1, <2>2 DEF Dequeue, PoolShape
<1>3. QED BY <1>1, <1>2

(* A step of a user that leaves the pool alone.                            *)
LEMMA PoolKept ==
    ASSUME PoolShape, UNCHANGED poolVars PROVE PoolShape'
BY DEF PoolShape, poolVars

LEMMA NewJobs ==
    ASSUME Shape, Owned, main.pc = "changelist"
    PROVE  Min(New) \in Jobs /\ job[Min(New)] = "new"
<1>1. New \in SUBSET Jobs
  BY DEF New
<1>2. New # {}
  BY FS_EmptySet DEF Owned
<1>3. QED
  BY <1>1, <1>2, MinInSet DEF New

LEMMA WebsocketShape ==
    ASSUME Shape, Owned, Handed, Websocket PROVE Shape'
<1> USE DEF Shape, MainPcs
<1>1. CASE ReadStop
  <2>1. PoolShape'
    BY <1>1, PoolKept DEF ReadStop
  <2>2. UserShape'
    BY <1>1 DEF ReadStop, UserShape
  <2>3. QED BY <2>1, <2>2
<1>2. CASE ReadMessage
  <2>1. Cardinality(New) \in Nat
    BY JobsFinite DEF New
  <2>2. main' \in [pc : MainPcs, apps : Nat, adding : Jobs \cup {NoJob}]
    <3>1. CASE \E n \in 0 .. Cardinality(New) : main' = [main EXCEPT !.pc = Adding(n), !.apps = n]
      <4>1. PICK n \in 0 .. Cardinality(New) : main' = [main EXCEPT !.pc = Adding(n), !.apps = n]
        BY <3>1
      <4>2. n \in Nat /\ Adding(n) \in MainPcs
        BY <2>1 DEF Adding
      <4>3. QED BY <4>1, <4>2 DEF UserShape
    <3>2. CASE main' = [main EXCEPT !.pc = "stopDropper"]
      BY <3>2 DEF UserShape
    <3>3. QED BY <1>2, <3>1, <3>2 DEF ReadMessage
  <2>3. PoolShape'
    BY <1>2, PoolKept DEF ReadMessage
  <2>4. UserShape'
    BY <1>2, <2>2 DEF ReadMessage, UserShape
  <2>5. QED BY <2>3, <2>4
<1>3. CASE AddApp
  <2>1. Min(New) \in Jobs
    BY <1>3, NewJobs DEF AddApp
  <2>2. queue' \in Seq(Jobs) /\ Len(queue') <= MaxJobs /\ job' \in JobType
    BY <1>3, <2>1, SendShape DEF AddApp
  <2>3. PoolShape'
    BY <1>3, <2>2 DEF AddApp, PoolShape, JobType
  <2>4. main.apps - 1 \in Nat
    BY <1>3, JobsFinite DEF AddApp, Owned, UserShape, New
  <2>5. main' \in [pc : MainPcs, apps : Nat, adding : Jobs \cup {NoJob}]
    BY <1>3, <2>1, <2>4 DEF AddApp, UserShape, Adding
  <2>6. QED
    BY <1>3, <2>3, <2>5 DEF AddApp, UserShape
<1>4. CASE HandToConsumers
  <2>1. CASE main.adding \in Jobs
    <3>1. consumerJobs' \in Seq(Jobs) /\ Len(consumerJobs') = Len(consumerJobs) + 1
      BY <1>4, <2>1, AppendProperties DEF HandToConsumers, UserShape
    <3>2. Len(consumerJobs') <= MaxJobs
      BY <1>4, <3>1, LenProperties, ScrapersAssumption DEF HandToConsumers, UserShape
    <3>3. PoolShape'
      BY <1>4, PoolKept DEF HandToConsumers
    <3>4. main' \in [pc : MainPcs, apps : Nat, adding : Jobs \cup {NoJob}]
      BY <1>4 DEF HandToConsumers, UserShape, Adding
    <3>5. UserShape'
      BY <1>4, <3>1, <3>2, <3>4 DEF HandToConsumers, UserShape
    <3>6. QED BY <3>3, <3>5
  <2>2. main.adding \in Jobs
    BY <1>4 DEF HandToConsumers, Handed, HandedMain, UserShape
  <2>3. QED BY <2>1, <2>2
<1>5. CASE StopDropper
  <2>1. PoolShape'
    BY <1>5, PoolKept DEF StopDropper
  <2>2. UserShape'
    BY <1>5 DEF StopDropper, UserShape
  <2>3. QED BY <2>1, <2>2
<1>6. CASE DropAll
  <2>1. CASE Dequeue("main")
    <3>1. "main" \in Droppers
      BY DEF Droppers
    <3>2. PoolShape'
      BY <1>6, <2>1, <3>1, DequeueShape DEF DropAll, PoolShape
    <3>3. QED
      BY <1>6, <2>1, <3>2 DEF DropAll, UserShape
  <2>2. CASE ~Dequeue("main")
    <3>1. UNCHANGED poolVars
      BY <1>6, <2>2 DEF DropAll, poolVars
    <3>2. UserShape'
      BY <1>6, <2>2 DEF DropAll, UserShape
    <3>3. QED BY <3>1, <3>2, PoolKept
  <2>3. QED BY <2>1, <2>2
<1>7. CASE DropAllCleaned
  <2>1. PoolShape'
    BY <1>7 DEF DropAllCleaned, CloseJobs, PoolShape
  <2>2. UserShape'
    BY <1>7 DEF DropAllCleaned, UserShape
  <2>3. QED BY <2>1, <2>2
<1>8. CASE DrainConsumerJobs
  <2>1. PoolShape'
    BY <1>8, PoolKept DEF DrainConsumerJobs
  <2>2. CASE consumerJobs # <<>>
    <3>1. Tail(consumerJobs) \in Seq(Jobs) /\ Len(Tail(consumerJobs)) <= MaxJobs
      BY <2>2, HeadTailProperties, LenProperties, ScrapersAssumption DEF UserShape
    <3>2. QED
      BY <1>8, <2>1, <2>2, <3>1 DEF DrainConsumerJobs, UserShape
  <2>3. CASE consumerJobs = <<>>
    BY <1>8, <2>1, <2>3 DEF DrainConsumerJobs, UserShape
  <2>4. QED BY <2>2, <2>3
<1>9. CASE JoinConsumers
  <2>1. PoolShape'
    BY <1>9, PoolKept DEF JoinConsumers
  <2>2. UserShape'
    BY <1>9 DEF JoinConsumers, UserShape
  <2>3. QED BY <2>1, <2>2
<1>10. CASE CreateInitialSteamApps
  <2>1. PoolShape'
    BY <1>10, PoolKept DEF CreateInitialSteamApps
  <2>2. UserShape'
    BY <1>10 DEF CreateInitialSteamApps, UserShape
  <2>3. QED BY <2>1, <2>2
<1> QED
  BY <1>1, <1>2, <1>3, <1>4, <1>5, <1>6, <1>7, <1>8, <1>9, <1>10 DEF Websocket

LEMMA DropperShape ==
    ASSUME Shape, Owned, DropperLooks \/ Dropper PROVE Shape'
<1> DEFINE Type == [pc : {"off", "wait", "drop", "clean", "ended"}, previous : Int, toDrop : Nat]
<1>0. MaxJobs \in Nat /\ JobsPerMinute \in Nat /\ Len(queue) \in Nat /\ Len(queue) <= MaxJobs
  BY ScrapersAssumption, SockAssumption, LenProperties DEF Shape, PoolShape
<1>1. CASE DropperLooks
  <2>1. PICK rate \in Int :
            /\ rate >= -JobsPerMinute
            /\ \/ dropper' = [pc |-> "wait", previous |-> Len(queue), toDrop |-> 0]
               \/ /\ rate < JobsPerMinute
                  /\ dropper' = [pc |-> "drop", previous |-> Len(queue), toDrop |-> JobsPerMinute - rate]
    <3> DEFINE rate == dropper.previous - Len(queue)
               clamped == IF rate < -JobsPerMinute THEN -JobsPerMinute ELSE rate
    <3>1. rate \in Int
      BY <1>0 DEF Shape, UserShape
    <3>2. clamped \in Int /\ clamped >= -JobsPerMinute
      BY <1>0, <3>1
    <3>3. \/ dropper' = [pc |-> "wait", previous |-> Len(queue), toDrop |-> 0]
          \/ /\ clamped < JobsPerMinute
             /\ dropper' = [pc |-> "drop", previous |-> Len(queue), toDrop |-> JobsPerMinute - clamped]
      BY <1>1 DEF DropperLooks
    <3>4. QED
      BY <3>2, <3>3
  <2>2. dropper' \in Type
    BY <1>0, <2>1
  <2>3. dropper'.toDrop <= 2 * JobsPerMinute /\ dropper'.previous = Len(queue)
    BY <1>0, <2>1
  <2>4. dropper'.toDrop - 2 * JobsPerMinute <= dropper'.previous /\ dropper'.previous <= MaxJobs
    BY <1>0, <2>2, <2>3
  <2>5. PoolShape'
    BY <1>1, PoolKept DEF DropperLooks, Shape
  <2>6. UserShape'
    BY <1>1, <2>2, <2>3, <2>4 DEF DropperLooks, Shape, UserShape
  <2>7. QED
    BY <2>5, <2>6 DEF Shape
<1>2. CASE DropperDrops
  <2>1. PoolShape'
    <3>1. "dropper" \in Droppers
      BY DEF Droppers
    <3>2. QED
      BY <1>2, <3>1, DequeueShape DEF DropperDrops, Shape, PoolShape
  <2>2. dropper' = [dropper EXCEPT !.toDrop = @ - 1, !.previous = @ - 1] /\ dropper.toDrop > 0 /\ dropper \in Type
    BY <1>2 DEF DropperDrops, Shape, UserShape
  <2>3. dropper' \in Type /\ dropper'.toDrop = dropper.toDrop - 1 /\ dropper'.previous = dropper.previous - 1
    <3>1. dropper.toDrop \in Nat /\ dropper.previous \in Int
      BY <2>2
    <3>2. dropper.toDrop - 1 \in Nat /\ dropper.previous - 1 \in Int
      BY <2>2, <3>1
    <3>3. dropper' = [dropper EXCEPT !.toDrop = dropper.toDrop - 1, !.previous = dropper.previous - 1]
      BY <2>2
    <3>4. QED
      BY <2>2, <3>2, <3>3
  <2>4. /\ dropper'.toDrop <= 2 * JobsPerMinute
        /\ dropper'.toDrop - 2 * JobsPerMinute <= dropper'.previous /\ dropper'.previous <= MaxJobs
    BY <1>0, <2>2, <2>3 DEF Shape, UserShape
  <2>5. QED
    BY <1>2, <2>1, <2>3, <2>4 DEF DropperDrops, Shape, UserShape
<1>3. CASE DropperCleans
  <2>1. dropper' = [dropper EXCEPT !.pc = "clean", !.toDrop = 0] /\ dropper \in Type
    BY <1>3 DEF DropperCleans, Shape, UserShape
  <2>2. dropper' \in Type /\ dropper'.toDrop = 0 /\ dropper'.previous = dropper.previous
    BY <2>1
  <2>3. 0 <= 2 * JobsPerMinute /\ 0 - 2 * JobsPerMinute <= dropper.previous /\ dropper.previous <= MaxJobs
    BY <1>0, <2>1 DEF Shape, UserShape
  <2>4. PoolShape'
    BY <1>3, PoolKept DEF DropperCleans, Shape
  <2>5. UserShape'
    BY <1>3, <2>2, <2>3 DEF DropperCleans, Shape, UserShape
  <2>6. QED
    BY <2>4, <2>5 DEF Shape
<1>4. CASE DropperCleaned
  <2>1. PoolShape'
    BY <1>4, PoolKept DEF DropperCleaned, Shape
  <2>2. UserShape'
    BY <1>4 DEF DropperCleaned, Shape, UserShape
  <2>3. QED
    BY <2>1, <2>2 DEF Shape
<1> QED
  BY <1>1, <1>2, <1>3, <1>4 DEF Dropper

LEMMA ReceiversShape ==
    ASSUME Shape,
           \/ \E c \in Consumers : ConsumerTakes(c) \/ ConsumerSaves(c)
           \/ \E j \in Jobs : GameGoroutine(j)
    PROVE  Shape'
<1> USE DEF Shape, ReceiverPcs, Answers
<1>1. ASSUME NEW c \in Consumers, ConsumerTakes(c) PROVE Shape'
  <2>1. CASE consumerJobs # <<>>
    <3>1. /\ Head(consumerJobs) \in Jobs /\ Tail(consumerJobs) \in Seq(Jobs)
          /\ Len(Tail(consumerJobs)) <= MaxJobs
      BY <2>1, HeadTailProperties, LenProperties, ScrapersAssumption DEF UserShape
    <3>2. receiver' = [receiver EXCEPT ![c].pc = "await", ![c].job = Head(consumerJobs)] /\ c \in Receivers
      BY <1>1, <2>1, NamesDiffer DEF ConsumerTakes
    <3>4. receiver' \in ReceiverType
      <4>1. receiver \in ReceiverType /\ "await" \in ReceiverPcs /\ "nil" \in Answers
        BY DEF PoolShape, ReceiverType, RecordsOf
      <4>2. QED BY <3>1, <3>2, <4>1, RecordSet, Zenon DEF ReceiverType
    <3>3. PoolShape'
      BY <1>1, <3>4 DEF ConsumerTakes, PoolShape, ReceiverType, RecordsOf
    <3>5. UserShape'
      BY <1>1, <2>1, <3>1 DEF ConsumerTakes, UserShape
    <3>6. QED BY <3>3, <3>5
  <2>2. CASE consumerJobs = <<>>
    <3>0. receiver' = [receiver EXCEPT ![c].pc = "ended"] /\ c \in Receivers
      BY <1>1, <2>2, NamesDiffer DEF ConsumerTakes
    <3>1. receiver' \in ReceiverType
      <4>1. receiver \in ReceiverType /\ "ended" \in ReceiverPcs /\ "nil" \in Answers /\ NoJob \in Jobs \cup {NoJob}
        BY DEF PoolShape, ReceiverType, RecordsOf
      <4>2. QED BY <3>0, <4>1, RecordSet, Zenon DEF ReceiverType
    <3>2. PoolShape'
      BY <1>1, <3>1 DEF ConsumerTakes, PoolShape, ReceiverType, RecordsOf
    <3>3. UserShape'
      BY <1>1, <2>2 DEF ConsumerTakes, UserShape
    <3>4. QED BY <3>2, <3>3
  <2>3. QED BY <2>1, <2>2
<1>2. ASSUME NEW c \in Consumers, ConsumerSaves(c) PROVE Shape'
  <2>1. receiver' \in ReceiverType
    <3>1. receiver \in ReceiverType /\ "take" \in ReceiverPcs /\ "nil" \in Answers /\ NoJob \in Jobs \cup {NoJob}
      BY DEF PoolShape, ReceiverType, RecordsOf
    <3>2. receiver' = [receiver EXCEPT ![c] = [pc |-> "take", job |-> NoJob, answer |-> "nil"]] /\ c \in Receivers
      BY <1>2, NamesDiffer DEF ConsumerSaves
    <3>3. QED BY <3>1, <3>2, RecordSet, Zenon DEF ReceiverType
  <2>2. PoolShape'
    BY <1>2, <2>1 DEF ConsumerSaves, PoolShape, ReceiverType, RecordsOf
  <2>3. UserShape'
    BY <1>2 DEF ConsumerSaves, UserShape
  <2>4. QED BY <2>2, <2>3
<1>3. ASSUME NEW j \in Jobs, GameGoroutine(j) PROVE Shape'
  <2>1. queue' \in Seq(Jobs) /\ Len(queue') <= MaxJobs /\ job' \in JobType
    BY <1>3, SendShape DEF GameGoroutine, AddGame, PoolShape, JobType
  <2>2. receiver' \in ReceiverType
    <3>1. \/ \E pc \in ReceiverPcs : receiver' = [receiver EXCEPT ![j].pc = pc]
          \/ receiver' = [receiver EXCEPT ![j].pc = "ended", ![j].answer = "nil"]
      <4>1. CASE receiver' = [receiver EXCEPT ![j].pc = IF finished THEN "ended" ELSE "send"]
        BY <4>1
      <4>2. CASE receiver' = [receiver EXCEPT ![j].pc = IF job'[j] = "accepted" THEN "await" ELSE "ended"]
        BY <4>2
      <4>3. QED
        BY <1>3, <4>1, <4>2 DEF GameGoroutine, AddGame
    <3>2. j \in Receivers
      BY NamesDiffer
    <3>6. receiver \in ReceiverType /\ "ended" \in ReceiverPcs /\ "nil" \in Answers /\ NoJob \in Jobs \cup {NoJob}
      BY DEF PoolShape, ReceiverType, RecordsOf
    <3>3. ASSUME NEW pc \in ReceiverPcs PROVE [receiver EXCEPT ![j].pc = pc] \in ReceiverType
      BY <3>2, <3>6, RecordSet, Zenon DEF ReceiverType
    <3>4. [receiver EXCEPT ![j].pc = "ended", ![j].answer = "nil"] \in ReceiverType
      BY <3>2, <3>6, RecordSet, Zenon DEF ReceiverType
    <3>5. QED
      BY <3>1, <3>3, <3>4
  <2>3. PoolShape'
    BY <1>3, <2>1, <2>2 DEF GameGoroutine, PoolShape, JobType, ReceiverType, RecordsOf
  <2>4. UserShape'
    BY <1>3 DEF GameGoroutine, userVars, UserShape
  <2>5. QED BY <2>3, <2>4
<1> QED
  BY <1>1, <1>2, <1>3

LEMMA MainShape ==
    ASSUME Shape, PoolFinished \/ Stop \/ PhaseWaits \/ RedditFails \/ PhaseLeaves PROVE Shape'
<1>1. CASE PoolFinished
  <2>1. PoolShape'
    BY <1>1 DEF PoolFinished, WaitForWorkers, Shape, PoolShape
  <2>2. UserShape'
    BY <1>1 DEF PoolFinished, Shape, UserShape, MainPcs
  <2>3. QED BY <2>1, <2>2 DEF Shape
<1>2. CASE Stop
  BY <1>2, PoolKept DEF Stop, Shape, UserShape
<1>3. CASE PhaseWaits
  <2>1. PoolShape'
    BY <1>3 DEF PhaseWaits, CloseJobs, Shape, PoolShape
  <2>2. UserShape'
    BY <1>3 DEF PhaseWaits, Shape, UserShape, MainPcs
  <2>3. QED BY <2>1, <2>2 DEF Shape
<1>4. CASE RedditFails
  BY <1>4, PoolKept DEF RedditFails, Shape, UserShape
<1>5. CASE PhaseLeaves
  BY <1>5, PoolKept DEF PhaseLeaves, Shape, UserShape, MainPcs
<1> QED
  BY <1>1, <1>2, <1>3, <1>4, <1>5

LEMMA NextShape ==
    ASSUME Shape, Owned, Handed, [Next]_vars PROVE Shape'
<1>1. CASE UNCHANGED vars
  BY <1>1, PoolKept DEF vars, userVars, Shape, UserShape
<1>2. CASE Next
  BY <1>2, PoolStepShape, WebsocketShape, MainShape, DropperShape, ReceiversShape DEF Next
<1> QED
  BY <1>1, <1>2

-----------------------------------------------------------------------------
(* Each job goes through the pool once.                                    *)

LEMMA InitOnce ==
    ASSUME Init PROVE Once /\ Whole /\ Awaiting
<1>1. /\ queue = <<>> /\ scrape = [j \in Jobs |-> "none"] /\ job = [j \in Jobs |-> "new"]
      /\ worker = [w \in Workers |-> IdleWorker] /\ cleaning = [d \in Droppers |-> <<>>]
  BY DEF Init, PoolInit
<1>2. ASSUME NEW r \in Receivers
      PROVE  /\ receiver[r].pc \in {"check", "send"} => user # "websocket" /\ r \in Jobs /\ receiver[r].job = r
             /\ receiver[r].pc \notin {"use", "await"}
  <2>1. CASE user # "websocket"
    BY <2>1 DEF Init
  <2>2. CASE user = "websocket"
    BY <2>2 DEF Init
  <2>3. QED BY <2>1, <2>2 DEF Init
<1>3. Len(queue) = 0 /\ \A d \in Droppers : Len(cleaning[d]) = 0
  BY <1>1
<1>4. NewOnce /\ QueueOnce /\ WorkersOnce /\ GuardOnce /\ CleaningOnce
  BY <1>1, <1>3 DEF NewOnce, QueueOnce, WorkersOnce, GuardOnce, CleaningOnce, IdleWorker
<1>5. SendersOnce
  BY <1>1, <1>2 DEF SendersOnce
<1>6. Whole /\ Awaiting
  BY <1>1, <1>2 DEF Whole, Awaiting, IdleWorker
<1> QED
  BY <1>4, <1>5, <1>6 DEF Once

(* The head of the queue is taken from it, once and for all.               *)
LEMMA QueueTail ==
    ASSUME Shape, queue # <<>>
    PROVE  /\ Len(queue) \in Nat /\ 1 \in 1 .. Len(queue) /\ Head(queue) = queue[1] /\ Head(queue) \in Jobs
           /\ Tail(queue) \in Seq(Jobs) /\ Len(Tail(queue)) = Len(queue) - 1
           /\ \A i \in 1 .. Len(queue) - 1 : i + 1 \in 1 .. Len(queue) /\ Tail(queue)[i] = queue[i + 1]
  BY HeadTailProperties, LenProperties DEF Shape, PoolShape

(* What is left of it has none of what is in its head.                     *)
LEMMA TailOnce ==
    ASSUME Shape, QueueOnce, queue # <<>>, queue' = Tail(queue)
    PROVE  \A i \in 1 .. Len(queue') :
             /\ i + 1 \in 1 .. Len(queue) /\ queue'[i] = queue[i + 1] /\ queue'[i] # queue[1]
             /\ \A k \in 1 .. Len(queue') : i # k => queue'[i] # queue'[k]
<1>1. \A i \in 1 .. Len(queue') : i + 1 \in 1 .. Len(queue) /\ queue'[i] = queue[i + 1]
  BY QueueTail
<1>2. ASSUME NEW i \in 1 .. Len(queue') PROVE queue'[i] # queue[1]
  BY <1>1, QueueTail DEF QueueOnce
<1>3. ASSUME NEW i \in 1 .. Len(queue'), NEW k \in 1 .. Len(queue'), i # k
      PROVE  queue'[i] # queue'[k]
  BY <1>1, <1>3, QueueTail DEF QueueOnce
<1> QED
  BY <1>1, <1>2, <1>3

LEMMA WorkersHaveJobs ==
    ASSUME Shape PROVE \A w \in Workers : worker[w].pc \notin {"idle", "ended"} => worker[w].job \in Jobs
  BY DEF Shape, PoolShape

LEMMA QueuesHaveJobs ==
    ASSUME Shape
    PROVE  /\ \A i \in 1 .. Len(queue) : queue[i] \in Jobs
           /\ \A d \in Droppers : \A i \in 1 .. Len(cleaning[d]) : cleaning[d][i] \in Jobs
           /\ \A i \in 1 .. Len(consumerJobs) : consumerJobs[i] \in Jobs
  BY ElementOfSeq DEF Shape, PoolShape, UserShape

LEMMA WorkerOnce ==
    ASSUME Shape, Once, UNCHANGED userVars, NEW w \in Workers,
           \/ TakeJob(w) \/ AcquireGuard(w) \/ ExecuteJob(w) \/ ReleaseGuard(w) \/ EndWorker(w)
    PROVE  Once'
<1> USE DEF Once
<1>1. CASE TakeJob(w)
  <2>1. /\ queue # <<>> /\ queue' = Tail(queue) /\ worker' = [worker EXCEPT ![w].pc = "guard", ![w].job = Head(queue)]
        /\ UNCHANGED <<scrape, job, cleaning, receiver, user>>
    BY <1>1 DEF TakeJob, userVars
  <2>2. worker'[w].pc = "guard" /\ worker'[w].job = queue[1] /\ \A u \in Workers \ {w} : worker'[u] = worker[u]
    BY <2>1, QueueTail DEF Shape, PoolShape
  <2>3. QueueOnce'
    BY <2>1, TailOnce DEF QueueOnce
  <2>4. job[queue[1]] # "new" /\ scrape[queue[1]] = "none"
    BY <2>1, QueueTail DEF QueueOnce
  <2>5. WorkersOnce'
    BY <2>1, <2>2, <2>4 DEF WorkersOnce
  <2>6. GuardOnce'
    <3>1. ASSUME NEW u \in Workers, worker'[u].pc = "guard"
          PROVE  /\ scrape'[worker'[u].job] = "none"
                 /\ \A i \in 1 .. Len(queue') : queue'[i] # worker'[u].job
      <4>1. CASE u = w
        <5>1. worker'[u].job = queue[1] /\ scrape' = scrape /\ scrape[queue[1]] = "none"
          BY <2>1, <2>2, <2>4, <4>1
        <5>2. \A i \in 1 .. Len(queue') : queue'[i] # queue[1]
          BY <2>1, TailOnce
        <5>3. QED BY <5>1, <5>2
      <4>2. CASE u # w
        <5>1. worker'[u] = worker[u] /\ worker[u].pc = "guard"
          BY <2>2, <3>1, <4>2
        <5>2. /\ scrape[worker[u].job] = "none"
              /\ \A i \in 1 .. Len(queue) : queue[i] # worker[u].job
          BY <5>1 DEF GuardOnce
        <5>3. \A i \in 1 .. Len(queue') : i + 1 \in 1 .. Len(queue) /\ queue'[i] = queue[i + 1]
          BY <2>1, TailOnce
        <5>4. QED
          BY <2>1, <5>1, <5>2, <5>3
      <4>3. QED
        BY <4>1, <4>2
    <3>2. ASSUME NEW u \in Workers, NEW v \in Workers, u # v, worker'[u].pc = "guard", worker'[v].pc = "guard"
          PROVE  worker'[u].job # worker'[v].job
      <4>1. 1 \in 1 .. Len(queue)
        BY <2>1, QueueTail
      <4>2. QED
        BY <2>2, <3>2, <4>1 DEF GuardOnce
    <3>3. QED
      BY <3>1, <3>2 DEF GuardOnce
  <2>7. QED
    BY <2>1, <2>3, <2>5, <2>6 DEF NewOnce, CleaningOnce, SendersOnce
<1>2. CASE AcquireGuard(w)
  <2>1. /\ worker' = [worker EXCEPT ![w].pc = "execute"] /\ worker[w].pc = "guard"
        /\ scrape' = [scrape EXCEPT ![worker[w].job] = "running"]
        /\ UNCHANGED <<queue, job, cleaning, receiver, user>>
    BY <1>2 DEF AcquireGuard, userVars
  <2>2. worker[w].job \in Jobs /\ \A j \in Jobs \ {worker[w].job} : scrape'[j] = scrape[j]
    BY <2>1 DEF Shape, PoolShape
  <2>3. /\ worker'[w].pc = "execute"
        /\ \A u \in Workers : worker'[u].job = worker[u].job /\ (u # w => worker'[u] = worker[u])
    BY <2>1 DEF Shape, PoolShape
  <2>4. NewOnce'
    BY <2>1, <2>2 DEF NewOnce, WorkersOnce
  <2>5. QueueOnce'
    <3>1. \A i \in 1 .. Len(queue) : queue[i] \in Jobs /\ queue[i] # worker[w].job
      BY <2>1, QueuesHaveJobs DEF GuardOnce
    <3>2. QED
      BY <2>1, <2>2, <3>1 DEF QueueOnce
  <2>6. WorkersOnce'
    BY <2>1, <2>3 DEF WorkersOnce
  <2>7. GuardOnce'
    BY <2>1, <2>2, <2>3 DEF GuardOnce
  <2>8. QED
    BY <2>1, <2>4, <2>5, <2>6, <2>7 DEF CleaningOnce, SendersOnce
<1>3. CASE ExecuteJob(w)
  <2>1. /\ worker[w].pc = "execute" /\ worker'[w].pc = "answer" /\ worker'[w].job = worker[w].job
        /\ \A u \in Workers \ {w} : worker'[u] = worker[u]
        /\ UNCHANGED <<queue, scrape, job, cleaning, receiver, user>>
    BY <1>3 DEF ExecuteJob, userVars, Shape, PoolShape
  <2>2. WorkersOnce'
    BY <2>1 DEF WorkersOnce
  <2>3. GuardOnce'
    BY <2>1 DEF GuardOnce
  <2>4. QED
    BY <2>1, <2>2, <2>3 DEF NewOnce, QueueOnce, CleaningOnce, SendersOnce
<1>4. CASE ReleaseGuard(w)
  <2>1. /\ worker'[w] = IdleWorker /\ \A u \in Workers \ {w} : worker'[u] = worker[u]
        /\ UNCHANGED <<queue, scrape, job, cleaning, receiver, user>>
    BY <1>4 DEF ReleaseGuard, userVars, Shape, PoolShape
  <2>2. WorkersOnce' /\ GuardOnce'
    BY <2>1 DEF WorkersOnce, GuardOnce, IdleWorker
  <2>3. QED
    BY <2>1, <2>2 DEF NewOnce, QueueOnce, CleaningOnce, SendersOnce
<1>5. CASE EndWorker(w)
  <2>1. /\ worker'[w].pc = "ended" /\ \A u \in Workers \ {w} : worker'[u] = worker[u]
        /\ UNCHANGED <<queue, scrape, job, cleaning, receiver, user>>
    BY <1>5 DEF EndWorker, userVars, Shape, PoolShape
  <2>2. WorkersOnce' /\ GuardOnce'
    BY <2>1 DEF WorkersOnce, GuardOnce
  <2>3. QED
    BY <2>1, <2>2 DEF NewOnce, QueueOnce, CleaningOnce, SendersOnce
<1> QED
  BY <1>1, <1>2, <1>3, <1>4, <1>5

(* An answer is received by one goroutine, which goes on with it.          *)
LEMMA ReceiveOnce ==
    ASSUME Shape, NEW j \in Jobs, NEW a \in Answers, Receive(j, a), job[j] # "new"
    PROVE  /\ job'[j] = "answered" /\ \A i \in Jobs : i # j => job'[i] = job[i]
           /\ New' = New
           /\ \E r \in Receivers :
                /\ receiver[r].pc = "await" /\ receiver[r].job = j
                /\ receiver'[r] = [pc |-> "use", job |-> j, answer |-> a]
                /\ \A q \in Receivers \ {r} : receiver'[q] = receiver[q]
<1>1. job' = [job EXCEPT ![j] = "answered"]
  BY DEF Receive
<1>2. job'[j] = "answered" /\ \A i \in Jobs : i # j => job'[i] = job[i]
  BY <1>1 DEF Shape, PoolShape
<1>3. New' = New
  BY <1>2 DEF New
<1>4. PICK r \in Receivers : /\ receiver[r].pc = "await" /\ receiver[r].job = j
                             /\ receiver' = [receiver EXCEPT ![r].pc = "use", ![r].answer = a]
  BY DEF Receive
<1>5. /\ receiver'[r] = [pc |-> "use", job |-> j, answer |-> a]
      /\ \A q \in Receivers \ {r} : receiver'[q] = receiver[q]
  BY <1>4 DEF Shape, PoolShape
<1> QED
  BY <1>2, <1>3, <1>4, <1>5

LEMMA ReceivedOnce ==
    ASSUME Shape, NEW j \in Jobs, NEW a \in Answers, Receive(j, a), job[j] # "new"
    PROVE  /\ \A i \in Jobs : job'[i] = "new" <=> job[i] = "new"
           /\ \A r \in Receivers : receiver'[r].pc \in {"check", "send"} => receiver'[r] = receiver[r]
<1>1. PICK r \in Receivers : /\ receiver'[r] = [pc |-> "use", job |-> j, answer |-> a]
                             /\ \A q \in Receivers \ {r} : receiver'[q] = receiver[q]
  BY ReceiveOnce
<1>2. receiver'[r].pc \notin {"check", "send"}
  BY <1>1
<1> QED
  BY <1>1, <1>2, ReceiveOnce

LEMMA AnswerOnce ==
    ASSUME Shape, Once, UNCHANGED userVars,
           (\E w \in Workers : Answer(w)) \/ (\E d \in Droppers : Clean(d)) \/ (\E j \in Jobs : Scrape(j))
    PROVE  Once'
<1> USE DEF Once
<1>1. ASSUME NEW w \in Workers, Answer(w) PROVE Once'
  <2>1. worker[w].job \in Jobs /\ worker[w].answer \in Answers /\ job[worker[w].job] # "new"
    BY <1>1 DEF Answer, WorkersOnce, Shape, PoolShape
  <2>2. /\ \A i \in Jobs : job'[i] = "new" <=> job[i] = "new"
        /\ \A r \in Receivers : receiver'[r].pc \in {"check", "send"} => receiver'[r] = receiver[r]
    <3>1. Receive(worker[w].job, worker[w].answer)
      BY <1>1 DEF Answer
    <3>2. QED
      BY <2>1, <3>1, ReceivedOnce
  <2>3. /\ worker[w].pc = "answer" /\ worker'[w].pc = "sleep" /\ worker'[w].job = worker[w].job
        /\ \A u \in Workers \ {w} : worker'[u] = worker[u]
        /\ UNCHANGED <<queue, scrape, cleaning, user>>
    BY <1>1 DEF Answer, userVars, Shape, PoolShape
  <2>4. NewOnce' /\ WorkersOnce' /\ SendersOnce'
    <3>1. ASSUME NEW u \in Workers, worker'[u].pc \notin {"idle", "ended"}
          PROVE  job'[worker'[u].job] # "new"
      <4>1. CASE u = w
        BY <2>1, <2>2, <2>3, <4>1
      <4>2. CASE u # w
        BY <2>2, <2>3, <3>1, <4>2, WorkersHaveJobs DEF WorkersOnce
      <4>3. QED
        BY <4>1, <4>2
    <3>3. WorkersOnce'
      BY <3>1 DEF WorkersOnce
    <3>4. QED
      BY <2>2, <2>3, <3>3 DEF NewOnce, SendersOnce
  <2>5. QueueOnce' /\ CleaningOnce'
    BY <2>2, <2>3, QueuesHaveJobs DEF QueueOnce, CleaningOnce
  <2>6. GuardOnce'
    BY <2>3 DEF GuardOnce
  <2>7. QED BY <2>4, <2>5, <2>6
<1>2. ASSUME NEW d \in Droppers, Clean(d) PROVE Once'
  <2>1. PICK i \in 1 .. Len(cleaning[d]) :
            /\ Receive(cleaning[d][i], "nil")
            /\ cleaning' = [cleaning EXCEPT ![d] = RemoveAt(cleaning[d], i)]
    BY <1>2 DEF Clean
  <2>2. cleaning[d] \in Seq(Jobs) /\ cleaning[d][i] \in Jobs /\ job[cleaning[d][i]] # "new"
    BY <1>2, QueuesHaveJobs DEF CleaningOnce, Shape, PoolShape
  <2>3. \A k \in 1 .. Len(cleaning'[d]) : \E m \in 1 .. Len(cleaning[d]) : cleaning'[d][k] = cleaning[d][m]
    BY <2>1, <2>2, RemoveAtProperties DEF Shape, PoolShape
  <2>4. \A c \in Droppers \ {d} : cleaning'[c] = cleaning[c]
    BY <2>1 DEF Shape, PoolShape
  <2>5. "nil" \in Answers
    BY DEF Answers
  <2>6. /\ \A k \in Jobs : job'[k] = "new" <=> job[k] = "new"
        /\ \A r \in Receivers : receiver'[r].pc \in {"check", "send"} => receiver'[r] = receiver[r]
    BY <2>1, <2>2, <2>5, ReceivedOnce
  <2>7. UNCHANGED <<queue, scrape, worker, user>>
    BY <1>2 DEF Clean, userVars
  <2>8. NewOnce' /\ SendersOnce'
    BY <2>6, <2>7 DEF NewOnce, SendersOnce
  <2>9. WorkersOnce' /\ GuardOnce'
    BY <2>6, <2>7, WorkersHaveJobs DEF WorkersOnce, GuardOnce
  <2>10. QueueOnce'
    BY <2>6, <2>7, QueuesHaveJobs DEF QueueOnce
  <2>11. CleaningOnce'
    <3>2. \A k \in 1 .. Len(cleaning'[d]) : job'[cleaning'[d][k]] # "new"
      BY <2>2, <2>3, <2>6, QueuesHaveJobs DEF CleaningOnce
    <3>3. \A c \in Droppers \ {d} : \A k \in 1 .. Len(cleaning'[c]) : job'[cleaning'[c][k]] # "new"
      BY <2>4, <2>6, QueuesHaveJobs DEF CleaningOnce
    <3>4. QED
      BY <3>2, <3>3 DEF CleaningOnce
  <2>12. QED BY <2>8, <2>9, <2>10, <2>11
<1>3. ASSUME NEW j \in Jobs, Scrape(j) PROVE Once'
  <2>1. /\ scrape[j] = "running" /\ scrape'[j] = "done" /\ \A k \in Jobs \ {j} : scrape'[k] = scrape[k]
        /\ UNCHANGED <<queue, worker, job, cleaning, receiver, user>>
    BY <1>3 DEF Scrape, userVars, Shape, PoolShape
  <2>3. \A k \in Jobs : scrape[k] = "none" => scrape'[k] = "none"
    BY <2>1
  <2>4. NewOnce' /\ QueueOnce'
    BY <2>1, <2>3, QueuesHaveJobs DEF NewOnce, QueueOnce
  <2>6. GuardOnce'
    BY <2>1, <2>3, WorkersHaveJobs DEF GuardOnce
  <2>5. QED
    BY <2>1, <2>4, <2>6 DEF WorkersOnce, CleaningOnce, SendersOnce
<1> QED
  BY <1>1, <1>2, <1>3

(* Sending a job that is new, and dropping one.                            *)
LEMMA SendOnce ==
    ASSUME Shape, Once, NEW j \in Jobs, NEW name, job[j] = "new", Send(j, name),
           UNCHANGED <<worker, scrape, cleaning, user>>,
           \A r \in Receivers : receiver'[r].pc \in {"check", "send"} => receiver[r].pc \in {"check", "send"} /\ r # j
    PROVE  Once'
<1> USE DEF Once
<1>1. CASE closed
  <2>1. UNCHANGED <<queue, job>>
    BY <1>1 DEF Send
  <2>2. QED
    BY <2>1 DEF NewOnce, QueueOnce, WorkersOnce, GuardOnce, CleaningOnce, SendersOnce
<1>2. CASE ~closed /\ Len(queue) < MaxJobs
  <2>1. queue' = Append(queue, j) /\ job' = [job EXCEPT ![j] = "accepted"]
    BY <1>2 DEF Send
  <2>2. job'[j] = "accepted" /\ \A i \in Jobs \ {j} : job'[i] = job[i]
    BY <2>1 DEF Shape, PoolShape
  <2>3. /\ Len(queue) \in Nat /\ Len(queue') = Len(queue) + 1 /\ queue'[Len(queue) + 1] = j
        /\ \A i \in 1 .. Len(queue) : queue'[i] = queue[i]
    BY <2>1, LenProperties, AppendProperties DEF Shape, PoolShape
  <2>4. \A i \in 1 .. Len(queue') : i = Len(queue) + 1 \/ i \in 1 .. Len(queue)
    BY <2>3
  <2>5. \A i \in 1 .. Len(queue) : queue[i] # j /\ queue[i] \in Jobs
    BY QueuesHaveJobs DEF QueueOnce
  <2>6. NewOnce' /\ SendersOnce'
    BY <2>2 DEF NewOnce, SendersOnce
  <2>7. QueueOnce'
    <3>1. \A i \in 1 .. Len(queue') : job'[queue'[i]] # "new" /\ scrape'[queue'[i]] = "none"
      BY <2>2, <2>3, <2>4, <2>5 DEF QueueOnce, NewOnce
    <3>2. ASSUME NEW i \in 1 .. Len(queue'), NEW k \in 1 .. Len(queue'), i # k PROVE queue'[i] # queue'[k]
      BY <2>3, <2>4, <2>5, <3>2 DEF QueueOnce
    <3>3. QED
      BY <3>1, <3>2 DEF QueueOnce
  <2>8. WorkersOnce' /\ CleaningOnce'
    BY <2>2, WorkersHaveJobs, QueuesHaveJobs DEF WorkersOnce, CleaningOnce
  <2>9. \A w \in Workers : worker[w].pc = "guard" => worker[w].job # j
    BY DEF WorkersOnce
  <2>10. GuardOnce'
    BY <2>3, <2>4, <2>9 DEF GuardOnce
  <2>11. QED BY <2>6, <2>7, <2>8, <2>10
<1>3. CASE ~closed /\ ~(Len(queue) < MaxJobs)
  <2>1. queue' = queue /\ job' = [job EXCEPT ![j] = "refused"]
    BY <1>3 DEF Send
  <2>2. job'[j] = "refused" /\ \A i \in Jobs \ {j} : job'[i] = job[i]
    BY <2>1 DEF Shape, PoolShape
  <2>3. NewOnce' /\ SendersOnce'
    BY <2>2 DEF NewOnce, SendersOnce
  <2>4. QueueOnce' /\ WorkersOnce' /\ CleaningOnce'
    BY <2>1, <2>2, WorkersHaveJobs, QueuesHaveJobs DEF QueueOnce, WorkersOnce, CleaningOnce
  <2>5. GuardOnce'
    BY <2>1 DEF GuardOnce
  <2>6. QED BY <2>3, <2>4, <2>5
<1> QED
  BY <1>1, <1>2, <1>3

LEMMA DequeueOnce ==
    ASSUME Shape, Once, NEW d \in Droppers, Dequeue(d), UNCHANGED <<worker, scrape, job, receiver, user>>
    PROVE  Once'
<1> USE DEF Once
<1>1. CASE queue = <<>>
  <2>1. UNCHANGED <<queue, cleaning>>
    BY <1>1 DEF Dequeue
  <2>2. QED
    BY <2>1 DEF NewOnce, QueueOnce, WorkersOnce, GuardOnce, CleaningOnce, SendersOnce
<1>2. CASE queue # <<>>
  <2>1. queue' = Tail(queue) /\ cleaning' = [cleaning EXCEPT ![d] = Append(cleaning[d], Head(queue))]
    BY <1>2 DEF Dequeue
  <2>2. \A i \in 1 .. Len(queue') : i + 1 \in 1 .. Len(queue) /\ queue'[i] = queue[i + 1]
    BY <1>2, <2>1, TailOnce
  <2>3. QueueOnce'
    <3>1. \A i \in 1 .. Len(queue') : \A k \in 1 .. Len(queue') : i # k => queue'[i] # queue'[k]
      BY <1>2, <2>1, TailOnce
    <3>2. QED
      BY <2>2, <3>1 DEF QueueOnce
  <2>4. GuardOnce'
    BY <2>2 DEF GuardOnce
  <2>5. cleaning'[d] = Append(cleaning[d], Head(queue)) /\ \A c \in Droppers \ {d} : cleaning'[c] = cleaning[c]
    BY <2>1 DEF Shape, PoolShape
  <2>6. /\ Len(cleaning[d]) \in Nat /\ Len(cleaning'[d]) = Len(cleaning[d]) + 1
        /\ cleaning'[d][Len(cleaning[d]) + 1] = queue[1]
        /\ \A i \in 1 .. Len(cleaning[d]) : cleaning'[d][i] = cleaning[d][i]
    BY <1>2, <2>5, QueueTail, LenProperties, AppendProperties DEF Shape, PoolShape
  <2>7. job[queue[1]] # "new"
    BY <1>2, QueueTail DEF QueueOnce
  <2>8. CleaningOnce'
    <3>1. ASSUME NEW i \in 1 .. Len(cleaning'[d]) PROVE job'[cleaning'[d][i]] # "new"
      <4>1. i = Len(cleaning[d]) + 1 \/ i \in 1 .. Len(cleaning[d])
        BY <2>6
      <4>2. QED
        BY <2>6, <2>7, <4>1 DEF CleaningOnce
    <3>2. QED
      BY <2>5, <3>1 DEF CleaningOnce
  <2>9. QED
    BY <2>3, <2>4, <2>8 DEF NewOnce, WorkersOnce, SendersOnce
<1> QED
  BY <1>1, <1>2

(* A step that leaves the pool and its jobs alone.                         *)
Quiet ==
    /\ UNCHANGED <<queue, worker, scrape, job, cleaning, panic>>
    /\ \A r \in Receivers : receiver'[r].pc \in {"check", "send"} => receiver[r].pc \in {"check", "send"}

LEMMA QuietOnce ==
    ASSUME Once, Quiet, UNCHANGED user PROVE Once'
  BY DEF Quiet, Once, NewOnce, QueueOnce, WorkersOnce, GuardOnce, CleaningOnce, SendersOnce

LEMMA QuietSteps ==
    ASSUME Shape,
           \/ CreateInitialSteamApps \/ ReadStop \/ ReadMessage \/ HandToConsumers \/ StopDropper \/ DropAllCleaned
           \/ DrainConsumerJobs \/ JoinConsumers \/ PoolFinished \/ Stop \/ PhaseWaits \/ RedditFails \/ PhaseLeaves
           \/ DropperLooks \/ DropperCleans \/ DropperCleaned
           \/ \E c \in Consumers : ConsumerTakes(c) \/ ConsumerSaves(c)
    PROVE  Quiet /\ UNCHANGED user
<1>1. CASE \/ CreateInitialSteamApps \/ ReadStop \/ ReadMessage \/ HandToConsumers \/ StopDropper
           \/ DrainConsumerJobs \/ JoinConsumers \/ Stop \/ RedditFails \/ PhaseLeaves
  BY <1>1 DEF CreateInitialSteamApps, ReadStop, ReadMessage, HandToConsumers, StopDropper, DrainConsumerJobs,
              JoinConsumers, Stop, RedditFails, PhaseLeaves, poolVars, Quiet
<1>2. CASE DropAllCleaned \/ PhaseWaits \/ PoolFinished
  BY <1>2 DEF DropAllCleaned, PhaseWaits, PoolFinished, CloseJobs, WaitForWorkers, Quiet
<1>3. CASE DropperLooks \/ DropperCleans \/ DropperCleaned
  BY <1>3 DEF DropperLooks, DropperCleans, DropperCleaned, poolVars, Quiet
<1>4. ASSUME NEW c \in Consumers, ConsumerTakes(c) \/ ConsumerSaves(c) PROVE Quiet /\ UNCHANGED user
  <2>1. \A r \in Receivers \ {c} : receiver'[r] = receiver[r]
    BY <1>4 DEF ConsumerTakes, ConsumerSaves, Shape, PoolShape
  <2>2. receiver'[c].pc \notin {"check", "send"}
    BY <1>4, NamesDiffer DEF ConsumerTakes, ConsumerSaves, Shape, PoolShape
  <2>3. UNCHANGED <<queue, worker, scrape, job, cleaning, panic, user>>
    BY <1>4 DEF ConsumerTakes, ConsumerSaves
  <2>4. QED
    BY <2>1, <2>2, <2>3 DEF Quiet
<1> QED
  BY <1>1, <1>2, <1>3, <1>4

LEMMA NextOnce ==
    ASSUME Shape, Owned, Once, [Next]_vars PROVE Once'
<1>1. CASE UNCHANGED vars
  BY <1>1 DEF vars, poolVars, userVars, Once, NewOnce, QueueOnce, WorkersOnce, GuardOnce, CleaningOnce, SendersOnce
<1>2. CASE PoolNext /\ UNCHANGED userVars
  BY <1>2, WorkerOnce, AnswerOnce DEF PoolNext, Worker
<1>3. CASE AddApp
  <2>1. Min(New) \in Jobs /\ job[Min(New)] = "new"
    BY <1>3, NewJobs DEF AddApp
  <2>2. user = "websocket"
    BY <1>3 DEF AddApp, Owned
  <2>3. \A r \in Receivers : receiver[r].pc \notin {"check", "send"}
    BY <2>2 DEF Once, SendersOnce
  <2>4. Send(Min(New), "main") /\ UNCHANGED <<worker, scrape, cleaning, receiver, user>>
    BY <1>3 DEF AddApp
  <2>5. QED
    BY <2>1, <2>3, <2>4, SendOnce
<1>4. CASE DropAll
  <2>1. CASE Dequeue("main")
    <3>1. "main" \in Droppers
      BY DEF Droppers
    <3>2. UNCHANGED <<worker, scrape, job, receiver, user>>
      BY <1>4 DEF DropAll
    <3>3. QED
      BY <2>1, <3>1, <3>2, DequeueOnce
  <2>2. CASE ~Dequeue("main")
    <3>1. Quiet /\ UNCHANGED user
      BY <1>4, <2>2 DEF DropAll, Quiet
    <3>2. QED
      BY <3>1, QuietOnce
  <2>3. QED BY <2>1, <2>2
<1>5. CASE DropperDrops
  <2>1. "dropper" \in Droppers
    BY DEF Droppers
  <2>2. Dequeue("dropper") /\ UNCHANGED <<worker, scrape, job, receiver, user>>
    BY <1>5 DEF DropperDrops
  <2>3. QED
    BY <2>1, <2>2, DequeueOnce
<1>6. ASSUME NEW j \in Jobs, GameGoroutine(j) PROVE Once'
  <2>1. UNCHANGED <<worker, scrape, cleaning, user>> /\ j \in Receivers
    BY <1>6, NamesDiffer DEF GameGoroutine, userVars
  <2>2. CASE receiver[j].pc = "send"
    <3>1. Send(j, GoroutineOf(j)) /\ job[j] = "new"
      BY <1>6, <2>1, <2>2 DEF GameGoroutine, AddGame, Once, SendersOnce
    <3>2. receiver'[j].pc \in {"await", "ended"} /\ \A r \in Receivers \ {j} : receiver'[r] = receiver[r]
      BY <1>6, <2>1, <2>2 DEF GameGoroutine, AddGame, Shape, PoolShape
    <3>3. QED
      BY <2>1, <3>1, <3>2, SendOnce
  <2>3. CASE receiver[j].pc # "send"
    <3>1. Quiet
      BY <1>6, <2>1, <2>3 DEF GameGoroutine, AddGame, Shape, PoolShape, Quiet
    <3>2. QED
      BY <2>1, <3>1, QuietOnce
  <2>4. QED BY <2>2, <2>3
<1> QED
  BY <1>1, <1>2, <1>3, <1>4, <1>5, <1>6, QuietSteps, QuietOnce DEF Next, Websocket, Dropper

-----------------------------------------------------------------------------
(* Who owns the channel, and who panics.                                   *)

LEMMA PoolKeeps ==
    ASSUME Shape, Once, PoolNext PROVE New' = New /\ UNCHANGED <<closed, finished, panic>>
<1>1. ASSUME NEW w \in Workers, Worker(w), ~Answer(w) PROVE New' = New /\ UNCHANGED <<closed, finished, panic>>
  BY <1>1 DEF Worker, TakeJob, AcquireGuard, ExecuteJob, ReleaseGuard, EndWorker, New
<1>2. ASSUME NEW w \in Workers, Answer(w) PROVE New' = New /\ UNCHANGED <<closed, finished, panic>>
  <2>1. worker[w].job \in Jobs /\ worker[w].answer \in Answers /\ job[worker[w].job] # "new"
    BY <1>2 DEF Answer, Once, WorkersOnce, Shape, PoolShape
  <2>2. Receive(worker[w].job, worker[w].answer) /\ UNCHANGED <<closed, finished, panic>>
    BY <1>2 DEF Answer
  <2>3. QED
    BY <2>1, <2>2, ReceiveOnce
<1>3. ASSUME NEW j \in Jobs, Scrape(j) PROVE New' = New /\ UNCHANGED <<closed, finished, panic>>
  BY <1>3 DEF Scrape, New
<1>4. ASSUME NEW d \in Droppers, Clean(d) PROVE New' = New /\ UNCHANGED <<closed, finished, panic>>
  <2>1. PICK i \in 1 .. Len(cleaning[d]) : Receive(cleaning[d][i], "nil")
    BY <1>4 DEF Clean
  <2>2. cleaning[d][i] \in Jobs /\ job[cleaning[d][i]] # "new" /\ "nil" \in Answers
    BY <1>4, QueuesHaveJobs DEF Once, CleaningOnce, Answers
  <2>3. QED
    BY <1>4, <2>1, <2>2, ReceiveOnce DEF Clean
<1> QED
  BY <1>1, <1>2, <1>3, <1>4 DEF PoolNext

(* AddApp uses up one of the jobs that are new, whether it is accepted.    *)
LEMMA AddAppNew ==
    ASSUME Shape, Owned, AddApp
    PROVE  /\ ~closed /\ UNCHANGED panic
           /\ Cardinality(New) \in Nat /\ Cardinality(New') = Cardinality(New) - 1
           /\ \A i \in Jobs \ {Min(New)} : job'[i] = job[i]
<1> DEFINE j == Min(New)
<1>1. j \in Jobs /\ job[j] = "new"
  BY NewJobs DEF AddApp
<1>2. ~closed
  BY DEF AddApp, Owned
<1>3. Send(j, "main")
  BY DEF AddApp
<1> HIDE DEF j
<1>4. PICK o \in {"accepted", "refused"} : job' = [job EXCEPT ![j] = o]
  BY <1>2, <1>3 DEF Send
<1>5. New' = New \ {j} /\ \A i \in Jobs \ {j} : job'[i] = job[i]
  BY <1>1, <1>4 DEF New, Shape, PoolShape
<1>6. j \in New /\ IsFiniteSet(New) /\ Cardinality(New) \in Nat
  BY <1>1, JobsFinite DEF New
<1>7. Cardinality(New \ {j}) = Cardinality(New) - 1
  BY <1>6, FS_RemoveElement
<1> QED
  BY <1>2, <1>3, <1>5, <1>6, <1>7 DEF j, Send

LEMMA InitOwned ==
    ASSUME Init PROVE Owned
  BY DEF Init, PoolInit, Owned

LEMMA WebsocketOwned ==
    ASSUME Shape, Owned, Websocket PROVE Owned'
<1>0. user = "websocket" /\ user' = user
  <2>1. main.pc \notin {"work", "left", "wait", "done"} /\ user' = user
    BY DEF Websocket, CreateInitialSteamApps, ReadStop, ReadMessage, AddApp, HandToConsumers, StopDropper, DropAll,
         DropAllCleaned,
           DrainConsumerJobs, JoinConsumers
  <2>2. QED
    BY <2>1 DEF Owned, Shape, UserShape
<1>1. Cardinality(New) \in Nat
  BY JobsFinite DEF New
<1>m. ASSUME NEW f, main' = [main EXCEPT !.pc = f] PROVE main'.pc = f /\ main'.apps = main.apps
  BY <1>m DEF Shape, UserShape
<1>2. CASE ReadStop
  BY <1>0, <1>2 DEF ReadStop, poolVars, Owned, Shape, UserShape
<1>3. CASE ReadMessage
  <2>1. UNCHANGED <<closed, job, dropper>> /\ main.pc = "read"
    BY <1>3 DEF ReadMessage, poolVars
  <2>2. New' = New
    BY <2>1 DEF New
  <2>3. CASE \E n \in 0 .. Cardinality(New) : main' = [main EXCEPT !.pc = Adding(n), !.apps = n]
    <3>1. PICK n \in 0 .. Cardinality(New) : main' = [main EXCEPT !.pc = Adding(n), !.apps = n]
      BY <2>3
    <3>2. main'.pc = Adding(n) /\ main'.apps = n
      BY <3>1 DEF Shape, UserShape
    <3>3. QED
      BY <1>0, <1>1, <2>1, <2>2, <3>2 DEF Owned, Adding
  <2>4. CASE main' = [main EXCEPT !.pc = "stopDropper"]
    BY <1>0, <1>m, <2>1, <2>4 DEF Owned
  <2>5. QED
    BY <1>3, <2>3, <2>4 DEF ReadMessage
<1>4. CASE AddApp
  <2>1. /\ main.pc = "changelist" /\ UNCHANGED <<closed, dropper>> /\ main'.apps = main.apps - 1
        /\ main'.pc = "hand" \/ main'.pc = Adding(main.apps - 1)
    BY <1>4 DEF AddApp, Shape, UserShape
  <2>2. main.apps \in 1 .. Cardinality(New) /\ Cardinality(New') = Cardinality(New) - 1
    BY <1>4, <2>1, AddAppNew DEF Owned
  <2>3. QED
    BY <1>0, <1>1, <2>1, <2>2 DEF Owned, Adding
<1>5. CASE HandToConsumers
  <2>1. /\ main.pc = "hand" /\ UNCHANGED <<closed, job, dropper>> /\ main'.apps = main.apps
        /\ main'.pc = Adding(main.apps)
    BY <1>5 DEF HandToConsumers, poolVars, Shape, UserShape
  <2>2. New' = New
    BY <2>1 DEF New
  <2>3. QED
    BY <1>0, <1>1, <2>1, <2>2 DEF Owned, Adding
<1>6. CASE StopDropper
  <2>1. main'.pc = "dropAll" /\ main.pc = "stopDropper" /\ dropper'.pc = "ended" /\ closed' = closed
    BY <1>6 DEF StopDropper, poolVars, Shape, UserShape
  <2>2. QED
    BY <1>0, <2>1 DEF Owned
<1>7. CASE DropAll
  <2>1. main'.pc \in {"dropAll", "clean"} /\ main.pc = "dropAll" /\ UNCHANGED <<dropper, closed>>
    BY <1>7 DEF DropAll, Shape, UserShape
  <2>2. QED
    BY <1>0, <2>1 DEF Owned
<1>8. CASE DropAllCleaned
  <2>1. main'.pc = "wait" /\ main.pc = "clean" /\ dropper' = dropper /\ closed' = TRUE
    BY <1>8 DEF DropAllCleaned, CloseJobs, Shape, UserShape
  <2>2. QED
    BY <1>0, <2>1 DEF Owned
<1>9. CASE DrainConsumerJobs \/ JoinConsumers
  <2>1. /\ main'.pc \in {"drain", "join", "done"} /\ main.pc \in {"drain", "join"}
        /\ UNCHANGED <<dropper, closed>>
    BY <1>9 DEF DrainConsumerJobs, JoinConsumers, poolVars, Shape, UserShape
  <2>2. QED
    BY <1>0, <2>1 DEF Owned
<1>10. CASE CreateInitialSteamApps
  <2>1. /\ main'.pc \in {"select", "stopDropper"} /\ main.pc = "create" /\ UNCHANGED closed
    BY <1>10 DEF CreateInitialSteamApps, poolVars, Shape, UserShape
  <2>2. QED
    BY <1>0, <2>1 DEF Owned
<1> QED
  BY <1>2, <1>3, <1>4, <1>5, <1>6, <1>7, <1>8, <1>9, <1>10 DEF Websocket

LEMMA NextOwned ==
    ASSUME Shape, Owned, Once, [Next]_vars PROVE Owned'
<1>1. CASE UNCHANGED vars
  BY <1>1 DEF vars, poolVars, userVars, Owned, New
<1>2. CASE PoolNext /\ UNCHANGED userVars
  <2>1. New' = New /\ closed' = closed
    BY <1>2, PoolKeeps
  <2>2. QED
    BY <1>2, <2>1 DEF userVars, Owned
<1>3. CASE PoolFinished
  <2>1. /\ main'.pc = IF user = "websocket" THEN "drain" ELSE "done"
        /\ main.pc = "wait" /\ UNCHANGED <<user, dropper, closed>>
    BY <1>3 DEF PoolFinished, WaitForWorkers, Shape, UserShape
  <2>2. QED
    BY <2>1 DEF Owned
<1>4. CASE PhaseWaits
  <2>1. main'.pc = "wait" /\ main.pc = "work" /\ UNCHANGED <<user, dropper>> /\ closed' = TRUE
    BY <1>4 DEF PhaseWaits, CloseJobs, Shape, UserShape
  <2>2. user # "websocket" /\ dropper.pc = "off"
    BY <2>1 DEF Owned, Shape, UserShape
  <2>3. QED
    BY <2>1, <2>2 DEF Owned
<1>5. CASE Stop \/ RedditFails
  BY <1>5 DEF Stop, RedditFails, poolVars, Owned, New
<1>9. CASE PhaseLeaves
  <2>1. main'.pc = "left" /\ main.pc = "work" /\ UNCHANGED <<user, dropper, closed>> /\ user # "websocket"
    BY <1>9 DEF PhaseLeaves, poolVars, Shape, UserShape
  <2>2. QED
    BY <2>1 DEF Owned
<1>6. CASE DropperLooks \/ Dropper
  <2>1. UNCHANGED <<user, main, job, closed>> /\ dropper.pc \notin {"off", "ended"}
    BY <1>6 DEF DropperLooks, Dropper, DropperDrops, DropperCleans, DropperCleaned, poolVars
  <2>2. New' = New
    BY <2>1 DEF New
  <2>3. QED
    BY <2>1, <2>2 DEF Owned
<1>7. ASSUME NEW c \in Consumers, ConsumerTakes(c) \/ ConsumerSaves(c) PROVE Owned'
  <2>1. UNCHANGED <<user, main, job, closed, dropper>>
    BY <1>7 DEF ConsumerTakes, ConsumerSaves
  <2>2. New' = New
    BY <2>1 DEF New
  <2>3. QED
    BY <2>1, <2>2 DEF Owned
<1>8. ASSUME NEW j \in Jobs, GameGoroutine(j) PROVE Owned'
  BY <1>8 DEF GameGoroutine, userVars, Owned
<1> QED
  BY <1>1, <1>2, <1>3, <1>4, <1>5, <1>6, <1>7, <1>8, <1>9, WebsocketOwned DEF Next

LEMMA NextPanics ==
    ASSUME Shape, Owned, Awaited, Once, OnlyUnawaitedPanic, [Next]_vars PROVE OnlyUnawaitedPanic'
<1>1. CASE UNCHANGED vars
  BY <1>1 DEF vars, poolVars, userVars, OnlyUnawaitedPanic
<1>2. CASE Next
  <2>0. panic = {}
    BY <1>2 DEF Next
  <2>1. CASE PoolNext /\ UNCHANGED userVars
    BY <2>0, <2>1, PoolKeeps DEF OnlyUnawaitedPanic
  <2>2. CASE AddApp
    BY <2>0, <2>2, AddAppNew DEF OnlyUnawaitedPanic
  <2>3. CASE DropAll \/ DropperDrops
    <3>1. ~closed
      BY <2>3 DEF DropAll, DropperDrops, Owned
    <3>2. UNCHANGED panic
      BY <2>3, <3>1 DEF DropAll, DropperDrops, Dequeue
    <3>3. QED
      BY <2>0, <3>2 DEF OnlyUnawaitedPanic
  <2>4. ASSUME NEW j \in Jobs, GameGoroutine(j) PROVE OnlyUnawaitedPanic'
    <3>1. user \in {"update", "discovery"} /\ UNCHANGED <<user, redditFailed>>
      BY <2>4 DEF GameGoroutine, userVars, Shape, UserShape
    <3>2. panic' = {} \/ (closed /\ receiver[j].pc = "send" /\ panic' = {GoroutineOf(j)})
      BY <2>0, <2>4 DEF GameGoroutine, AddGame, Send
    <3>3. CASE user = "update"
      <4>1. GoroutineOf(j) = "update"
        BY <3>3 DEF GoroutineOf
      <4>2. panic' = {} \/ (user' = "update" /\ panic' = {"update"})
        BY <3>1, <3>2, <3>3, <4>1
      <4>3. QED
        BY ONLY <4>2 DEF OnlyUnawaitedPanic
    <3>4. CASE user = "discovery" /\ closed /\ receiver[j].pc = "send"
      <4>1. redditFailed /\ j \in Posts
        BY <3>4 DEF Awaited, Discovered
      <4>2. GoroutineOf(j) = "reddit"
        BY <3>4, <4>1 DEF GoroutineOf
      <4>3. panic' = {} \/ (user' = "discovery" /\ redditFailed' /\ panic' = {"reddit"})
        BY <3>1, <3>2, <3>4, <4>1, <4>2
      <4>4. QED
        BY ONLY <4>3 DEF OnlyUnawaitedPanic
    <3>5. CASE panic' = {}
      BY <3>5 DEF OnlyUnawaitedPanic
    <3>6. QED
      BY <3>1, <3>2, <3>3, <3>4, <3>5
  <2>5. QED
    BY <1>2, <2>0, <2>1, <2>2, <2>3, <2>4, QuietSteps DEF Next, Websocket, Dropper, Quiet, OnlyUnawaitedPanic
<1> QED
  BY <1>1, <1>2

-----------------------------------------------------------------------------
(* The guard.                                                              *)

Holders == {w \in Workers : worker[w].pc \in {"execute", "answer", "sleep"}}

LEMMA HoldersFinite ==
    /\ IsFiniteSet(Holders) /\ Cardinality(Holders) \in Nat
    /\ \A S \in SUBSET Holders : Cardinality(S) <= Cardinality(Holders)
<1>1. IsFiniteSet(Holders)
  BY ScrapersAssumption, FS_Subset DEF Holders
<1> QED
  BY <1>1, FS_Subset, FS_CardinalityType

LEMMA InitGuarded == ASSUME Init PROVE Guarded
<1>1. Holders = {}
  BY DEF Init, PoolInit, IdleWorker, Holders
<1>2. Concurrent = 0
  BY <1>1, FS_EmptySet DEF Concurrent, Holders
<1> QED
  BY <1>2, ScrapersAssumption DEF Guarded

LEMMA NextGuarded ==
    ASSUME Shape, Guarded, [Next]_vars PROVE Guarded'
<1>0. Concurrent = Cardinality(Holders) /\ Concurrent' = Cardinality(Holders')
  BY DEF Concurrent, Holders
<1>1. ASSUME Holders' \subseteq Holders PROVE Guarded'
  <2>1. IsFiniteSet(Holders') /\ Cardinality(Holders') <= Cardinality(Holders)
    BY <1>1, HoldersFinite, FS_Subset
  <2>2. Cardinality(Holders') \in Nat
    BY <2>1, FS_CardinalityType
  <2>3. QED
    BY <1>0, <2>1, <2>2, HoldersFinite, ScrapersAssumption DEF Guarded
<1>2. ASSUME NEW w \in Workers, AcquireGuard(w) PROVE Guarded'
  <2>1. Concurrent < MaxConcurrentWorkers
    BY <1>2 DEF AcquireGuard
  <2>2. Holders' = Holders \cup {w}
    <3>1. worker'[w].pc = "execute" /\ \A u \in Workers \ {w} : worker'[u] = worker[u]
      BY <1>2 DEF AcquireGuard, Shape, PoolShape
    <3>2. QED
      BY <3>1 DEF Holders
  <2>3. Cardinality(Holders') <= Cardinality(Holders) + 1
    <3>1. Cardinality(Holders') = IF w \in Holders THEN Cardinality(Holders) ELSE Cardinality(Holders) + 1
      BY <2>2, HoldersFinite, FS_AddElement
    <3>2. QED
      BY <3>1, HoldersFinite
  <2>4. Cardinality(Holders') \in Nat
    BY <2>2, HoldersFinite, FS_AddElement, FS_CardinalityType
  <2>5. QED
    BY <1>0, <2>1, <2>3, <2>4, HoldersFinite, ScrapersAssumption DEF Guarded
<1>3. ASSUME NEW w \in Workers, Worker(w), ~AcquireGuard(w) PROVE Guarded'
  <2>1. \A u \in Workers \ {w} : worker'[u] = worker[u]
    BY <1>3 DEF Worker, TakeJob, ExecuteJob, Answer, ReleaseGuard, EndWorker, Shape, PoolShape
  <2>2. worker'[w].pc \in {"execute", "answer", "sleep"} => worker[w].pc \in {"execute", "answer", "sleep"}
    BY <1>3 DEF Worker, TakeJob, ExecuteJob, Answer, ReleaseGuard, EndWorker, IdleWorker, Shape, PoolShape
  <2>3. Holders' \subseteq Holders
    BY <2>1, <2>2 DEF Holders
  <2>4. QED BY <1>1, <2>3
<1>4. CASE UNCHANGED worker
  BY <1>1, <1>4 DEF Holders
<1>5. ASSUME NEW j \in Jobs, Scrape(j) \/ GameGoroutine(j) PROVE UNCHANGED worker
  BY <1>5 DEF Scrape, GameGoroutine
<1>6. ASSUME NEW d \in Droppers, Clean(d) PROVE UNCHANGED worker
  BY <1>6 DEF Clean
<1>7. CASE AddApp \/ DropAll \/ DropperDrops
  BY <1>4, <1>7 DEF AddApp, DropAll, DropperDrops
<1>8. CASE UNCHANGED vars
  BY <1>4, <1>8 DEF vars, poolVars
<1> QED
  BY <1>2, <1>3, <1>4, <1>5, <1>6, <1>7, <1>8, QuietSteps DEF Next, PoolNext, Websocket, Dropper, Quiet

-----------------------------------------------------------------------------
(* Whoever gets a game gets it whole.                                      *)

(* Who is answered with a game is not among those whose scrape begins.     *)
LEMMA ScrapesEnd ==
    ASSUME Shape, Once, [Next]_vars
    PROVE  \A j \in Jobs : scrape[j] = "done" => scrape'[j] = "done"
<1>1. ASSUME NEW w \in Workers, AcquireGuard(w) PROVE \A j \in Jobs : scrape[j] = "done" => scrape'[j] = "done"
  <2>1. scrape' = [scrape EXCEPT ![worker[w].job] = "running"] /\ scrape[worker[w].job] = "none"
    BY <1>1 DEF AcquireGuard, Once, GuardOnce
  <2>2. QED
    BY <2>1 DEF Shape, PoolShape
<1>2. ASSUME NEW w \in Workers, Worker(w), ~AcquireGuard(w) PROVE UNCHANGED scrape
  BY <1>2 DEF Worker, TakeJob, ExecuteJob, Answer, ReleaseGuard, EndWorker
<1>3. ASSUME NEW j \in Jobs, Scrape(j) PROVE \A i \in Jobs : scrape[i] = "done" => scrape'[i] = "done"
  BY <1>3 DEF Scrape, Shape, PoolShape
<1>4. ASSUME NEW d \in Droppers, Clean(d) PROVE UNCHANGED scrape
  BY <1>4 DEF Clean
<1>5. CASE AddApp \/ DropAll \/ DropperDrops
  BY <1>5 DEF AddApp, DropAll, DropperDrops
<1>6. ASSUME NEW j \in Jobs, GameGoroutine(j) PROVE UNCHANGED scrape
  BY <1>6 DEF GameGoroutine
<1>7. CASE UNCHANGED vars
  BY <1>7 DEF vars, poolVars
<1> QED
  BY <1>1, <1>2, <1>3, <1>4, <1>5, <1>6, <1>7, QuietSteps DEF Next, PoolNext, Websocket, Dropper, Quiet

WholeAtWorker(w) == worker[w].pc = "answer" /\ worker[w].answer = "game" => scrape[worker[w].job] = "done"
WholeAtReceiver(r) ==
    receiver[r].pc = "use" =>
        receiver[r].job \in Jobs /\ (receiver[r].answer = "game" => scrape[receiver[r].job] = "done")

LEMMA WholeParts == Whole <=> (\A w \in Workers : WholeAtWorker(w)) /\ (\A r \in Receivers : WholeAtReceiver(r))
  BY DEF Whole, WholeAtWorker, WholeAtReceiver

LEMMA WorkersWhole ==
    ASSUME Shape, Once, Whole, [Next]_vars, NEW w \in Workers PROVE WholeAtWorker(w)'
<1>1. CASE worker'[w] = worker[w]
  <2>1. WholeAtWorker(w) /\ (worker[w].pc = "answer" => worker[w].job \in Jobs)
    BY WholeParts, WorkersHaveJobs
  <2>2. QED
    BY <1>1, <2>1, ScrapesEnd DEF WholeAtWorker
<1>2. CASE ExecuteJob(w)
  <2>1. UNCHANGED scrape
    BY <1>2 DEF ExecuteJob
  <2>2. \/ worker'[w].answer = "nil"
        \/ scrape[worker[w].job] = "done" /\ worker'[w].job = worker[w].job
    BY <1>2 DEF ExecuteJob, Shape, PoolShape
  <2>3. QED
    BY <2>1, <2>2 DEF WholeAtWorker
<1>3. CASE Worker(w) /\ ~ExecuteJob(w)
  <2>1. worker'[w].pc # "answer"
    BY <1>3 DEF Worker, TakeJob, AcquireGuard, Answer, ReleaseGuard, EndWorker, IdleWorker, Shape, PoolShape
  <2>2. QED
    BY <2>1 DEF WholeAtWorker
<1>4. ASSUME NEW u \in Workers, Worker(u), u # w PROVE worker'[w] = worker[w]
  BY <1>4 DEF Worker, TakeJob, AcquireGuard, ExecuteJob, Answer, ReleaseGuard, EndWorker, Shape, PoolShape
<1>5. ASSUME NEW j \in Jobs, Scrape(j) \/ GameGoroutine(j) PROVE worker'[w] = worker[w]
  BY <1>5 DEF Scrape, GameGoroutine
<1>6. ASSUME NEW d \in Droppers, Clean(d) PROVE worker'[w] = worker[w]
  BY <1>6 DEF Clean
<1>7. CASE AddApp \/ DropAll \/ DropperDrops
  BY <1>1, <1>7 DEF AddApp, DropAll, DropperDrops
<1>8. CASE UNCHANGED vars
  BY <1>1, <1>8 DEF vars, poolVars
<1> QED
  BY <1>1, <1>2, <1>3, <1>4, <1>5, <1>6, <1>7, <1>8, QuietSteps DEF Next, PoolNext, Websocket, Dropper, Quiet

(* What may become of a receiver in a step.                                *)
Stays(r) == receiver'[r] = receiver[r]
Gets(r) ==
    \E j \in Jobs, a \in Answers :
        /\ receiver[r].pc = "await" /\ receiver[r].job = j
        /\ receiver'[r] = [pc |-> "use", job |-> j, answer |-> a]
        /\ a = "game" => scrape'[j] = "done"
Takes(r) ==
    /\ r \in Consumers /\ consumerJobs # <<>> /\ consumerJobs' = Tail(consumerJobs)
    /\ receiver'[r].pc = "await" /\ receiver'[r].job = Head(consumerJobs)
Adds(r) ==
    /\ user # "websocket" /\ receiver[r].pc \in {"check", "send"}
    /\ receiver'[r].pc \in {"send", "await", "ended"} /\ receiver'[r].job = receiver[r].job
Ends(r) == receiver[r].pc # "ended" /\ receiver'[r].pc \in {"take", "ended"}

LEMMA AnswerGets ==
    ASSUME Shape, Once, NEW j \in Jobs, NEW a \in Answers, Receive(j, a), job[j] # "new",
           a = "game" => scrape'[j] = "done", NEW r \in Receivers
    PROVE  Stays(r) \/ Gets(r)
  BY ReceiveOnce DEF Stays, Gets

LEMMA ReceiverSteps ==
    ASSUME Shape, Once, Whole, [Next]_vars, NEW r \in Receivers
    PROVE  Stays(r) \/ Gets(r) \/ Takes(r) \/ Adds(r) \/ Ends(r)
<1>1. ASSUME NEW w \in Workers, Answer(w) PROVE Stays(r) \/ Gets(r)
  <2>1. worker[w].job \in Jobs /\ worker[w].answer \in Answers /\ job[worker[w].job] # "new"
    BY <1>1 DEF Answer, Once, WorkersOnce, Shape, PoolShape
  <2>2. Receive(worker[w].job, worker[w].answer) /\ worker[w].pc = "answer" /\ scrape' = scrape
    BY <1>1 DEF Answer
  <2>3. worker[w].answer = "game" => scrape'[worker[w].job] = "done"
    BY <2>2 DEF Whole
  <2>4. QED
    BY <2>1, <2>2, <2>3, AnswerGets
<1>2. ASSUME NEW w \in Workers, Worker(w), ~Answer(w) PROVE Stays(r)
  BY <1>2 DEF Worker, TakeJob, AcquireGuard, ExecuteJob, ReleaseGuard, EndWorker, Stays
<1>3. ASSUME NEW j \in Jobs, Scrape(j) PROVE Stays(r)
  BY <1>3 DEF Scrape, Stays
<1>4. ASSUME NEW d \in Droppers, Clean(d) PROVE Stays(r) \/ Gets(r)
  <2>1. PICK i \in 1 .. Len(cleaning[d]) : Receive(cleaning[d][i], "nil")
    BY <1>4 DEF Clean
  <2>2. cleaning[d][i] \in Jobs /\ job[cleaning[d][i]] # "new" /\ "nil" \in Answers
    BY <1>4, QueuesHaveJobs DEF Once, CleaningOnce, Answers
  <2>3. QED
    BY <2>1, <2>2, AnswerGets
<1>5. CASE Websocket \/ PoolFinished \/ Stop \/ PhaseWaits \/ RedditFails \/ PhaseLeaves
  <2>1. CASE \/ CreateInitialSteamApps \/ ReadStop \/ ReadMessage \/ HandToConsumers \/ StopDropper
             \/ DrainConsumerJobs \/ JoinConsumers \/ Stop \/ RedditFails \/ PhaseLeaves
    BY <2>1 DEF CreateInitialSteamApps, ReadStop, ReadMessage, HandToConsumers, StopDropper, DrainConsumerJobs,
                JoinConsumers, Stop, RedditFails, PhaseLeaves, poolVars, Stays
  <2>2. CASE AddApp \/ DropAll \/ DropAllCleaned \/ PhaseWaits \/ PoolFinished
    BY <2>2 DEF AddApp, DropAll, DropAllCleaned, PhaseWaits, PoolFinished, CloseJobs, WaitForWorkers, Stays
  <2>3. QED
    BY <1>5, <2>1, <2>2 DEF Websocket
<1>6. CASE DropperLooks \/ Dropper
  BY <1>6 DEF DropperLooks, Dropper, DropperDrops, DropperCleans, DropperCleaned, poolVars, Stays
<1>7. ASSUME NEW c \in Consumers, ConsumerTakes(c) PROVE Stays(r) \/ Takes(r) \/ Ends(r)
  <2>1. CASE r # c
    BY <1>7, <2>1 DEF ConsumerTakes, Shape, PoolShape, Stays
  <2>2. CASE r = c /\ consumerJobs # <<>>
    BY <1>7, <2>2 DEF ConsumerTakes, Shape, PoolShape, Takes
  <2>3. CASE r = c /\ consumerJobs = <<>>
    BY <1>7, <2>3 DEF ConsumerTakes, Shape, PoolShape, Ends
  <2>4. QED BY <2>1, <2>2, <2>3
<1>8. ASSUME NEW c \in Consumers, ConsumerSaves(c) PROVE Stays(r) \/ Ends(r)
  BY <1>8 DEF ConsumerSaves, Shape, PoolShape, Stays, Ends
<1>9. ASSUME NEW j \in Jobs, GameGoroutine(j) PROVE Stays(r) \/ Adds(r) \/ Ends(r)
  <2>1. CASE r # j
    BY <1>9, <2>1 DEF GameGoroutine, AddGame, Shape, PoolShape, Stays
  <2>2. CASE r = j /\ receiver[j].pc \in {"check", "send"}
    <3>1. /\ user # "websocket" /\ receiver'[r].pc \in {"send", "await", "ended"}
          /\ receiver'[r].job = receiver[r].job
      BY <1>9, <2>2 DEF GameGoroutine, AddGame, Shape, PoolShape
    <3>2. QED
      BY <2>2, <3>1 DEF Adds
  <2>3. CASE r = j /\ receiver[j].pc \notin {"check", "send"}
    BY <1>9, <2>3 DEF GameGoroutine, AddGame, Shape, PoolShape, Ends
  <2>4. QED BY <2>1, <2>2, <2>3
<1>10. CASE UNCHANGED vars
  BY <1>10 DEF vars, poolVars, Stays
<1> QED
  BY <1>1, <1>2, <1>3, <1>4, <1>5, <1>6, <1>7, <1>8, <1>9, <1>10 DEF Next, PoolNext

LEMMA NextWhole ==
    ASSUME Shape, Once, Whole, Awaiting, [Next]_vars PROVE Whole' /\ Awaiting'
<1>1. ASSUME NEW r \in Receivers
      PROVE  /\ WholeAtReceiver(r)'
             /\ receiver'[r].pc \in {"check", "send", "await"} => receiver'[r].job \in Jobs
  <2>1. CASE Stays(r)
    <3>1. WholeAtReceiver(r)
      BY WholeParts
    <3>2. QED
      BY <2>1, <3>1, ScrapesEnd DEF Stays, WholeAtReceiver, Awaiting
  <2>2. CASE Gets(r)
    BY <2>2 DEF Gets, WholeAtReceiver
  <2>3. CASE Takes(r)
    <3>1. Head(consumerJobs) \in Jobs
      BY <2>3, HeadTailProperties DEF Takes, Shape, UserShape
    <3>2. QED
      BY <2>3, <3>1 DEF Takes, WholeAtReceiver
  <2>4. CASE Adds(r)
    BY <2>4 DEF Adds, WholeAtReceiver, Awaiting
  <2>5. CASE Ends(r)
    BY <2>5 DEF Ends, WholeAtReceiver
  <2>6. QED
    BY <2>1, <2>2, <2>3, <2>4, <2>5, ReceiverSteps
<1>2. Awaiting'
  BY <1>1 DEF Awaiting
<1>3. \A w \in Workers : WholeAtWorker(w)'
  BY WorkersWhole
<1>4. Whole'
  BY <1>1, <1>3 DEF Whole, WholeAtWorker, WholeAtReceiver
<1> QED
  BY <1>2, <1>4

-----------------------------------------------------------------------------
(* Who is to answer a job.                                                 *)

LEMMA InitLocated == ASSUME Init PROVE Located
<1>1. Pending
  BY DEF Init, PoolInit, Pending
<1>2. WorkersEnd /\ CleanersEnd
  BY DEF Init, PoolInit, IdleWorker, WorkersEnd, CleanersEnd, Droppers
<1> QED
  BY <1>1, <1>2 DEF Located

LEMMA WorkerPending ==
    ASSUME Shape, Once, Pending, NEW w \in Workers, Worker(w) PROVE Pending'
<1> SUFFICES ASSUME NEW j \in Jobs, job'[j] = "accepted" PROVE Placed(j)'
  BY DEF Pending
<1>0. \A u \in Workers \ {w} : worker'[u] = worker[u]
  BY DEF Worker, TakeJob, AcquireGuard, ExecuteJob, Answer, ReleaseGuard, EndWorker, Shape, PoolShape
<1>1. CASE TakeJob(w)
  <2>1. queue # <<>> /\ queue' = Tail(queue) /\ worker[w].pc = "idle" /\ UNCHANGED <<job, cleaning>>
    BY <1>1 DEF TakeJob
  <2>2. worker'[w].pc = "guard" /\ worker'[w].job = queue[1]
    BY <1>1, <2>1, QueueTail DEF TakeJob, Shape, PoolShape
  <2>3. Placed(j)
    BY <2>1 DEF Pending
  <2>4. CASE InQueue(j)
    <3>1. PICK i \in 1 .. Len(queue) : queue[i] = j
      BY <2>4 DEF InQueue
    <3>2. CASE i = 1
      BY <2>2, <3>1, <3>2 DEF Placed, AtWorker
    <3>3. CASE i # 1
      <4>1. i - 1 \in 1 .. Len(queue') /\ i - 1 \in 1 .. Len(queue) - 1 /\ (i - 1) + 1 = i
        BY <2>1, <3>1, <3>3, QueueTail
      <4>2. queue'[i - 1] = j
        BY <2>1, <3>1, <4>1, QueueTail
      <4>3. QED
        BY <4>1, <4>2 DEF Placed, InQueue
    <3>4. QED BY <3>2, <3>3
  <2>5. CASE AtWorker(j)
    BY <1>0, <2>1, <2>5 DEF Placed, AtWorker
  <2>6. CASE AtCleaner(j)
    BY <2>1, <2>6 DEF Placed, AtCleaner
  <2>7. QED
    BY <2>3, <2>4, <2>5, <2>6 DEF Placed
<1>2. CASE ~TakeJob(w)
  <2>1. UNCHANGED <<queue, cleaning>>
    BY <1>2 DEF Worker, AcquireGuard, ExecuteJob, Answer, ReleaseGuard, EndWorker
  <2>2. job[j] = "accepted" /\ (Answer(w) => worker[w].job # j)
    <3>1. CASE Answer(w)
      <4>1. worker[w].job \in Jobs /\ worker[w].answer \in Answers /\ job[worker[w].job] # "new"
        BY <3>1 DEF Answer, Once, WorkersOnce, Shape, PoolShape
      <4>2. QED
        <5>1. job'[worker[w].job] = "answered" /\ \A i \in Jobs : i # worker[w].job => job'[i] = job[i]
          <6> DEFINE k == worker[w].job
                     a == worker[w].answer
          <6>1. Receive(k, a) /\ k \in Jobs /\ a \in Answers /\ job[k] # "new"
            BY <3>1, <4>1 DEF Answer
          <6> HIDE DEF k, a
          <6>2. job'[k] = "answered" /\ \A i \in Jobs : i # k => job'[i] = job[i]
            BY <6>1, ReceiveOnce, Zenon
          <6>3. QED BY <6>2 DEF k
        <5>2. job'[j] = "accepted"
          OBVIOUS
        <5>3. QED BY <4>1, <5>1, <5>2
    <3>2. CASE ~Answer(w)
      BY <1>2, <3>2 DEF Worker, AcquireGuard, ExecuteJob, ReleaseGuard, EndWorker
    <3>3. QED BY <3>1, <3>2
  <2>3. Placed(j)
    BY <2>2 DEF Pending
  <2>4. CASE InQueue(j) \/ AtCleaner(j)
    BY <2>1, <2>4 DEF Placed, InQueue, AtCleaner
  <2>5. CASE AtWorker(j)
    <3>1. PICK u \in Workers : worker[u].job = j /\ worker[u].pc \in {"guard", "execute", "answer"}
      BY <2>5 DEF AtWorker
    <3>2. CASE u # w
      BY <1>0, <3>1, <3>2 DEF Placed, AtWorker
    <3>3. CASE u = w
      <4>1. AcquireGuard(w) \/ ExecuteJob(w)
        BY <1>2, <2>2, <3>1, <3>3 DEF Worker, ReleaseGuard, EndWorker
      <4>2. worker'[w].job = j /\ worker'[w].pc \in {"execute", "answer"}
        BY <3>1, <3>3, <4>1 DEF AcquireGuard, ExecuteJob, Shape, PoolShape
      <4>3. QED
        BY <4>2 DEF Placed, AtWorker
    <3>4. QED BY <3>2, <3>3
  <2>6. QED
    BY <2>3, <2>4, <2>5 DEF Placed
<1> QED
  BY <1>1, <1>2

LEMMA CleanPending ==
    ASSUME Shape, Once, Pending, NEW d \in Droppers, Clean(d) PROVE Pending'
<1> SUFFICES ASSUME NEW j \in Jobs, job'[j] = "accepted" PROVE Placed(j)'
  BY DEF Pending
<1>1. PICK i \in 1 .. Len(cleaning[d]) :
          /\ Receive(cleaning[d][i], "nil")
          /\ cleaning' = [cleaning EXCEPT ![d] = RemoveAt(cleaning[d], i)]
  BY DEF Clean
<1>2. cleaning[d][i] \in Jobs /\ job[cleaning[d][i]] # "new" /\ "nil" \in Answers
  BY QueuesHaveJobs DEF Once, CleaningOnce, Answers
<1>3. job[j] = "accepted" /\ j # cleaning[d][i]
  BY <1>1, <1>2, ReceiveOnce
<1>4. UNCHANGED <<queue, worker>>
  BY DEF Clean
<1>5. CASE InQueue(j) \/ AtWorker(j)
  BY <1>4, <1>5 DEF Placed, InQueue, AtWorker
<1>6. CASE AtCleaner(j)
  <2>1. PICK c \in Droppers : \E m \in 1 .. Len(cleaning[c]) : cleaning[c][m] = j
    BY <1>6 DEF AtCleaner
  <2>2. PICK m \in 1 .. Len(cleaning[c]) : cleaning[c][m] = j
    BY <2>1
  <2>3. CASE c # d
    <3>1. cleaning'[c] = cleaning[c]
      BY <1>1, <2>3 DEF Shape, PoolShape
    <3>2. QED
      BY <2>2, <3>1 DEF Placed, AtCleaner
  <2>4. CASE c = d
    <3>1. cleaning'[d] = RemoveAt(cleaning[d], i) /\ cleaning[d] \in Seq(Jobs)
      BY <1>1 DEF Shape, PoolShape
    <3>2. \E k \in 1 .. Len(RemoveAt(cleaning[d], i)) : RemoveAt(cleaning[d], i)[k] = cleaning[d][m]
      BY <1>3, <2>2, <2>4, <3>1, RemoveAtProperties
    <3>3. QED
      BY <2>2, <2>4, <3>1, <3>2 DEF Placed, AtCleaner
  <2>5. QED BY <2>3, <2>4
<1> QED
  BY <1>3, <1>5, <1>6 DEF Pending, Placed

LEMMA SendPending ==
    ASSUME Shape, Pending, NEW k \in Jobs, NEW name, job[k] = "new", Send(k, name), UNCHANGED <<worker, cleaning>>
    PROVE  Pending'
<1> SUFFICES ASSUME NEW j \in Jobs, job'[j] = "accepted" PROVE Placed(j)'
  BY DEF Pending
<1>1. CASE closed \/ ~(Len(queue) < MaxJobs)
  <2>1. queue' = queue /\ job[j] = "accepted"
    BY <1>1 DEF Send, Shape, PoolShape
  <2>2. QED
    BY <2>1 DEF Pending, Placed, InQueue, AtWorker, AtCleaner
<1>2. CASE ~closed /\ Len(queue) < MaxJobs
  <2>1. queue' = Append(queue, k) /\ (j # k => job[j] = "accepted")
    BY <1>2 DEF Send, Shape, PoolShape
  <2>2. /\ Len(queue) \in Nat /\ Len(queue') = Len(queue) + 1 /\ queue'[Len(queue) + 1] = k
        /\ \A i \in 1 .. Len(queue) : queue'[i] = queue[i]
    BY <2>1, LenProperties, AppendProperties DEF Shape, PoolShape
  <2>3. CASE j = k
    BY <2>2, <2>3 DEF Placed, InQueue
  <2>4. CASE j # k
    <3>1. Placed(j)
      BY <2>1, <2>4 DEF Pending
    <3>2. CASE InQueue(j)
      <4>1. PICK i \in 1 .. Len(queue) : queue[i] = j
        BY <3>2 DEF InQueue
      <4>2. i \in 1 .. Len(queue') /\ queue'[i] = j
        BY <2>2, <4>1
      <4>3. QED
        BY <4>2 DEF Placed, InQueue
    <3>3. CASE AtWorker(j) \/ AtCleaner(j)
      BY <3>3 DEF Placed, AtWorker, AtCleaner
    <3>4. QED
      BY <3>1, <3>2, <3>3 DEF Placed
  <2>5. QED BY <2>3, <2>4
<1> QED
  BY <1>1, <1>2

LEMMA DequeuePending ==
    ASSUME Shape, Pending, NEW d \in Droppers, Dequeue(d), UNCHANGED <<worker, job>>
    PROVE  Pending'
<1> SUFFICES ASSUME NEW j \in Jobs, job[j] = "accepted" PROVE Placed(j)'
  BY DEF Pending
<1>0. Placed(j)
  BY DEF Pending
<1>1. CASE queue = <<>>
  <2>1. UNCHANGED <<queue, cleaning>>
    BY <1>1 DEF Dequeue
  <2>2. QED
    BY <1>0, <2>1 DEF Placed, InQueue, AtWorker, AtCleaner
<1>2. CASE queue # <<>>
  <2>1. queue' = Tail(queue) /\ cleaning' = [cleaning EXCEPT ![d] = Append(cleaning[d], Head(queue))]
    BY <1>2 DEF Dequeue
  <2>2. cleaning'[d] = Append(cleaning[d], Head(queue)) /\ \A c \in Droppers \ {d} : cleaning'[c] = cleaning[c]
    BY <2>1 DEF Shape, PoolShape
  <2>3. /\ Len(cleaning[d]) \in Nat /\ Len(cleaning'[d]) = Len(cleaning[d]) + 1
        /\ cleaning'[d][Len(cleaning[d]) + 1] = queue[1]
        /\ \A i \in 1 .. Len(cleaning[d]) : cleaning'[d][i] = cleaning[d][i]
    BY <1>2, <2>2, QueueTail, LenProperties, AppendProperties DEF Shape, PoolShape
  <2>4. CASE InQueue(j)
    <3>1. PICK i \in 1 .. Len(queue) : queue[i] = j
      BY <2>4 DEF InQueue
    <3>2. CASE i = 1
      <4>1. Len(cleaning[d]) + 1 \in 1 .. Len(cleaning'[d])
        BY <2>3
      <4>2. QED
        BY <2>3, <3>1, <3>2, <4>1 DEF Placed, AtCleaner
    <3>3. CASE i # 1
      <4>1. i - 1 \in 1 .. Len(queue') /\ i - 1 \in 1 .. Len(queue) - 1 /\ (i - 1) + 1 = i
        BY <1>2, <2>1, <3>1, <3>3, QueueTail
      <4>2. queue'[i - 1] = j
        BY <1>2, <2>1, <3>1, <4>1, QueueTail
      <4>3. QED
        BY <4>1, <4>2 DEF Placed, InQueue
    <3>4. QED BY <3>2, <3>3
  <2>5. CASE AtCleaner(j)
    <3>1. PICK c \in Droppers : \E m \in 1 .. Len(cleaning[c]) : cleaning[c][m] = j
      BY <2>5 DEF AtCleaner
    <3>2. PICK m \in 1 .. Len(cleaning[c]) : cleaning[c][m] = j
      BY <3>1
    <3>3. m \in 1 .. Len(cleaning'[c]) /\ cleaning'[c][m] = j
      BY <2>2, <2>3, <3>2
    <3>4. QED
      BY <3>3 DEF Placed, AtCleaner
  <2>6. CASE AtWorker(j)
    BY <2>6 DEF Placed, AtWorker
  <2>7. QED
    BY <1>0, <2>4, <2>5, <2>6 DEF Placed
<1> QED
  BY <1>1, <1>2

LEMMA NextPending ==
    ASSUME Shape, Owned, Once, Pending, [Next]_vars PROVE Pending'
<1> USE DEF Pending, Placed, InQueue, AtWorker, AtCleaner
<1>1. CASE UNCHANGED vars
  BY <1>1 DEF vars, poolVars
<1>2. ASSUME NEW j \in Jobs, Scrape(j) PROVE Pending'
  BY <1>2 DEF Scrape
<1>3. CASE AddApp
  <2>1. Min(New) \in Jobs /\ job[Min(New)] = "new"
    BY <1>3, NewJobs DEF AddApp
  <2>2. Send(Min(New), "main") /\ UNCHANGED <<worker, cleaning>>
    BY <1>3 DEF AddApp
  <2>3. QED
    BY <2>1, <2>2, SendPending
<1>4. CASE DropAll
  <2>1. CASE Dequeue("main")
    <3>1. "main" \in Droppers
      BY DEF Droppers
    <3>2. UNCHANGED <<worker, job>>
      BY <1>4 DEF DropAll
    <3>3. QED
      BY <2>1, <3>1, <3>2, DequeuePending
  <2>2. CASE ~Dequeue("main")
    BY <1>4, <2>2 DEF DropAll
  <2>3. QED BY <2>1, <2>2
<1>5. CASE DropperDrops
  <2>1. "dropper" \in Droppers
    BY DEF Droppers
  <2>2. Dequeue("dropper") /\ UNCHANGED <<worker, job>>
    BY <1>5 DEF DropperDrops
  <2>3. QED
    BY <2>1, <2>2, DequeuePending
<1>6. ASSUME NEW j \in Jobs, GameGoroutine(j) PROVE Pending'
  <2>1. UNCHANGED <<worker, cleaning>> /\ j \in Receivers
    BY <1>6, NamesDiffer DEF GameGoroutine
  <2>2. CASE receiver[j].pc = "send"
    <3>1. Send(j, GoroutineOf(j)) /\ job[j] = "new"
      BY <1>6, <2>1, <2>2 DEF GameGoroutine, AddGame, Once, SendersOnce
    <3>2. QED
      BY <2>1, <3>1, SendPending
  <2>3. CASE receiver[j].pc # "send"
    BY <1>6, <2>1, <2>3 DEF GameGoroutine, AddGame
  <2>4. QED BY <2>2, <2>3
<1>7. CASE Quiet
  BY <1>7 DEF Quiet
<1> QED
  BY <1>1, <1>2, <1>3, <1>4, <1>5, <1>6, <1>7, WorkerPending, CleanPending, QuietSteps
     DEF Next, PoolNext, Websocket, Dropper

-----------------------------------------------------------------------------
(* The order in which the parts of the pool end.                           *)

LEMMA PoolEnds ==
    ASSUME Shape, Once, WorkersEnd, CleanersEnd, PoolNext, UNCHANGED userVars PROVE WorkersEnd' /\ CleanersEnd'
<1>1. ASSUME NEW w \in Workers, Worker(w) PROVE WorkersEnd' /\ CleanersEnd'
  <2>1. /\ \A u \in Workers \ {w} : worker'[u] = worker[u]
        /\ worker[w].pc # "ended" /\ UNCHANGED <<cleaning, closed, finished>>
    BY <1>1 DEF Worker, TakeJob, AcquireGuard, ExecuteJob, Answer, ReleaseGuard, EndWorker, Shape, PoolShape
  <2>2. queue' = <<>> \/ queue' = queue \/ (queue # <<>> /\ \A u \in Workers : worker[u].pc # "ended")
    BY <1>1 DEF Worker, TakeJob, AcquireGuard, ExecuteJob, Answer, ReleaseGuard, EndWorker, WorkersEnd
  <2>3. worker'[w].pc = "ended" => closed /\ queue' = <<>>
    BY <1>1 DEF Worker, TakeJob, AcquireGuard, ExecuteJob, Answer, ReleaseGuard, EndWorker, IdleWorker, Shape, PoolShape
  <2>4. ~finished
    BY <2>1 DEF WorkersEnd
  <2>5. \A u \in Workers : worker'[u].pc = "ended" => closed' /\ queue' = <<>>
    BY <2>1, <2>2, <2>3 DEF WorkersEnd
  <2>6. WorkersEnd'
    BY <2>1, <2>4, <2>5 DEF WorkersEnd
  <2>7. CleanersEnd'
    BY <2>1 DEF CleanersEnd, userVars
  <2>8. QED BY <2>6, <2>7
<1>2. ASSUME NEW j \in Jobs, Scrape(j) PROVE WorkersEnd' /\ CleanersEnd'
  BY <1>2 DEF Scrape, userVars, WorkersEnd, CleanersEnd
<1>3. ASSUME NEW d \in Droppers, Clean(d) PROVE WorkersEnd' /\ CleanersEnd'
  <2>1. UNCHANGED <<queue, closed, finished, worker, main, dropper>>
    BY <1>3 DEF Clean, userVars
  <2>2. cleaning[d] # <<>> /\ \A c \in Droppers \ {d} : cleaning'[c] = cleaning[c]
    BY <1>3 DEF Clean, Shape, PoolShape
  <2>3. \A c \in Droppers : cleaning[c] = <<>> => cleaning'[c] = <<>>
    BY <2>2
  <2>4. QED
    BY <2>1, <2>3 DEF WorkersEnd, CleanersEnd, Droppers
<1> QED
  BY <1>1, <1>2, <1>3 DEF PoolNext

LEMMA NextEnds ==
    ASSUME Shape, Owned, Once, WorkersEnd, CleanersEnd, [Next]_vars PROVE WorkersEnd' /\ CleanersEnd'
<1>0. main.pc \in MainPcs
  BY DEF Shape, UserShape
<1>1. CASE UNCHANGED vars
  BY <1>1 DEF vars, poolVars, userVars, WorkersEnd, CleanersEnd
<1>2. CASE ReadStop \/ ReadMessage \/ HandToConsumers \/ DrainConsumerJobs \/ JoinConsumers \/ Stop
  <2>1. UNCHANGED <<queue, closed, finished, worker, cleaning, dropper>>
    BY <1>2 DEF ReadStop, ReadMessage, HandToConsumers, DrainConsumerJobs, JoinConsumers, Stop, poolVars
  <2>2. main.pc \notin {"dropAll", "clean"} \/ main' = main
    BY <1>2 DEF ReadStop, ReadMessage, HandToConsumers, DrainConsumerJobs, JoinConsumers, Stop
  <2>3. QED
    BY <2>1, <2>2 DEF WorkersEnd, CleanersEnd
<1>3. CASE AddApp
  <2>1. ~closed /\ main.pc = "changelist" /\ UNCHANGED <<closed, finished, worker, cleaning, dropper>>
    BY <1>3, AddAppNew DEF AddApp
  <2>2. QED
    BY <2>1 DEF WorkersEnd, CleanersEnd
<1>4. CASE StopDropper
  BY <1>4 DEF StopDropper, poolVars, WorkersEnd, CleanersEnd
<1>5. CASE DropAll
  <2>1. ~closed /\ main.pc = "dropAll" /\ UNCHANGED <<closed, finished, worker, dropper>>
    BY <1>5 DEF DropAll, Owned
  <2>2. main'.pc \in {"dropAll", "clean"}
    BY <1>5 DEF DropAll, Shape, UserShape
  <2>3. cleaning'["dropper"] = cleaning["dropper"]
    BY <1>5 DEF DropAll, Dequeue, Droppers, Shape, PoolShape
  <2>4. QED
    BY <2>1, <2>2, <2>3 DEF WorkersEnd, CleanersEnd
<1>6. CASE DropAllCleaned
  BY <1>6 DEF DropAllCleaned, CloseJobs, WorkersEnd, CleanersEnd
<1>7. CASE PoolFinished
  BY <1>7 DEF PoolFinished, WaitForWorkers, Owned, WorkersEnd, CleanersEnd
<1>8. CASE PhaseWaits \/ RedditFails \/ PhaseLeaves
  BY <1>8 DEF PhaseWaits, RedditFails, PhaseLeaves, CloseJobs, poolVars, WorkersEnd, CleanersEnd
<1>9. CASE DropperLooks \/ DropperCleans \/ DropperCleaned
  <2>1. UNCHANGED <<queue, closed, finished, worker, cleaning, main>>
    BY <1>9 DEF DropperLooks, DropperCleans, DropperCleaned, poolVars
  <2>2. dropper'.pc \in {"wait", "ended", "off"} => cleaning["dropper"] = <<>>
    BY <1>9 DEF DropperLooks, DropperCleans, DropperCleaned, CleanersEnd, Shape, UserShape
  <2>3. QED
    BY <2>1, <2>2 DEF WorkersEnd, CleanersEnd
<1>10. CASE DropperDrops
  <2>1. ~closed /\ UNCHANGED <<closed, finished, worker, main>> /\ dropper'.pc = "drop"
    BY <1>10 DEF DropperDrops, Owned, Shape, UserShape
  <2>2. cleaning'["main"] = cleaning["main"]
    BY <1>10 DEF DropperDrops, Dequeue, Droppers, Shape, PoolShape
  <2>3. QED
    BY <2>1, <2>2 DEF WorkersEnd, CleanersEnd
<1>11. ASSUME NEW c \in Consumers, ConsumerTakes(c) \/ ConsumerSaves(c) PROVE WorkersEnd' /\ CleanersEnd'
  <2>1. UNCHANGED <<queue, closed, finished, worker, cleaning, main, dropper>>
    BY <1>11 DEF ConsumerTakes, ConsumerSaves
  <2>2. QED
    BY <2>1 DEF WorkersEnd, CleanersEnd
<1>12. ASSUME NEW j \in Jobs, GameGoroutine(j) PROVE WorkersEnd' /\ CleanersEnd'
  <2>1. UNCHANGED <<closed, finished, worker, cleaning, main, dropper>>
    BY <1>12 DEF GameGoroutine, userVars
  <2>2. ~closed \/ queue' = queue
    BY <1>12 DEF GameGoroutine, AddGame, Send
  <2>3. QED
    BY <2>1, <2>2 DEF WorkersEnd, CleanersEnd
<1>13. CASE CreateInitialSteamApps
  <2>1. /\ UNCHANGED <<queue, closed, finished, worker, cleaning>>
        /\ main.pc = "create" /\ cleaning["dropper"] = <<>>
    BY <1>13 DEF CreateInitialSteamApps, poolVars, Owned, CleanersEnd
  <2>2. QED
    BY <2>1 DEF WorkersEnd, CleanersEnd
<1> QED
  BY <1>1, <1>2, <1>3, <1>4, <1>5, <1>6, <1>7, <1>8, <1>9, <1>10, <1>11, <1>12, <1>13, PoolEnds DEF Next, Websocket,
       Dropper

-----------------------------------------------------------------------------
(* The jobs that are handed to the consumers.                              *)

LEMMA InitHanded == ASSUME Init PROVE Handed
<1>1. \A r \in Receivers : receiver[r].pc # "await"
  <2>1. CASE user # "websocket"
    BY <2>1 DEF Init
  <2>2. CASE user = "websocket"
    BY <2>2 DEF Init
  <2>3. QED BY <2>1, <2>2 DEF Init
<1>2. main.pc # "hand" /\ main.adding = NoJob /\ consumerJobs = <<>>
  BY DEF Init
<1> QED
  BY <1>1, <1>2 DEF Handed, HandedQueue, HandedMain, HandedReceivers

(* A job is new only once, and it stays accepted until someone has asked   *)
(* for its answer.                                                         *)
LEMMA JobSteps ==
    ASSUME Shape, Owned, Once, [Next]_vars, NEW j \in Jobs
    PROVE  /\ job[j] # "new" => job'[j] # "new"
           /\ Unclaimed(j) => job'[j] = "accepted"
<1>1. CASE job' = job
  BY <1>1 DEF Unclaimed
<1>2. ASSUME NEW k \in Jobs, NEW a \in Answers, job[k] # "new", Receive(k, a)
      PROVE  /\ job[j] # "new" => job'[j] # "new"
             /\ Unclaimed(j) => job'[j] = "accepted"
  <2>1. PICK r \in Receivers : receiver[r].pc = "await" /\ receiver[r].job = k
    BY <1>2 DEF Receive
  <2>2. Unclaimed(j) => j # k
    BY <2>1 DEF Unclaimed
  <2>3. job'[k] = "answered" /\ \A i \in Jobs : i # k => job'[i] = job[i]
    BY <1>2, ReceiveOnce
  <2>4. Unclaimed(j) => job[j] = "accepted"
    BY DEF Unclaimed
  <2>5. QED
    BY <2>2, <2>3, <2>4
<1>3. ASSUME NEW w \in Workers, Answer(w)
      PROVE  (job[j] # "new" => job'[j] # "new") /\ (Unclaimed(j) => job'[j] = "accepted")
  <2>1. worker[w].job \in Jobs /\ worker[w].answer \in Answers /\ job[worker[w].job] # "new"
    BY <1>3 DEF Answer, Once, WorkersOnce, Shape, PoolShape
  <2>2. Receive(worker[w].job, worker[w].answer)
    BY <1>3 DEF Answer
  <2>3. QED BY <1>2, <2>1, <2>2
<1>4. ASSUME NEW w \in Workers, Worker(w), ~Answer(w) PROVE job' = job
  BY <1>4 DEF Worker, TakeJob, AcquireGuard, ExecuteJob, ReleaseGuard, EndWorker
<1>5. ASSUME NEW k \in Jobs, Scrape(k) PROVE job' = job
  BY <1>5 DEF Scrape
<1>6. ASSUME NEW d \in Droppers, Clean(d)
      PROVE  (job[j] # "new" => job'[j] # "new") /\ (Unclaimed(j) => job'[j] = "accepted")
  <2>1. PICK i \in 1 .. Len(cleaning[d]) : Receive(cleaning[d][i], "nil")
    BY <1>6 DEF Clean
  <2>2. cleaning[d][i] \in Jobs /\ job[cleaning[d][i]] # "new" /\ "nil" \in Answers
    BY <1>6, QueuesHaveJobs DEF Once, CleaningOnce, Answers
  <2>3. QED BY <1>2, <2>1, <2>2
<1>7. CASE AddApp
  <2>1. job[Min(New)] = "new" /\ (j # Min(New) => job'[j] = job[j])
    BY <1>7, NewJobs, AddAppNew DEF AddApp
  <2>2. QED
    BY <2>1 DEF Unclaimed
<1>8. CASE DropAll \/ DropperDrops
  BY <1>1, <1>8 DEF DropAll, DropperDrops
<1>9. ASSUME NEW k \in Jobs, GameGoroutine(k)
      PROVE  (job[j] # "new" => job'[j] # "new") /\ (Unclaimed(j) => job'[j] = "accepted")
  <2>1. CASE receiver[k].pc = "send"
    <3>1. job[k] = "new" /\ (j # k => job'[j] = job[j])
      BY <1>9, <2>1, NamesDiffer
         DEF GameGoroutine, AddGame, Send, Once, SendersOnce, Shape, PoolShape
    <3>2. QED
      BY <3>1 DEF Unclaimed
  <2>2. CASE receiver[k].pc # "send"
    BY <1>1, <1>9, <2>2 DEF GameGoroutine, AddGame
  <2>3. QED BY <2>1, <2>2
<1>10. CASE UNCHANGED vars
  BY <1>1, <1>10 DEF vars, poolVars
<1> QED
  BY <1>1, <1>3, <1>4, <1>5, <1>6, <1>7, <1>8, <1>9, <1>10, QuietSteps
     DEF Next, PoolNext, Websocket, Dropper, Quiet

(* The head of the consumers' channel.                                     *)
LEMMA ConsumersTail ==
    ASSUME Shape, consumerJobs # <<>>
    PROVE  /\ Len(consumerJobs) \in Nat /\ 1 \in 1 .. Len(consumerJobs) /\ Head(consumerJobs) = consumerJobs[1]
           /\ Len(Tail(consumerJobs)) = Len(consumerJobs) - 1 /\ Tail(consumerJobs) # consumerJobs
           /\ \A i \in 1 .. Len(consumerJobs) - 1 :
                i + 1 \in 1 .. Len(consumerJobs) /\ Tail(consumerJobs)[i] = consumerJobs[i + 1]
  BY HeadTailProperties, LenProperties DEF Shape, UserShape

LEMMA AwaitSteps ==
    ASSUME user = "websocket", NEW r, receiver'[r].pc = "await" PROVE ~Gets(r) /\ ~Adds(r) /\ ~Ends(r)
<1>1. ASSUME Gets(r) PROVE FALSE
  <2>1. PICK j \in Jobs, a \in Answers : receiver'[r] = [pc |-> "use", job |-> j, answer |-> a]
    BY <1>1 DEF Gets
  <2>2. receiver'[r].pc = "use"
    BY <2>1
  <2>3. QED BY <2>2
<1>2. ~Adds(r)
  BY DEF Adds
<1>3. ~Ends(r)
  BY DEF Ends
<1> QED
  BY <1>1, <1>2, <1>3

(* A job that nobody asks for in a step is still nobody's.                 *)
LEMMA UnclaimedStays ==
    ASSUME Shape, Owned, Once, Whole, [Next]_vars, user = "websocket", NEW j \in Jobs, Unclaimed(j),
           \A r \in Receivers : Takes(r) => Head(consumerJobs) # j
    PROVE  Unclaimed(j)'
<1>1. job'[j] = "accepted"
  BY JobSteps
<1>2. ASSUME NEW r \in Receivers, receiver'[r].pc = "await" PROVE receiver'[r].job # j
  <2>1. CASE Stays(r)
    BY <1>2, <2>1 DEF Stays, Unclaimed
  <2>2. CASE Takes(r)
    BY <2>2 DEF Takes
  <2>3. ~Gets(r) /\ ~Adds(r) /\ ~Ends(r)
    BY <1>2, AwaitSteps
  <2>4. QED
    BY <2>1, <2>2, <2>3, ReceiverSteps
<1> QED
  BY <1>1, <1>2 DEF Unclaimed

LEMMA NextHandedReceivers ==
    ASSUME Shape, Owned, Once, Whole, Awaiting, HandedQueue, HandedReceivers, user = "websocket", [Next]_vars
    PROVE  HandedReceivers'
<1> SUFFICES ASSUME NEW r \in Receivers, receiver'[r].pc = "await" PROVE job'[receiver'[r].job] # "new"
  BY DEF HandedReceivers
<1>1. CASE Stays(r)
  BY <1>1, JobSteps DEF Stays, Awaiting, HandedReceivers
<1>2. CASE Takes(r)
  <2>1. receiver'[r].job = consumerJobs[1] /\ consumerJobs[1] \in Jobs /\ Unclaimed(consumerJobs[1])
    BY <1>2, ConsumersTail, QueuesHaveJobs DEF Takes, HandedQueue
  <2>2. QED
    BY <2>1, JobSteps
<1>3. ~Gets(r) /\ ~Adds(r) /\ ~Ends(r)
  BY AwaitSteps
<1> QED
  BY <1>1, <1>2, <1>3, ReceiverSteps

LEMMA UserStays ==
    ASSUME [Next]_vars PROVE user' = user
  BY DEF Next, Websocket, CreateInitialSteamApps, ReadStop, ReadMessage, AddApp, HandToConsumers, StopDropper,
         DropAll, DropAllCleaned, DrainConsumerJobs, JoinConsumers, PoolFinished, Stop, PhaseWaits, RedditFails,
         PhaseLeaves, DropperLooks, Dropper, DropperDrops, DropperCleans, DropperCleaned, ConsumerTakes,
         ConsumerSaves, GameGoroutine, userVars, vars

LEMMA ClosedStays ==
    ASSUME Shape, Owned, Once, user # "websocket", ~PhaseWaits, [Next]_vars PROVE closed' = closed
<1>1. CASE PoolNext
  BY <1>1, PoolKeeps
<1>2. CASE ~PoolNext
  <2>1. main.pc # "clean"
    BY DEF Owned
  <2>2. QED
    BY <1>2, <2>1 DEF Next, Websocket, CreateInitialSteamApps, ReadStop, ReadMessage, AddApp, HandToConsumers,
         StopDropper, DropAll, DropAllCleaned, DrainConsumerJobs, JoinConsumers, PoolFinished, Stop, RedditFails,
         PhaseLeaves, DropperLooks, Dropper, DropperDrops, DropperCleans, DropperCleaned, ConsumerTakes,
         ConsumerSaves, GameGoroutine, poolVars, vars, WaitForWorkers
<1> QED
  BY <1>1, <1>2

LEMMA FailedStays ==
    ASSUME Shape, Owned, closed, [Next]_vars PROVE redditFailed' = redditFailed
  BY DEF Next, Websocket, CreateInitialSteamApps, ReadStop, ReadMessage, AddApp, HandToConsumers, StopDropper,
         DropAll, DropAllCleaned, DrainConsumerJobs, JoinConsumers, PoolFinished, Stop, PhaseWaits, RedditFails,
         PhaseLeaves, DropperLooks, Dropper, DropperDrops, DropperCleans, DropperCleaned, ConsumerTakes,
         ConsumerSaves, GameGoroutine, userVars, vars, Owned

LEMMA NextHanded ==
    ASSUME Shape, Owned, Once, Whole, Awaiting, Handed, [Next]_vars PROVE Handed'
<1>0. user' = user
  BY UserStays
<1>1. CASE user # "websocket"
  <2>1. consumerJobs = <<>> /\ main.pc \in {"work", "left", "wait", "done"} /\ main.adding = NoJob
    BY <1>1 DEF Handed, HandedMain, Owned
  <2>2. consumerJobs' = <<>>
    BY <2>1 DEF Next, Websocket, CreateInitialSteamApps, ReadStop, ReadMessage, AddApp, HandToConsumers,
         StopDropper, DropAll, DropAllCleaned,
           DrainConsumerJobs, JoinConsumers, PoolFinished, Stop, PhaseWaits, RedditFails, PhaseLeaves, DropperLooks,
           Dropper, DropperDrops,
           DropperCleans, DropperCleaned, ConsumerTakes, ConsumerSaves, GameGoroutine, userVars, vars
  <2>3. main'.pc # "hand" /\ main'.adding = NoJob
    <3>1. \/ main' = main
          \/ \E pc \in {"left", "wait", "done", "drain"} : main' = [main EXCEPT !.pc = pc]
      BY <2>1 DEF Next, Websocket, CreateInitialSteamApps, ReadStop, ReadMessage, AddApp, HandToConsumers,
           StopDropper, DropAll, DropAllCleaned,
             DrainConsumerJobs, JoinConsumers, PoolFinished, Stop, PhaseWaits, RedditFails, PhaseLeaves,
             DropperLooks, Dropper, DropperDrops,
             DropperCleans, DropperCleaned, ConsumerTakes, ConsumerSaves, GameGoroutine, userVars, vars
    <3>2. QED
      BY <2>1, <3>1 DEF Shape, UserShape
  <2>4. QED
    BY <1>0, <1>1, <2>2, <2>3 DEF Handed, HandedQueue, HandedMain
<1>2. CASE user = "websocket"
  <2>1. HandedReceivers'
    BY <1>2, NextHandedReceivers DEF Handed
  <2>2. ASSUME HandedQueue', HandedMain' PROVE Handed'
    BY <1>0, <1>2, <2>1, <2>2 DEF Handed
  <2>3. ASSUME NEW j \in Jobs, Unclaimed(j), consumerJobs' = consumerJobs PROVE Unclaimed(j)'
    <3>1. \A r \in Receivers : ~Takes(r)
      BY <2>3, ConsumersTail DEF Takes
    <3>2. QED
      BY <1>2, <2>3, <3>1, UnclaimedStays
  <2>4. ASSUME consumerJobs' = consumerJobs PROVE HandedQueue'
    BY <2>3, <2>4, QueuesHaveJobs DEF Handed, HandedQueue
  <2>5. CASE UNCHANGED <<main, consumerJobs>>
    <3>1. main.pc = "hand" => main.adding \in Jobs
      BY DEF Handed, HandedMain, Shape, UserShape
    <3>2. HandedMain'
      BY <2>3, <2>5, <3>1 DEF Handed, HandedMain
    <3>3. QED
      BY <2>2, <2>4, <2>5, <3>2
  <2>6. ASSUME consumerJobs' = consumerJobs, main.pc # "hand", main'.pc # "hand", main'.adding = main.adding
        PROVE  Handed'
    <3>1. HandedMain'
      BY <2>6 DEF Handed, HandedMain
    <3>2. QED
      BY <2>2, <2>4, <2>6, <3>1
  <2>7. CASE \/ CreateInitialSteamApps \/ ReadStop \/ ReadMessage \/ StopDropper \/ DropAll \/ DropAllCleaned
             \/ JoinConsumers \/ PoolFinished
    <3>1. consumerJobs' = consumerJobs /\ main.pc # "hand" /\ main'.pc # "hand" /\ main'.adding = main.adding
      BY <2>7 DEF CreateInitialSteamApps, ReadStop, ReadMessage, StopDropper, DropAll, DropAllCleaned,
           JoinConsumers, PoolFinished, Adding,
             Shape, UserShape
    <3>2. QED BY <2>6, <3>1
  <2>8. CASE PhaseWaits \/ PhaseLeaves
    <3>1. consumerJobs' = consumerJobs /\ main.pc # "hand" /\ main'.pc # "hand" /\ main'.adding = main.adding
      BY <2>8 DEF PhaseWaits, PhaseLeaves, Shape, UserShape
    <3>2. QED BY <2>6, <3>1
  <2>9. CASE AddApp
    <3>1. /\ consumerJobs' = consumerJobs /\ receiver' = receiver
          /\ main'.pc = IF job'[Min(New)] = "accepted" THEN "hand" ELSE Adding(main.apps - 1)
          /\ main'.adding = IF job'[Min(New)] = "accepted" THEN Min(New) ELSE NoJob
      BY <2>9 DEF AddApp, Shape, UserShape
    <3>2. Min(New) \in Jobs /\ job[Min(New)] = "new"
      BY <2>9, NewJobs DEF AddApp
    <3>3. \A i \in 1 .. Len(consumerJobs) : consumerJobs[i] # Min(New)
      BY <3>2 DEF Handed, HandedQueue, Unclaimed
    <3>4. \A r \in Receivers : receiver[r].pc = "await" => receiver[r].job # Min(New)
      BY <1>2, <3>2 DEF Handed, HandedReceivers
    <3>5. CASE job'[Min(New)] = "accepted"
      <4>1. main'.pc = "hand" /\ main'.adding = Min(New) /\ main'.adding # NoJob
        BY <3>1, <3>2, <3>5, NamesDiffer
      <4>2. \A r \in Receivers : receiver'[r].pc = "await" => receiver'[r].job # main'.adding
        BY <3>1, <3>4, <4>1
      <4>3. Unclaimed(main.adding)'
        BY <3>5, <4>1, <4>2 DEF Unclaimed
      <4>4. \A i \in 1 .. Len(consumerJobs') : consumerJobs'[i] # main'.adding
        BY <3>1, <3>3, <4>1
      <4>5. HandedMain'
        BY <4>1, <4>3, <4>4 DEF HandedMain
      <4>6. QED
        BY <2>2, <2>4, <3>1, <4>5
    <3>6. CASE job'[Min(New)] # "accepted"
      <4>1. main'.pc # "hand" /\ main'.adding = NoJob
        BY <3>1, <3>6 DEF Adding
      <4>2. HandedMain'
        BY <4>1 DEF HandedMain
      <4>3. QED
        BY <2>2, <2>4, <3>1, <4>2
    <3>7. QED BY <3>5, <3>6
  <2>10. CASE HandToConsumers
    <3>1. /\ consumerJobs' = Append(consumerJobs, main.adding) /\ UNCHANGED <<job, receiver>>
          /\ main'.pc = Adding(main.apps) /\ main'.adding = NoJob /\ main.pc = "hand"
      BY <2>10 DEF HandToConsumers, poolVars, Shape, UserShape
    <3>2. main.adding \in Jobs /\ Unclaimed(main.adding)
      BY <3>1 DEF Handed, HandedMain, Shape, UserShape
    <3>3. /\ Len(consumerJobs) \in Nat /\ Len(consumerJobs') = Len(consumerJobs) + 1
          /\ consumerJobs'[Len(consumerJobs) + 1] = main.adding
          /\ \A i \in 1 .. Len(consumerJobs) : consumerJobs'[i] = consumerJobs[i]
      BY <3>1, <3>2, LenProperties, AppendProperties DEF Shape, UserShape
    <3>4. \A i \in 1 .. Len(consumerJobs') : i = Len(consumerJobs) + 1 \/ i \in 1 .. Len(consumerJobs)
      BY <3>3
    <3>5. \A i \in 1 .. Len(consumerJobs) : consumerJobs[i] # main.adding /\ Unclaimed(consumerJobs[i])
      BY <3>1 DEF Handed, HandedMain, HandedQueue
    <3>6. ASSUME NEW i \in 1 .. Len(consumerJobs') PROVE Unclaimed(consumerJobs[i])'
      <4>1. Unclaimed(consumerJobs'[i])
        BY <3>2, <3>3, <3>4, <3>5
      <4>2. QED
        BY <3>1, <4>1 DEF Unclaimed
    <3>7. ASSUME NEW i \in 1 .. Len(consumerJobs'), NEW k \in 1 .. Len(consumerJobs'), i # k
          PROVE  consumerJobs'[i] # consumerJobs'[k]
      BY <3>3, <3>4, <3>5, <3>7 DEF Handed, HandedQueue
    <3>8. HandedQueue'
      BY <3>6, <3>7 DEF HandedQueue
    <3>9. HandedMain'
      BY <3>1 DEF HandedMain, Adding
    <3>10. QED BY <2>2, <3>8, <3>9
  <2>11. CASE consumerJobs # <<>> /\ consumerJobs' = Tail(consumerJobs) /\ main' = main
               /\ \A r \in Receivers : Takes(r) => Head(consumerJobs) = consumerJobs[1]
    <3>1. ASSUME NEW j \in Jobs, Unclaimed(j), j # consumerJobs[1] PROVE Unclaimed(j)'
      BY <1>2, <2>11, <3>1, UnclaimedStays
    <3>2. ASSUME NEW i \in 1 .. Len(consumerJobs')
          PROVE  /\ i + 1 \in 1 .. Len(consumerJobs) /\ consumerJobs'[i] = consumerJobs[i + 1]
                 /\ consumerJobs[i + 1] # consumerJobs[1] /\ consumerJobs[i + 1] \in Jobs
      <4>1. i + 1 \in 1 .. Len(consumerJobs) /\ consumerJobs'[i] = consumerJobs[i + 1] /\ i + 1 # 1
        <5>1. Len(consumerJobs') = Len(consumerJobs) - 1 /\ Len(consumerJobs) \in Nat
          BY <2>11, ConsumersTail
        <5>2. i \in 1 .. Len(consumerJobs) - 1 /\ i + 1 # 1
          BY <5>1
        <5>3. QED
          BY <2>11, <5>2, ConsumersTail
      <4>2. 1 \in 1 .. Len(consumerJobs)
        BY <2>11, ConsumersTail
      <4>3. QED
        BY <4>1, <4>2, QueuesHaveJobs DEF Handed, HandedQueue
    <3>3. ASSUME NEW i \in 1 .. Len(consumerJobs') PROVE Unclaimed(consumerJobs[i])'
      <4>1. Unclaimed(consumerJobs[i + 1])
        BY <3>2 DEF Handed, HandedQueue
      <4>2. \A j \in Jobs : Unclaimed(j) /\ j # consumerJobs[1] => Unclaimed(j)'
        BY <3>1
      <4>3. Unclaimed(consumerJobs'[i]) /\ consumerJobs'[i] \in Jobs /\ consumerJobs'[i] # consumerJobs[1]
        BY <3>2, <4>1
      <4>4. PICK j \in Jobs : j = consumerJobs'[i] /\ Unclaimed(j)'
        BY <4>2, <4>3
      <4>5. QED
        BY <4>4 DEF Unclaimed
    <3>4. ASSUME NEW i \in 1 .. Len(consumerJobs'), NEW k \in 1 .. Len(consumerJobs'), i # k
          PROVE  consumerJobs'[i] # consumerJobs'[k]
      <4>1. i + 1 # k + 1
        BY <3>4
      <4>2. QED
        BY <3>2, <4>1 DEF Handed, HandedQueue
    <3>5. HandedQueue'
      BY <3>3, <3>4 DEF HandedQueue
    <3>6. HandedMain'
      <4>1. CASE main.pc = "hand"
        <5>1. main.adding \in Jobs /\ Unclaimed(main.adding) /\ 1 \in 1 .. Len(consumerJobs)
          BY <2>11, <4>1, ConsumersTail DEF Handed, HandedMain, Shape, UserShape
        <5>2. \A i \in 1 .. Len(consumerJobs) : consumerJobs[i] # main.adding
          BY <4>1 DEF Handed, HandedMain
        <5>3. PICK j \in Jobs : j = main.adding /\ Unclaimed(j)'
          BY <3>1, <5>1, <5>2
        <5>4. Unclaimed(main.adding)'
          BY <2>11, <5>3 DEF Unclaimed
        <5>5. \A i \in 1 .. Len(consumerJobs') : consumerJobs'[i] # main'.adding
          BY <2>11, <3>2, <5>2
        <5>6. QED
          BY <2>11, <4>1, <5>1, <5>4, <5>5 DEF Handed, HandedMain
      <4>2. CASE main.pc # "hand"
        BY <2>11, <4>2 DEF Handed, HandedMain
      <4>3. QED BY <4>1, <4>2
    <3>7. QED BY <2>2, <3>5, <3>6
  <2>12. consumerJobs # <<>> => Head(consumerJobs) = consumerJobs[1]
    BY ConsumersTail
  <2>13. CASE DrainConsumerJobs
    <3>1. CASE consumerJobs # <<>>
      BY <2>11, <2>12, <2>13, <3>1 DEF DrainConsumerJobs
    <3>2. CASE consumerJobs = <<>>
      <4>1. consumerJobs' = consumerJobs /\ main.pc # "hand" /\ main'.pc # "hand" /\ main'.adding = main.adding
        BY <2>13, <3>2 DEF DrainConsumerJobs, Shape, UserShape
      <4>2. QED BY <2>6, <4>1
    <3>3. QED BY <3>1, <3>2
  <2>14. ASSUME NEW c \in Consumers, ConsumerTakes(c) \/ ConsumerSaves(c) PROVE Handed'
    <3>1. CASE consumerJobs # <<>> /\ consumerJobs' = Tail(consumerJobs)
      BY <2>11, <2>12, <2>14, <3>1 DEF ConsumerTakes, ConsumerSaves
    <3>2. CASE consumerJobs' = consumerJobs
      BY <2>5, <2>14, <3>2 DEF ConsumerTakes, ConsumerSaves
    <3>3. QED
      BY <2>14, <3>1, <3>2 DEF ConsumerTakes, ConsumerSaves
  <2>15. CASE (PoolNext /\ UNCHANGED userVars) \/ Stop \/ RedditFails \/ DropperLooks \/ Dropper \/ UNCHANGED vars
    BY <2>5, <2>15 DEF userVars, vars, Stop, RedditFails, DropperLooks, Dropper, DropperDrops, DropperCleans,
         DropperCleaned
  <2>16. ASSUME NEW j \in Jobs, GameGoroutine(j) PROVE Handed'
    BY <1>2, <2>16 DEF GameGoroutine
  <2>17. QED
    BY <2>7, <2>8, <2>9, <2>10, <2>13, <2>14, <2>15, <2>16 DEF Next, Websocket
<1>3. user # "websocket" \/ user = "websocket"
  BY DEF Shape, UserShape
<1> QED
  BY <1>1, <1>2, <1>3

-----------------------------------------------------------------------------
(* Those that DiscoveryPhase waited for have ended, and stay so.           *)

LEMMA NextAwaited ==
    ASSUME Shape, Owned, Awaited, Once, Whole, [Next]_vars PROVE Awaited'
<1>1. user' = user
  BY UserStays
<1>2. CASE PhaseWaits
  BY <1>1, <1>2 DEF PhaseWaits, CloseJobs, Awaited, Discovered
<1>3. CASE user = "discovery" /\ ~PhaseWaits
  <2>1. closed' = closed
    BY <1>3, ClosedStays
  <2>2. ASSUME closed, NEW j \in Jobs PROVE receiver'[j].pc = "ended" \/ (redditFailed' /\ j \in Posts)
    <3>1. redditFailed' = redditFailed
      BY <2>2, FailedStays
    <3>2. j \in Receivers
      BY NamesDiffer
    <3>3. receiver[j].pc = "ended" => receiver'[j] = receiver[j]
      BY <1>3, <3>2, ReceiverSteps, NamesDiffer DEF Stays, Gets, Takes, Adds, Ends
    <3>4. QED
      BY <1>3, <2>2, <3>1, <3>3 DEF Awaited, Discovered
  <2>3. QED
    BY <1>1, <2>1, <2>2 DEF Awaited, Discovered
<1> QED
  BY <1>1, <1>2, <1>3 DEF Awaited

-----------------------------------------------------------------------------
(* The theorems.                                                           *)

LEMMA InitInv == ASSUME Init PROVE Inv
<1>1. OnlyUnawaitedPanic /\ Awaited
  BY InitShape DEF OnlyUnawaitedPanic, Awaited, Init, PoolInit
<1> QED
  BY <1>1, InitShape, InitGuarded, InitOwned, InitOnce, InitLocated, InitHanded DEF Inv

LEMMA NextInv == ASSUME Inv, [Next]_vars PROVE Inv'
<1>1. Shape' /\ Guarded' /\ Owned' /\ Awaited' /\ Once'
  BY NextShape, NextGuarded, NextOwned, NextAwaited, NextOnce DEF Inv
<1>2. Whole' /\ Awaiting' /\ Handed' /\ OnlyUnawaitedPanic'
  BY NextWhole, NextHanded, NextPanics DEF Inv
<1>3. Located'
  BY NextPending, NextEnds DEF Inv, Located
<1> QED
  BY <1>1, <1>2, <1>3 DEF Inv

LEMMA InvHolds == Spec => []Inv
  BY InitInv, NextInv, PTL DEF Spec

(* The pool and its users keep their types, and no more workers scrape at  *)
(* the same time than maxConcurrentWorkers.                                *)
THEOREM TypeCorrect == Spec => []TypeOK
<1>1. Inv => TypeOK
  <2> SUFFICES ASSUME Inv PROVE TypeOK
    OBVIOUS
  <2>1. PoolTypeOK
    BY NamesDiffer DEF Inv, Shape, PoolShape, Guarded, PoolTypeOK, WorkerPcs, ReceiverPcs
  <2>2. JobsPerMinute \in Nat /\ MaxJobs \in Nat
    BY ScrapersAssumption, SockAssumption
  <2>3. dropper.toDrop \in 0 .. 2 * JobsPerMinute /\ dropper.previous \in -2 * JobsPerMinute .. MaxJobs
    BY <2>2 DEF Inv, Shape, UserShape
  <2>4. QED
    BY <2>1, <2>3 DEF Inv, Shape, UserShape, TypeOK, MainPcs
<1> QED
  BY <1>1, InvHolds, PTL

(* Nobody but a goroutine of UpdateDeveloper, or one with a post of a      *)
(* RedditDiscoveryPhase that returned early, sends on the closed channel,  *)
(* and nobody drops from it: the dropper and the websocket worker are past *)
(* that when gameScrapers.Stop closes it, and the TransformWorkers that    *)
(* DiscoveryPhase waited for when it calls Wait.                           *)
THEOREM PanicsAreOfUnawaited == Spec => []OnlyUnawaitedPanic
<1>1. Inv => OnlyUnawaitedPanic
  BY DEF Inv
<1> QED
  BY <1>1, InvHolds, PTL

(* Once Wait or Stop is done with the workers, no job is left that Add     *)
(* accepted and nobody answered, and nothing is left in the consumers'     *)
(* channel: what waits there would be such a job.                          *)
THEOREM JobsAreAnswered == Spec => []AcceptedAnswered
<1>1. Inv => AcceptedAnswered
  <2> SUFFICES ASSUME Inv, finished PROVE consumerJobs = <<>> /\ \A j \in Jobs : job[j] # "accepted"
    BY DEF AcceptedAnswered
  <2>1. closed /\ (\A w \in Workers : worker[w].pc = "ended") /\ queue = <<>>
    BY ScrapersAssumption DEF Inv, Located, WorkersEnd
  <2>2. main.pc \in {"wait", "drain", "join", "done"} /\ dropper.pc \in {"off", "ended"}
    BY <2>1 DEF Inv, Owned
  <2>3. \A d \in Droppers : cleaning[d] = <<>>
    BY <2>2 DEF Inv, Located, CleanersEnd, Droppers
  <2>4. \A j \in Jobs : ~InQueue(j) /\ ~AtWorker(j) /\ ~AtCleaner(j)
    BY <2>1, <2>3 DEF InQueue, AtWorker, AtCleaner
  <2>5. \A j \in Jobs : job[j] # "accepted"
    BY <2>4 DEF Inv, Located, Pending, Placed
  <2>6. consumerJobs = <<>>
    <3>1. ASSUME consumerJobs # <<>> PROVE FALSE
      <4>1. 1 \in 1 .. Len(consumerJobs)
        BY <3>1, ConsumersTail DEF Inv
      <4>2. job[consumerJobs[1]] = "accepted" /\ consumerJobs[1] \in Jobs
        BY <4>1, QueuesHaveJobs DEF Inv, Handed, HandedQueue, Unclaimed
      <4>3. QED BY <2>5, <4>2
    <3>2. QED BY <3>1
  <2>7. QED BY <2>5, <2>6
<1> QED
  BY <1>1, InvHolds, PTL

(* Whoever gets a game gets one whose scrape is done, though a scrape goes *)
(* on after its time: no scrape begins anew for a job that was answered.   *)
THEOREM GamesAreWhole == Spec => []AnswersAreWhole
<1>1. Inv => AnswersAreWhole
  BY DEF Inv, Whole, AnswersAreWhole
<1> QED
  BY <1>1, InvHolds, PTL
=================================================================================
