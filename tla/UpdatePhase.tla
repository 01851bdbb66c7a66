------------------------------ MODULE UpdatePhase ------------------------------
(***************************************************************************)
(* The Update phase of the Scout procedure (update.go), with the parts of  *)
(* the procedure (scout.go), the phase runner (phase.go) and the saved     *)
(* state (state.go) it meets: it reads which developers were dealt with,   *)
(* and saves that list so that a later process can continue.               *)
(*                                                                         *)
(* Two producers put the developers to update in the jobs channel, one     *)
(* batch at a time; workers run UpdateDeveloper and put the outcome in the *)
(* results channel; one consumer merges each good result in the state and  *)
(* tells the producer that the job has finished.  The main goroutine joins *)
(* them: producers, then workers, then consumer.                           *)
(*                                                                         *)
(* A job is identified by its developer, since an execution queues a       *)
(* developer once.  The channels are sets: they are big enough never to    *)
(* block a sender, and no property depends on the order of their elements. *)
(***************************************************************************)
EXTENDS Naturals, FiniteSets, Sequences, Functions

CONSTANTS
    TwitterDevs,    \* enabled developers with a snapshot in the DB, by type
    RedditDevs,
    Discovered,     \* those that the Discovery phase has just scraped
    Workers,        \* the updateDeveloperWorker goroutines
    BatchSize,      \* State.BatchSize: good results between two saves
    RateWindows,    \* requests left in the RecentSearch rate limits read
    RedditBatch,    \* int(BatchSize * RedditProducerBatchMultiplier)
    Outcomes,       \* what UpdateDeveloper may answer
    MaxTimeouts,    \* UpdateProducerFinishedJobMaxTimeouts
    Stalls,         \* may a producer see no finished job for longer than that?
    BudgetShort,    \* may there be too few tweets left for the Twitter developers?
    QueryFails,     \* may the database not answer which developers there are?
    MaxFaults,      \* bound on the crashes and Scout timeouts injected
    ScoutTimesOut,  \* may the procedure reach ScoutTimeout?
    NoDev,          \* the absence of a developer
    NoSave          \* the absence of a saved state

Dev == TwitterDevs \cup RedditDevs
Producers == {"twitter", "reddit"}
Devs(p) == IF p = "twitter" THEN TwitterDevs ELSE RedditDevs

ASSUME DevAssumption ==
    /\ IsFiniteSet(TwitterDevs) /\ IsFiniteSet(RedditDevs)
    /\ TwitterDevs \cap RedditDevs = {}
    /\ NoDev \notin Dev
    /\ Discovered \subseteq Dev
    /\ Workers # {}

ASSUME ConfigAssumption ==
    /\ BatchSize \in Nat \ {0}
    /\ RateWindows \subseteq Nat \ {0}
    /\ RedditBatch \in Nat \ {0}
    /\ Outcomes \subseteq {"ok", "temporary", "permanent", "unread"}
    /\ MaxTimeouts \in Nat
    /\ MaxFaults \in Nat
    /\ Stalls \in BOOLEAN /\ BudgetShort \in BOOLEAN
    /\ QueryFails \in BOOLEAN /\ ScoutTimesOut \in BOOLEAN

(* What ScoutState keeps for this phase.  A developer has its times in     *)
(* UserTweetTimes or RedditUserPostTimes, its partial snapshots (counted)  *)
(* in DeveloperSnapshots or RedditDeveloperSnapshots.                      *)
ScoutState ==
    [times: SUBSET Dev, snaps: [Dev -> Nat],
     updated: Seq(Dev),       \* State.UpdatedDevelopers
     developers: Nat]         \* State.Result.UpdateStats.Developers

Blank == [times |-> {}, snaps |-> [d \in Dev |-> 0], updated |-> <<>>, developers |-> 0]

ASSUME NoSaveAssumption == NoSave \notin ScoutState

(* The fields that are merged; Save serialises these and the State.        *)
Fields == {"times", "snaps"}
Parts == Fields \cup {"state"}

VARIABLES
    pc,         \* where the main goroutine is; "down" when no process runs
    mem,        \* the ScoutState in memory
    disk,       \* the ScoutState on disk, or NoSave when it is not all there
    \* the producer goroutines, by type of developer
    prod,       \* where each one is
    batched,    \* does it wait for the jobs of a batch before the next?
    window,     \* high - low: size of its current batch
    unqueued,   \* its developers from low on
    waiting,    \* jobIds: its jobs queued in this batch and not ticked off
    timeouts,   \* noFinishedJobs
    \* the channels, the workers and the consumer
    jobs, results, finished,
    worker,     \* the developer each worker is updating
    exited,     \* the workers that have returned
    cons,       \* where the consumer is
    consDev,    \* the developer of the result it holds
    toMerge,    \* the fields of that result it has still to merge
    batchCount, \* resultBatchCount
    \* the process around the phase
    returning,  \* progress of Scout's return after ScoutTimeout
    unsaved,    \* the parts of the state it has still to serialise
    draft,      \* and what it has serialised
    faults,     \* faults injected so far
    skipped     \* (history) developers this execution leaves without an update

prodVars == <<prod, batched, window, unqueued, waiting, timeouts>>
chanVars == <<jobs, results, finished>>
workVars == <<worker, exited>>
consVars == <<cons, consDev, toMerge, batchCount>>
pipeVars == <<prodVars, chanVars, workVars, consVars>>
timeoutVars == <<returning, unsaved, draft>>
procVars == <<timeoutVars, faults>>
vars == <<pc, mem, disk, pipeVars, procVars, skipped>>

-----------------------------------------------------------------------------
(* The main goroutine's steps while the pipeline runs, in order, and the   *)
(* steps after it.                                                         *)
Joining == {"twitter", "reddit", "workers", "consumer"}
MainSteps == Joining \cup
    {"start", "returned", "erased", "complete", "failed", "failedErased", "down", "lost"}

JobsClosed == pc \in {"workers", "consumer"}
ResultsClosed == pc = "consumer"

(* Mutant of Excluded: the developers updated before are forgotten.        *)
ExcludedWithoutUpdated(state) == {d \in TwitterDevs : state.snaps[d] > 0}

(* The developers UpdatePhase does not select: Phase.Run passes it the     *)
(* keys of DeveloperSnapshots, which holds Twitter developers only, and    *)
(* the UpdatedDevelopers.                                                  *)
Excluded(state) ==
    {d \in TwitterDevs : state.snaps[d] > 0} \cup Range(state.updated)

Unscraped == Dev \ Excluded(mem)

(* Mutant of Fetched: the query forgets the type of the developers.        *)
FetchedUntyped(p) == {Unscraped}

(* The answers to the query for the developers of a type.  Phase.Run goes  *)
(* on without an answer.                                                   *)
Fetched(p) ==
    {Unscraped \cap Devs(p)} \cup (IF QueryFails THEN {{}} ELSE {})

Smaller(a, b) == IF a <= b THEN a ELSE b

(* Sizes a producer may give its first batch.  Nothing bounds them by the  *)
(* number of developers, except for a Twitter producer that found no       *)
(* request left: that one slept until the reset first, and its next window *)
(* is clamped (an empty batch changes nothing and is not a step here).     *)
FirstWindows(p, n) ==
    IF p = "twitter"
    THEN RateWindows \cup {Smaller(r, n) : r \in RateWindows}
    ELSE {RedditBatch}

(* Sizes of the batches that follow, clamped to the developers left.       *)
NextWindows(p, n) ==
    IF p = "twitter" THEN {Smaller(r, n) : r \in RateWindows}
                     ELSE {Smaller(RedditBatch, n)}

(* The Twitter developers kept.  With too few tweets for all of them, the  *)
(* code tries shorter lists, the lengths of which it counts from the       *)
(* number of REDDIT developers: with none of those it keeps everybody.     *)
Affordable(T, R) ==
    {T} \cup {S \in SUBSET T \ {{}} : BudgetShort /\ 2 < Cardinality(R)
                                                /\ Cardinality(S) < Cardinality(R)}

-----------------------------------------------------------------------------
NoPipeline ==
    /\ prod = [p \in Producers |-> "none"]
    /\ batched = [p \in Producers |-> TRUE]
    /\ window = [p \in Producers |-> 0]
    /\ unqueued = [p \in Producers |-> {}]
    /\ waiting = [p \in Producers |-> {}]
    /\ timeouts = [p \in Producers |-> 0]
    /\ jobs = {}
    /\ results = {}
    /\ finished = [p \in Producers |-> {}]
    /\ worker = [w \in Workers |-> NoDev]
    /\ exited = {}
    /\ cons = "none"
    /\ consDev = NoDev
    /\ toMerge = {}
    /\ batchCount = 0

(* The phase starts from the state that phaseAfter saved at the end of the *)
(* Discovery phase.                                                        *)
Init ==
    /\ pc = "start"
    /\ mem = [times |-> Discovered,
              snaps |-> [d \in Dev |-> IF d \in Discovered THEN 1 ELSE 0],
              updated |-> <<>>, developers |-> 0]
    /\ disk = mem
    /\ NoPipeline
    /\ returning = "no"
    /\ unsaved = {}
    /\ draft = Blank
    /\ faults = 0
    /\ skipped = {}

(* The process ends, and every goroutine and channel with it.              *)
ProcessEnds ==
    /\ pc' = "down"
    /\ prod' = [p \in Producers |-> "none"]
    /\ batched' = [p \in Producers |-> TRUE]
    /\ window' = [p \in Producers |-> 0]
    /\ unqueued' = [p \in Producers |-> {}]
    /\ waiting' = [p \in Producers |-> {}]
    /\ timeouts' = [p \in Producers |-> 0]
    /\ jobs' = {}
    /\ results' = {}
    /\ finished' = [p \in Producers |-> {}]
    /\ worker' = [w \in Workers |-> NoDev]
    /\ exited' = {}
    /\ cons' = "none"
    /\ consDev' = NoDev
    /\ toMerge' = {}
    /\ batchCount' = 0
    /\ returning' = "no"
    /\ unsaved' = {}
    /\ draft' = Blank
    /\ skipped' = {}

-----------------------------------------------------------------------------
(* UpdatePhase, main goroutine.                                            *)

(* The last query failed, and there is nobody to update: the phase returns *)
(* the error of the query.                                                 *)
QueryError ==
    /\ pc = "start"
    /\ QueryFails
    /\ {} \in Fetched("twitter")
    /\ pc' = "failed"
    /\ UNCHANGED <<mem, disk, pipeVars, procVars, skipped>>

(* Too few tweets even for the shortest list.                              *)
RefusePhase ==
    /\ pc = "start"
    /\ BudgetShort
    /\ Unscraped \cap TwitterDevs # {}
    /\ Unscraped \cap RedditDevs # {}
    /\ pc' = "failed"
    /\ UNCHANGED <<mem, disk, pipeVars, procVars, skipped>>

(* A shorter list is empty (no developer has a weighted score yet), and    *)
(* the division of the tweets by its length panics.                        *)
BudgetPanics ==
    /\ pc = "start"
    /\ BudgetShort
    /\ Unscraped \cap TwitterDevs # {}
    /\ Cardinality(Unscraped \cap RedditDevs) > 1
    /\ ProcessEnds
    /\ UNCHANGED <<mem, disk, faults>>

NothingToUpdate ==
    /\ pc = "start"
    /\ {} \in Fetched("twitter")
    /\ Unscraped \cap RedditDevs = {}
    /\ pc' = "returned"
    /\ skipped' = Unscraped
    /\ UNCHANGED <<mem, disk, pipeVars, procVars>>

(* Find the developers, make the channels, start the goroutines.           *)
StartPipeline ==
    /\ pc = "start"
    /\ pc' = "twitter"
    /\ prod' = [p \in Producers |-> "slice"]
    /\ \E F \in Fetched("twitter"), R \in Fetched("reddit"), batch \in BOOLEAN :
         /\ F \cup R # {}
         /\ \E T \in Affordable(F, R) :
              /\ unqueued' = [p \in Producers |-> IF p = "twitter" THEN T ELSE R]
              /\ skipped' = Unscraped \ (T \cup R)
              /\ batched' = [p \in Producers |-> p = "twitter" => batch]
              /\ \E t \in IF batch THEN FirstWindows("twitter", Cardinality(T))
                                  ELSE {Cardinality(T)},
                    r \in FirstWindows("reddit", Cardinality(R)) :
                   window' = [p \in Producers |-> IF p = "twitter" THEN t ELSE r]
    /\ cons' = "idle"
    /\ UNCHANGED <<mem, disk, waiting, timeouts, chanVars, workVars,
                   consDev, toMerge, batchCount, procVars>>

(* Wait for a producer to be done; after the second one, close jobs.       *)
JoinProducer(p, here, next) ==
    /\ pc = here
    /\ prod[p] = "done"
    /\ prod' = [prod EXCEPT ![p] = "none"]
    /\ pc' = next
    /\ UNCHANGED <<mem, disk, batched, window, unqueued, waiting, timeouts,
                   chanVars, workVars, consVars, procVars, skipped>>

JoinTwitter == JoinProducer("twitter", "twitter", "reddit")
JoinReddit == JoinProducer("reddit", "reddit", "workers")

(* Mutant of JoinWorkers: close results without waiting for the workers.   *)
JoinWorkersTooEarly ==
    /\ pc = "workers"
    /\ pc' = "consumer"
    /\ UNCHANGED <<mem, disk, pipeVars, procVars, skipped>>

(* Wait for the workers, then close results.                               *)
JoinWorkers ==
    /\ pc = "workers"
    /\ exited = Workers
    /\ pc' = "consumer"
    /\ UNCHANGED <<mem, disk, pipeVars, procVars, skipped>>

(* Receive nil from consumerDone: the phase returns without an error.      *)
JoinConsumer ==
    /\ pc = "consumer"
    /\ cons = "sending"
    /\ cons' = "none"
    /\ pc' = "returned"
    /\ UNCHANGED <<mem, disk, prodVars, chanVars, workVars,
                   consDev, toMerge, batchCount, procVars, skipped>>

-----------------------------------------------------------------------------
(* The producers: twitterBatchProducer, redditBatchProducer, and the       *)
(* goroutine that queues every Twitter developer at once when the rate     *)
(* limit allows it.                                                        *)

ProducerFinished(p) ==
    /\ prod[p] = "slice"
    /\ unqueued[p] = {}
    /\ prod' = [prod EXCEPT ![p] = "done"]
    /\ UNCHANGED <<pc, mem, disk, batched, window, unqueued, waiting, timeouts,
                   chanVars, workVars, consVars, procVars, skipped>>

(* unscrapedDevelopers[low:high] with high past the end.  The goroutine    *)
(* panics, or, when the slice has the capacity, queues jobs without a      *)
(* developer, and the worker that takes one panics: no recover is in the   *)
(* way of either.                                                          *)
SliceOutOfRange(p) ==
    /\ prod[p] = "slice"
    /\ unqueued[p] # {}
    /\ window[p] > Cardinality(unqueued[p])
    /\ ProcessEnds
    /\ UNCHANGED <<mem, disk, faults>>

SliceInRange(p) ==
    /\ prod[p] = "slice"
    /\ unqueued[p] # {}
    /\ window[p] <= Cardinality(unqueued[p])
    /\ prod' = [prod EXCEPT ![p] = "queue"]
    /\ UNCHANGED <<pc, mem, disk, batched, window, unqueued, waiting, timeouts,
                   chanVars, workVars, consVars, procVars, skipped>>

(* queueDeveloperRange, one job at a time.  Nobody is ticked off before    *)
(* the whole batch is queued, so waiting counts the jobs queued so far.    *)
QueueJob(p) ==
    /\ prod[p] = "queue"
    /\ \E d \in unqueued[p] :
         /\ jobs' = jobs \cup {d}
         /\ unqueued' = [unqueued EXCEPT ![p] = @ \ {d}]
         /\ waiting' = [waiting EXCEPT ![p] = @ \cup {d}]
         /\ prod' = IF Cardinality(waiting[p] \cup {d}) < window[p]
                    THEN prod
                    ELSE [prod EXCEPT ![p] = IF batched[p] THEN "wait" ELSE "done"]
    /\ UNCHANGED <<pc, mem, disk, batched, window, timeouts, results, finished,
                   workVars, consVars, procVars, skipped>>

TickOff(p) ==
    /\ prod[p] = "wait"
    /\ waiting[p] # {}
    /\ \E d \in finished[p] :
         /\ finished' = [finished EXCEPT ![p] = @ \ {d}]
         /\ waiting' = [waiting EXCEPT ![p] = @ \ {d}]
    /\ timeouts' = [timeouts EXCEPT ![p] = 0]
    /\ UNCHANGED <<pc, mem, disk, prod, batched, window, unqueued, jobs, results,
                   workVars, consVars, procVars, skipped>>

(* Another UpdateProducerFinishedJobTimeout went by.  After MaxTimeouts of *)
(* them the producer empties the jobs channel and waits on: its break      *)
(* leaves the select, not the loop, and jobIds stays as it is.  (timeouts  *)
(* stops at MaxTimeouts + 1, where its value no longer matters.)           *)
TimeOut(p) ==
    /\ prod[p] = "wait"
    /\ waiting[p] # {}
    /\ finished[p] = {}
    /\ Stalls \/ timeouts[p] < MaxTimeouts
    /\ timeouts' = [timeouts EXCEPT ![p] = Smaller(@ + 1, MaxTimeouts + 1)]
    /\ IF timeouts[p] < MaxTimeouts
       THEN UNCHANGED <<jobs, skipped>>
       ELSE /\ jobs' = {}
            /\ skipped' = skipped \cup jobs
    /\ UNCHANGED <<pc, mem, disk, prod, batched, window, unqueued, waiting,
                   results, finished, workVars, consVars, procVars>>

(* Mutant of NextBatch: a batch that was dropped is not waited for.        *)
NextBatchAfterDrop(p) ==
    /\ prod[p] = "wait"
    /\ waiting[p] = {} \/ timeouts[p] > MaxTimeouts
    /\ prod' = [prod EXCEPT ![p] = "slice"]
    /\ \E n \in NextWindows(p, Cardinality(unqueued[p])) :
         window' = [window EXCEPT ![p] = n]
    /\ waiting' = [waiting EXCEPT ![p] = {}]
    /\ timeouts' = [timeouts EXCEPT ![p] = 0]
    /\ UNCHANGED <<pc, mem, disk, batched, unqueued,
                   chanVars, workVars, consVars, procVars, skipped>>

(* Every job of the batch is ticked off: read the rate limit (Twitter),    *)
(* set low and high, and go round the loop.                                *)
NextBatch(p) ==
    /\ prod[p] = "wait"
    /\ waiting[p] = {}
    /\ prod' = [prod EXCEPT ![p] = "slice"]
    /\ \E n \in NextWindows(p, Cardinality(unqueued[p])) :
         window' = [window EXCEPT ![p] = n]
    /\ timeouts' = [timeouts EXCEPT ![p] = 0]
    /\ UNCHANGED <<pc, mem, disk, batched, unqueued, waiting,
                   chanVars, workVars, consVars, procVars, skipped>>

Producer(p) ==
    \/ ProducerFinished(p) \/ SliceOutOfRange(p) \/ SliceInRange(p)
    \/ QueueJob(p) \/ TickOff(p) \/ TimeOut(p) \/ NextBatch(p)

-----------------------------------------------------------------------------
(* updateDeveloperWorker.                                                  *)

TakeJob(w) ==
    /\ w \notin exited
    /\ worker[w] = NoDev
    /\ \E d \in jobs :
         /\ jobs' = jobs \ {d}
         /\ worker' = [worker EXCEPT ![w] = d]
    /\ UNCHANGED <<pc, mem, disk, prodVars, results, finished, exited,
                   consVars, procVars, skipped>>

(* UpdateDeveloper answers with an error, or fills a ScoutState of its own,*)
(* which is the result's, with what a batch of the developer's posts gives,*)
(* or with a dummy snapshot and time if there are none.                    *)
Answers == Outcomes \ {"unread"}

SendResult(w) ==
    /\ worker[w] # NoDev
    /\ \E o \in Answers : results' = results \cup {[dev |-> worker[w], outcome |-> o]}
    /\ worker' = [worker EXCEPT ![w] = NoDev]
    /\ UNCHANGED <<pc, mem, disk, prodVars, jobs, finished, exited,
                   consVars, procVars, skipped>>

(* The latest snapshot of the developer cannot be read: UpdateDeveloper    *)
(* answers with a temporary error and no set of games, the worker merges   *)
(* the set before it sends the error, and panics.  (So does UpdateDeveloper*)
(* itself over posts whose user Reddit did not answer.)                    *)
WorkerPanics ==
    /\ "unread" \in Outcomes
    /\ \E w \in Workers : worker[w] # NoDev
    /\ ProcessEnds
    /\ UNCHANGED <<mem, disk, faults>>

(* Mutant of WorkerReturns: the worker leaves jobs in the closed channel.  *)
WorkerReturnsTooEarly(w) ==
    /\ JobsClosed
    /\ w \notin exited
    /\ worker[w] = NoDev
    /\ exited' = exited \cup {w}
    /\ UNCHANGED <<pc, mem, disk, prodVars, chanVars, worker,
                   consVars, procVars, skipped>>

WorkerReturns(w) ==
    /\ JobsClosed
    /\ jobs = {}
    /\ w \notin exited
    /\ worker[w] = NoDev
    /\ exited' = exited \cup {w}
    /\ UNCHANGED <<pc, mem, disk, prodVars, chanVars, worker,
                   consVars, procVars, skipped>>

Worker(w) == TakeJob(w) \/ SendResult(w) \/ WorkerReturns(w)

-----------------------------------------------------------------------------
(* The consumer goroutine.                                                 *)

(* finished(result): tell the producer of the developer's type.            *)
Notify(d) ==
    finished' = [p \in Producers |->
                   IF d \in Devs(p) THEN finished[p] \cup {d} ELSE finished[p]]

(* Mutant of ConsumeError: a result with an error is not acknowledged.     *)
ConsumeErrorUnacknowledged ==
    /\ cons = "idle"
    /\ \E r \in results :
         /\ r.outcome # "ok"
         /\ results' = results \ {r}
         /\ skipped' = skipped \cup {r.dev}
    /\ UNCHANGED <<pc, mem, disk, prodVars, jobs, finished, workVars,
                   cons, consDev, toMerge, batchCount, procVars>>

(* A result with an error is acknowledged and not merged; after a          *)
(* permanent one the consumer returns, without a word to consumerDone.     *)
ConsumeError ==
    /\ cons = "idle"
    /\ \E r \in results :
         /\ r.outcome # "ok"
         /\ results' = results \ {r}
         /\ Notify(r.dev)
         /\ cons' = IF r.outcome = "permanent" THEN "gone" ELSE "idle"
         /\ skipped' = skipped \cup {r.dev}
    /\ UNCHANGED <<pc, mem, disk, prodVars, jobs, workVars,
                   consDev, toMerge, batchCount, procVars>>

ConsumeResult ==
    /\ cons = "idle"
    /\ \E r \in results :
         /\ r.outcome = "ok"
         /\ results' = results \ {r}
         /\ consDev' = r.dev
    /\ cons' = "merge"
    /\ toMerge' = Fields
    /\ UNCHANGED <<pc, mem, disk, prodVars, jobs, finished, workVars,
                   batchCount, procVars, skipped>>

(* MergeIterableCachedFields: field after field, in the order of a map.    *)
MergeField(f) ==
    /\ cons = "merge"
    /\ f \in toMerge
    /\ toMerge' = toMerge \ {f}
    /\ mem' = IF f = "times"
              THEN [mem EXCEPT !.times = @ \cup {consDev}]
              ELSE [mem EXCEPT !.snaps[consDev] = @ + 1]
    /\ cons' = IF toMerge = {f} THEN "mark" ELSE "merge"
    /\ UNCHANGED <<pc, disk, prodVars, chanVars, workVars, consDev, batchCount,
                   procVars, skipped>>

(* Mutant of MarkUpdated: the developer is listed in the result's state.   *)
MarkUpdatedInResult ==
    /\ cons = "mark"
    /\ cons' = "count"
    /\ UNCHANGED <<pc, mem, disk, prodVars, chanVars, workVars, consDev, toMerge,
                   batchCount, procVars, skipped>>

MarkUpdated ==
    /\ cons = "mark"
    /\ mem' = [mem EXCEPT !.updated = Append(@, consDev)]
    /\ cons' = "count"
    /\ UNCHANGED <<pc, disk, prodVars, chanVars, workVars, consDev, toMerge,
                   batchCount, procVars, skipped>>

(* Mutant of CountUpdated: the count of results is not reset.              *)
CountUpdatedWithoutReset ==
    /\ cons = "count"
    /\ mem' = [mem EXCEPT !.developers = @ + 1]
    /\ batchCount' = batchCount + 1
    /\ cons' = IF batchCount + 1 = BatchSize THEN "erase" ELSE "notify"
    /\ UNCHANGED <<pc, disk, prodVars, chanVars, workVars, consDev, toMerge,
                   procVars, skipped>>

(* The statistics, and the count that decides whether to save.             *)
CountUpdated ==
    /\ cons = "count"
    /\ mem' = [mem EXCEPT !.developers = @ + 1]
    /\ batchCount' = IF batchCount + 1 = BatchSize THEN 0 ELSE batchCount + 1
    /\ cons' = IF batchCount + 1 = BatchSize THEN "erase" ELSE "notify"
    /\ UNCHANGED <<pc, disk, prodVars, chanVars, workVars, consDev, toMerge,
                   procVars, skipped>>

(* state.Save(): RemoveAll of the old directory, then the new files.       *)
ConsumerErases ==
    /\ cons = "erase"
    /\ disk' = NoSave
    /\ cons' = "write"
    /\ UNCHANGED <<pc, mem, prodVars, chanVars, workVars, consDev, toMerge,
                   batchCount, procVars, skipped>>

ConsumerWrites ==
    /\ cons = "write"
    /\ disk' = mem
    /\ cons' = "notify"
    /\ UNCHANGED <<pc, mem, prodVars, chanVars, workVars, consDev, toMerge,
                   batchCount, procVars, skipped>>

NotifyFinished ==
    /\ cons = "notify"
    /\ Notify(consDev)
    /\ cons' = "idle"
    /\ consDev' = NoDev
    /\ UNCHANGED <<pc, mem, disk, prodVars, jobs, results, workVars, toMerge,
                   batchCount, procVars, skipped>>

(* results is closed and empty: send on consumerDone.                      *)
ConsumerEnds ==
    /\ cons = "idle"
    /\ ResultsClosed
    /\ results = {}
    /\ cons' = "sending"
    /\ UNCHANGED <<pc, mem, disk, prodVars, chanVars, workVars, consDev, toMerge,
                   batchCount, procVars, skipped>>

Consumer ==
    \/ ConsumeError \/ ConsumeResult \/ (\E f \in Fields : MergeField(f))
    \/ MarkUpdated \/ CountUpdated \/ ConsumerErases \/ ConsumerWrites
    \/ NotifyFinished \/ ConsumerEnds

-----------------------------------------------------------------------------
(* The process around the phase.                                           *)

(* phaseAfter: the next phase, and a Save.                                 *)
PhaseAfterErases ==
    /\ pc = "returned"
    /\ disk' = NoSave
    /\ pc' = "erased"
    /\ UNCHANGED <<mem, pipeVars, procVars, skipped>>

PhaseAfterWrites ==
    /\ pc = "erased"
    /\ disk' = mem
    /\ pc' = "complete"
    /\ UNCHANGED <<mem, pipeVars, procVars, skipped>>

(* The phase returned an error: Scout's deferred function saves the state, *)
(* and the process ends.                                                   *)
ErrorErases ==
    /\ pc = "failed"
    /\ disk' = NoSave
    /\ pc' = "failedErased"
    /\ UNCHANGED <<mem, pipeVars, procVars, skipped>>

ErrorWrites ==
    /\ pc = "failedErased"
    /\ disk' = mem
    /\ ProcessEnds
    /\ UNCHANGED <<mem, faults>>

(* ScoutTimeout: Scout returns while its goroutines run on; the deferred   *)
(* function saves the state they are changing, and the process ends.       *)
ScoutTimeout ==
    /\ ScoutTimesOut
    /\ faults < MaxFaults
    /\ pc \in Joining
    /\ returning = "no"
    /\ returning' = "erase"
    /\ faults' = faults + 1
    /\ UNCHANGED <<pc, mem, disk, pipeVars, unsaved, draft, skipped>>

TimeoutErases ==
    /\ returning = "erase"
    /\ pc # "complete"
    /\ disk' = NoSave
    /\ returning' = "serialise"
    /\ unsaved' = Parts
    /\ UNCHANGED <<pc, mem, pipeVars, draft, faults, skipped>>

(* Part after part, in the order of a map, while the consumer goes on.     *)
TimeoutSerialises(f) ==
    /\ returning = "serialise"
    /\ pc # "complete"
    /\ f \in unsaved
    /\ unsaved' = unsaved \ {f}
    /\ draft' =
         CASE f = "times" -> [draft EXCEPT !.times = mem.times]
           [] f = "snaps" -> [draft EXCEPT !.snaps = mem.snaps]
           [] f = "state" -> [draft EXCEPT !.updated = mem.updated,
                                           !.developers = mem.developers]
    /\ UNCHANGED <<pc, mem, disk, pipeVars, returning, faults, skipped>>

(* Reading a map that the consumer is writing ends the process.            *)
TimeoutRaces ==
    /\ returning = "serialise"
    /\ pc # "complete"
    /\ unsaved \cap toMerge # {}
    /\ ProcessEnds
    /\ UNCHANGED <<mem, disk, faults>>

TimeoutWrites ==
    /\ returning = "serialise"
    /\ pc # "complete"
    /\ unsaved = {}
    /\ disk' = draft
    /\ returning' = "exit"
    /\ UNCHANGED <<pc, mem, pipeVars, unsaved, draft, faults, skipped>>

TimeoutExits ==
    /\ returning = "exit"
    /\ pc # "complete"
    /\ ProcessEnds
    /\ UNCHANGED <<mem, disk, faults>>

Crash ==
    /\ faults < MaxFaults
    /\ pc \notin {"down", "complete", "lost"}
    /\ faults' = faults + 1
    /\ ProcessEnds
    /\ UNCHANGED <<mem, disk>>

(* Mutant of Restart: the list of updated developers is not loaded.        *)
RestartWithoutUpdated ==
    /\ pc = "down"
    /\ disk # NoSave
    /\ mem' = [disk EXCEPT !.updated = <<>>]
    /\ pc' = "start"
    /\ UNCHANGED <<disk, pipeVars, procVars, skipped>>

(* The next process loads the state.  With nothing to load, it starts the  *)
(* whole procedure again, from the Discovery phase.                        *)
Restart ==
    /\ pc = "down"
    /\ disk # NoSave
    /\ mem' = disk
    /\ pc' = "start"
    /\ UNCHANGED <<disk, pipeVars, procVars, skipped>>

RestartFromNothing ==
    /\ pc = "down"
    /\ disk = NoSave
    /\ pc' = "lost"
    /\ UNCHANGED <<mem, disk, pipeVars, procVars, skipped>>

(* The phase is over: what comes next is not in this module.               *)
Over == pc \in {"complete", "lost"} /\ UNCHANGED vars

Main ==
    \/ QueryError \/ RefusePhase \/ BudgetPanics \/ NothingToUpdate \/ StartPipeline
    \/ JoinTwitter \/ JoinReddit \/ JoinWorkers \/ JoinConsumer

Saving == PhaseAfterErases \/ PhaseAfterWrites \/ ErrorErases \/ ErrorWrites
Returning ==
    \/ TimeoutErases \/ (\E f \in Parts : TimeoutSerialises(f)) \/ TimeoutRaces
    \/ TimeoutWrites \/ TimeoutExits
TimingOut == ScoutTimeout \/ Returning
Resuming == Restart \/ RestartFromNothing

Next ==
    \/ Main
    \/ \E p \in Producers : Producer(p)
    \/ \E w \in Workers : Worker(w)
    \/ Consumer
    \/ Saving
    \/ TimingOut
    \/ Crash \/ WorkerPanics
    \/ Resuming
    \/ Over

Spec == Init /\ [][Next]_vars

(* Every goroutine that can run goes on to run, and a process that ended   *)
(* is started again (the scout command runs periodically).  Nothing makes  *)
(* ScoutTimeout or a crash happen.                                         *)
FairSpec ==
    /\ Spec
    /\ WF_vars(Main)
    /\ \A p \in Producers : WF_vars(Producer(p))
    /\ \A w \in Workers : WF_vars(Worker(w))
    /\ WF_vars(Consumer)
    /\ WF_vars(Saving)
    /\ WF_vars(Returning)
    /\ WF_vars(Resuming)

-----------------------------------------------------------------------------
(* Properties.                                                             *)

Result == [dev: Dev, outcome: {"ok", "temporary", "permanent"}]

TypeOK ==
    /\ pc \in MainSteps
    /\ mem \in ScoutState
    /\ disk \in ScoutState \cup {NoSave}
    /\ prod \in [Producers -> {"none", "slice", "queue", "wait", "done"}]
    /\ batched \in [Producers -> BOOLEAN]
    /\ window \in [Producers -> Nat]
    /\ unqueued \in [Producers -> SUBSET Dev]
    /\ waiting \in [Producers -> SUBSET Dev]
    /\ timeouts \in [Producers -> 0 .. MaxTimeouts + 1]
    /\ jobs \in SUBSET Dev
    /\ results \in SUBSET Result
    /\ finished \in [Producers -> SUBSET Dev]
    /\ worker \in [Workers -> Dev \cup {NoDev}]
    /\ exited \in SUBSET Workers
    /\ cons \in {"none", "idle", "merge", "mark", "count", "erase", "write",
                 "notify", "sending", "gone"}
    /\ consDev \in Dev \cup {NoDev}
    /\ toMerge \in SUBSET Fields
    /\ batchCount \in 0 .. BatchSize - 1
    /\ returning \in {"no", "erase", "serialise", "exit"}
    /\ unsaved \in SUBSET Parts
    /\ draft \in ScoutState
    /\ faults \in 0 .. MaxFaults
    /\ skipped \in SUBSET Dev

(* The developers whose job is at work: queued, held by a worker, answered *)
(* or in the consumer's hands.                                             *)
Queued(d) == d \in jobs
Held(d, w) == worker[w] = d
Answered(d) == \E r \in results : r.dev = d
Consumed(d) == consDev = d
AtWork == {d \in Dev : \/ Queued(d) \/ Answered(d) \/ Consumed(d)
                       \/ \E w \in Workers : Held(d, w)}

(* A developer is being dealt with in one place at a time: it is not       *)
(* queued again while a worker, the results channel or the consumer has    *)
(* it, no two workers update it, and no two results speak of it.           *)
OneJobPerDeveloper ==
    \A d \in Dev :
      /\ Queued(d) => ~Answered(d) /\ ~Consumed(d)
      /\ Answered(d) => ~Consumed(d)
      /\ \A w \in Workers : Held(d, w) => ~Queued(d) /\ ~Answered(d) /\ ~Consumed(d)
      /\ \A v, w \in Workers : Held(d, v) /\ Held(d, w) => v = w
      /\ \A r, s \in results : r.dev = d /\ s.dev = d => r = s
      /\ d \in AtWork => \A p \in Producers : d \notin unqueued[p]

(* Over all the processes it takes to complete the phase, no developer     *)
(* gets a second partial snapshot, in memory or on disk: SnapshotPhase     *)
(* would count its posts twice.  This needs Phase.Run's two exclusions     *)
(* (snapshot keys and UpdatedDevelopers) and the order in which the        *)
(* consumer merges, marks and saves.  Left out are the developers for      *)
(* which it fails: Reddit developers from the Discovery phase, and any     *)
(* Reddit developer when ScoutTimeout saves a half-consumed result.        *)
SnapshotsOnce ==
    \A d \in Dev :
      d \in TwitterDevs \/ (d \notin Discovered /\ ~ScoutTimesOut) =>
        /\ mem.snaps[d] <= 1
        /\ disk # NoSave => disk.snaps[d] <= 1

(* What a saved state lists as updated is saved with it, and what it       *)
(* holds of a developer updated in this phase is listed and counted, so    *)
(* that the process that loads it neither forgets nor repeats an update.   *)
SavedStateIsConsistent ==
    disk # NoSave /\ ~ScoutTimesOut =>
      /\ disk.times = Range(disk.updated) \cup Discovered
      /\ \A d \in Dev : disk.snaps[d] > 0 <=> d \in disk.times
      /\ disk.developers = Len(disk.updated)

(* When the phase returns without an error every developer that was there  *)
(* to update has been merged and listed, or is one the phase gave up on    *)
(* knowingly: over the tweet budget, a failed query, a temporary error, a  *)
(* dropped job.                                                            *)
(* Joining the goroutines in the wrong order would lose some silently.     *)
ReturnsWhenAllAreDone ==
    pc \in {"returned", "erased", "complete"} => Unscraped \subseteq skipped

(* A batching producer that looks at the rate limit again has no request   *)
(* of its earlier batches under way: the limit it reads is not about to    *)
(* shrink, so the next batch will not exceed it.                           *)
RateLimitReadAtRest ==
    \A p \in Producers :
      prod[p] = "slice" => AtWork \cap Devs(p) = {}

(* The phase keeps the promise of the ledger: one entry per developer,     *)
(* saved as a whole, continued by the next process.                        *)
Ledger == INSTANCE CheckpointedLedger
    WITH Entry <- Dev,
         list <- mem.updated,
         saved <- IF disk = NoSave THEN {} ELSE {disk.updated}

KeepsLedger == Ledger!LedgerSpec

(* As long as UpdateDeveloper answers in time and never with a permanent   *)
(* error, and no first batch is wider than the list, the goroutines do     *)
(* not wait on each other for ever: the phase completes, over as many      *)
(* processes as the faults make it, unless a crash in the middle of a Save *)
(* leaves nothing to continue from.                                        *)
PhaseEnds == <>(pc \in {"complete", "lost"})

-----------------------------------------------------------------------------
(* The inductive invariant.                                                *)

Holding == {"merge", "mark", "count", "erase", "write", "notify"}

(* Outside the pipeline nothing is under way; a new one starts empty.      *)
PipelineAtRest ==
    /\ pc \notin Joining =>
         /\ \A p \in Producers : prod[p] = "none"
         /\ jobs = {} /\ results = {}
         /\ \A w \in Workers : worker[w] = NoDev
    /\ pc \in {"start", "down"} =>
         exited = {} /\ \A p \in Producers : waiting[p] = {} /\ finished[p] = {}

(* Nobody sends on a channel that is closed, and a worker that has         *)
(* returned leaves nothing behind.                                         *)
JoinedInOrder ==
    /\ pc \in {"reddit", "workers", "consumer"} => prod["twitter"] = "none"
    /\ pc \in {"workers", "consumer"} => prod["reddit"] = "none"
    /\ pc \in {"twitter", "reddit"} => exited = {}
    /\ exited # {} => jobs = {}
    /\ \A w \in exited : worker[w] = NoDev
    /\ pc = "consumer" => exited = Workers
    /\ cons = "sending" => pc = "consumer" /\ results = {}

(* A producer stops when it has queued all its developers, and starts a    *)
(* batch when it has ticked off the one before.  The one that does not     *)
(* batch has a single window, the whole list.                              *)
ProducersExhausted ==
    \A p \in Producers :
      /\ prod[p] = "slice" => waiting[p] = {}
      /\ prod[p] = "wait" => batched[p]
      /\ prod[p] \in {"none", "done"} => unqueued[p] = {}
      /\ ~batched[p] /\ prod[p] \in {"slice", "queue"} =>
           window[p] = Cardinality(unqueued[p]) + Cardinality(waiting[p])

ConsumerHolds ==
    /\ consDev # NoDev <=> cons \in Holding
    /\ toMerge # {} <=> cons = "merge"
    /\ pc \notin Joining => cons = "none"

ByType ==
    \A p \in Producers :
      unqueued[p] \subseteq Devs(p) /\ waiting[p] \subseteq Devs(p) /\ finished[p] \subseteq Devs(p)

(* jobIds covers the jobs at work, and a finished job is at rest.          *)
Acknowledged ==
    \A p \in Producers :
      /\ AtWork \cap Devs(p) \subseteq waiting[p]
      /\ finished[p] \cap AtWork = {}
      /\ (waiting[p] \cup finished[p]) \cap unqueued[p] = {}

(* What is still to be merged has not been merged.                         *)
Unmerged(d) ==
    /\ d \notin Range(mem.updated)
    /\ d \in TwitterDevs \/ (d \notin Discovered /\ ~ScoutTimesOut) => mem.snaps[d] = 0

StillToMerge ==
    /\ \A p \in Producers : \A d \in unqueued[p] : Unmerged(d)
    /\ \A d \in AtWork : d # consDev => Unmerged(d)
    /\ cons = "merge" /\ "snaps" \in toMerge => Unmerged(consDev)
    /\ cons \in {"merge", "mark"} => consDev \notin Range(mem.updated)
    /\ cons \in {"count", "erase", "write", "notify"} => consDev \in Range(mem.updated)

(* A state in which no result is half consumed.                            *)
Consistent(state) ==
    /\ state.times = Range(state.updated) \cup Discovered
    /\ \A d \in Dev : state.snaps[d] > 0 <=> d \in state.times
    /\ state.developers = Len(state.updated)

DiskConsistent == disk # NoSave /\ ~ScoutTimesOut => Consistent(disk)

(* What the return after ScoutTimeout has serialised: part of the state as *)
(* it was.  No process starts with that return under way.                  *)
DraftBehind ==
    /\ ~ScoutTimesOut \/ pc \in {"start", "down"} => returning = "no"
    /\ \A d \in Dev :
         d \in TwitterDevs \/ (d \notin Discovered /\ ~ScoutTimesOut) => draft.snaps[d] <= 1
    /\ returning = "serialise" /\ "state" \notin unsaved =>
         /\ Len(draft.updated) <= Len(mem.updated)
         /\ \A i \in 1 .. Len(draft.updated) : draft.updated[i] = mem.updated[i]

(* The memory is consistent but for the result in the consumer's hands.    *)
MemoryConsistent ==
    pc \notin {"down", "lost"} /\ ~ScoutTimesOut =>
      /\ mem.times \ {consDev} = (Range(mem.updated) \cup Discovered) \ {consDev}
      /\ \A d \in Dev \ {consDev} : mem.snaps[d] > 0 <=> d \in mem.times
      /\ cons \in Holding =>
           /\ cons # "merge" \/ "times" \notin toMerge => consDev \in mem.times
           /\ cons # "merge" \/ "snaps" \notin toMerge => mem.snaps[consDev] > 0
      /\ mem.developers + (IF cons = "count" THEN 1 ELSE 0) = Len(mem.updated)

Accounted ==
    pc \in Joining \cup {"returned", "erased", "complete"} =>
      \A d \in Unscraped : d \in skipped \/ d \in AtWork \/ \E p \in Producers : d \in unqueued[p]

IInv ==
    /\ TypeOK /\ PipelineAtRest /\ JoinedInOrder /\ ProducersExhausted
    /\ ConsumerHolds /\ ByType /\ OneJobPerDeveloper /\ Acknowledged
    /\ StillToMerge /\ SnapshotsOnce
    /\ DiskConsistent /\ MemoryConsistent /\ DraftBehind /\ Accounted

=============================================================================
