--------------------------- MODULE StorefrontScrapers ---------------------------
(***************************************************************************)
(* models.StorefrontScrapers (db/models/scrape.go): a pool of workers that *)
(* take jobs from a buffered channel, at most maxConcurrentWorkers of them *)
(* at a time, and answer each on an unbuffered channel of its own.  Those  *)
(* that wait for the answers and those that own the pool are in            *)
(* SteamAppScraper, which extends this module.                             *)
(*                                                                         *)
(* A scrape that exceeds the timeout goes on in its goroutine, while the   *)
(* worker answers nil.  What is scraped is left out.                       *)
(***************************************************************************)
EXTENDS Integers, Sequences, FiniteSets, SequencesExt

CONSTANTS
    NumJobs,                \* bound on the jobs that are added
    Workers,
    MaxConcurrentWorkers,
    MaxJobs,                \* capacity of the channel of jobs
    Cleaners,               \* goroutines of cleanupResultChannels
    Consumers               \* goroutines that wait for one answer after the other

ASSUME ScrapersAssumption ==
    /\ NumJobs \in Nat /\ IsFiniteSet(Workers) /\ Workers # {} /\ IsFiniteSet(Consumers)
    /\ MaxConcurrentWorkers \in Nat \ {0} /\ MaxJobs \in Nat \ {0} /\ Cleaners \in Nat \ {0}
    /\ Consumers \cap (0 .. NumJobs) = {}

Jobs == 1 .. NumJobs    \* numbered as they are added, or as their goroutines are
NoJob == 0

VARIABLES
    queue,      \* ss.jobs
    closed,     \* has ss.jobs been closed?
    finished,   \* ss.finished
    worker,     \* each worker, its job and what it is to answer
    scrape,     \* the goroutine of workerExecuteJob
    job,        \* what became of each job
    cleaning,   \* the dropped jobs of each goroutine that drops, still to be answered
    receiver,   \* the goroutines that wait for an answer
    panic       \* who panicked

poolVars == <<queue, closed, finished, worker, scrape, job, cleaning, receiver, panic>>

Droppers == {"dropper", "main"}
Receivers == Consumers \cup Jobs    \* a goroutine of UpdateDeveloper has the name of its job

IdleWorker == [pc |-> "idle", job |-> NoJob, answer |-> "nil"]
Concurrent == Cardinality({w \in Workers : worker[w].pc \in {"execute", "answer", "sleep"}})

PoolInit ==
    /\ queue = <<>> /\ closed = FALSE /\ finished = FALSE
    /\ worker = [w \in Workers |-> IdleWorker]
    /\ scrape = [j \in Jobs |-> "none"]
    /\ job = [j \in Jobs |-> "new"]
    /\ cleaning = [d \in Droppers |-> <<>>]
    /\ panic = {}

-----------------------------------------------------------------------------
(* Sending on the channel of a job and receiving from it are one step.     *)
Receive(j, answer) ==
    /\ \E r \in Receivers :
         /\ receiver[r].pc = "await" /\ receiver[r].job = j
         /\ receiver' = [receiver EXCEPT ![r].pc = "use", ![r].answer = answer]
    /\ job' = [job EXCEPT ![j] = "answered"]

(* Add, after the test of ss.finished: a send on a closed channel panics,  *)
(* a full one refuses the job.                                             *)
Send(j, name) ==
    IF closed
    THEN panic' = panic \cup {name} /\ UNCHANGED <<queue, job>>
    ELSE /\ IF Len(queue) < MaxJobs
            THEN queue' = Append(queue, j) /\ job' = [job EXCEPT ![j] = "accepted"]
            ELSE job' = [job EXCEPT ![j] = "refused"] /\ UNCHANGED queue
         /\ UNCHANGED panic

(* One turn of the loop of Drop or DropAll: a closed and empty channel     *)
(* yields a nil job, whose result cannot be read.                          *)
Dequeue(d) ==
    IF queue = <<>>
    THEN closed /\ panic' = panic \cup {d} /\ UNCHANGED <<queue, cleaning>>
    ELSE /\ queue' = Tail(queue)
         /\ cleaning' = [cleaning EXCEPT ![d] = Append(@, Head(queue))]
         /\ UNCHANGED panic

(* cleanupResultChannels: as many nils are being sent as there are cleaners*)
Clean(d) ==
    /\ \E i \in 1 .. Len(cleaning[d]) :
         /\ i <= Cleaners
         /\ Receive(cleaning[d][i], "nil")
         /\ cleaning' = [cleaning EXCEPT ![d] = RemoveAt(@, i)]
    /\ UNCHANGED <<queue, closed, finished, worker, scrape, panic>>

-----------------------------------------------------------------------------
(* A worker.                                                               *)

TakeJob(w) ==
    /\ worker[w].pc = "idle" /\ queue # <<>>
    /\ worker' = [worker EXCEPT ![w].pc = "guard", ![w].job = Head(queue)]
    /\ queue' = Tail(queue)
    /\ UNCHANGED <<closed, finished, scrape, job, cleaning, receiver, panic>>

AcquireGuard(w) ==
    /\ worker[w].pc = "guard" /\ Concurrent < MaxConcurrentWorkers
    /\ worker' = [worker EXCEPT ![w].pc = "execute"]
    /\ scrape' = [scrape EXCEPT ![worker[w].job] = "running"]
    /\ UNCHANGED <<queue, closed, finished, job, cleaning, receiver, panic>>

(* Mutant of ExecuteJob: the game is answered although the scrape goes on. *)
ExecuteJobLate(w) ==
    /\ worker[w].pc = "execute"
    /\ worker' = [worker EXCEPT ![w].pc = "answer", ![w].answer = "game"]
    /\ UNCHANGED <<queue, closed, finished, scrape, job, cleaning, receiver, panic>>

(* The timeout may come even when the scrape is done at the same time.     *)
ExecuteJob(w) ==
    /\ worker[w].pc = "execute"
    /\ \/ /\ scrape[worker[w].job] = "done"
          /\ worker' = [worker EXCEPT ![w].pc = "answer", ![w].answer = "game"]
       \/ worker' = [worker EXCEPT ![w].pc = "answer", ![w].answer = "nil"]
    /\ UNCHANGED <<queue, closed, finished, scrape, job, cleaning, receiver, panic>>

Answer(w) ==
    /\ worker[w].pc = "answer"
    /\ Receive(worker[w].job, worker[w].answer)
    /\ worker' = [worker EXCEPT ![w].pc = "sleep"]
    /\ UNCHANGED <<queue, closed, finished, scrape, cleaning, panic>>

(* Mutant of ReleaseGuard: a worker keeps the guard after a timeout.       *)
ReleaseGuardOfGames(w) ==
    /\ worker[w].pc = "sleep" /\ worker[w].answer = "game"
    /\ worker' = [worker EXCEPT ![w] = IdleWorker]
    /\ UNCHANGED <<queue, closed, finished, scrape, job, cleaning, receiver, panic>>

ReleaseGuard(w) ==
    /\ worker[w].pc = "sleep"
    /\ worker' = [worker EXCEPT ![w] = IdleWorker]
    /\ UNCHANGED <<queue, closed, finished, scrape, job, cleaning, receiver, panic>>

(* Mutant of EndWorker: a closed channel ends the loop with jobs left.     *)
EndWorkerAtClose(w) ==
    /\ worker[w].pc = "idle" /\ closed
    /\ worker' = [worker EXCEPT ![w].pc = "ended"]
    /\ UNCHANGED <<queue, closed, finished, scrape, job, cleaning, receiver, panic>>

EndWorker(w) ==
    /\ worker[w].pc = "idle" /\ closed /\ queue = <<>>
    /\ worker' = [worker EXCEPT ![w].pc = "ended"]
    /\ UNCHANGED <<queue, closed, finished, scrape, job, cleaning, receiver, panic>>

Worker(w) == \/ TakeJob(w) \/ AcquireGuard(w) \/ ExecuteJob(w) \/ Answer(w)
             \/ ReleaseGuard(w) \/ EndWorker(w)

(* The goroutine that scrapes, of a worker that waits for it or not: the   *)
(* errors of each storefront and each source of it are only logged.        *)
Scrape(j) ==
    /\ scrape[j] = "running"
    /\ scrape' = [scrape EXCEPT ![j] = "done"]
    /\ UNCHANGED <<queue, closed, finished, worker, job, cleaning, receiver, panic>>

-----------------------------------------------------------------------------
(* Wait.                                                                   *)

CloseJobs ==
    /\ closed' = TRUE
    /\ UNCHANGED <<queue, finished, worker, scrape, job, cleaning, receiver, panic>>

WaitForWorkers ==
    /\ \A w \in Workers : worker[w].pc = "ended"
    /\ finished' = TRUE
    /\ UNCHANGED <<queue, closed, worker, scrape, job, cleaning, receiver, panic>>

PoolNext == \/ \E w \in Workers : Worker(w)
            \/ \E j \in Jobs : Scrape(j)
            \/ \E d \in Droppers : Clean(d)

PoolTypeOK ==
    /\ queue \in Seq(Jobs) /\ Len(queue) <= MaxJobs
    /\ closed \in BOOLEAN /\ finished \in BOOLEAN
    /\ \A w \in Workers : /\ worker[w].pc \in {"idle", "guard", "execute", "answer", "sleep", "ended"}
                          /\ (worker[w].job = NoJob) = (worker[w].pc \in {"idle", "ended"})
    /\ Concurrent <= MaxConcurrentWorkers
    /\ \A j \in Jobs : /\ scrape[j] \in {"none", "running", "done"}
                       /\ job[j] \in {"new", "refused", "accepted", "answered"}
    /\ \A d \in Droppers : cleaning[d] \in Seq(Jobs)
    /\ \A r \in Receivers : /\ receiver[r].pc \in {"off", "check", "send", "take", "await", "use", "ended"}
                            /\ receiver[r].job \in Jobs \cup {NoJob}
=============================================================================
