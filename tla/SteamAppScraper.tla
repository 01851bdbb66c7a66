---------------------------- MODULE SteamAppScraper ----------------------------
(***************************************************************************)
(* The three kinds of users of StorefrontScrapers.                         *)
(*                                                                         *)
(* A worker of the SteamAppWebsocketScraper (sock.go) has its pool to      *)
(* itself: it adds a job for each app of a changelist and hands the        *)
(* channel of the answer to consumers, which save the app.  A dropper      *)
(* goroutine shortens the queue.  When it is stopped, or cannot read, the  *)
(* worker stops dropper, pool and consumers, in this order.  (StartWorkers *)
(* has one such worker.)                                                   *)
(*                                                                         *)
(* UpdatePhase (update.go) shares its pool with one goroutine per game of  *)
(* a developer, which adds the game and waits for the answer.  The phase   *)
(* calls Wait when all developers are done, not all of these goroutines.   *)
(*                                                                         *)
(* DiscoveryPhase (discovery.go) shares its pool with the TransformWorkers *)
(* of its batches of tweets, and with those of the batches of posts of     *)
(* RedditDiscoveryPhase, which runs beside it.  It waits for the batches   *)
(* before it calls Wait, but RedditDiscoveryPhase returns at the first of  *)
(* its batches that fails, with others running on.  (Each post is modelled *)
(* as if it had a goroutine of its own.)                                   *)
(***************************************************************************)
EXTENDS StorefrontScrapers

CONSTANTS
    NumPosts,               \* jobs of DiscoveryPhase that are of posts, not tweets
    JobsPerMinute,          \* SockSteamAppScraperJobsPerMinute
    DropJobsThreshold       \* SockSteamAppScraperDropJobsThreshold

VARIABLES
    user,           \* which of the three uses the pool
    redditFailed,   \* has RedditDiscoveryPhase returned early?
    main,           \* the goroutine that owns it
    stopping,       \* has SteamAppWebsocketScraper.Stop been called?
    consumerJobs,   \* the channel of the answers' channels
    noMoreJobs,     \* has it been closed?
    dropper

userVars == <<user, redditFailed, main, stopping, consumerJobs, noMoreJobs, dropper>>
vars == <<poolVars, userVars>>

(* With as many consumers as workers that may wait for the guard, all of   *)
(* them may wait for these workers, and those with the guard for them.     *)
ASSUME SockAssumption ==
    /\ Cardinality(Consumers) > Cardinality(Workers) - MaxConcurrentWorkers
    /\ NumPosts \in Nat /\ JobsPerMinute \in Nat /\ DropJobsThreshold \in Nat

Posts == 1 .. NumPosts

Init ==
    /\ PoolInit
    /\ user \in {"websocket", "update", "discovery"}
    /\ redditFailed = FALSE
    /\ main = [pc |-> IF user = "websocket" THEN "create" ELSE "work", apps |-> 0, adding |-> NoJob]
    /\ receiver = [r \in Receivers |->
                    [pc |-> CASE user # "websocket" /\ r \in Jobs -> "check"
                              [] user = "websocket" /\ r \in Consumers -> "take"
                              [] OTHER -> "off",
                     job |-> IF user # "websocket" /\ r \in Jobs THEN r ELSE NoJob, answer |-> "nil"]]
    /\ stopping = FALSE
    /\ consumerJobs = <<>> /\ noMoreJobs = FALSE
    /\ dropper = [pc |-> "off", previous |-> 0, toDrop |-> 0]

-----------------------------------------------------------------------------
(* The websocket worker.                                                   *)

(* A failure panics, and the deferred function stops a dropper that has not*)
(* been started: it waits for ever, and so does Stop.                      *)
CreateInitialSteamApps ==
    /\ main.pc = "create"
    /\ \/ main' = [main EXCEPT !.pc = "select"] /\ dropper' = [dropper EXCEPT !.pc = "wait"]
       \/ main' = [main EXCEPT !.pc = "stopDropper"] /\ UNCHANGED dropper
    /\ UNCHANGED <<poolVars, user, redditFailed, stopping, consumerJobs, noMoreJobs>>

ReadStop ==
    /\ main.pc = "select"
    /\ main' = [main EXCEPT !.pc = IF stopping THEN "stopDropper" ELSE "read"]
    /\ UNCHANGED <<poolVars, user, redditFailed, stopping, consumerJobs, noMoreJobs, dropper>>

Adding(n) == IF n = 0 THEN "select" ELSE "changelist"
New == {j \in Jobs : job[j] = "new"}

(* A message: the apps of a changelist, or none if it is of another type.  *)
(* After an error the worker returns.                                      *)
ReadMessage ==
    /\ main.pc = "read"
    /\ \/ \E n \in 0 .. Cardinality(New) :
            main' = [main EXCEPT !.pc = Adding(n), !.apps = n]
       \/ main' = [main EXCEPT !.pc = "stopDropper"]
    /\ UNCHANGED <<poolVars, user, redditFailed, stopping, consumerJobs, noMoreJobs, dropper>>

AddApp ==
    /\ main.pc = "changelist"
    /\ LET j == Min(New) IN
         /\ Send(j, "main")
         /\ main' = [main EXCEPT !.apps = @ - 1,
                        !.pc = IF job'[j] = "accepted" THEN "hand" ELSE Adding(main.apps - 1),
                        !.adding = IF job'[j] = "accepted" THEN j ELSE NoJob]
    /\ UNCHANGED <<closed, finished, worker, scrape, cleaning, receiver, user, redditFailed, stopping,
                   consumerJobs, noMoreJobs, dropper>>

HandToConsumers ==
    /\ main.pc = "hand" /\ Len(consumerJobs) < MaxJobs
    /\ consumerJobs' = Append(consumerJobs, main.adding)
    /\ main' = [main EXCEPT !.pc = Adding(main.apps), !.adding = NoJob]
    /\ UNCHANGED <<poolVars, user, redditFailed, stopping, noMoreJobs, dropper>>

(* dropperClose is unbuffered.                                             *)
StopDropper ==
    /\ main.pc = "stopDropper" /\ dropper.pc = "wait"
    /\ dropper' = [dropper EXCEPT !.pc = "ended"]
    /\ main' = [main EXCEPT !.pc = "dropAll"]
    /\ UNCHANGED <<poolVars, user, redditFailed, stopping, consumerJobs, noMoreJobs>>

(* gameScrapers.Stop: DropAll, which waits for its cleaners, and Wait.     *)
DropAll ==
    /\ main.pc = "dropAll"
    /\ \/ /\ Dequeue("main")
          /\ UNCHANGED main
       \/ /\ queue = <<>> /\ ~closed
          /\ main' = [main EXCEPT !.pc = "clean"]
          /\ UNCHANGED <<queue, cleaning, panic>>
    /\ UNCHANGED <<closed, finished, worker, scrape, job, receiver, user, redditFailed, stopping,
                   consumerJobs, noMoreJobs, dropper>>

DropAllCleaned ==
    /\ main.pc = "clean" /\ cleaning["main"] = <<>>
    /\ CloseJobs
    /\ main' = [main EXCEPT !.pc = "wait"]
    /\ UNCHANGED <<user, redditFailed, stopping, consumerJobs, noMoreJobs, dropper>>

PoolFinished ==
    /\ main.pc = "wait"
    /\ WaitForWorkers
    /\ main' = [main EXCEPT !.pc = IF user = "websocket" THEN "drain" ELSE "done"]
    /\ UNCHANGED <<user, redditFailed, stopping, consumerJobs, noMoreJobs, dropper>>

DrainConsumerJobs ==
    /\ main.pc = "drain"
    /\ IF consumerJobs # <<>>
       THEN consumerJobs' = Tail(consumerJobs) /\ UNCHANGED <<noMoreJobs, main>>
       ELSE noMoreJobs' = TRUE /\ main' = [main EXCEPT !.pc = "join"] /\ UNCHANGED consumerJobs
    /\ UNCHANGED <<poolVars, user, redditFailed, stopping, dropper>>

JoinConsumers ==
    /\ main.pc = "join"
    /\ \A c \in Consumers : receiver[c].pc = "ended"
    /\ main' = [main EXCEPT !.pc = "done"]
    /\ UNCHANGED <<poolVars, user, redditFailed, stopping, consumerJobs, noMoreJobs, dropper>>

Websocket == \/ CreateInitialSteamApps \/ ReadStop \/ ReadMessage \/ AddApp \/ HandToConsumers
             \/ StopDropper \/ DropAll \/ DropAllCleaned \/ DrainConsumerJobs \/ JoinConsumers

(* SteamAppWebsocketScraper.Stop puts its signal in a buffered channel.    *)
Stop ==
    /\ user = "websocket" /\ ~stopping
    /\ stopping' = TRUE
    /\ UNCHANGED <<poolVars, user, redditFailed, main, consumerJobs, noMoreJobs, dropper>>

-----------------------------------------------------------------------------
(* The dropper, which looks at the queue after each SockDropperWaitTime.   *)

(* Mutant of DropperLooks: a negative rate is not clamped.                 *)
DropperLooksUnclamped ==
    LET jobs == Len(queue)
        rate == dropper.previous - jobs
        drops == jobs > DropJobsThreshold /\ rate < JobsPerMinute /\ ~finished
    IN  /\ dropper.pc = "wait"
        /\ dropper' = [pc |-> IF drops THEN "drop" ELSE "wait", previous |-> jobs,
                       toDrop |-> IF drops THEN JobsPerMinute - rate ELSE 0]
        /\ UNCHANGED <<poolVars, user, redditFailed, main, stopping, consumerJobs, noMoreJobs>>

DropperLooks ==
    LET jobs == Len(queue)
        rate == dropper.previous - jobs
        clamped == IF rate < -JobsPerMinute THEN -JobsPerMinute ELSE rate
        drops == jobs > DropJobsThreshold /\ clamped < JobsPerMinute /\ ~finished
    IN  /\ dropper.pc = "wait"
        /\ dropper' = [pc |-> IF drops THEN "drop" ELSE "wait", previous |-> jobs,
                       toDrop |-> IF drops THEN JobsPerMinute - clamped ELSE 0]
        /\ UNCHANGED <<poolVars, user, redditFailed, main, stopping, consumerJobs, noMoreJobs>>

DropperDrops ==
    /\ dropper.pc = "drop" /\ dropper.toDrop > 0
    /\ Dequeue("dropper")
    /\ dropper' = [dropper EXCEPT !.toDrop = @ - 1, !.previous = @ - 1]
    /\ UNCHANGED <<closed, finished, worker, scrape, job, receiver, user, redditFailed, main, stopping,
                   consumerJobs, noMoreJobs>>

DropperCleans ==
    /\ dropper.pc = "drop"
    /\ dropper.toDrop = 0 \/ (queue = <<>> /\ ~closed)
    /\ dropper' = [dropper EXCEPT !.pc = "clean", !.toDrop = 0]
    /\ UNCHANGED <<poolVars, user, redditFailed, main, stopping, consumerJobs, noMoreJobs>>

DropperCleaned ==
    /\ dropper.pc = "clean" /\ cleaning["dropper"] = <<>>
    /\ dropper' = [dropper EXCEPT !.pc = "wait"]
    /\ UNCHANGED <<poolVars, user, redditFailed, main, stopping, consumerJobs, noMoreJobs>>

Dropper == DropperDrops \/ DropperCleans \/ DropperCleaned

-----------------------------------------------------------------------------
(* A consumer of the websocket worker.                                     *)

ConsumerTakes(c) ==
    /\ receiver[c].pc = "take"
    /\ \/ /\ consumerJobs # <<>>
          /\ receiver' = [receiver EXCEPT ![c].pc = "await", ![c].job = Head(consumerJobs)]
          /\ consumerJobs' = Tail(consumerJobs)
       \/ /\ consumerJobs = <<>> /\ noMoreJobs
          /\ receiver' = [receiver EXCEPT ![c].pc = "ended"]
          /\ UNCHANGED consumerJobs
    /\ UNCHANGED <<queue, closed, finished, worker, scrape, job, cleaning, panic, user, redditFailed,
                   main, stopping, noMoreJobs, dropper>>

(* The app is linked to its developer and upserted, or skipped.            *)
ConsumerSaves(c) ==
    /\ receiver[c].pc = "use"
    /\ receiver' = [receiver EXCEPT ![c] = [pc |-> "take", job |-> NoJob, answer |-> "nil"]]
    /\ UNCHANGED <<queue, closed, finished, worker, scrape, job, cleaning, panic, user, redditFailed,
                   main, stopping, consumerJobs, noMoreJobs, dropper>>

GoroutineOf(j) == IF user = "update" THEN "update" ELSE IF j \in Posts THEN "reddit" ELSE "twitter"

(* A goroutine of UpdateDeveloper, or a TransformWorker with a post: Add   *)
(* tests ss.finished, then sends.                                          *)
AddGame(j) ==
    \/ /\ receiver[j].pc = "check"
       /\ receiver' = [receiver EXCEPT ![j].pc = IF finished THEN "ended" ELSE "send"]
       /\ UNCHANGED <<queue, job, panic>>
    \/ /\ receiver[j].pc = "send"
       /\ Send(j, GoroutineOf(j))
       /\ receiver' = [receiver EXCEPT ![j].pc = IF job'[j] = "accepted" THEN "await" ELSE "ended"]
    \/ /\ receiver[j].pc = "use"
       /\ receiver' = [receiver EXCEPT ![j].pc = "ended", ![j].answer = "nil"]
       /\ UNCHANGED <<queue, job, panic>>

GameGoroutine(j) ==
    /\ user # "websocket"
    /\ AddGame(j)
    /\ UNCHANGED <<closed, finished, worker, scrape, cleaning, userVars>>

(* A batch of posts fails for good, and RedditDiscoveryPhase returns.      *)
RedditFails ==
    /\ user = "discovery" /\ main.pc = "work" /\ ~redditFailed
    /\ redditFailed' = TRUE
    /\ UNCHANGED <<poolVars, user, main, stopping, consumerJobs, noMoreJobs, dropper>>

(* Mutant of Discovered: only the batches of tweets are waited for.        *)
DiscoveredTweets ==
    \A j \in Jobs : receiver[j].pc = "ended" \/ j \in Posts

(* DiscoveryPhase has the results of every tweet, and RedditDiscoveryPhase *)
(* those of every post when it does not fail.                              *)
Discovered ==
    \A j \in Jobs : receiver[j].pc = "ended" \/ (redditFailed /\ j \in Posts)

(* UpdatePhase or DiscoveryPhase calls Wait.                               *)
PhaseWaits ==
    /\ main.pc = "work"
    /\ user = "discovery" => Discovered
    /\ CloseJobs
    /\ main' = [main EXCEPT !.pc = "wait"]
    /\ UNCHANGED <<user, redditFailed, stopping, consumerJobs, noMoreJobs, dropper>>

(* A batch of tweets fails for good: DiscoveryPhase returns, without Wait. *)
PhaseLeaves ==
    /\ user = "discovery" /\ main.pc = "work"
    /\ main' = [main EXCEPT !.pc = "left"]
    /\ UNCHANGED <<poolVars, user, redditFailed, stopping, consumerJobs, noMoreJobs, dropper>>

-----------------------------------------------------------------------------
(* A panic ends the process.                                               *)
Next ==
    /\ panic = {}
    /\ \/ PoolNext /\ UNCHANGED userVars
       \/ Websocket \/ PoolFinished \/ Stop \/ PhaseWaits \/ RedditFails \/ PhaseLeaves
       \/ DropperLooks \/ Dropper
       \/ \E c \in Consumers : ConsumerTakes(c) \/ ConsumerSaves(c)
       \/ \E j \in Jobs : GameGoroutine(j)

Spec == Init /\ [][Next]_vars

(* Every goroutine runs on, and messages keep coming or the connection     *)
(* breaks; a scrape may take for ever, Stop may never be called.           *)
FairSpec ==
    /\ Spec
    /\ \A w \in Workers : WF_vars(panic = {} /\ Worker(w) /\ UNCHANGED userVars)
    /\ \A d \in Droppers : WF_vars(panic = {} /\ Clean(d) /\ UNCHANGED userVars)
    /\ WF_vars(panic = {} /\ (Websocket \/ PoolFinished))
    /\ WF_vars(panic = {} /\ Dropper)
    /\ \A c \in Consumers : WF_vars(panic = {} /\ (ConsumerTakes(c) \/ ConsumerSaves(c)))

-----------------------------------------------------------------------------
(* Type correctness of the pool and its users; no more workers hold the    *)
(* guard than may.                                                         *)
TypeOK ==
    /\ PoolTypeOK
    /\ user \in {"websocket", "update", "discovery"}
    /\ main.pc \in {"work", "left", "create", "select", "read", "changelist", "hand", "stopDropper",
                    "dropAll", "clean", "wait", "drain", "join", "done"}
    /\ consumerJobs \in Seq(Jobs) /\ Len(consumerJobs) <= MaxJobs
    /\ dropper.pc \in {"off", "wait", "drop", "clean", "ended"}
    /\ dropper.toDrop \in 0 .. 2 * JobsPerMinute
    /\ dropper.previous \in -2 * JobsPerMinute .. MaxJobs

(* Nobody sends a job on a closed channel or drops one from it, but for a  *)
(* goroutine of UpdateDeveloper, which nobody waits for (update.go:70,     *)
(* scrape.go:477), and one with a post when RedditDiscoveryPhase returned  *)
(* early (discovery.go:687, discovery.go:882): never the websocket worker, *)
(* its dropper, or a goroutine with a tweet.                               *)
OnlyUnawaitedPanic ==
    panic # {} => \/ user = "update" /\ panic = {"update"}
                  \/ user = "discovery" /\ redditFailed /\ panic = {"reddit"}

(* When Wait or Stop has returned, every job that Add accepted has been    *)
(* answered, by a worker or by a cleaner, and no answer is still to be     *)
(* taken from the consumers' channel (scrape.go:380, sock.go deferred).    *)
AcceptedAnswered == finished => consumerJobs = <<>> /\ \A j \in Jobs : job[j] # "accepted"

(* Whoever gets a game gets it whole: nobody is still scraping it, although*)
(* a scrape runs on when its time is out (scrape.go:513).                  *)
AnswersAreWhole ==
    \A r \in Receivers :
        receiver[r].pc = "use" /\ receiver[r].answer = "game" => scrape[receiver[r].job] = "done"

(* After Stop the worker ends, with dropper, pool and consumers, however   *)
(* full the channels are; so does Wait.  Not so if the process panics, or  *)
(* the worker failed before there was a dropper to stop (sock.go:161,      *)
(* sock.go:200, sock.go:230, scrape.go:380).                               *)
NoDropper == main.pc = "stopDropper" /\ dropper.pc = "off"
StopEnds == (stopping \/ closed) ~> (main.pc = "done" \/ panic # {} \/ NoDropper)
=============================================================================
