------------------------------- MODULE Discovery -------------------------------
(***************************************************************************)
(* The Discovery phase (discovery.go): one goroutine searches Twitter in   *)
(* batches and keeps a checkpoint after each, while another scrapes the    *)
(* subreddits in a pipeline of workers, with a state of its own that is    *)
(* merged into the main one at the end.                                    *)
(*                                                                         *)
(* A post is a tweet or a Reddit post.  A state counts the snapshots and   *)
(* the times it holds of each post; a developer is known when it is in the *)
(* database.  Saving is one step here (its own steps and what a crash in   *)
(* between leaves are in ScoutProcedure), and so is waiting for a scraper  *)
(* of games (StorefrontScrapers).  Twitter is external: a search returns   *)
(* the page for its token, and the token of the next page or an empty one. *)
(***************************************************************************)
EXTENDS Integers, FiniteSets, Sequences, SequencesExt, Totals

CONSTANTS
    Pages,              \* the pages of tweets that the search has
    NumBatches,         \* ceil(discoveryTweets / batchSize)
    Retweeted,          \* the tweets that retweets among them refer to
    Subs, Top,          \* subreddits, and the top posts of the week of each
    PerSubreddit,       \* RedditPostsPerSubreddit
    Author, GameOf,     \* of each post; some posts link to no game
    Scrapers, Batchers, \* RedditSubredditScrapeWorkers, RedditDiscoveryBatchWorkers
    MaxFaults,
    None

Tweets == UNION {Pages[i] : i \in DOMAIN Pages}
RedditPosts == UNION {Range(Top[s]) : s \in Subs}
Posts == Tweets \cup Range(Retweeted) \cup RedditPosts

ASSUME DiscoveryAssumption ==
    /\ Pages \in Seq(SUBSET Tweets) /\ Len(Pages) > 0 /\ \A s \in Subs : Top[s] \in Seq(RedditPosts)
    /\ NumBatches \in Nat /\ Scrapers \in Nat \ {0} /\ Batchers \in Nat \ {0}
    /\ IsFiniteSet(Subs) /\ IsFiniteSet(Posts) /\ MaxFaults \in Nat /\ PerSubreddit \in Nat \ {0}
    /\ DOMAIN Retweeted \subseteq Tweets /\ \A s \in Subs : IsInjective(Top[s])
    /\ \A i, j \in DOMAIN Pages : i # j => Pages[i] \cap Pages[j] = {}
    /\ \A s, r \in Subs : s # r => Range(Top[s]) \cap Range(Top[r]) = {}
    /\ (Tweets \cup Range(Retweeted)) \cap RedditPosts = {}

VARIABLES
    main,       \* DiscoveryPhase, and the DiscoveryBatch it is in
    mem,        \* the ScoutState in memory
    disk,       \* the ScoutState saved last, or None
    sub,        \* where each subreddit is in the pipeline
    fetched,    \* the posts of each that were fetched with comments and author
    reddit,     \* RedditDiscoveryPhase, its forwarder and its error
    rmem,       \* redditDiscoveryState
    db,         \* developers in the database
    faults,
    hist        \* what made posts be processed again

vars == <<main, mem, disk, sub, fetched, reddit, rmem, db, faults, hist>>

Blank == [snaps |-> [p \in Posts |-> 0], times |-> [p \in Posts |-> 0], games |-> {},
          consumed |-> 0, batch |-> 0, token |-> 0]

(* i: the batch it is at; token: 0 is the empty one.                       *)
Starting(state) ==
    [pc |-> "search", i |-> state.batch, token |-> state.token, todo |-> {}, games |-> {}, err |-> FALSE]

RedditStarts ==
    /\ sub' = [s \in Subs |-> "queued"] /\ fetched' = [s \in Subs |-> {}]
    /\ reddit' = [pc |-> "request", forwarder |-> TRUE, results |-> 0, err |-> FALSE]
    /\ rmem' = Blank

Init ==
    /\ mem = Blank /\ disk = None /\ main = Starting(Blank)
    /\ sub = [s \in Subs |-> "queued"] /\ fetched = [s \in Subs |-> {}]
    /\ reddit = [pc |-> "request", forwarder |-> TRUE, results |-> 0, err |-> FALSE]
    /\ rmem = Blank
    /\ db = {} /\ faults = 0
    /\ hist = [wrapped |-> FALSE, partial |-> FALSE, again |-> FALSE]

Fault == faults < MaxFaults /\ faults' = faults + 1
Running == main.pc \notin {"down", "done"}

(* A goroutine that panics ends the process; nothing is saved.             *)
Down ==
    /\ main' = [main EXCEPT !.pc = "down"]
    /\ UNCHANGED <<mem, disk, sub, fetched, reddit, rmem, db, hist>>

-----------------------------------------------------------------------------
(* DiscoveryBatch: the results come in any order.  GetSnapshots never says *)
(* ok, so that every developer is saved for each of its posts.             *)

(* The game of one of the links, if the scrapers take and finish the job.  *)
Games(p) == {GameOf[p]} \ {None}

(* A retweet gives the tweet it refers to, with that tweet's author.       *)
TransformTweet(p) == IF p \in DOMAIN Retweeted THEN Retweeted[p] ELSE p

WithTime(state, p) == [state EXCEPT !.times[p] = @ + 1, !.consumed = @ + 1]
WithSnapshot(state, p) == [WithTime(state, p) EXCEPT !.snaps[p] = @ + 1]

Result(p) ==
    /\ main.pc = "batch" /\ p \in main.todo
    /\ \E games \in {{}, Games(TransformTweet(p))} :
         main' = [main EXCEPT !.todo = @ \ {p}, !.games = @ \cup games]
    /\ mem' = WithSnapshot(mem, TransformTweet(p))
    /\ db' = db \cup {Author[TransformTweet(p)]}
    /\ UNCHANGED <<disk, sub, fetched, reddit, rmem, faults, hist>>

(* The error to be logged is nil: its method is called nonetheless.        *)
TransformFails ==
    /\ main.pc = "batch" /\ main.todo # {}
    /\ Fault
    /\ Down

(* Scout saves the state as it is when a phase returns an error.           *)
ReturnError(state) ==
    /\ main' = [main EXCEPT !.pc = "down"]
    /\ disk' = state

(* Mutant of UpsertFails: the snapshot is added first.                     *)
UpsertFailsLate(p) ==
    /\ main.pc = "batch" /\ p \in main.todo
    /\ Fault
    /\ \E saved \in BOOLEAN : db' = IF saved THEN db \cup {Author[TransformTweet(p)]} ELSE db
    /\ mem' = WithSnapshot(mem, TransformTweet(p))
    /\ ReturnError(mem')
    /\ hist' = [hist EXCEPT !.partial = TRUE]
    /\ UNCHANGED <<sub, fetched, reddit, rmem>>

UpsertFails(p) ==
    /\ main.pc = "batch" /\ p \in main.todo
    /\ Fault
    /\ \E saved \in BOOLEAN : db' = IF saved THEN db \cup {Author[TransformTweet(p)]} ELSE db
    /\ mem' = WithTime(mem, TransformTweet(p))
    /\ ReturnError(mem')
    /\ hist' = [hist EXCEPT !.partial = TRUE]
    /\ UNCHANGED <<sub, fetched, reddit, rmem>>

-----------------------------------------------------------------------------
(* DiscoveryPhase.                                                         *)

Search ==
    /\ main.pc = "search" /\ main.i < NumBatches
    /\ main' = [main EXCEPT !.pc = "batch", !.todo = Pages[main.token + 1], !.err = FALSE]
    /\ hist' = [hist EXCEPT !.wrapped = @ \/ (main.token = 0 /\ mem.batch > 0)]
    /\ UNCHANGED <<mem, disk, sub, fetched, reddit, rmem, db, faults>>

(* A search that fails is not repeated, nor counted as a batch.            *)
SearchFails ==
    /\ main.pc = "search" /\ main.i < NumBatches
    /\ Fault
    /\ main' = [main EXCEPT !.i = @ + 1, !.err = TRUE]
    /\ UNCHANGED <<mem, disk, sub, fetched, reddit, rmem, db, hist>>

NextToken == IF main.token + 1 < Len(Pages) THEN main.token + 1 ELSE 0

(* Mutant of AtCheckpoint: the token is that of the batch just consumed.   *)
AtCheckpointSameToken == [mem EXCEPT !.batch = @ + 1, !.token = main.token]

AtCheckpoint == [mem EXCEPT !.batch = @ + 1, !.token = NextToken]

(* A save that fails is logged; its error is overwritten by the next batch.*)
Checkpoint ==
    /\ main.pc = "batch" /\ main.todo = {}
    /\ mem' = AtCheckpoint
    /\ \/ disk' = mem' /\ main' = [main EXCEPT !.pc = "search", !.i = @ + 1, !.token = NextToken] /\ UNCHANGED faults
       \/ /\ Fault
          /\ main' = [main EXCEPT !.pc = "search", !.i = @ + 1, !.token = NextToken, !.err = TRUE]
          /\ UNCHANGED disk
    /\ UNCHANGED <<sub, fetched, reddit, rmem, db, hist>>

Plus(a, b) ==
    [a EXCEPT !.snaps = [p \in Posts |-> a.snaps[p] + b.snaps[p]],
              !.times = [p \in Posts |-> a.times[p] + b.times[p]],
              !.games = a.games \cup b.games, !.consumed = a.consumed + b.consumed]

(* The error of RedditDiscoveryPhase is assigned after wg.Done.            *)
MergeReddit ==
    /\ main.pc = "search" /\ main.i >= NumBatches
    /\ reddit.pc \in {"done", "assigned"}
    /\ mem' = Plus(mem, rmem)
    /\ main' = [main EXCEPT !.pc = "scrapers", !.games = @ \cup mem'.games,
                            !.err = @ \/ (reddit.pc = "assigned" /\ reddit.err)]
    /\ UNCHANGED <<disk, sub, fetched, reddit, rmem, db, faults, hist>>

(* gameScrapers.Wait, and then phaseAfter or the error.                    *)
EndPhase ==
    /\ main.pc = "scrapers"
    /\ IF main.err
       THEN ReturnError(mem) /\ UNCHANGED mem
       ELSE /\ mem' = [mem EXCEPT !.games = @ \cup main.games]
            /\ disk' = mem'
            /\ main' = [main EXCEPT !.pc = "done"]
    /\ UNCHANGED <<sub, fetched, reddit, rmem, db, faults, hist>>

-----------------------------------------------------------------------------
(* RedditDiscoveryPhase.                                                   *)

In(stage) == {s \in Subs : sub[s] = stage}
GoesTo(s, stage) == sub' = [sub EXCEPT ![s] = stage]
RedditReturns(err) == reddit' = [reddit EXCEPT !.pc = "done", !.err = err]

InitialRequest ==
    /\ reddit.pc = "request"
    /\ \/ reddit' = [reddit EXCEPT !.pc = "on"] /\ UNCHANGED faults
       \/ Fault /\ RedditReturns(TRUE)
    /\ UNCHANGED <<main, mem, disk, sub, fetched, rmem, db, hist>>

(* SubredditFetch takes every n-th post when there are more than wanted,   *)
(* n being the rounded quotient, so that there may still be more.          *)
Sampled(s) ==
    LET n == Len(Top[s])
        skip == IF n > PerSubreddit THEN (2 * n + PerSubreddit) \div (2 * PerSubreddit) ELSE 1
    IN  [i \in 1 .. (n + skip - 1) \div skip |-> Top[s][(i - 1) * skip + 1]]

(* Workers that were started go on after RedditDiscoveryPhase has returned.*)
Started == reddit.pc = "on" \/ In("queued") # Subs

(* A post whose comments or author cannot be fetched is left out; but the  *)
(* error is only cleared by the posts after it, so that one at the last    *)
(* post is the subreddit's, as is that of a paginator.                     *)
ScrapeSubreddit(s) ==
    /\ Started
    /\ \/ /\ sub[s] = "queued" /\ Cardinality(In("scraping")) < Scrapers
          /\ GoesTo(s, "scraping") /\ UNCHANGED <<fetched, faults>>
       \/ /\ sub[s] = "scraping" /\ GoesTo(s, "scraped") /\ UNCHANGED faults
          /\ fetched' = [fetched EXCEPT ![s] = Range(Sampled(s))]
       \/ /\ sub[s] = "scraping" /\ GoesTo(s, "scraped") /\ Fault
          /\ \E p \in Range(Front(Sampled(s))) : fetched' = [fetched EXCEPT ![s] = Range(Sampled(s)) \ {p}]
       \/ sub[s] = "scraping" /\ Fault /\ (\E e \in {"tempError", "error"} : GoesTo(s, e)) /\ UNCHANGED fetched
    /\ UNCHANGED <<main, mem, disk, reddit, rmem, db, hist>>

(* The forwarder ends at the first error that is not temporary.            *)
Forward(s) ==
    /\ reddit.forwarder
    /\ \/ sub[s] = "scraped" /\ GoesTo(s, "posted") /\ UNCHANGED reddit
       \/ sub[s] = "tempError" /\ GoesTo(s, "skipped") /\ UNCHANGED reddit
       \/ /\ sub[s] = "error" /\ GoesTo(s, "skipped")
          /\ reddit' = [reddit EXCEPT !.forwarder = FALSE, !.err = TRUE]
    /\ UNCHANGED <<main, mem, disk, fetched, rmem, db, faults, hist>>

(* Unlike that of a tweet, the transformation of a post cannot fail.       *)
TransformPost(p) == [developer |-> Author[p], games |-> Games(p)]

(* Mutant of BatchWorker: a batch that fails has no result.                *)
BatchWorkerSilent(s) ==
    /\ \/ sub[s] = "posted" /\ Cardinality(In("batching")) < Batchers /\ GoesTo(s, "batching") /\ UNCHANGED <<db, faults>>
       \/ /\ sub[s] = "batching" /\ GoesTo(s, "batched")
          /\ db' = db \cup {TransformPost(p).developer : p \in fetched[s]} /\ UNCHANGED faults
       \/ sub[s] = "batching" /\ fetched[s] # {} /\ Fault /\ GoesTo(s, "merged") /\ UNCHANGED db
    /\ UNCHANGED <<main, mem, disk, fetched, reddit, rmem, hist>>

(* Mutant of BatchWorker: a worker for each batch.                         *)
BatchWorkerUnbounded(s) ==
    /\ \/ sub[s] = "posted" /\ GoesTo(s, "batching") /\ UNCHANGED <<db, faults>>
       \/ /\ sub[s] = "batching" /\ GoesTo(s, "batched")
          /\ db' = db \cup {TransformPost(p).developer : p \in fetched[s]} /\ UNCHANGED faults
       \/ /\ sub[s] = "batching" /\ fetched[s] # {} /\ Fault /\ GoesTo(s, "batchError")
          /\ \E ps \in SUBSET fetched[s] : db' = db \cup {TransformPost(p).developer : p \in ps}
    /\ UNCHANGED <<main, mem, disk, fetched, reddit, rmem, hist>>

BatchWorker(s) ==
    /\ \/ sub[s] = "posted" /\ Cardinality(In("batching")) < Batchers /\ GoesTo(s, "batching") /\ UNCHANGED <<db, faults>>
       \/ /\ sub[s] = "batching" /\ GoesTo(s, "batched")
          /\ db' = db \cup {TransformPost(p).developer : p \in fetched[s]} /\ UNCHANGED faults
       \/ /\ sub[s] = "batching" /\ fetched[s] # {} /\ Fault /\ GoesTo(s, "batchError")
          /\ \E ps \in SUBSET fetched[s] : db' = db \cup {TransformPost(p).developer : p \in ps}
    /\ UNCHANGED <<main, mem, disk, fetched, reddit, rmem, hist>>

TempState(s, games) ==
    LET in == [p \in Posts |-> IF p \in fetched[s] THEN 1 ELSE 0]
    IN  [Blank EXCEPT !.snaps = in, !.times = in, !.games = games, !.consumed = Cardinality(fetched[s])]

(* DiscoveryBatch's errors are never temporary.                            *)
MergeSubreddit(s) ==
    /\ reddit.pc = "on"
    /\ \/ /\ sub[s] = "batched"
          /\ \E games \in SUBSET UNION {TransformPost(p).games : p \in fetched[s]} : rmem' = Plus(rmem, TempState(s, games))
          /\ GoesTo(s, "merged")
          /\ reddit' = [reddit EXCEPT !.results = @ + 1]
       \/ /\ sub[s] = "batchError"
          /\ GoesTo(s, "merged") /\ RedditReturns(TRUE) /\ UNCHANGED rmem
    /\ UNCHANGED <<main, mem, disk, fetched, db, faults, hist>>

RedditEnds ==
    /\ \/ reddit.pc = "on" /\ reddit.results = Cardinality(Subs) /\ RedditReturns(reddit.err)
       \/ reddit.pc = "done" /\ reddit' = [reddit EXCEPT !.pc = "assigned"]
    /\ UNCHANGED <<main, mem, disk, sub, fetched, rmem, db, faults, hist>>

-----------------------------------------------------------------------------
Crash == Fault /\ Down

(* What was saved after Reddit was merged is merged with Reddit again.     *)
Restart ==
    /\ main.pc = "down"
    /\ LET state == IF disk = None THEN Blank ELSE disk
       IN  mem' = state /\ main' = Starting(state)
    /\ RedditStarts
    /\ hist' = [hist EXCEPT !.again = @ \/ (disk # None /\ \E p \in RedditPosts : disk.snaps[p] > 0)]
    /\ UNCHANGED <<disk, db, faults>>

TwitterStep ==
    \/ \E p \in main.todo : Result(p)
    \/ Search \/ Checkpoint \/ MergeReddit \/ EndPhase

RedditStep ==
    \/ InitialRequest \/ RedditEnds
    \/ \E s \in Subs : ScrapeSubreddit(s) \/ Forward(s) \/ BatchWorker(s) \/ MergeSubreddit(s)

Failure == TransformFails \/ (\E p \in main.todo : UpsertFails(p)) \/ SearchFails \/ Crash

Next ==
    \/ Running /\ (TwitterStep \/ RedditStep \/ Failure)
    \/ Restart

(* Go runs each goroutine that can go on; somebody starts the next process.*)
Spec ==
    /\ Init /\ [][Next]_vars
    /\ WF_vars(Running /\ TwitterStep) /\ WF_vars(Running /\ RedditStep) /\ WF_vars(Restart)

-----------------------------------------------------------------------------
States == {mem, rmem} \cup ({disk} \ {None})

(* Types; workers are no more than configured, every result that was taken *)
(* is of one subreddit, and the posts of one are at most half as many again*)
(* as wanted, because the quotient is rounded (discovery.go:474).          *)
TypeOK ==
    /\ \A state \in States :
         /\ state.snaps \in [Posts -> Nat] /\ state.times \in [Posts -> Nat]
         /\ state.batch \in 0 .. NumBatches /\ state.token \in 0 .. Len(Pages) - 1
    /\ main.todo \subseteq Tweets /\ db \subseteq {Author[p] : p \in Posts}
    /\ Cardinality(In("scraping")) <= Scrapers /\ Cardinality(In("batching")) <= Batchers
    /\ reddit.results <= Cardinality(In("merged"))
    /\ \A s \in Subs : fetched[s] \subseteq Range(Top[s]) /\ 2 * Cardinality(fetched[s]) <= 3 * PerSubreddit

(* In memory and in whatever is saved, a developer with snapshots is in    *)
(* the database, as the Snapshot phase needs it to be, has a time for each *)
(* of them, and every post that was consumed has a time: also after errors *)
(* in the middle of a batch, whose state is saved (discovery.go:424).      *)
SnapshotsHaveDevelopers ==
    \A state \in States :
        /\ \A p \in Posts : state.snaps[p] > 0 => Author[p] \in db
        /\ \A p \in Posts : state.times[p] >= state.snaps[p]
        /\ state.consumed = Total(state.times, Posts)

(* No post of the search gives a second snapshot, over crashes and errors, *)
(* with the Reddit state merged in: but after a failure in the middle of a *)
(* batch, as the batch is repeated; after the last page, which is followed *)
(* by the first; and for Reddit's posts when they were saved with an error *)
(* (discovery.go:837, discovery.go:862).                                   *)
NoPostTwice ==
    \A state \in States :
        /\ ~hist.wrapped /\ ~hist.partial => \A p \in Tweets \cup Range(Retweeted) :
             state.snaps[p] <= Cardinality({q \in Tweets : TransformTweet(q) = p})
        /\ ~hist.again => \A p \in RedditPosts : state.snaps[p] <= 1

(* The phase ends, after failures that end, with the tweets of as many     *)
(* batches as it counts; but if a subreddit could not be scraped, it waits *)
(* for its result for ever (discovery.go:674).                             *)
DiscoveryEnds ==
    \/ <>[](main.pc = "done" /\ \A i \in 1 .. mem.batch : i <= Len(Pages) => \A p \in Pages[i] : mem.snaps[TransformTweet(p)] > 0)
    \/ <>[](In("skipped") # {})
=============================================================================
