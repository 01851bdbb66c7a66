# Verification of game-scout

game-scout finds independent game developers on Twitter and Reddit, follows how
they do, and mails a digest of those that shine.  Its core is the *Scout
procedure*, a batch job that runs for hours through seven phases, over two
rate-limited APIs and a database, and that is meant to continue where it was
after a failure.  This directory holds TLA+ models of that procedure, their TLC
configurations, and TLAPS proofs.  `PROJECT.json` maps every definition to the
lines it models and lists runs, mutants, hazards and theorems.

## Inventory

| Component | Code | State | Operations | Correct when |
|---|---|---|---|---|
| Scout procedure | `scout.go` | result channel, named `err` | load or create the state, run the phases, time out, save on error, delete the state | a run that fails is continued by the next one; one run at a time changes the state |
| Phase runner | `phase.go` | `Phase` in the state | check, run, advance, save | phases run in order, each as often as its effects allow |
| ScoutState | `state.go`, `cached_fields.go`, `paths_to_bytes.go` | maps of times and snapshots, game IDs, deleted developers, a `State` record | merge, save, load, delete | what is loaded is what a save meant to keep |
| Discovery phase | `discovery.go` | batch number and token, Reddit channels | search, batch, merge, save | every tweet and subreddit is dealt with once; it ends |
| Update phase | `update.go` | jobs, results, finished channels, job IDs, rate limit | produce, update, consume, join | every developer is updated once, the rate limit is respected, it ends |
| Snapshot phase | `snapshot.go` | iterator over the partial snapshots | aggregate, insert | one snapshot per developer per run |
| Disable and Enable phases | `disable.go`, `enable.go` | disabled and enabled lists, numbers to go | pick, update the database, record | nobody just disabled is enabled, the numbers are respected |
| Delete phase | `delete.go` | deleted developers | find stale, sample, delete | as many as meant, none twice |
| Measure phase | `measure.go` | counters in the database | find trends, highlight, mail | each developer highlighted once per digest |
| Storefront scrapers | `db/models/scrape.go` | job queue, guard, started and finished flags | Start, Add, Drop, Wait, Stop | every accepted job is answered; no more than so many at once |
| Websocket scraper | `sock.go` | consumer jobs, stop signals | read, add, consume, drop, stop | it stops, and answers what it accepted |
| Twitter and Reddit clients | `twitter/client.go`, `reddit/client.go` | tweet cap, rate limits, request periods | check, execute, update | no request beyond the limits |
| Database layer | `db/db.go` | rows | Upsert, computed fields | one row per key |

Interaction: `Scout` runs the phases in one goroutine over one `ScoutState`; the
phases start goroutines that talk over channels and merge into that state; the
saved state is the only thing a later process knows; storefront scrapers and API
clients are shared by the workers of a phase.

Hard behaviour: pipelines that must be joined in the right order; a save that is
neither atomic nor synchronised with those who change the state; crashes between
a database update and the save that records it; timeouts that return while the
work goes on; rate limits read, and used later.

## Modules

| Module | What it is |
|---|---|
| `CheckpointedLedger` | abstract specification: a list of entries, recorded once each, and a saved copy that a new process continues from |
| `UpdatePhase` | the Update phase with producers, workers, consumer, main goroutine, save, timeout, crash and restart; its properties, its inductive invariant and its mutants |
| `ScoutProcedure` | the Scout procedure over all phases and processes, with the saved state file by file and up to two saves at a time |
| `CachedFields` | the seven fields of the state: adding, merging, encoding into files, decoding, and the merged iterator |
| `Discovery` | the Discovery phase: the search in batches, and the Reddit pipeline beside it |
| `DisableEnable` | the Disable and Enable phases over one database and one state |
| `DatabasePhases` | the Snapshot, Delete and Measure phases over the database, the Monday board and the email |
| `StorefrontScrapers` | the pool of scrapers, with its queue, guard, timeout and answers |
| `SteamAppScraper` | extends it by its users: the websocket scraper with dropper and consumers, the game goroutines of the Update phase, and the transformations of tweets and posts of the Discovery phase |
| `TwitterClient`, `RedditClient` | the API clients: tweet cap with its file, rate limits, access token, request periods |
| `MC*` | symmetry and the values of structured constants, for TLC |
| `Ranks`, `Totals` | `ORDER BY ... LIMIT` and sums as sets, from which more can be concluded than from `SelectSeq` and folds |
| `UpdatePhase_proofs`, `ScoutState_proofs` (of `ScoutProcedure` and `CachedFields`), `Discovery_proofs`, `DisableEnable_proofs`, `DatabasePhases_proofs`, `SteamAppScraper_proofs`, `TwitterClient_proofs`, `RedditClient_proofs` | TLAPS proofs of all safety properties of these modules, with their inductive invariants |

The phases are not composed in one state machine: what one leaves to the next is
the saved state and the database.  `ScoutProcedure` has the order of the phases
and the steps of a save, and every module of a phase is a sequence of processes
that may end anywhere and continue from what was saved last.  What a phase
relies on is a property of the one before: `SnapshotsHaveDevelopers` of
`Discovery` and `SavedStateIsConsistent` of `UpdatePhase` are what the Snapshot
phase needs to find a time and a row for each developer.

### UpdatePhase: how it corresponds to the code

* `pc` is where the main goroutine of `UpdatePhase` is: `start` (queries, tweet
  budget), then the joins `twitter`, `reddit` (receive from the done channels,
  then `close(jobs)`), `workers` (`Wait`, then `close(results)`), `consumer`
  (receive from `consumerDone`), then `returned` and `phaseAfter`.  `failed` is a
  phase that returned an error, `down` no process, `lost` a process with nothing
  to load.
* `prod[p]` is where a producer is: `slice` (top of its loop), `queue`
  (`queueDeveloperRange`), `wait` (the select over finished jobs and the
  timeout), `done`.  `batched["twitter"]` is FALSE when the rate limit lets
  `UpdatePhase` queue all the Twitter developers in one goroutine that does not
  wait.
* A job is named by its developer.  Channels are sets, since their capacity is
  the number of developers and no property depends on their order.
* `UpdateDeveloper` fills a state of its own and answers `ok`, `temporary` or
  `permanent` (`Answers`); its requests and parsing are not modelled.
* A developer whose snapshots cannot be read (`unread`) ends the process: there
  is no set of games yet when the worker merges it (`WorkerPanics`).
* `MergeField`, `MarkUpdated`, `CountUpdated`, `ConsumerErases`,
  `ConsumerWrites`, `NotifyFinished` are the consumer's steps for a good result
  in their order; a crash or a timeout may fall between any two.
* `Save` is two steps, the removal of the directory and the writing of the new
  one.  The save that follows `ScoutTimeout` runs beside the pipeline, so it
  also takes a step per part that it serialises (`TimeoutSerialises`); reading a
  map that the consumer is writing ends the process, as the Go runtime does
  (`TimeoutRaces`).
* A panic in a goroutine other than Scout's own ends the process: `recover` is
  only in Scout's deferred function (`SliceOutOfRange`, `BudgetPanics`).

Abstracted: a ScoutState keeps only times, snapshot counts, `UpdatedDevelopers`
and the count of developers, as the other merged fields behave like `times`.
Sleeps do not appear.  A save that fails is not modelled here but in
`ScoutProcedure`.  ScoutTimeout is taken while the pipeline runs; two saves that
interleave are in `ScoutProcedure` too.  The game scrapers that the phase starts
and waits for are a component of their own.

### ScoutProcedure: how it corresponds to the code

* `scout` is where Scout's own goroutine is: `none` (no process), `waiting` (the
  select over result and ScoutTimeout), `saving` (the deferred function's save),
  `leaving` (the error email), `refused` (what is on disk cannot be loaded, and
  Scout returned before its deferred function was there).
* `proc` is the goroutine that runs the phases: `work` (in a phase),
  `checkpoint` (a save within a phase), `after` (phaseAfter's save), `store`,
  `delete`, `failed` and `finished` (it has sent to `result`).
* `disk` maps the files that are there to what they hold; `dir` says whether
  their directory is.  `os.RemoveAll`, `serialiseFields` and `Write` are a step
  per file or field, in any order since they range over maps; a file that was
  created and not yet written is `Torn`.  A file of the State or of the times is
  needed to load (`Mandatory`), one of a developer's snapshots is not.
* Two goroutines save at once only after ScoutTimeout.  Then a file may be
  removed, truncated or written by one while the other has it open (`FillFile`).
* Phases add developers (`Discover`, `UpdateDeveloper`) or do nothing that the
  properties need; what happens inside them is in their modules.
* An error of `Save` is the phase's error in phaseAfter, and logged within a
  phase (`AfterSave`).  The phase has been advanced in memory by then.
* `Result.ID` is set when the result is stored; with it a second insert fails
  (`StoreFails`).

### CachedFields

Each addition has a number, so that it can be looked for.  `AddToMap`, `AddGame`,
`AddDeleted`, `SetScalar`, `AddDeveloper` and `SetToEnable` are the `SetOrAdd` of
the fields; `temp` is the state in memory that the Reddit half of Discovery
fills, and `MergeIterableCachedFields` merges it.  `SerialiseFields` and `DeserialisedFields`
are the encodings of all fields, with the paths of the files: JSON for some, a
directory of gob files for others, four files for a deleted developer.  gob
panics at a nil pointer, reads an empty slice as nil, and a map comes back in any
order.  `RemoveInterrupted` and `WriteInterrupted` leave any part of the files.
`IterBegins`, `IterNext`, `IterEnds` walk the merged iterator.

### Discovery

`main` is `DiscoveryPhase` with the `DiscoveryBatch` it is in: `search`, `batch`
(results left in `todo`, taken in any order), `scrapers` (`gameScrapers.Wait`).
`sub` says how far each subreddit is: `queued`, `scraping`, `scraped`, `posted`,
`batching`, `batched`, `merged`, or one of the errors on the way; `reddit` is
`RedditDiscoveryPhase` with its forwarder.  `rmem` is the state that it fills,
merged by `MergeReddit`.  A retweet gives the tweet it refers to; `Sampled` is
the choice of posts when a subreddit has more than wanted.  The collector that
waits for a result per subreddit is `RedditEnds`, the error that is assigned
after `wg.Done` its second disjunct.

### DisableEnable

`main` is the goroutine of the phases, `worker[t]` the Enable goroutine of a
type.  A type is disabled in two steps, the UPDATE (`Disable`) and the list in the
state (`RecordDisabled`).  A worker begins (`WorkerBegins`, fresh or resumed),
takes a sample whose developers have a trend or not (`Sample`), shortens the
number to go (`Reduce`), adds developer by developer (`Add`) and saves.  Each
`Save` of the three goroutines is three steps, two of which read the state.  A
save that fails is the phase's error after a phase, which Scout saves once more,
and is logged by a worker (`AfterError`).  A
query is `FirstOf` of `Ranks`: the first so many, by rank, of those it selects.
`hist.stale` records that two saves overlapped, or that one failed and left an
earlier one on disk.

### DatabasePhases

`db` is the tables, `board` the Monday board, `state` what is saved of the list
of deleted developers.  Each action is one statement or request with its error,
in the order of the code: `Aggregate`; `DeleteBegins`, `Sample`,
`RemoveReference`, `DeleteGames`, `DeleteDeveloper`; `Fetch`, `FindTrends`,
`AddGames`, `HighlightDeveloper`, `HighlightApp`, `AddApp`, `Unwatch`, `Send`.
The samples and trends of the queries are `FirstOf` of `Ranks`.  A loop over
independent rows is one step, in which any of them may fail: a developer of the
sample without a trend (`SampleSkips`), a game that is not saved (`Read`), a game
that stays watched (`Unwatch`).
Phases between those three do not change what these use.

### StorefrontScrapers and SteamAppScraper

A job is numbered.  `worker` is each worker of the pool: `guard`, `execute`,
`answer`, `sleep`.  Its scrape is a goroutine of its own, `scrape[j]`, that goes
on after the timeout.  Answering is a rendezvous with the receiver (`Receive`).
`Send` is `Add` after the test of `finished`; `Dequeue` and `Clean` are `Drop`
with the goroutines that answer nil to what was dropped.  `main` is the owner of
the pool, and `user` says which:

* `websocket`: the websocket worker, from `CreateInitialSteamApps`, which may fail
  before there is a dropper, to its deferred stop sequence (`StopDropper` ...
  `JoinConsumers`);
* `update`: the main goroutine of the Update phase, which calls `Wait` while
  goroutines of `UpdateDeveloper` may still add;
* `discovery`: `DiscoveryPhase`, which calls `Wait` when the tweets' batches have
  been transformed, and the posts' too unless `RedditDiscoveryPhase` returned
  early (`RedditFails`), after which its batch workers still add.  Each tweet or
  post has a goroutine of its own (`GameGoroutine`), the first `NumPosts` are
  posts.  `PhaseLeaves` is a batch of tweets that fails for good: the phase
  returns without `Wait`.

### TwitterClient and RedditClient

`thread[t].pc` is the step of `ExecuteBinding` or `Run` that a goroutine is at;
every critical section is a step and what is between two of them is in the
thread's fields.  `server` is what the service counts.  The dashboard is read
(`FetchFromWeb`) and then stored (`StoreCap`), the file read, parsed and found to
be fresh or not (`ReadFile`, `Parse`, `IsFresh`).  The cap is marshalled, its file
truncated and then written (`Marshal`, `CreateFile`, `WriteFile`), so that an older
cap may be written last, two writers may mix and a crash leaves it `Torn`.  `dirty`
and `mixed` of a goroutine note what others did between its steps, `hist` what
was lost by it.  `ClientCreate` runs before there are goroutines and is one step.
In `RedditClient` the access token is fetched by a `Run` within `Run`, which adds a
limit and counts a request of its own (`FetchToken`, `Returned`), and time goes by in periods of
five minutes; `LoadOrStore`, `Count`, `LoadPeriods`, `Grow`, `FindOldest` and
`Evict` are `incrementRequestPeriod`: a counter that was deleted may still be
counted on (`orphan`), and two goroutines may find, and then delete, the same oldest
period.  What `RequestsMadeWithinPeriod` adds up is `Total`.

## Runs

| Run | Shows | Bounds |
|---|---|---|
| `update_safety` | type, one job per developer, one snapshot per developer, consistent saves, nothing lost on a normal return, the rate limit read at rest, refinement of the ledger | 2 Twitter and 3 Reddit developers, 2 workers, `BatchSize` 2, one crash; all outcomes (with snapshots that cannot be read), drops, failed queries, short budget |
| `update_timeout` | the inductive invariant, and what remains true when ScoutTimeout saves under the pipeline | 2 + 1 developers of which 2 discovered, `BatchSize` 1, two faults |
| `update_liveness` | the phase ends | 2 + 2 developers, one crash, no permanent error, windows within the list |
| `scout_saves` | what is loaded comes from one save and has the data of the phases behind it; the procedure ends or is refused | 2 developers, 2 faults (errors, failing saves, crashes between any two steps); no ScoutTimeout |
| `scout_timeout` | no phase is left out and no result stored twice without a fault, with two saves at a time | no developers (the State and the times alone), 2 faults, one of them ScoutTimeout |
| `disable_enable` | nobody just disabled is enabled; no more are enabled than planned and those found are; both phases end | 3 Twitter and 2 Reddit developers (one of Reddit without a snapshot), any of them disabled at first, 1 to keep and 2 to enable, two faults |
| `steam_app_scraper` | every accepted job is answered, only whole games are; only goroutines that nobody waits for use a closed queue; Stop and Wait end | 3 jobs, of which 2 of posts, queue of 2, 2 workers of which 1 at a time, 2 consumers; each of the three users |
| `twitter_client` | the cap accounts for what was pulled, its file stays readable, no limit denies what Twitter allows, each answer is in the limit | 2 goroutines, 2 searches of one or two requests, a new period, a new month, two faults |
| `reddit_client` | requests of the day are found, the map stays bounded | 2 goroutines, one binding besides that of the access token, 5 requests over 4 periods and those for the token, map of 2, one fault |
| `discovery` | snapshots have developers and times, no post is taken twice, the phase ends | 2 pages of tweets with a retweet, 3 batches, 2 subreddits one of which is sampled, two faults |
| `database_phases` | deleted developers are remembered and within the quota, watched games are kept, items are on the board once, repetitions are bounded | 6 developers, 2 games, one app, any board, three faults |
| `cached_fields` | nothing is lost or doubled by merging, saving and loading; the iterator visits each key once | 3 developers, 2 additions to any fields, one interrupted save |

Why the bounds are enough: with 2 developers of a type a producer has a first
and a later batch, with window 1, exactly its list, or beyond it; 3 Reddit
developers are the least for which the tweet budget keeps a shorter Twitter
list; 2 workers interleave; `BatchSize` 2 has a save in the middle and a
remainder, `BatchSize` 1 saves at every result; two faults allow a crash after a
timeout.  `MaxTimeouts` is 0 or 1: beyond the maximum the count no longer
matters.  In `disable_enable` a sample is twice the number to go: with three
candidates of a type and two to enable, a resumed worker with one to go has a
first sample of two and then a second one; two faults allow a failure after a
resumption.  In `steam_app_scraper`
the queue can be full, a job be dropped by dropper and Stop at once, and both
workers be behind the guard.  In `twitter_client` a full request is two of the
three tweets of the cap, so that concurrent searches overdraw it; `MaxCalls`, `MaxPeriods` and `MaxMonths`
bound the rest, as `MaxPeriod` and `MaxRequests` do in `reddit_client`, where the
third period is the first to delete one.  In `discovery` there are more batches
than pages, so that the empty token is met; one worker per stage makes the
subreddits wait for each other.  In `database_phases` three faults are the least
to fail within a phase that was resumed after a failure in a resumed one, and
the quota (half of four disabled developers) is smaller than the candidates.
In `cached_fields` two additions are one to keep and one to lose or to merge
with it.  `MaxFaults` bounds the faults injected everywhere
(`MaxInterrupted` in `CachedFields`).

`CHECK_DEADLOCK FALSE` where the system may really stop: in the Update phase
after a permanent error, when the consumer is gone, or after a drop with nobody
at work; and where it has ended: the phases are over, the pool is stopped or
panicked, the clients' bounds are spent or a torn file refuses the start.

Fairness (`FairSpec`): weak fairness for each goroutine, for the saves, for a
return that has begun, and for the restart (the command runs from cron).  In
`ScoutProcedure`: weak fairness of each of the two goroutines and the restart,
and strong fairness of `FinishPhase`, as a phase has finitely many batches and
therefore saves.  The Go
scheduler runs a goroutine that can run; an answer of `UpdateDeveloper` comes
because its requests have timeouts.  Crashes and ScoutTimeout are not fair.
In `DisableEnable`: each goroutine, each with its saves, and the restart.  In
`SteamAppScraper`: each worker, cleaner and consumer, the dropper once it has
begun to drop, and the owner, whose messages keep coming or whose connection
breaks; not the scrapes, which may take for ever, nor Stop.  In `Discovery`: the
two goroutines' steps and the restart; the Reddit workers only go through
finitely many steps, so that fairness of all of them together is that of each.
`TwitterClient`, `RedditClient`, `DatabasePhases` and `CachedFields` have safety
properties only, as they are libraries or sequential.

## Deviations from comments and documentation

Met while modelling.  The models do what the code does; where a property would
otherwise be false its exception is in the property.

Update phase.  The first batch of a producer is not clamped and slices out of
range (`update.go:396`, comments at 482 and 572).  After a permanent error the
consumer returns without sending (`update.go:870`, comment at 917), and the phase
waits for ever.  A dropped batch is still waited for, as the break leaves the
select (`update.go:460`, `README.md:761`), and a drop takes the other producer's
jobs too.  Reddit developers of the Discovery phase are updated again
(`phase.go:116`, `scout.go:31`).  A save at ScoutTimeout may repeat an update
(`scout.go:64`, comment at `update.go:888`).  When a developer's snapshots cannot be
read, or Reddit does not answer for a user, the goroutine dereferences a nil set
or answer before it returns its temporary error, and the process panics
(`update.go:37`, 348).

State.  A save interrupted while it writes may load without an error and
without snapshots (`cached_fields.go:361`) or with deleted developers that are
nil, at which the process then panics (`cached_fields.go:643`).  `Merge` of the
deleted developers keeps duplicates; their `Get` accepts an index that is one too
large (`cached_fields.go:728`); a reloaded trend has lost its coefficients.

Discovery.  A subreddit that could not be scraped has no result, and the phase
waits for ever (`discovery.go:674`).  A post that cannot be transformed panics on
a nil error (`discovery.go:439`).  The error of the last failed search fails the
whole phase (`discovery.go:804`); that of the Reddit half is assigned after
`wg.Done` (`discovery.go:617`).  A subreddit may give one and a half times the
configured posts (`discovery.go:474`), and an error at its last post discards all
of them (`discovery.go:539`).

Delete and Measure.  The heap never holds more than are to be deleted, so that
the trend does not decide who is (`delete.go:26`).  A game that is watched on the
board and not yet in the database can be deleted.  When the board cannot be read
every watched game is unwatched, or deleted (`measure.go:95`, 361).  `Find` does
not return `ErrRecordNotFound`, and empty games are inserted (`game.go:276`,
`measure.go:138`).  The game of two of the top developers is added twice
(`measure.go:287`).  A resumed phase highlights and mails again; a send that
fails after delivery is repeated (`email/client.go:158`).

Clients and scrapers.  A torn file of the tweet cap keeps every later process
from starting (`twitter/client.go:336`); a search that has no next token begins
with the first page again (`twitter/client.go:576`).  `AddRateLimit` keeps a fresh
limit out when fewer requests were used than before the reset
(`reddit/client.go:123`).  The map of request periods may exceed its size after
two concurrent insertions (comment at `reddit/client.go:113`).  `Wait` may close the
channel that a goroutine of `UpdateDeveloper` is about to send on (`update.go:945`,
comment at `scrape.go:475`), and so on which a batch worker of the Reddit half is
about to send when `RedditDiscoveryPhase` returned early (`discovery.go:687`, 882).
When `CreateInitialSteamApps` fails, the deferred function waits for a dropper that
was not started, and `Stop` waits for ever (`sock.go:200`, 230).  Of two goroutines
that fetch the cap from the dashboard the one with the older numbers may store
last (`twitter/client.go:305`), and of two that write it the one with the older cap
(`twitter/client.go:326`).  An error on the way returns before the rate limit is
updated (`twitter/client.go:554`).

Finer than the code, or coarser: `ClientCreate` is one step of `TwitterClient`, so
that a month that ends within it is not modelled; an error of closing the cap's
file is like one of writing it.  In `SteamAppScraper` each post
of a batch has a goroutine, where a batch has a pool of `TransformWorkers`: these
only limit how many of them add at once.

The properties that hold are stated with these exceptions and no wider:
`OneSave` and `PastPhasesHaveTheirTimes` leave out ScoutTimeout, after which two
saves mix; `ProcedureEnds` leaves out a state that cannot be loaded;
`SnapshotsOnce` leaves out Reddit developers that were discovered or when
ScoutTimeout can happen; `SavedStateIsConsistent` leaves out ScoutTimeout;
`EnabledAsPlanned` leaves out types that could not be counted or whose number to
go was too small when the worker began, and states older than the last save;
`DisabledStayDisabled` leaves out developers disabled after the save that is
continued from; `DiscoveryEnds` leaves out a skipped subreddit; `NoPostTwice`
a batch that failed half-way, pages met again, and Reddit posts saved with an
error; `CapAccounts` requests that were answered and not counted, or whose count
was overwritten, in memory or in the file, by a cap read, fetched or marshalled
before it; `LimitAccounts` answers whose request returned an error before the
limit was updated, or that a race of load and store lost; `NothingLost` the fields in directories after an interrupted
save; `WatchedKept` and `BoardOnce` a board that could not be read;
`DeletedRemembered` stale developers of a phase without a sample;
`OnlyUnawaitedPanic` the goroutines of `UpdateDeveloper`, and those with a post once
`RedditDiscoveryPhase` returned early; `StopEnds` a panic, and a dropper that was not
started.

## Proofs

Every safety property that a run checks is also a theorem, for every value of the
constants.  Each component proved about has an inductive invariant, a conjunction
of parts named for what they say; the run of the component was used to let TLC
check it before it was proved.  A proof has a lemma for each
action that says what it changes (`...Moves`), and then for each part of the
invariant a lemma with a step for each action.

| Module | Theorems (property proved) | For any |
|---|---|---|
| `UpdatePhase_proofs` | `TypeCorrect` (`TypeOK`), `OneJob` (`OneJobPerDeveloper`), `RateLimitAtRest` (`RateLimitReadAtRest`), `Inductive` (`IInv`), `OneSnapshot` (`SnapshotsOnce`), `SavedConsistent` (`SavedStateIsConsistent`), `AllDone` (`ReturnsWhenAllAreDone`), `Refinement` (`KeepsLedger`) | developers, workers, windows, batch sizes, faults |
| `ScoutState_proofs` | `NoPhaseLeftOut` (`PhasesInOrder`), `ProcedureTyped` (`TypeOK`), `ResultsArePaid` (`OneResultPerFault`), `FilesAreOfOneSave` (`OneSave`), `LoadedStateIsWhole` (`PastPhasesHaveTheirTimes`) | developers, faults, with and without ScoutTimeout |
| `ScoutState_proofs` | `FieldsInvariant` (`FieldsInv`), `FieldsLoseNothing` (`NothingLost`), `IteratorVisitsAllOnce` (`VisitedOnce`) | developers, games, additions, interrupted saves |
| `Discovery_proofs` | `TypeCorrect` (`TypeOK`), `DevelopersAreSaved` (`SnapshotsHaveDevelopers`), `PostsCountOnce` (`NoPostTwice`) | pages, batches, retweets, subreddits, posts, workers, faults |
| `DisableEnable_proofs` | `TypeCorrect` (`TypeOK`), `DisabledAreKept` (`DisabledStayDisabled`), `EnabledAreAsPlanned` (`EnabledAsPlanned`) | developers, ranking, numbers to keep and enable, faults |
| `DatabasePhases_proofs` | `TypeCorrect` (`TypeOK`), `DeletedAreListed` (`DeletedRemembered`), `QuotaHolds` (`QuotaKept`), `WatchedStay` (`WatchedKept`), `NoItemTwice` (`BoardOnce`) | developers, games, apps, board, percentage, retries, faults |
| `SteamAppScraper_proofs` | `TypeCorrect` (`TypeOK`), `PanicsAreOfUnawaited` (`OnlyUnawaitedPanic`), `JobsAreAnswered` (`AcceptedAnswered`), `GamesAreWhole` (`AnswersAreWhole`) | jobs, posts among them, workers, guard, queue, consumers, cleaners |
| `TwitterClient_proofs` | `TypeCorrect` (`TypeOK`), `CapIsCounted` (`CapAccounts`), `LimitIsAccounted` (`LimitAccounts`) | goroutines, cap, sizes and numbers of requests, periods, months, faults |
| `RedditClient_proofs` | `TypeCorrect` (`TypeOK`), `AllAreCounted` (`RequestsCounted`) | goroutines, bindings, periods of a day, size of the map |

### The arguments

Argument, the pipeline.  `OneJobPerDeveloper` is not inductive: a producer could
queue a developer that a worker still has if it did not know what is at work.
The strengthening says what each goroutine knows of the others: `Acknowledged` (a
job at work is in its producer's `jobIds`, and one that is acknowledged is not
at work), `ByType`, `JoinedInOrder`, `PipelineAtRest`, `ProducersExhausted`,
`ConsumerHolds`.  `CoreInv` is their conjunction, preserved by every step given
`TypeOK`; the proof has a lemma per conjunct, and a frame lemma for the steps
that leave its variables alone.  `RateLimitReadAtRest` follows, because a producer
starts a batch with nothing left to wait for, and its `jobIds` cover what is at
work.

Argument, the state.  `SnapshotsOnce` holds because the consumer merges only
what has not been merged: `StillToMerge` says so of every developer that is to
be queued, at work or in the consumer's hands, and is preserved because nobody
starts to be at work who was not to be queued (`WorkMoves`), and a pipeline
starts with the developers that neither exclusion of `Phase.Run` removes.  That
start needs the memory to be consistent, hence what `Restart` loads to be:
`MemoryConsistent` is the consistency of a saved state up to the result in the
consumer's hands, `DiskConsistent` follows because whoever saves holds no result
that is half merged.  `DraftBehind` covers the save that runs beside the
consumer: what it has serialised of the list is a prefix of it.  `Accounted`
follows each developer to update through the pipeline; when it has been joined,
nobody is at work or to be queued, which is `ReturnsWhenAllAreDone`.  `IInv` is
the conjunction of all these.  For the refinement each step of the code is shown
to be a `Record`, `Erase`, `Write` or `Resume` of the ledger or to leave it alone;
`StillToMerge` makes `MarkUpdated` a `Record`, and `DraftBehind` makes the save of
a half-finished return a `Write`.

Argument, the procedure.  `PhasesInOrder` speaks of memory and disk; `PhaseInv`
adds what Save has serialised, through which a phase travels from one to the
other, that each goroutine is in one save at most and writes only what it has
serialised, and that nothing of an old procedure is left when a new one forgets
which phases have ended.  `Credit` is an account: wherever a process may end
between storing its result and deleting the state, the results stored are paid
for by faults.  `SaveInv` holds without ScoutTimeout, when Scout's goroutine saves
only after the other has failed (`Alone`): what has been serialised is of the
memory, which nobody changes meanwhile (`Pieces`), and the files are of the save
begun last (`OnDisk`), so that what each phase makes true of the memory
(`MemoryWhole`) is true of whatever can be loaded (`SavedWhole`).

Argument, the fields.  An addition can be in three places: the fields, the other
state in memory, and the files.  What is in a place is sound when its value has
the type of the field and no number is in it twice (`Sound`, with `Places` for
where a number is); the fields and the other state have no number in common
(`Apart`), so that merging them doubles nothing.  A new number is greater than all
that were given before (`Counts`), hence in none of them.  Of the files the
invariant says what a load would find (`Holds`, of what `Decoded` makes of them):
`SavedHolds` shows that decoding inverts encoding on what can be encoded, up to
the order of the deleted developers (`OrderIs`), and `LeftHolds` that what an
interrupted save leaves decodes to a part of it that has all of the JSON fields.
`Complete`, that a deleted developer has a developer and a trend, holds as long as
no interrupted save was loaded, and is what keeps a save from failing.  For the
iterator the invariant names two orders of the keys (`Walking`): what was visited
is where they begin, and the queues hold what remains of them.

Argument, discovery.  A state is whole when every snapshot has a time and a
developer in the database and the times add up to what was consumed; adding a
post and merging two states keep that (`WholeSnapshot`, `WholePlus`), because
sums add up (`TotalAdds`).  A batch of Reddit posts is merged when its developers
are saved (`Developers`).  That no tweet is counted twice needs to know which
tweets a state has consumed, and that is what its token says (`Consumed`): until
the search begins again, the page at the token is new (`PageIsNew`), so that each
result is of a tweet that was not counted (`Searched`).  `Merged` does the same
for Reddit with the stage of each subreddit.

Argument, disable and enable.  Nobody disabled by this procedure is enabled,
because neither the memory nor a copy of it on disk or in a save has one of them
among the enabled (`Apart`).  What is planned is a sum that a worker's steps move
from one summand to another: the enabled, those found, and the number to go
(`Looking`, `Quota`, `Filled`).  `Bounded` and `Saved` say that the database is not
behind what a resumed process reads, unless an older save is the last one
(`hist.stale`).  `Swept` says that the rows before a worker's offset have been
seen; with `FirstAll` (a greater limit that adds no row shows that there are no
more) the candidates are exhausted when a worker ends with some to go.

Argument, the phases of the database.  Each part of the invariant says what is
still to be done by the process at hand and bounds what others did by how many
began the phase: `Aggregated`, `Highlighted`, `Mailed`, `Boarded`.  `Listed` says that
the list on disk lacks at most stale developers of those that were deleted;
`Sampled` that those chosen and the number to go make up the quota; `Watched` that
a game being deleted is not on the board.

Argument, the pool.  `Located` says where a job without an answer can be, so that
when workers and cleaners have ended there is none; `Owned`, where the users are
when the channel is closed; `Handed`, that a job handed to the consumers is not
answered before one of them has taken it; `Once`, that no job is in two places, so
that no scrape changes a game that was given away (`Whole`).  That only goroutines
nobody waits for find the queue closed needs to know who has ended when
`DiscoveryPhase` closes it: every goroutine with a tweet, and all of them while
`RedditDiscoveryPhase` has not failed (`Awaited`).

Argument, the tweet cap.  While no count was lost, what Twitter counted is bounded
by the cap in memory and the tweets asked for by the searches under way
(`Counted`), and also by what a goroutine has read off the dashboard, unless
others counted since and it is `dirty` (`Fetched`).  Memory and file may each be
the other's only source: no fresher cap is in the file or in the hands of a
writer than in memory (`Newest`), and what is in memory is in the file, or a
goroutine is there that will write it (`Written`); when the process ends, only the
file survives (`Left`).  For the limit, each that is known, in memory or in a
goroutine, allows what Twitter still answers (`Allowed`), since Twitter's count only
falls within a period; and each answer of the period is in the limit, with its
goroutine, or noted as lost (`Recorded`), since one that is not stored was compared
with a limit that is as far.

Argument, the request periods.  The map has no fewer periods than were counted
and are being inserted (`Sized`), so that whoever finds it too large finds a
period that is not of this day, and deleting that loses no request of the day
(`Counted`).  The upper bound holds as long as no two inserted at once
(`OneAtATime`).  A counter that was deleted while a goroutine still held it is not
of this day, as the periods of this day are never deleted (`Orphaned`).

### Assumptions

The proofs rest on the named assumptions of each module, which say what its
constants are; TLC evaluates them in every run.  Beyond types and finiteness:
the developers of a state are finite, of one type each, and no games
(`CachedFieldsAssumption`); there is a worker (`ScrapersAssumption`) and a goroutine (`TwitterAssumption`); the
marks for nothing saved and for a torn file are not states or caps; the map of
periods is larger than a day has periods, as in the code (`RedditAssumption`); a
ranking has each developer at most once; pages of a search are disjoint, as are
the posts of two subreddits, and both differ from each other (`DiscoveryAssumption`).

### What the proofs changed

* The dropper lowers its count of jobs seen before with each job that it drops,
  and so below zero: the type of `SteamAppScraper` said otherwise.
* The first month's cap is overdrawn by one request for each goroutine but the
  first, also when the cap is read from the file.
* `DisableEnable` noted only overlapping saves as making the last save old; one
  that fails and leaves an earlier one does so too.
* `Evict` of `RedditClient` found and deleted a period in one step; in the code two
  goroutines can find the same one.
* `CachedFields` counted occurrences with folds and encoded with `@@`; it names the
  places of an addition now, and each file's content by its path, with the same
  values.
* `SelectSeq` and the folds of the community modules are opaque to the prover:
  queries are `FirstOf` now, sums `Total`, with the same values.

### Model-checked only

Liveness: `PhaseEnds`, `ProcedureEnds`, `PhasesEnd`, `StopEnds`, `DiscoveryEnds`, as
fairness and ENABLED are out of the prover's reach.  The runs check it on their
instances; nothing is claimed of larger ones.

## What remains

Four hazards have no property.  `AddRateLimit` (`reddit/client.go:121`) can store an
older limit over a newer one: the steps are modelled, but the comparison keeps a
fresh limit out even without a race, so that nothing stronger than the steps
themselves could be said of it.  The three others are what the code does every
time, so that a property could only be stated with them excepted: discovered
Reddit developers are updated again (`phase.go:116`), a board that could not be
read loses its watched games (`measure.go:95`), and an earlier search's error
fails the Discovery phase (`discovery.go:804`).

## Not modelled

Web scraping, HTML and JSON parsing, floating-point scores and trends, email
templates, and the configuration: they are input, output or arithmetic without
control of their own.  The database layer: connections, reflection, and single
statements that are atomic in the database.  The task server's worker, the
browser, the machinery library's configuration, the C# co-process that relays
Steam changelists, and the command line, whose admin commands call the
components above one at a time.  Waiting times appear only as steps that may
come at any time.
