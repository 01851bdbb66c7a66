----------------------------- MODULE DatabasePhases -----------------------------
(***************************************************************************)
(* The phases that work on the database and on the Monday board: Snapshot  *)
(* (snapshot.go), Delete (delete.go) and Measure (measure.go), run one     *)
(* after the other by one process after another.                           *)
(*                                                                         *)
(* Each phase makes many changes outside the state, and records them when  *)
(* it ends, if it does: a process that ends in between is followed by one  *)
(* that begins the phase anew, with the state of the last save and with    *)
(* everything the first one did.  The phases Disable and Enable, which come*)
(* between Snapshot and Delete, are in module DisableEnable, saves that    *)
(* are torn in ScoutProcedure.                                             *)
(***************************************************************************)
EXTENDS Naturals, Ranks, Functions

CONSTANTS
    PartialTwitter, PartialReddit, \* the developers with partial snapshots, by type
    Snapshots,      \* how many snapshots each developer has before the Scout procedure
    Disabled,       \* the developers that are disabled
    Old,            \* those whose latest snapshot is older than StaleDeveloperDays
    Verified,       \* those verified for a game
    Score,          \* the developers by weighted score, the lowest first
    Trend,          \* the developers by trend, the highest first
    Advocates,      \* the developers of each game
    TopApps,        \* the MaxTopSteamApps Steam apps with the highest scores
    Percent,        \* PercentageOfDisabledDevelopersToDelete
    MaxTrending,    \* MaxTrendingDevelopers
    Retries,        \* TemplateSendRetries of the Measure email
    MaxFaults       \* bound on the crashes and errors

Devs == DOMAIN Snapshots
Games == DOMAIN Advocates
Items == Games \cup TopApps
Partial == PartialTwitter \cup PartialReddit
Phases == {"snapshot", "delete", "measure"}
Lesser(m, n) == IF m < n THEN m ELSE n

ASSUME DatabaseAssumption ==
    /\ Snapshots \in [Devs -> Nat] /\ IsFiniteSet(Devs)
    /\ Partial \cup Disabled \cup Old \cup Verified \subseteq Devs
    /\ Advocates \in [Games -> SUBSET Devs]
    /\ Score \in Seq(Devs) /\ IsInjective(Score) /\ Trend \in Seq(Devs) /\ IsInjective(Trend)
    /\ Percent \in 0 .. 100 /\ MaxTrending \in Nat /\ Retries \in Nat \ {0} /\ MaxFaults \in Nat
    /\ IsFiniteSet(Items) /\ Games \cap TopApps = {} /\ Devs \cap TopApps = {}

VARIABLES
    pc,      \* where the process is in its phase
    local,   \* the local variables of the phase
    state,   \* the phase and the deleted developers, each with the games recorded
    disk,    \* the state that was saved
    db,      \* the tables: developers, their snapshots and highlights, games, watched
    board,   \* the items of the Monday board, those its users watch, and those they did
    sendDay, \* is this the day of the Measure email?
    hist     \* observations: see InitHist

vars == <<pc, local, state, disk, db, board, sendDay, hist>>

NoLocal == [todo |-> {}, toGo |-> 0, offset |-> 0, dev |-> {}, found |-> {}, watching |-> {}, tries |-> 0]

(* entered: how many processes began each phase; removed: the developers   *)
(* deleted in the database; sampled: those that a sample chose; quota: how *)
(* many the first process was to delete; unsaved: did a save fail?  unseen:*)
(* could the board not be read?  kept: the games that the database and the *)
(* board agree on being watched; resent: emails delivered with an error.   *)
InitHist == [entered |-> [p \in Phases |-> IF p = "snapshot" THEN 1 ELSE 0], removed |-> {},
             sampled |-> {}, quota |-> {}, unsaved |-> FALSE, unseen |-> FALSE,
             kept |-> db.watched \cap board.watches, resent |-> 0, faults |-> 0]

Init ==
    /\ pc = "begin" /\ local = NoLocal /\ sendDay \in BOOLEAN
    /\ state = [phase |-> "snapshot", deleted |-> <<>>] /\ disk = state
    /\ \E watched, watches, cleared, listed \in SUBSET Games :
         /\ watches \cup cleared \subseteq listed /\ watches \cap cleared = {}
         /\ board = [items |-> [i \in Items |-> IF i \in listed THEN 1 ELSE 0], watches |-> watches, cleared |-> cleared]
         /\ db = [devs |-> Devs, snaps |-> Snapshots, highlighted |-> [i \in Devs \cup TopApps |-> 0],
                  by |-> Advocates, games |-> Games, watched |-> watched, blank |-> [w \in BOOLEAN |-> 0], emails |-> 0]
    /\ hist = InitHist

-----------------------------------------------------------------------------
(* Phases, saves and the ends of processes.                                *)

In(phase, at) == state.phase = phase /\ pc = at
Goto(at) == pc' = at

Fault == hist.faults < MaxFaults
Faulted == [hist EXCEPT !.faults = @ + 1]

(* phaseAfter: the next phase is set and the state saved.                  *)
PhaseAfter(next) ==
    /\ state' = [state EXCEPT !.phase = next]
    /\ disk' = state'
    /\ pc' = IF next = "done" THEN "over" ELSE "begin"
    /\ local' = NoLocal
    /\ hist' = IF next = "done" THEN hist ELSE [hist EXCEPT !.entered[next] = @ + 1]

(* A phase returns an error, and Scout saves the state and returns.        *)
Fail ==
    /\ Fault /\ hist' = Faulted
    /\ disk' = state
    /\ pc' = "down"
    /\ UNCHANGED <<local, state, db, board, sendDay>>

Crash ==
    /\ pc \notin {"down", "over"}
    /\ Fault /\ hist' = Faulted
    /\ pc' = "down"
    /\ UNCHANGED <<local, state, disk, db, board, sendDay>>

Restart ==
    /\ pc = "down"
    /\ state' = disk
    /\ pc' = "begin" /\ local' = NoLocal
    /\ hist' = [hist EXCEPT !.entered[disk.phase] = @ + 1]
    /\ UNCHANGED <<disk, db, board, sendDay>>

GamesOf(d) == {g \in db.games : d \in db.by[g]}
Trained(d) == db.snaps[d] > 1

-----------------------------------------------------------------------------
(* The Snapshot phase: one aggregate for each key of DeveloperSnapshots,   *)
(* then of RedditDeveloperSnapshots, as MergeCachedFieldIterators joins    *)
(* them; the version of a new snapshot is one more than the latest's.      *)

SnapshotBegins ==
    /\ In("snapshot", "begin")
    /\ Goto("aggregate")
    /\ local' = [local EXCEPT !.todo = Partial]
    /\ UNCHANGED <<state, disk, db, board, sendDay, hist>>

Current == IF local.todo \cap PartialTwitter # {} THEN local.todo \cap PartialTwitter ELSE local.todo

(* Mutant of Aggregate: the iterator is not advanced.                      *)
AggregateAgain ==
    /\ In("snapshot", "aggregate")
    /\ \E d \in Current : db' = [db EXCEPT !.snaps[d] = Lesser(@ + 1, Snapshots[d] + 4)]
    /\ UNCHANGED <<pc, local, state, disk, board, sendDay, hist>>

Aggregate ==
    /\ In("snapshot", "aggregate")
    /\ \E d \in Current :
         /\ db' = [db EXCEPT !.snaps[d] = @ + 1]
         /\ local' = [local EXCEPT !.todo = @ \ {d}]
    /\ UNCHANGED <<pc, state, disk, board, sendDay, hist>>

AggregateFails == In("snapshot", "aggregate") /\ local.todo # {} /\ Fail

SnapshotEnds ==
    /\ In("snapshot", "aggregate") /\ local.todo = {}
    /\ PhaseAfter("delete")
    /\ UNCHANGED <<db, board, sendDay>>

SnapshotPhase == SnapshotBegins \/ Aggregate \/ AggregateFails \/ SnapshotEnds

-----------------------------------------------------------------------------
(* The Delete phase.                                                       *)

(* Developers with at most two snapshots (version < 2), the latest of them *)
(* old, that are not verified for a game; they need not be disabled.       *)
Stale == {d \in db.devs \ Verified : d \in Old /\ db.snaps[d] = Snapshots[d] /\ db.snaps[d] \in 1 .. 2}

(* SetOrAdd keeps the entry of a developer that is in the list.            *)
Listing(deleted, ds) == [d \in DOMAIN deleted \cup ds |-> IF d \in DOMAIN deleted THEN deleted[d] ELSE GamesOf(d)]

(* The number to delete, less those in the list, stale ones included.      *)
Quota == (Cardinality(Disabled \cap db.devs) * Percent) \div 100
(* Mutant of ToGo: the developers in the list are not subtracted.          *)
ToGoUncounted == Quota
ToGo == LET listed == Cardinality(DOMAIN state.deleted) IN IF listed < Quota THEN Quota - listed ELSE 0

DeleteSkipped == In("delete", "begin") /\ ~sendDay /\ PhaseAfter("measure") /\ UNCHANGED <<db, board, sendDay>>

(* A stale developer whose queries fail is left out.                       *)
DeleteBegins ==
    /\ In("delete", "begin") /\ sendDay
    /\ local' = [local EXCEPT !.toGo = ToGo]
    /\ LET begun == [hist EXCEPT !.quota = IF @ = {} THEN {Quota} ELSE @]
       IN  \/ state' = [state EXCEPT !.deleted = Listing(@, Stale)] /\ hist' = begun
           \/ /\ Fault /\ hist' = [begun EXCEPT !.faults = @ + 1]
              /\ \E d \in Stale : state' = [state EXCEPT !.deleted = Listing(@, Stale \ {d})]
    /\ Goto("sample")
    /\ UNCHANGED <<disk, db, board, sendDay>>

(* The count of the disabled developers or the query for stale ones fails. *)
DeleteFails == In("delete", "begin") /\ sendDay /\ Fail

(* The page of disabled, unverified developers with a snapshot.            *)
Rows == {d \in (Disabled \cap db.devs) \ Verified : db.snaps[d] > 0}
Page == FirstOf(local.offset + 2 * local.toGo, Rows, Score) \ FirstOf(local.offset, Rows, Score)

(* The heap takes developers until it holds as many as are needed, so that *)
(* all of it is popped: trends decide who is skipped, not who is chosen.   *)
(* One whose queries fail is skipped.                                      *)
Chosen(page) == FirstOf(local.toGo, {d \in page \ DOMAIN state.deleted : Trained(d)}, Score)

SampleSaved(saved, page) ==
    /\ In("delete", "sample") /\ local.toGo > 0 /\ Page # {}
    /\ state' = [state EXCEPT !.deleted = Listing(@, Chosen(page))]
    /\ local' = [local EXCEPT !.toGo = @ - Cardinality(Chosen(page)), !.offset = @ + 2 * local.toGo]
    /\ disk' = IF saved THEN state' ELSE disk
    /\ UNCHANGED <<pc, db, board, sendDay>>

(* Mutant of Sample: the state is not saved before anybody is deleted.     *)
SampleUnsaved == SampleSaved(FALSE, Page) /\ hist' = [hist EXCEPT !.sampled = @ \cup Chosen(Page)]
Sample == SampleSaved(TRUE, Page) /\ hist' = [hist EXCEPT !.sampled = @ \cup Chosen(Page)]
SampleSkips ==
    /\ Fault
    /\ \E page \in SUBSET Page :
         SampleSaved(TRUE, page) /\ hist' = [Faulted EXCEPT !.sampled = @ \cup Chosen(page)]

(* An error of Save is logged.                                             *)
SaveFails == Fault /\ SampleSaved(FALSE, Page)
             /\ hist' = [Faulted EXCEPT !.sampled = @ \cup Chosen(Page), !.unsaved = TRUE]
SampleFails == In("delete", "sample") /\ local.toGo > 0 /\ Fail

SampleEnds ==
    /\ In("delete", "sample") /\ (local.toGo = 0 \/ Page = {})
    /\ local' = [local EXCEPT !.todo = DOMAIN state.deleted]
    /\ Goto("reference")
    /\ UNCHANGED <<state, disk, db, board, sendDay, hist>>

(* array_remove on the games recorded for the next developer; an error is  *)
(* logged.                                                                 *)
RemoveReference ==
    /\ In("delete", "reference")
    /\ \E d \in local.todo :
         /\ local' = [local EXCEPT !.todo = @ \ {d}, !.dev = {d}]
         /\ \/ /\ db' = [db EXCEPT !.by = [g \in Games |->
                           IF g \in state.deleted[d] THEN db.by[g] \ {d} ELSE db.by[g]]]
               /\ hist' = hist
            \/ Fault /\ hist' = Faulted /\ db' = db
    /\ Goto("games")
    /\ UNCHANGED <<state, disk, board, sendDay>>

(* Those of the games that have no developer left and are not watched.     *)
(* Mutant: watched or not.                                                 *)
Recorded == UNION {state.deleted[d] : d \in local.dev}
AbandonedWatched == {g \in Recorded : db.by[g] = {}}
Abandoned == {g \in Recorded : db.by[g] = {} /\ g \notin db.watched}

DeleteGames ==
    /\ In("delete", "games")
    /\ \/ db' = [db EXCEPT !.games = @ \ Abandoned, !.watched = @ \ Abandoned] /\ hist' = hist
       \/ Fault /\ hist' = Faulted /\ db' = db
    /\ Goto("developer")
    /\ UNCHANGED <<local, state, disk, board, sendDay>>

DeleteDeveloper ==
    /\ In("delete", "developer")
    /\ \/ /\ db' = [db EXCEPT !.devs = @ \ local.dev]
          /\ hist' = [hist EXCEPT !.removed = @ \cup local.dev]
       \/ Fault /\ hist' = Faulted /\ db' = db
    /\ Goto("reference")
    /\ UNCHANGED <<local, state, disk, board, sendDay>>

DeleteEnds ==
    /\ In("delete", "reference") /\ local.todo = {}
    /\ PhaseAfter("measure")
    /\ UNCHANGED <<db, board, sendDay>>

DeletePhase ==
    DeleteSkipped \/ DeleteBegins \/ DeleteFails \/ Sample \/ SampleSkips \/ SaveFails
    \/ SampleFails \/ SampleEnds \/ RemoveReference \/ DeleteGames \/ DeleteDeveloper \/ DeleteEnds

-----------------------------------------------------------------------------
(* The Measure phase.                                                      *)

(* What is read from the board: the items, and those that have watchers;   *)
(* the games found are updated in the database.  An empty list of watchers,*)
(* unlike none, leaves a game as watched as it was (game.go:288-299).  An  *)
(* item whose game was deleted yields an empty game, which Save inserts    *)
(* (Find of one row does not return ErrRecordNotFound), with what its      *)
(* watchers made of Watched.                                               *)
(* Mutant of OnBoard: only the items that the database lists as watched.   *)
OnBoardWatched == {i \in db.watched : board.items[i] > 0}
OnBoard == {i \in Items : board.items[i] > 0}

Watching(found) == found \cap (board.watches \cup (board.cleared \cap db.watched))

(* The games saved are those found, but for the saves that fail.           *)
Read(found, saved) ==
    /\ local' = [local EXCEPT !.found = found, !.watching = Watching(found)]
    /\ db' = [db EXCEPT !.watched = (@ \ saved) \cup (Watching(saved) \cap db.games),
                        !.blank = [w \in BOOLEAN |-> @[w] + Cardinality(
                            {i \in (saved \cap Games) \ db.games : (i \in board.watches) = w})]]

Fetch ==
    /\ In("measure", "begin")
    /\ \/ Read(OnBoard, OnBoard) /\ hist' = hist
       \/ Fault /\ hist' = Faulted /\ \E saved \in SUBSET OnBoard : Read(OnBoard, saved)
       \/ Fault /\ Read({}, {}) /\ hist' = [Faulted EXCEPT !.unseen = TRUE]
    /\ Goto("fetched")
    /\ UNCHANGED <<state, disk, board, sendDay>>

MeasureSkipped == In("measure", "fetched") /\ ~sendDay /\ PhaseAfter("done") /\ UNCHANGED <<db, board, sendDay>>
MeasureFails == In("measure", "fetched") /\ sendDay /\ Fail

(* The enabled developers with a trend; the trendFinders' results are      *)
(* sorted, and one whose queries fail is left out.                         *)
Top(failed) == FirstOf(MaxTrending, {d \in db.devs \ (Disabled \cup failed) : Trained(d)}, Trend)

FindTrends ==
    /\ In("measure", "fetched") /\ sendDay
    /\ \/ local' = [local EXCEPT !.todo = Top({})] /\ hist' = hist
       \/ Fault /\ hist' = Faulted /\ \E d \in Devs : local' = [local EXCEPT !.todo = Top({d})]
    /\ Goto("add")
    /\ UNCHANGED <<state, disk, db, board, sendDay>>

(* A game is added when it was not on the board at the beginning.          *)
Put(items) == board' = [board EXCEPT !.items = [i \in Items |-> IF i \in items THEN @[i] + 1 ELSE @[i]]]

AddGames ==
    /\ In("measure", "add")
    /\ \E d \in FirstOf(1, local.todo, Trend) :
         /\ LET new == GamesOf(d) \ local.found
            IN  \/ Put(new) /\ hist' = hist
                \/ Fault /\ hist' = Faulted /\ \E g \in new : Put(new \ {g})
         /\ local' = [local EXCEPT !.todo = @ \ {d}, !.dev = {d}]
    /\ Goto("highlight")
    /\ UNCHANGED <<state, disk, db, sendDay>>

(* times_highlighted + 1; an error is logged.                              *)
Highlight(i) ==
    \/ db' = [db EXCEPT !.highlighted[i] = @ + 1] /\ hist' = hist
    \/ Fault /\ hist' = Faulted /\ db' = db

HighlightDeveloper ==
    /\ In("measure", "highlight")
    /\ \E d \in local.dev : Highlight(d)
    /\ Goto("add")
    /\ UNCHANGED <<local, state, disk, board, sendDay>>

FindApps ==
    /\ In("measure", "add") /\ local.todo = {}
    /\ local' = [local EXCEPT !.todo = TopApps]
    /\ Goto("app")
    /\ UNCHANGED <<state, disk, db, board, sendDay, hist>>

AppsFail == In("measure", "add") /\ local.todo = {} /\ Fail

HighlightApp ==
    /\ In("measure", "app")
    /\ \E a \in local.todo : Highlight(a) /\ local' = [local EXCEPT !.dev = {a}, !.todo = @ \ {a}]
    /\ Goto("addApp")
    /\ UNCHANGED <<state, disk, board, sendDay>>

AddApp ==
    /\ In("measure", "addApp")
    /\ \/ Put(local.dev \ local.found) /\ hist' = hist
       \/ Fault /\ hist' = Faulted /\ UNCHANGED board
    /\ Goto("app")
    /\ UNCHANGED <<local, state, disk, db, sendDay>>

(* Watched games that the board does not say are watched: no longer        *)
(* watched, or deleted when they have no developer, as all empty games.  An*)
(* update that fails is logged, and without the query's rows none is made; *)
(* a process that ends in the loop leaves what such a loop leaves.         *)
Unwatched(gone, blank) ==
    db' = [db EXCEPT !.watched = @ \ gone, !.games = {g \in @ : g \in gone => db.by[g] # {}}, !.blank[TRUE] = blank]

Unwatch ==
    /\ In("measure", "app") /\ local.todo = {}
    /\ LET gone == db.watched \ local.watching
       IN  \/ Unwatched(gone, 0) /\ hist' = hist
          \/ /\ Fault /\ hist' = Faulted
             /\ \E some \in SUBSET gone : \E blank \in {0, db.blank[TRUE]} : Unwatched(some, blank)
    /\ Goto("pdf")
    /\ UNCHANGED <<local, state, disk, board, sendDay>>

Construct == In("measure", "pdf") /\ Goto("send") /\ UNCHANGED <<local, state, disk, db, board, sendDay, hist>>
ConstructFails == In("measure", "pdf") /\ Fail

(* sendAsync: up to Retries tries; that none succeeded is only logged (an  *)
(* email that cannot be made is a nil pointer to MeasurePhase: a crash). A *)
(* send that fails at closing the email or at QUIT has delivered it.       *)
Send ==
    /\ In("measure", "send") /\ local.tries < Retries
    /\ db' = [db EXCEPT !.emails = @ + 1]
    /\ local' = [local EXCEPT !.tries = Retries]
    /\ UNCHANGED <<pc, state, disk, board, sendDay, hist>>

SendFails ==
    /\ In("measure", "send") /\ local.tries < Retries
    /\ Fault
    /\ \E delivered \in {0, 1} :
         /\ db' = [db EXCEPT !.emails = @ + delivered]
         /\ hist' = [Faulted EXCEPT !.resent = @ + delivered]
    /\ local' = [local EXCEPT !.tries = @ + 1]
    /\ UNCHANGED <<pc, state, disk, board, sendDay>>

MeasureEnds ==
    /\ In("measure", "send") /\ local.tries = Retries
    /\ PhaseAfter("done")
    /\ UNCHANGED <<db, board, sendDay>>

MeasurePhase ==
    Fetch \/ MeasureSkipped \/ MeasureFails \/ FindTrends \/ AddGames \/ HighlightDeveloper \/ FindApps
    \/ AppsFail \/ HighlightApp \/ AddApp \/ Unwatch \/ Construct \/ ConstructFails \/ Send \/ SendFails
    \/ MeasureEnds

Next == SnapshotPhase \/ DeletePhase \/ MeasurePhase \/ Crash \/ Restart

Spec == Init /\ [][Next]_vars

-----------------------------------------------------------------------------
(* Properties.                                                             *)

(* Type correctness, with what repetition may do: a phase changes a row    *)
(* once for each process that began it, so that an aggregate, a highlight  *)
(* and an email are repeated by a process that repeats its phase, an email *)
(* by a retry when its first delivery ended with an error, and by nothing  *)
(* else (snapshot.go:165, measure.go:301, 447, email/client.go:158).       *)
TypeOK ==
    /\ state.phase \in Phases \cup {"done"} /\ disk.phase \in Phases \cup {"done"}
    /\ DOMAIN state.deleted \subseteq Devs /\ DOMAIN disk.deleted \subseteq Devs
    /\ \A d \in Devs : db.snaps[d] <= Snapshots[d] + (IF d \in Partial THEN hist.entered["snapshot"] ELSE 0)
    /\ state.phase # "snapshot" => \A d \in Partial : db.snaps[d] > Snapshots[d]
    /\ \A i \in Devs \cup TopApps : db.highlighted[i] \in 0 .. hist.entered["measure"]
    /\ db.emails \in 0 .. hist.entered["measure"] + hist.resent
    /\ db.devs \subseteq Devs /\ db.games \subseteq Games /\ db.watched \subseteq db.games

(* delete.go, "stored within the DeletedDevelopers cached field ... so that*)
(* they can be mentioned in the Measure Phase": whoever is deleted is in   *)
(* the list that Measure reads, over any crash in the deletions; but for   *)
(* stale developers, whom a phase without a sample never saves, and for a  *)
(* save that failed.                                                       *)
DeletedRemembered ==
    state.phase \in {"measure", "done"} /\ pc # "down" /\ ~hist.unsaved =>
      hist.removed \ Old \subseteq DOMAIN state.deleted

(* The samples choose no more developers than the percentage of those who  *)
(* were disabled when the first process began, though each process counts  *)
(* them again when some are deleted already (delete.go:60-80).             *)
QuotaKept == ~hist.unsaved => \A q \in hist.quota : Cardinality(hist.sampled) <= q

(* A game that is watched, on the board and in the database, is neither    *)
(* deleted with its developers nor unwatched; unless the board could not   *)
(* be read, when every watched game is taken for one that no longer is     *)
(* (measure.go:95, 361).                                                   *)
WatchedKept == ~hist.unseen => hist.kept \subseteq db.watched

(* An item is on the board once, whatever is repeated, because each process*)
(* reads the board first; but for a game of two of the top developers, as  *)
(* mondayGameIDs is not updated (measure.go:287), and a board not read.    *)
BoardOnce ==
    ~hist.unseen =>
      \A i \in Items : board.items[i] <= IF i \in Games /\ Advocates[i] # {} THEN Cardinality(Advocates[i]) ELSE 1

=============================================================================
