------------------------------ MODULE DisableEnable ------------------------------
(***************************************************************************)
(* The Disable phase (disable.go) and the Enable phase (enable.go), run    *)
(* one after the other by one process after another.                       *)
(*                                                                         *)
(* Disable sets the worst developers of a type to disabled in the          *)
(* database, and then lists them in the state.  Enable starts a goroutine  *)
(* per type of developer that looks through the disabled ones, a sample at *)
(* a time, lists those that are to be enabled in the state and saves it;   *)
(* when both are done the listed developers are enabled in the database.   *)
(* The goroutines share the state, a process may end anywhere, and the     *)
(* next one continues from what was saved.                                 *)
(*                                                                         *)
(* A save is: remove the directory and begin to serialise, read            *)
(* DevelopersToEnable, which is serialised after EnabledDevelopers, write. *)
(* That a directory may be written in part is in ScoutProcedure.           *)
(***************************************************************************)
EXTENDS Naturals, Ranks, SequencesExt

CONSTANTS
    Twitter, Reddit,    \* the developers of each type
    Ranking,            \* those with a snapshot, by weighted score, worst first
    Tried,              \* those whose latest snapshot is not their first
    KeepEnabled,        \* MaxEnabledDevelopersAfterDisablePhase
    ToEnable,           \* MaxDevelopersToEnable
    MaxFaults,          \* bound on the crashes and errors
    NoSave              \* the absence of a save, on disk or under way

Types == <<"T", "R">>
Devs == [t \in {"T", "R"} |-> IF t = "T" THEN Twitter ELSE Reddit]
AllDevs == Twitter \cup Reddit
Best == Reverse(Ranking)
Savers == {"main", "T", "R"}

(* The fields of the State that the two phases use.                        *)
State == [phase : {"Disable", "Enable", "Delete"}, disabled : SUBSET AllDevs,
          enabled : SUBSET AllDevs, toGo : [{"T", "R"} -> 0 .. ToEnable]]
Blank == [phase |-> "Disable", disabled |-> {}, enabled |-> {}, toGo |-> [t \in {"T", "R"} |-> 0]]

ASSUME DisableEnableAssumption ==
    /\ IsFiniteSet(Twitter) /\ IsFiniteSet(Reddit)
    /\ Twitter \cap Reddit = {}
    /\ Ranking \in Seq(AllDevs) /\ IsInjective(Ranking)
    /\ Tried \subseteq Range(Ranking)
    /\ KeepEnabled \in Nat /\ ToEnable \in Nat \ {0} /\ MaxFaults \in Nat
    /\ NoSave \notin State \cup [stage : {"read", "write"}, copy : State]

VARIABLES
    disabled,   \* the developers that are disabled in the database
    mem,        \* the State in memory
    disk,       \* the State that was saved
    saving,     \* what each goroutine that saves has serialised
    main,       \* where the goroutine of the phases is, the types it is still to
                \* disable, and the rows of its last UPDATE
    worker,     \* the goroutine of each type
    faults,
    hist        \* observations: see InitHist

vars == <<disabled, mem, disk, saving, main, worker, faults, hist>>

NoWorker == [pc |-> "idle", toGo |-> 0, offset |-> 0, found |-> {}]
EnabledOf(s, t) == s.enabled \cap Devs[t]

(* down, up: disabled and enabled in the database by this procedure;       *)
(* lost: in down, but not in the save that was continued from;             *)
(* skipped: the types whose developers could not be counted;               *)
(* short: the types whose worker begins with too small a number to find;   *)
(* trendless: those without a trend when they were looked at;              *)
(* stale: did two saves overlap, or one fail that left an earlier one on   *)
(* disk or under way?                                                      *)
InitHist == [down |-> {}, up |-> {}, lost |-> {}, skipped |-> {}, short |-> {},
             trendless |-> {}, stale |-> FALSE]

Init ==
    /\ disabled \in SUBSET AllDevs
    /\ mem = Blank
    /\ disk = Blank
    /\ saving = [s \in Savers |-> NoSave]
    /\ main = [pc |-> "disable", types |-> Types, rows |-> {}]
    /\ worker = [t \in {"T", "R"} |-> NoWorker]
    /\ faults = 0
    /\ hist = InitHist

Fault == faults < MaxFaults /\ faults' = faults + 1

-----------------------------------------------------------------------------
(* The Disable phase.                                                      *)

EnabledInDb(t) == Devs[t] \ disabled

(* The developers that the UPDATE disables: those of the type that are     *)
(* enabled and have a snapshot, by weighted score, as many as are too many.*)
Worst(t) == FirstOf(Cardinality(EnabledInDb(t)) - KeepEnabled, EnabledInDb(t), Ranking)

Disable(t) ==
    /\ Cardinality(EnabledInDb(t)) > KeepEnabled
    /\ disabled' = disabled \cup Worst(t)
    /\ main' = [main EXCEPT !.pc = "record", !.rows = Worst(t)]
    /\ hist' = [hist EXCEPT !.down = @ \cup Worst(t)]
    /\ UNCHANGED <<mem, disk, saving, worker, faults>>

(* SetOrAdd("DisabledDevelopers", ...) with the rows the UPDATE returned.  *)
RecordDisabled ==
    /\ mem' = [mem EXCEPT !.disabled = @ \cup main.rows]
    /\ main' = [pc |-> "disable", types |-> Tail(main.types), rows |-> {}]
    /\ UNCHANGED <<disabled, disk, saving, worker, faults, hist>>

NoneToDisable(t) ==
    /\ Cardinality(EnabledInDb(t)) <= KeepEnabled
    /\ main' = [main EXCEPT !.types = Tail(@)]
    /\ UNCHANGED <<disabled, mem, disk, saving, worker, faults, hist>>

(* An error of the count is logged, and the next type dealt with.          *)
CountFails(t) ==
    /\ Fault
    /\ main' = [main EXCEPT !.types = Tail(@)]
    /\ hist' = [hist EXCEPT !.skipped = @ \cup {t}]
    /\ UNCHANGED <<disabled, mem, disk, saving, worker>>

DisableFails(t) ==
    /\ Cardinality(EnabledInDb(t)) > KeepEnabled
    /\ Fault
    /\ main' = [main EXCEPT !.pc = "saveError"]
    /\ UNCHANGED <<disabled, mem, disk, saving, worker, hist>>

FinishDisable ==
    /\ main.pc = "disable" /\ main.types = <<>>
    /\ mem' = [mem EXCEPT !.phase = "Enable"]
    /\ main' = [main EXCEPT !.pc = "saveDisable"]
    /\ UNCHANGED <<disabled, disk, saving, worker, faults, hist>>

DisablePhase ==
    \/ /\ main.types # <<>>
       /\ \/ /\ main.pc = "disable"
             /\ \/ Disable(Head(main.types)) \/ NoneToDisable(Head(main.types))
                \/ CountFails(Head(main.types)) \/ DisableFails(Head(main.types))
          \/ main.pc = "record" /\ RecordDisabled
    \/ FinishDisable

-----------------------------------------------------------------------------
(* The worker of a type of developers in the Enable phase.                 *)

(* What the query of a worker selects, which its pages show best first.    *)
(* NOT IN an empty list is NOT IN (NULL), which holds of no row.           *)
(* Mutant: those disabled by this procedure are not left out.              *)
CandidatesDisabledNow(t) == Devs[t] \cap disabled \cap Tried
Candidates(t) == IF mem.disabled = {} THEN {} ELSE (Devs[t] \cap disabled \cap Tried) \ mem.disabled

(* A worker starts from scratch when the state shows no sign of a previous *)
(* run: no developer of any type enabled, none of its type to go.          *)
WorkerBegins(t) ==
    LET fresh == mem.enabled = {} /\ mem.toGo[t] = 0
        toGo  == IF fresh THEN ToEnable ELSE mem.toGo[t]
    IN  /\ worker[t].pc = "begin"
        /\ mem' = [mem EXCEPT !.toGo[t] = toGo]
        /\ worker' = [worker EXCEPT ![t] = [NoWorker EXCEPT !.pc = "sample", !.toGo = toGo]]
        /\ hist' = [hist EXCEPT !.short =
                        IF toGo + Cardinality(EnabledOf(mem, t)) < ToEnable THEN @ \cup {t} ELSE @]
        /\ UNCHANGED <<disabled, disk, saving, main, faults>>

(* Mutant of Page: the limit is the number to go, the offset grows by two. *)
Rows(t, from, limit) == FirstOf(from + limit, Candidates(t), Best) \ FirstOf(from, Candidates(t), Best)
PageOfToGo(t) == Rows(t, worker[t].offset, worker[t].toGo)
Page(t) == Rows(t, worker[t].offset, 2 * worker[t].toGo)

(* Mutant of Sample: all of a sample that have a trend are taken.          *)
SampleAll(t) ==
    /\ worker[t].pc = "sample" /\ worker[t].toGo > 0
    /\ Page(t) # {}
    /\ worker' = [worker EXCEPT ![t].pc = "reduce", ![t].offset = @ + 2 * worker[t].toGo,
                    ![t].found = Page(t) \ mem.enabled]
    /\ UNCHANGED <<disabled, mem, disk, saving, main, faults, hist>>

(* A sample is fetched and the trends of its developers found, until as    *)
(* many as are to go have one.                                             *)
Sample(t) ==
    /\ worker[t].pc = "sample" /\ worker[t].toGo > 0
    /\ Page(t) # {}
    /\ LET new == Page(t) \ mem.enabled
       IN  \E bad \in SUBSET new :
             /\ worker' = [worker EXCEPT ![t].pc = "reduce", ![t].offset = @ + 2 * worker[t].toGo,
                             ![t].found = FirstOf(worker[t].toGo, new \ bad, Best)]
             /\ hist' = [hist EXCEPT !.trendless = @ \cup bad]
    /\ UNCHANGED <<disabled, mem, disk, saving, main, faults>>

Reduce(t) ==
    LET left == worker[t].toGo - Cardinality(worker[t].found)
    IN  /\ worker[t].pc = "reduce"
        /\ worker' = [worker EXCEPT ![t].pc = "add", ![t].toGo = left]
        /\ mem' = [mem EXCEPT !.toGo[t] = left]
        /\ UNCHANGED <<disabled, disk, saving, main, faults, hist>>

(* The developers found are listed one by one, by their trends.            *)
Add(t) ==
    /\ worker[t].pc = "add"
    /\ \E d \in worker[t].found :
         /\ mem' = [mem EXCEPT !.enabled = @ \cup {d}]
         /\ worker' = [worker EXCEPT ![t].found = @ \ {d}]
    /\ UNCHANGED <<disabled, disk, saving, main, faults, hist>>

Added(t) ==
    /\ worker[t].pc = "add" /\ worker[t].found = {}
    /\ worker' = [worker EXCEPT ![t].pc = "save"]
    /\ UNCHANGED <<disabled, mem, disk, saving, main, faults, hist>>

(* Mutant of WorkerEnds: a worker without a sample returns without sending.*)
WorkerEndsSilently(t) ==
    /\ worker[t].pc = "sample"
    /\ worker[t].toGo = 0 \/ Page(t) = {}
    /\ worker' = [worker EXCEPT ![t].pc = IF worker[t].toGo = 0 THEN "sending" ELSE "ended"]
    /\ UNCHANGED <<disabled, mem, disk, saving, main, faults, hist>>

WorkerEnds(t) ==
    /\ worker[t].pc = "sample"
    /\ worker[t].toGo = 0 \/ Page(t) = {}
    /\ worker' = [worker EXCEPT ![t].pc = "sending"]
    /\ UNCHANGED <<disabled, mem, disk, saving, main, faults, hist>>

(* The error is sent, and when it has been received the worker goes on     *)
(* with an empty sample: it sends again, and nobody receives.              *)
SampleFails(t) ==
    /\ worker[t].pc = "sample" /\ worker[t].toGo > 0
    /\ Fault
    /\ worker' = [worker EXCEPT ![t].pc = "failing"]
    /\ UNCHANGED <<disabled, mem, disk, saving, main, hist>>

Worker(t) == WorkerBegins(t) \/ Sample(t) \/ Reduce(t) \/ Add(t) \/ Added(t) \/ WorkerEnds(t)

-----------------------------------------------------------------------------
(* The goroutine of the Enable phase.                                      *)

StartWorkers ==
    /\ main.pc = "start"
    /\ worker' = [t \in {"T", "R"} |-> [NoWorker EXCEPT !.pc = "begin"]]
    /\ main' = [main EXCEPT !.pc = "wait"]
    /\ UNCHANGED <<disabled, mem, disk, saving, faults, hist>>

(* The channels are unbuffered: sending and receiving is one step.         *)
Receive(t) ==
    /\ main.pc = "wait"
    /\ \/ /\ worker[t].pc = "sending"
          /\ worker' = [worker EXCEPT ![t].pc = "ended"]
          /\ main' = [main EXCEPT !.pc = IF \A o \in {"T", "R"} \ {t} : worker[o].pc = "ended"
                                         THEN "update" ELSE "wait"]
       \/ /\ worker[t].pc = "failing"
          /\ worker' = [worker EXCEPT ![t].pc = "sending"]
          /\ main' = [main EXCEPT !.pc = "saveError"]
    /\ UNCHANGED <<disabled, mem, disk, saving, faults, hist>>

EnableInDb ==
    /\ main.pc = "update"
    /\ disabled' = disabled \ mem.enabled
    /\ hist' = [hist EXCEPT !.up = @ \cup (mem.enabled \cap disabled)]
    /\ main' = [main EXCEPT !.pc = "advance"]
    /\ UNCHANGED <<mem, disk, saving, worker, faults>>

EnableFails ==
    /\ main.pc = "update" /\ mem.enabled # {}
    /\ Fault
    /\ main' = [main EXCEPT !.pc = "saveError"]
    /\ UNCHANGED <<disabled, mem, disk, saving, worker, hist>>

FinishEnable ==
    /\ main.pc = "advance"
    /\ mem' = [mem EXCEPT !.phase = "Delete"]
    /\ main' = [main EXCEPT !.pc = "saveEnable"]
    /\ UNCHANGED <<disabled, disk, saving, worker, faults, hist>>

EnablePhase == StartWorkers \/ (\E t \in {"T", "R"} : Receive(t)) \/ EnableInDb \/ FinishEnable

-----------------------------------------------------------------------------
(* Saving.                                                                 *)

Saves(s) == IF s = "main" THEN main.pc \in {"saveDisable", "saveEnable", "saveError"}
            ELSE worker[s].pc = "save"

(* Where the goroutine is after a save.  With a state of phase Delete on   *)
(* disk these two phases are over, for whichever process continues.        *)
AfterSave(s) ==
    IF s = "main"
    THEN /\ main' = [main EXCEPT !.pc = CASE main.pc = "saveDisable" -> "start"
                                          [] main.pc = "saveEnable" -> "over"
                                          [] main.pc = "saveError" ->
                                               IF mem.phase = "Delete" THEN "over" ELSE "gone"]
         /\ UNCHANGED worker
    ELSE worker' = [worker EXCEPT ![s].pc = "sample"] /\ UNCHANGED main

(* An error of removing or of writing is the phase's error after a phase,  *)
(* and logged in a worker and in Scout's deferred function.                *)
AfterError(s) ==
    IF s = "main"
    THEN /\ main' = [main EXCEPT !.pc = IF main.pc = "saveError" THEN "gone" ELSE "saveError"]
         /\ UNCHANGED worker
    ELSE worker' = [worker EXCEPT ![s].pc = "sample"] /\ UNCHANGED main

StartSave(s) ==
    /\ Saves(s) /\ saving[s] = NoSave
    /\ disk' = NoSave
    /\ saving' = [saving EXCEPT ![s] = [stage |-> "read", copy |-> mem]]
    /\ hist' = [hist EXCEPT !.stale = @ \/ \E o \in Savers \ {s} : saving[o] # NoSave]
    /\ UNCHANGED <<disabled, mem, main, worker, faults>>

ReadToGo(s) ==
    /\ saving[s] # NoSave /\ saving[s].stage = "read"
    /\ saving' = [saving EXCEPT ![s].stage = "write", ![s].copy.toGo = mem.toGo]
    /\ UNCHANGED <<disabled, mem, disk, main, worker, faults, hist>>

Write(s) ==
    /\ saving[s] # NoSave /\ saving[s].stage = "write"
    /\ disk' = saving[s].copy
    /\ saving' = [saving EXCEPT ![s] = NoSave]
    /\ AfterSave(s)
    /\ UNCHANGED <<disabled, mem, faults, hist>>

SaveFails(s) ==
    /\ Saves(s)
    /\ Fault
    /\ saving' = [saving EXCEPT ![s] = NoSave]
    /\ hist' = [hist EXCEPT !.stale = @ \/ disk # NoSave \/ \E o \in Savers \ {s} : saving[o] # NoSave]
    /\ AfterError(s)
    /\ UNCHANGED <<disabled, mem, disk>>

Save(s) == StartSave(s) \/ ReadToGo(s) \/ Write(s)

-----------------------------------------------------------------------------
(* The process ends, and the next one continues, or begins a new           *)
(* procedure if there is nothing to continue from.                         *)

Crash ==
    /\ main.pc \notin {"over", "gone"}
    /\ Fault
    /\ main' = [main EXCEPT !.pc = "gone"]
    /\ UNCHANGED <<disabled, mem, disk, saving, worker, hist>>

Restart ==
    LET loaded == IF disk = NoSave THEN Blank ELSE disk
    IN  /\ main.pc = "gone"
        /\ mem' = loaded
        /\ main' = [pc |-> CASE loaded.phase = "Disable" -> "disable"
                             [] loaded.phase = "Enable" -> "start"
                             [] loaded.phase = "Delete" -> "over",
                    types |-> Types, rows |-> {}]
        /\ worker' = [t \in {"T", "R"} |-> NoWorker]
        /\ saving' = [s \in Savers |-> NoSave]
        /\ hist' = IF disk = NoSave THEN InitHist
                   ELSE [hist EXCEPT !.lost = @ \cup (hist.down \ disk.disabled)]
        /\ UNCHANGED <<disabled, disk, faults>>

Faulty == Crash \/ EnableFails \/ (\E t \in {"T", "R"} : SampleFails(t)) \/ (\E s \in Savers : SaveFails(s))

(* The workers go on while the main goroutine returns an error.            *)
Next ==
    \/ main.pc \notin {"gone", "over"} /\
         (DisablePhase \/ EnablePhase \/ (\E t \in {"T", "R"} : Worker(t))
          \/ (\E s \in Savers : Save(s)) \/ Faulty)
    \/ Restart

Spec == Init /\ [][Next]_vars

(* Every goroutine runs on, and a process that ended is started again.     *)
FairSpec ==
    /\ Spec
    /\ WF_vars(main.pc # "gone" /\ (DisablePhase \/ EnablePhase \/ Save("main")))
    /\ \A t \in {"T", "R"} : WF_vars(main.pc # "gone" /\ (Worker(t) \/ Save(t)))
    /\ WF_vars(Restart)

-----------------------------------------------------------------------------
(* Type correctness of the two phases' state, and of what is saved of it.  *)
TypeOK ==
    /\ disabled \subseteq AllDevs
    /\ mem \in State
    /\ disk \in State \cup {NoSave}
    /\ \A s \in Savers : saving[s] = NoSave \/ (saving[s].stage \in {"read", "write"} /\ saving[s].copy \in State)
    /\ main.pc \in {"disable", "record", "saveDisable", "start", "wait", "update", "advance",
                    "saveEnable", "saveError", "over", "gone"}
    /\ main.rows \subseteq AllDevs
    /\ \A t \in {"T", "R"} :
         /\ worker[t].pc \in {"idle", "begin", "sample", "reduce", "add", "save", "sending", "failing", "ended"}
         /\ worker[t].toGo \in 0 .. ToEnable
         /\ worker[t].found \subseteq Devs[t]
    /\ faults \in 0 .. MaxFaults

(* A developer that this procedure disabled is not enabled by it again,    *)
(* but if the process ended before the save that was to list it            *)
(* (disable.go:55, enable.go:60).                                          *)
DisabledStayDisabled == hist.down \ hist.lost \subseteq disabled

(* No state in memory or on disk lets a process look for more developers   *)
(* of a type than MaxDevelopersToEnable in all.                            *)
WithinQuota ==
    \A s \in {mem} \cup ({disk} \ {NoSave}) : \A t \in {"T", "R"} :
        Cardinality(EnabledOf(s, t)) + s.toGo[t] <= ToEnable

(* No more developers of a type are enabled than Disable left and Enable   *)
(* may add, unless they could not be counted, or the state continued from  *)
(* was not that of the last save.                                          *)
EnabledBounded ==
    ~hist.stale =>
        \A t \in {"T", "R"} \ hist.skipped :
            LET unranked == Cardinality(EnabledInDb(t) \ Range(Ranking))
            IN  Cardinality(EnabledInDb(t)) <=
                    (IF unranked > KeepEnabled THEN unranked ELSE KeepEnabled) + ToEnable

(* The developers found are enabled in the database, and for each type     *)
(* they are as many as were to be enabled, or no candidate with a trend    *)
(* was passed over, unless the worker began with a number to go that was   *)
(* too small.                                                              *)
AllFoundEnabled ==
    /\ mem.enabled \cap disabled = {}
    /\ \A t \in {"T", "R"} \ hist.short :
         \/ Cardinality(EnabledOf(mem, t)) = ToEnable
         \/ Candidates(t) \subseteq hist.trendless

(* However the workers' steps, the saves of both and the ends of processes *)
(* fall, Enable plans for no more than its quota, and when the phases are  *)
(* over the developers it found, and no others, are enabled (enable.go:90, *)
(* enable.go:230, enable.go:271).                                          *)
EnabledAsPlanned ==
    /\ WithinQuota
    /\ main.pc = "over" => EnabledBounded /\ AllFoundEnabled

(* The phases come to their end: neither worker is waited for in vain,     *)
(* whatever sample fails (enable.go:128).                                  *)
PhasesEnd == <>(main.pc = "over")
=============================================================================
