----------------------------- MODULE ScoutProcedure -----------------------------
(***************************************************************************)
(* The Scout procedure (scout.go): one process after another loads the     *)
(* state that the last one saved, runs the phases that are left (phase.go) *)
(* in a goroutine of their own, stores the ScoutResult and deletes the     *)
(* state.  The state is saved to a directory of files (state.go,           *)
(* paths_to_bytes.go), file by file: a process may end between any two.    *)
(*                                                                         *)
(* Two goroutines may be saving: the one that runs the phases ("proc"),    *)
(* and Scout's deferred function ("scout"), after an error of the phases   *)
(* or, while they still run, after ScoutTimeout.                           *)
(*                                                                         *)
(* What a phase does is in the modules of the phases.  Here Discovery and  *)
(* Update add developers to the state, the other phases nothing.           *)
(***************************************************************************)
EXTENDS Naturals, FiniteSets, Functions

CONSTANTS
    Devs,           \* the developers
    MaxSnaps,       \* bound on the partial snapshots of a developer
    MaxFaults,      \* bound on the errors, crashes and timeouts injected
    ScoutTimesOut,  \* may the procedure reach ScoutTimeout?
    Torn,           \* the content of a file that was not written to its end
    NoFile          \* the absence of a file

(* The phases, in the order of their iota.                                 *)
Discovery == 0
Update == 1
Snapshot == 2
Disable == 3
Enable == 4
Delete == 5
Measure == 6
Done == 7
Phases == Discovery .. Done

(* The phases that save the state before they end.                         *)
Checkpointing == {Discovery, Update, Enable, Delete}

(* Mutant of NextPhase: the last but one is taken for the last.            *)
NextPhaseToMeasure(p) == IF p >= Measure THEN p ELSE p + 1

NextPhase(p) == IF p = Done THEN p ELSE p + 1

Savers == {"proc", "scout"}

(* The fields of a ScoutState that are told apart, and their files: one    *)
(* for the State, one for the UserTweetTimes, and one in the directory of  *)
(* the DeveloperSnapshots for each developer that has some.                *)
Fields == {"state", "times", "snaps"}
Files == {"state", "times"} \cup Devs

ASSUME ProcedureAssumption ==
    /\ IsFiniteSet(Devs)
    /\ {"state", "times"} \cap Devs = {}
    /\ NoFile \notin Files
    /\ MaxSnaps \in Nat \ {0}
    /\ MaxFaults \in Nat
    /\ ScoutTimesOut \in BOOLEAN

Memory ==
    [phase: Phases,                \* State.Phase
     updated: SUBSET Devs,         \* State.UpdatedDevelopers
     id: BOOLEAN,                  \* does State.Result have its database ID?
     times: SUBSET Devs,           \* the keys of UserTweetTimes
     snaps: [Devs -> 0..MaxSnaps]] \* how many DeveloperSnapshots

NewState == [phase |-> Discovery, updated |-> {}, id |-> FALSE, times |-> {},
             snaps |-> [d \in Devs |-> 0]]

(* What a file may hold, and what it holds once the field is serialised.   *)
Contents(f) ==
    CASE f = "state" -> [phase: Phases, updated: SUBSET Devs, id: BOOLEAN]
      [] f = "times" -> SUBSET Devs
      [] OTHER -> 1..MaxSnaps

FilesOf(field, m) ==
    IF field = "snaps" THEN {d \in Devs : m.snaps[d] > 0} ELSE {field}

ContentOf(f, m) ==
    CASE f = "state" -> [phase |-> m.phase, updated |-> m.updated, id |-> m.id]
      [] f = "times" -> m.times
      [] OTHER -> m.snaps[f]

NoFiles == [f \in {} |-> Torn]

VARIABLES
    scout,      \* Scout's own goroutine; "none" when no process runs
    proc,       \* the goroutine that runs the phases
    mem,        \* the ScoutState in memory
    dir,        \* is there a directory of a saved state?
    disk,       \* the files in it
    \* for each of the two that may be saving
    stage,      \* how far Save is
    todo,       \* the fields or files it has still to deal with
    draft,      \* pathsToBytes.inner: what it has serialised
    open,       \* the file it is writing
    \* bookkeeping of the model
    faults,     \* faults injected so far
    done,       \* (history) the phases that ran to their end
    found,      \* (history) the developers the Discovery phase ended with
    saved,      \* (history) what the last Save has set out to write
    stored      \* (history) how often the ScoutResult was stored

saveVars == <<stage, todo, draft, open>>
history == <<done, found, saved, stored>>
vars == <<scout, proc, mem, dir, disk, saveVars, faults, history>>

-----------------------------------------------------------------------------
(* Mutant of Mandatory: the file of times is optional, as those of the     *)
(* snapshots are.                                                          *)
MandatoryStateOnly == {"state"}

(* The files whose field refuses to be deserialised without them.          *)
Mandatory == {"state", "times"}

Loadable == Mandatory \subseteq DOMAIN disk /\ Torn \notin Range(disk)

(* The memory that the files on disk are loaded to.                        *)
Loaded ==
    [phase |-> disk["state"].phase,
     updated |-> disk["state"].updated,
     id |-> disk["state"].id,
     times |-> IF "times" \in DOMAIN disk THEN disk["times"] ELSE {},
     snaps |-> [d \in Devs |-> IF d \in DOMAIN disk THEN disk[d] ELSE 0]]

NobodySaves ==
    /\ stage = [s \in Savers |-> "idle"]
    /\ todo = [s \in Savers |-> {}]
    /\ draft = [s \in Savers |-> NoFiles]
    /\ open = [s \in Savers |-> NoFile]

Init ==
    /\ scout = "none"
    /\ proc = "none"
    /\ mem = NewState
    /\ dir = FALSE
    /\ disk = NoFiles
    /\ NobodySaves
    /\ faults = 0
    /\ done = {}
    /\ found = {}
    /\ saved = NoFiles
    /\ stored = 0

(* The process ends: what is in memory is gone.                            *)
ProcessEnds ==
    /\ scout' = "none"
    /\ proc' = "none"
    /\ mem' = NewState
    /\ stage' = [s \in Savers |-> "idle"]
    /\ todo' = [s \in Savers |-> {}]
    /\ draft' = [s \in Savers |-> NoFiles]
    /\ open' = [s \in Savers |-> NoFile]
    /\ UNCHANGED <<dir, disk, history>>

Fault == faults < MaxFaults /\ faults' = faults + 1

-----------------------------------------------------------------------------
(* StateLoadOrCreate, at the start of Scout.                               *)

(* Nothing on disk: a procedure of its own begins.                         *)
BeginNew ==
    /\ scout = "none"
    /\ ~dir
    /\ scout' = "waiting"
    /\ proc' = "work"
    /\ mem' = NewState
    /\ done' = {} /\ found' = {} /\ saved' = NoFiles /\ stored' = 0
    /\ UNCHANGED <<dir, disk, saveVars, faults>>

(* Continue with what the last process left.                               *)
BeginLoaded ==
    /\ scout = "none"
    /\ dir
    /\ Loadable
    /\ scout' = "waiting"
    /\ proc' = IF Loaded.phase = Done THEN "store" ELSE "work"
    /\ mem' = Loaded
    /\ UNCHANGED <<dir, disk, saveVars, faults, history>>

(* What is there cannot be loaded: Scout returns that error, without the   *)
(* deferred function, and so will every later process.                     *)
BeginRefused ==
    /\ scout = "none"
    /\ dir
    /\ ~Loadable
    /\ scout' = "refused"
    /\ UNCHANGED <<proc, mem, dir, disk, saveVars, faults, history>>

-----------------------------------------------------------------------------
(* ScoutState.Save, by either goroutine.                                   *)

Idle(s) == stage[s] = "idle"

(* Mutant of StartSaving: the previous save is not removed but written     *)
(* over.                                                                   *)
StartSavingOver(s) ==
    /\ stage' = [stage EXCEPT ![s] = "serialise"]
    /\ todo' = [todo EXCEPT ![s] = Fields]
    /\ draft' = [draft EXCEPT ![s] = NoFiles]
    /\ open' = open

StartSaving(s) ==
    /\ stage' = [stage EXCEPT ![s] = "remove"]
    /\ UNCHANGED <<todo, draft, open>>

(* os.RemoveAll removes the files, in any order, then the directory.       *)
RemoveFile(s) ==
    /\ stage[s] = "remove"
    /\ \E f \in DOMAIN disk : disk' = Restrict(disk, DOMAIN disk \ {f})
    /\ UNCHANGED <<scout, proc, mem, dir, saveVars, faults, history>>

RemoveDir(s) ==
    /\ stage[s] = "remove"
    /\ DOMAIN disk = {}
    /\ dir' = FALSE
    /\ stage' = [stage EXCEPT ![s] = "serialise"]
    /\ todo' = [todo EXCEPT ![s] = Fields]
    /\ draft' = [draft EXCEPT ![s] = NoFiles]
    /\ UNCHANGED <<scout, proc, mem, disk, open, faults, history>>

(* One field after another, in the order of a map.                         *)
Serialise(s) ==
    /\ stage[s] = "serialise"
    /\ \E field \in todo[s] :
         /\ todo' = [todo EXCEPT ![s] = @ \ {field}]
         /\ draft' = [draft EXCEPT ![s] =
              [f \in DOMAIN draft[s] \cup FilesOf(field, mem) |->
                 IF f \in FilesOf(field, mem) THEN ContentOf(f, mem) ELSE draft[s][f]]]
    /\ UNCHANGED <<scout, proc, mem, dir, disk, stage, open, faults, history>>

(* A map that is serialised while a phase writes to it ends the process.   *)
SerialisesRaces ==
    /\ stage["scout"] = "serialise"
    /\ todo["scout"] # {}
    /\ proc = "work"
    /\ ProcessEnds
    /\ UNCHANGED faults

StartWriting(s) ==
    /\ stage[s] = "serialise"
    /\ todo[s] = {}
    /\ stage' = [stage EXCEPT ![s] = "write"]
    /\ todo' = [todo EXCEPT ![s] = DOMAIN draft[s]]
    /\ saved' = draft[s]
    /\ UNCHANGED <<scout, proc, mem, dir, disk, draft, open, faults, done, found, stored>>

(* os.WriteFile creates or truncates the file, and the directories it      *)
(* needs, then writes.                                                     *)
CreateFile(s) ==
    /\ stage[s] = "write"
    /\ open[s] = NoFile
    /\ \E f \in todo[s] :
         /\ open' = [open EXCEPT ![s] = f]
         /\ todo' = [todo EXCEPT ![s] = @ \ {f}]
         /\ disk' = [g \in DOMAIN disk \cup {f} |-> IF g = f THEN Torn ELSE disk[g]]
    /\ dir' = TRUE
    /\ UNCHANGED <<scout, proc, mem, stage, draft, faults, history>>

(* The other goroutine may have removed the file, or have written to it    *)
(* since: then what it holds is anybody's, a mixture or that of a file     *)
(* that this one has not opened.                                           *)
FillFile(s) ==
    /\ open[s] # NoFile
    /\ LET f == open[s]
           alone == \A r \in Savers \ {s} : Idle(r)
       IN IF f \in DOMAIN disk
          THEN \E content \in {draft[s][f]} \cup (IF alone THEN {} ELSE {Torn, disk[f]}) :
                 disk' = [disk EXCEPT ![f] = content]
          ELSE disk' = disk
    /\ open' = [open EXCEPT ![s] = NoFile]
    /\ UNCHANGED <<scout, proc, mem, dir, stage, todo, draft, faults, history>>

(* What the two goroutines do after Save.  phaseAfter makes an error of it *)
(* the error of the phase; the saves within a phase log it, but the        *)
(* Discovery phase may return it too, when it was saving its last batch.   *)
AfterSave(s, failed) ==
    IF s = "scout"
    THEN scout' = "leaving" /\ UNCHANGED proc
    ELSE /\ UNCHANGED scout
         /\ \/ /\ proc = "checkpoint"
               /\ proc' = "work"
            \/ /\ proc = "after" /\ ~failed
               /\ proc' = IF mem.phase = Done THEN "store" ELSE "work"
            \/ /\ failed
               /\ proc = "after" \/ mem.phase = Discovery
               /\ proc' = "failed"

Saved(s) ==
    /\ stage[s] = "write"
    /\ todo[s] = {}
    /\ open[s] = NoFile
    /\ stage' = [stage EXCEPT ![s] = "idle"]
    /\ AfterSave(s, FALSE)
    /\ UNCHANGED <<mem, dir, disk, todo, draft, open, faults, history>>

(* Mutant of SaveFails: the file stays open.                               *)
SaveFailsAndKeepsFile(s) ==
    /\ ~Idle(s)
    /\ Fault
    /\ stage' = [stage EXCEPT ![s] = "idle"]
    /\ todo' = [todo EXCEPT ![s] = {}]
    /\ AfterSave(s, TRUE)
    /\ UNCHANGED <<mem, dir, disk, draft, open, history>>

(* An error of the file system, anywhere in Save.                          *)
SaveFails(s) ==
    /\ ~Idle(s)
    /\ Fault
    /\ stage' = [stage EXCEPT ![s] = "idle"]
    /\ todo' = [todo EXCEPT ![s] = {}]
    /\ open' = [open EXCEPT ![s] = NoFile]
    /\ AfterSave(s, TRUE)
    /\ UNCHANGED <<mem, dir, disk, draft, history>>

Save(s) ==
    \/ RemoveFile(s) \/ RemoveDir(s) \/ Serialise(s) \/ StartWriting(s)
    \/ CreateFile(s) \/ FillFile(s) \/ Saved(s)

-----------------------------------------------------------------------------
(* The goroutine that runs the phases.                                     *)

(* A tweet or post of a developer is scraped in the Discovery phase.       *)
Discover(d) ==
    /\ proc = "work"
    /\ mem.phase = Discovery
    /\ mem.snaps[d] < MaxSnaps
    /\ mem' = [mem EXCEPT !.times = @ \cup {d}, !.snaps[d] = mem.snaps[d] + 1]
    /\ UNCHANGED <<scout, proc, dir, disk, saveVars, faults, history>>

(* A developer that has not been scraped yet is updated.                   *)
UpdateDeveloper(d) ==
    /\ proc = "work"
    /\ mem.phase = Update
    /\ mem.snaps[d] = 0
    /\ d \notin mem.updated
    /\ mem' = [mem EXCEPT !.times = @ \cup {d}, !.snaps[d] = 1,
                          !.updated = @ \cup {d}]
    /\ UNCHANGED <<scout, proc, dir, disk, saveVars, faults, history>>

(* A phase saves what it has done so far: after a batch, a number of       *)
(* results or a sample.                                                    *)
Checkpoint ==
    /\ proc = "work"
    /\ mem.phase \in Checkpointing
    /\ proc' = "checkpoint"
    /\ StartSaving("proc")
    /\ UNCHANGED <<scout, mem, dir, disk, faults, history>>

(* The phase returns nil: phaseAfter advances the state to the next phase  *)
(* and saves it.                                                           *)
FinishPhase ==
    /\ proc = "work"
    /\ done' = done \cup {mem.phase}
    /\ found' = IF mem.phase = Discovery THEN mem.times ELSE found
    /\ mem' = [mem EXCEPT !.phase = NextPhase(@)]
    /\ proc' = "after"
    /\ StartSaving("proc")
    /\ UNCHANGED <<scout, dir, disk, faults, saved, stored>>

(* Mutant of FailPhase: phaseAfter runs after an error too.                *)
FailPhaseAdvances ==
    /\ proc = "work"
    /\ Fault
    /\ mem' = [mem EXCEPT !.phase = NextPhase(@)]
    /\ proc' = "failed"
    /\ UNCHANGED <<scout, dir, disk, saveVars, history>>

(* The phase returns an error, and the goroutine sends it to Scout.        *)
FailPhase ==
    /\ proc = "work"
    /\ Fault
    /\ proc' = "failed"
    /\ UNCHANGED <<scout, mem, dir, disk, saveVars, history>>

(* The ScoutResult is stored, which gives it its ID.                       *)
StoreResult ==
    /\ proc = "store"
    /\ ~mem.id
    /\ mem' = [mem EXCEPT !.id = TRUE]
    /\ stored' = stored + 1
    /\ proc' = "delete"
    /\ UNCHANGED <<scout, dir, disk, saveVars, faults, done, found, saved>>

(* The database fails, or has a row of that ID already.                    *)
StoreFails ==
    /\ proc = "store"
    /\ IF mem.id THEN UNCHANGED faults ELSE Fault
    /\ proc' = "failed"
    /\ UNCHANGED <<scout, mem, dir, disk, saveVars, history>>

(* ScoutState.Delete, which ignores errors.                                *)
DeleteFile ==
    /\ proc = "delete"
    /\ \E f \in DOMAIN disk : disk' = Restrict(disk, DOMAIN disk \ {f})
    /\ UNCHANGED <<scout, proc, mem, dir, saveVars, faults, history>>

(* Mutant of DeleteDir: the state is not deleted.                          *)
DeleteNothing ==
    /\ proc = "delete"
    /\ proc' = "finished"
    /\ UNCHANGED <<scout, mem, dir, disk, saveVars, faults, history>>

DeleteDir ==
    /\ proc = "delete"
    /\ DOMAIN disk = {}
    /\ dir' = FALSE
    /\ proc' = "finished"
    /\ UNCHANGED <<scout, mem, disk, saveVars, faults, history>>

DeleteFails ==
    /\ proc = "delete"
    /\ Fault
    /\ proc' = "finished"
    /\ UNCHANGED <<scout, mem, dir, disk, saveVars, history>>

(* What the goroutine does by itself, and what may go wrong for it.        *)
Proc ==
    \/ Checkpoint \/ FinishPhase \/ StoreResult
    \/ DeleteFile \/ DeleteDir
    \/ Save("proc")

ProcFails == FailPhase \/ StoreFails \/ DeleteFails \/ SaveFails("proc")

-----------------------------------------------------------------------------
(* Scout's own goroutine.                                                  *)

(* The result of the other goroutine arrives.                              *)
ReturnError ==
    /\ scout = "waiting"
    /\ proc = "failed"
    /\ scout' = "saving"
    /\ StartSaving("scout")
    /\ UNCHANGED <<proc, mem, dir, disk, faults, history>>

ReturnNil ==
    /\ scout = "waiting"
    /\ proc = "finished"
    /\ ProcessEnds
    /\ UNCHANGED faults

(* ScoutTimeout: the deferred function saves while the phases go on.       *)
TimeOut ==
    /\ scout = "waiting"
    /\ ScoutTimesOut
    /\ Fault
    /\ scout' = "saving"
    /\ StartSaving("scout")
    /\ UNCHANGED <<proc, mem, dir, disk, history>>

(* The error email was sent, Scout returns, and the command with it.       *)
Leave ==
    /\ scout = "leaving"
    /\ ProcessEnds
    /\ UNCHANGED faults

Crash ==
    /\ scout \notin {"none", "refused"}
    /\ Fault
    /\ ProcessEnds

Scout ==
    \/ BeginNew \/ BeginLoaded \/ BeginRefused
    \/ ReturnError \/ ReturnNil \/ Leave
    \/ Save("scout")

Next ==
    \/ Scout \/ TimeOut \/ SaveFails("scout") \/ SerialisesRaces \/ Crash
    \/ Proc \/ ProcFails
    \/ \E d \in Devs : Discover(d) \/ UpdateDeveloper(d)

Spec == Init /\ [][Next]_vars

(* The command is run again (from cron), its goroutines run, and a phase   *)
(* saves only so often before it ends, which its own module is about.      *)
FairSpec == Spec /\ WF_vars(Scout) /\ WF_vars(Proc) /\ SF_vars(FinishPhase)

-----------------------------------------------------------------------------
(* Types, and what each goroutine's position says of its save.             *)
TypeOK ==
    /\ scout \in {"none", "waiting", "saving", "leaving", "refused"}
    /\ proc \in {"none", "work", "checkpoint", "after", "store", "delete",
                 "failed", "finished"}
    /\ mem \in Memory
    /\ dir \in BOOLEAN
    /\ DOMAIN disk \subseteq Files
    /\ \A f \in DOMAIN disk : disk[f] = Torn \/ disk[f] \in Contents(f)
    /\ stage \in [Savers -> {"idle", "remove", "serialise", "write"}]
    /\ DOMAIN todo = Savers /\ DOMAIN draft = Savers
    /\ open \in [Savers -> Files \cup {NoFile}]
    /\ \A s \in Savers :
         /\ stage[s] # "write" => open[s] = NoFile
         /\ todo[s] \subseteq IF stage[s] = "write" THEN DOMAIN draft[s] ELSE Fields
         /\ open[s] # NoFile => open[s] \in DOMAIN draft[s]
         /\ DOMAIN draft[s] \subseteq Files
         /\ \A f \in DOMAIN draft[s] : draft[s][f] \in Contents(f)
    /\ ~Idle("proc") <=> proc \in {"checkpoint", "after"}
    /\ ~Idle("scout") <=> scout = "saving"
    /\ faults \in 0..MaxFaults
    /\ done \subseteq Phases
    /\ found \subseteq Devs
    /\ stored \in Nat

(* Whoever loads the state continues behind phases that have all been run  *)
(* to their end, by whatever processes, with whatever crashes, errors and  *)
(* timeouts in between: a phase is repeated, never left out.               *)
PhasesInOrder ==
    /\ \A p \in Phases : p < mem.phase => p \in done
    /\ "state" \in DOMAIN disk /\ disk["state"] # Torn
         => \A p \in Phases : p < disk["state"].phase => p \in done

(* The files on disk are those of one save: a process never loads the      *)
(* fields of one save with those of another, wherever a save was           *)
(* interrupted.  (Two saves at a time, after ScoutTimeout, mix theirs.)    *)
OneSave ==
    ~ScoutTimesOut =>
        \A f \in DOMAIN disk : disk[f] = Torn \/ (f \in DOMAIN saved /\ disk[f] = saved[f])

(* A state that can be loaded and that is past the Discovery phase has the *)
(* times of every developer that phase found, and of every developer it    *)
(* lists as updated: the Snapshot phase reads them without looking whether *)
(* they are there.                                                         *)
PastPhasesHaveTheirTimes ==
    ~ScoutTimesOut /\ dir /\ Loadable =>
        /\ Loaded.phase # Discovery => found \subseteq Loaded.times
        /\ Loaded.updated \subseteq Loaded.times
        /\ \A d \in Devs : Loaded.snaps[d] > 0 => d \in Loaded.times

(* A procedure stores one ScoutResult, and another only when a fault has   *)
(* kept its state from being deleted.                                      *)
OneResultPerFault == stored <= 1 + faults

(* The procedure comes to its ScoutResult, over whatever processes, unless *)
(* a save was interrupted so that no process can load the state.           *)
ProcedureEnds == <>(scout = "refused" \/ stored > 0)
=================================================================================
