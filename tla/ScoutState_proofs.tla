-------------------------- MODULE ScoutState_proofs --------------------------
(***************************************************************************)
(* Proofs about the state of the Scout procedure: how the procedure keeps  *)
(* it on disk while its phases run (ScoutProcedure), and what is in its    *)
(* fields (CachedFields); each for any developers and any faults.          *)
(*                                                                         *)
(* PhasesInOrder is not inductive: a phase travels from the memory to what *)
(* Save has serialised, from there to the disk, and back when a process    *)
(* loads it, so that all of them have to be behind finished phases.  A new *)
(* procedure forgets which phases have ended, and nothing of the old one   *)
(* may be left then (PhaseInv).                                            *)
(*                                                                         *)
(* OneResultPerFault is one account of the results for each place at which *)
(* a process can end: a stored result is paid for by the deletion of the   *)
(* state that follows it, or by the fault that prevented that (Credit).    *)
(*                                                                         *)
(* The files are of one save because only one goroutine saves at a time,   *)
(* and what it has serialised stays that of the memory, which nobody       *)
(* changes meanwhile; so what is true of the memory in every phase is true *)
(* of what can be loaded (SaveInv).                                        *)
(*                                                                         *)
(* NothingLost is proved from what is in the three places that additions   *)
(* travel through, the fields, the other state in memory and the files: in *)
(* each no addition is twice (Sound), the first two have none in common    *)
(* (Apart), and the files are sound as what a load would decode from them  *)
(* (Holds), also when a save left only some (FieldsInv).  VisitedOnce is   *)
(* about two orders of keys of which the iterator has passed the beginning *)
(* and has the rest in its queues (Walking).                               *)
(***************************************************************************)
EXTENDS ScoutProcedure, CachedFields, FiniteSetTheorems, SequenceTheorems, TLAPS

-----------------------------------------------------------------------------
(* The procedure.                                                          *)

(* All phases before q have been run to their end.                         *)
Behind(q) == q \in Phases /\ \A p \in Phases : p < q => p \in done

MemoryBehind == Behind(mem.phase)

DraftsBehind ==
    \A s \in Savers : "state" \in DOMAIN draft[s] => Behind(draft[s]["state"].phase)

DiskBehind ==
    "state" \in DOMAIN disk /\ disk["state"] # Torn => Behind(disk["state"].phase)

NothingLeft ==
    /\ ~dir => DOMAIN disk = {}
    /\ scout = "none" => proc = "none" /\ NobodySaves

(* What keeps Save from going astray: each goroutine is in one Save at     *)
(* most, a file is open only while writing, and there is something         *)
(* serialised to write in it.                                              *)
Shape ==
    /\ DOMAIN stage = Savers /\ DOMAIN todo = Savers
    /\ DOMAIN draft = Savers /\ DOMAIN open = Savers
    /\ DOMAIN mem = {"phase", "updated", "id", "times", "snaps"}
    /\ Idle("proc") <=> proc \notin {"checkpoint", "after"}
    /\ Idle("scout") <=> scout # "saving"
    /\ \A s \in Savers :
         /\ stage[s] = "write" => todo[s] \subseteq DOMAIN draft[s]
         /\ open[s] # NoFile => stage[s] = "write" /\ open[s] \in DOMAIN draft[s]

PhaseInv == Shape /\ MemoryBehind /\ DraftsBehind /\ DiskBehind /\ NothingLeft

-----------------------------------------------------------------------------
(* The phase after one that has ended is behind finished phases.           *)
LEMMA NextBehind ==
    ASSUME NEW q \in Phases, NEW D, \A p \in Phases : p < q => p \in D
    PROVE  NextPhase(q) \in Phases /\ \A p \in Phases : p < NextPhase(q) => p \in D \cup {q}
  BY DEF NextPhase, Phases, Discovery, Done

LEMMA InitPhaseInv ==
    ASSUME Init PROVE PhaseInv
  BY DEF Init, PhaseInv, Shape, Idle, MemoryBehind, DraftsBehind, DiskBehind, NothingLeft,
         NobodySaves, Behind, NewState, NoFiles, Phases, Discovery, Done, Savers

(* The end of a process leaves the disk.                                   *)
LEMMA EndPhaseInv ==
    ASSUME PhaseInv, ProcessEnds PROVE PhaseInv'
  BY DEF ProcessEnds, history, PhaseInv, Shape, Idle, MemoryBehind, DraftsBehind, DiskBehind,
         NothingLeft, NobodySaves, Behind, NewState, NoFiles, Phases, Discovery, Done, Savers

(* A process begins.                                                       *)
LEMMA BeginPhaseInv ==
    ASSUME PhaseInv, BeginNew \/ BeginLoaded \/ BeginRefused PROVE PhaseInv'
  <1>1. CASE BeginNew
    BY <1>1 DEF BeginNew, NewState, NoFiles, Phases, Discovery, Done, saveVars, history,
       PhaseInv, Shape, Idle, MemoryBehind, DraftsBehind, DiskBehind, NothingLeft, NobodySaves, Behind
  <1>2. CASE BeginLoaded
    BY <1>2 DEF BeginLoaded, Loadable, Loaded, Mandatory, Range, saveVars, history,
       PhaseInv, Shape, Idle, MemoryBehind, DraftsBehind, DiskBehind, NothingLeft, NobodySaves, Behind
  <1>3. CASE BeginRefused
    BY <1>3 DEF BeginRefused, saveVars, history,
       PhaseInv, Shape, Idle, MemoryBehind, DraftsBehind, DiskBehind, NothingLeft, NobodySaves, Behind
  <1>4. QED BY <1>1, <1>2, <1>3

(* A step of Save.                                                         *)
LEMMA SavePhaseInv ==
    ASSUME ProcedureAssumption, PhaseInv, NEW s \in Savers, Save(s) \/ SaveFails(s) PROVE PhaseInv'
  <1>1. CASE RemoveFile(s)
    BY <1>1 DEF RemoveFile, Restrict, Savers, saveVars, history,
       PhaseInv, Shape, Idle, MemoryBehind, DraftsBehind, DiskBehind, NothingLeft, NobodySaves, Behind
  <1>2. CASE RemoveDir(s)
    BY <1>2 DEF RemoveDir, NoFiles, Savers, saveVars, history,
       PhaseInv, Shape, Idle, MemoryBehind, DraftsBehind, DiskBehind, NothingLeft, NobodySaves, Behind
  <1>3. CASE Serialise(s)
    <2>1. /\ stage[s] = "serialise"
          /\ UNCHANGED <<scout, proc, mem, dir, disk, stage, open, faults, history>>
      BY <1>3 DEF Serialise
    <2>2. PICK field \in todo[s] :
            /\ todo' = [todo EXCEPT ![s] = @ \ {field}]
            /\ draft' = [draft EXCEPT ![s] =
                 [f \in DOMAIN draft[s] \cup FilesOf(field, mem) |->
                    IF f \in FilesOf(field, mem) THEN ContentOf(f, mem) ELSE draft[s][f]]]
      BY <1>3 DEF Serialise
    <2>3. /\ DOMAIN todo' = Savers /\ DOMAIN draft' = Savers
          /\ \A u \in Savers \ {s} : todo'[u] = todo[u] /\ draft'[u] = draft[u]
      BY <2>2 DEF PhaseInv, Shape
    <2>4. "state" \in DOMAIN draft'[s] => Behind(draft'[s]["state"].phase)
      <3> DEFINE new == FilesOf(field, mem)
                 next == [f \in DOMAIN draft[s] \cup new |-> IF f \in new THEN ContentOf(f, mem) ELSE draft[s][f]]
      <3>1. draft'[s] = next
        BY <2>2 DEF PhaseInv, Shape
      <3>2. ContentOf("state", mem).phase = mem.phase
        BY DEF ContentOf
      <3>3. Behind(mem.phase) /\ ("state" \in DOMAIN draft[s] => Behind(draft[s]["state"].phase))
        BY DEF PhaseInv, MemoryBehind, DraftsBehind
      <3> HIDE DEF new
      <3>4. QED BY <3>1, <3>2, <3>3
    <2>5. DraftsBehind'
      <3>1. UNCHANGED done
        BY <2>1 DEF history
      <3>2. \A u \in Savers : "state" \in DOMAIN draft'[u] => Behind(draft'[u]["state"].phase)
        BY <2>3, <2>4 DEF PhaseInv, DraftsBehind
      <3>3. QED BY <3>1, <3>2 DEF DraftsBehind, Behind
    <2>6. Shape'
      BY <2>1, <2>3 DEF PhaseInv, Shape, Idle
    <2>7. MemoryBehind' /\ DiskBehind' /\ NothingLeft'
      BY <2>1 DEF history, PhaseInv, MemoryBehind, DiskBehind, NothingLeft, NobodySaves, Idle, Behind
    <2>8. QED BY <2>5, <2>6, <2>7 DEF PhaseInv
  <1>4. CASE StartWriting(s)
    BY <1>4 DEF StartWriting, Savers, saveVars, history,
       PhaseInv, Shape, Idle, MemoryBehind, DraftsBehind, DiskBehind, NothingLeft, NobodySaves, Behind
  <1>5. CASE CreateFile(s)
    BY <1>5 DEF CreateFile, Savers, saveVars, history,
       PhaseInv, Shape, Idle, MemoryBehind, DraftsBehind, DiskBehind, NothingLeft, NobodySaves, Behind
  <1>6. CASE FillFile(s)
    BY <1>6 DEF FillFile, Savers, saveVars, history,
       PhaseInv, Shape, Idle, MemoryBehind, DraftsBehind, DiskBehind, NothingLeft, NobodySaves, Behind
  <1>7. CASE Saved(s)
    BY <1>7 DEF Saved, AfterSave, Savers, saveVars, history,
       PhaseInv, Shape, Idle, MemoryBehind, DraftsBehind, DiskBehind, NothingLeft, NobodySaves, Behind
  <1>8. CASE SaveFails(s)
    BY <1>8 DEF SaveFails, AfterSave, Savers, Fault, saveVars, history,
       PhaseInv, Shape, Idle, MemoryBehind, DraftsBehind, DiskBehind, NothingLeft, NobodySaves, Behind
  <1>9. QED BY <1>1, <1>2, <1>3, <1>4, <1>5, <1>6, <1>7, <1>8 DEF Save

(* A step of a phase, or between the phases.                               *)
LEMMA ProcPhaseInv ==
    ASSUME PhaseInv,
           \/ Checkpoint \/ FinishPhase \/ FailPhase \/ StoreResult \/ StoreFails
           \/ DeleteFile \/ DeleteDir \/ DeleteFails
           \/ \E d \in Devs : Discover(d) \/ UpdateDeveloper(d)
    PROVE  PhaseInv'
  <1>1. CASE Checkpoint
    BY <1>1 DEF Checkpoint, StartSaving, Savers, saveVars, history,
       PhaseInv, Shape, Idle, MemoryBehind, DraftsBehind, DiskBehind, NothingLeft, NobodySaves, Behind
  <1>2. CASE FinishPhase
    BY <1>2, NextBehind DEF FinishPhase, StartSaving, Savers, saveVars, history,
       PhaseInv, Shape, Idle, MemoryBehind, DraftsBehind, DiskBehind, NothingLeft, NobodySaves, Behind
  <1>3. CASE FailPhase
    BY <1>3 DEF FailPhase, Fault, saveVars, history,
       PhaseInv, Shape, Idle, MemoryBehind, DraftsBehind, DiskBehind, NothingLeft, NobodySaves, Behind
  <1>4. CASE StoreResult
    BY <1>4 DEF StoreResult, saveVars, history,
       PhaseInv, Shape, Idle, MemoryBehind, DraftsBehind, DiskBehind, NothingLeft, NobodySaves, Behind
  <1>5. CASE StoreFails
    BY <1>5 DEF StoreFails, Fault, saveVars, history,
       PhaseInv, Shape, Idle, MemoryBehind, DraftsBehind, DiskBehind, NothingLeft, NobodySaves, Behind
  <1>6. CASE DeleteFile
    BY <1>6 DEF DeleteFile, Restrict, saveVars, history,
       PhaseInv, Shape, Idle, MemoryBehind, DraftsBehind, DiskBehind, NothingLeft, NobodySaves, Behind
  <1>7. CASE DeleteDir
    BY <1>7 DEF DeleteDir, saveVars, history,
       PhaseInv, Shape, Idle, MemoryBehind, DraftsBehind, DiskBehind, NothingLeft, NobodySaves, Behind
  <1>8. CASE DeleteFails
    BY <1>8 DEF DeleteFails, Fault, saveVars, history,
       PhaseInv, Shape, Idle, MemoryBehind, DraftsBehind, DiskBehind, NothingLeft, NobodySaves, Behind
  <1>9. ASSUME NEW d \in Devs, Discover(d) \/ UpdateDeveloper(d) PROVE PhaseInv'
    <2>1. proc = "work" /\ UNCHANGED <<scout, proc, dir, disk, saveVars, history>>
      BY <1>9 DEF Discover, UpdateDeveloper, history
    <2>2. DOMAIN mem' = DOMAIN mem /\ (DOMAIN mem = {"phase", "updated", "id", "times", "snaps"} => mem'.phase = mem.phase)
      BY <1>9 DEF Discover, UpdateDeveloper
    <2>3. QED
      BY <2>1, <2>2 DEF saveVars, history,
         PhaseInv, Shape, Idle, MemoryBehind, DraftsBehind, DiskBehind, NothingLeft, NobodySaves, Behind
  <1>10. QED BY <1>1, <1>2, <1>3, <1>4, <1>5, <1>6, <1>7, <1>8, <1>9

(* Scout returns, or is about to.                                          *)
LEMMA ReturnPhaseInv ==
    ASSUME PhaseInv,
           \/ ReturnError \/ ReturnNil \/ TimeOut \/ Leave \/ Crash \/ SerialisesRaces
    PROVE  PhaseInv'
  <1>1. CASE ReturnError
    BY <1>1 DEF ReturnError, StartSaving, Savers, saveVars, history,
       PhaseInv, Shape, Idle, MemoryBehind, DraftsBehind, DiskBehind, NothingLeft, NobodySaves, Behind
  <1>2. CASE TimeOut
    BY <1>2 DEF TimeOut, StartSaving, Fault, Savers, saveVars, history,
       PhaseInv, Shape, Idle, MemoryBehind, DraftsBehind, DiskBehind, NothingLeft, NobodySaves, Behind
  <1>3. CASE ReturnNil \/ Leave \/ Crash \/ SerialisesRaces
    BY <1>3, EndPhaseInv DEF ReturnNil, Leave, Crash, SerialisesRaces
  <1>4. QED BY <1>1, <1>2, <1>3

LEMMA NextPhaseInv ==
    ASSUME ProcedureAssumption, PhaseInv, [Next]_vars PROVE PhaseInv'
  <1>1. CASE Next
    <2>1. "proc" \in Savers /\ "scout" \in Savers
      BY DEF Savers
    <2>2. QED
      BY <1>1, <2>1, BeginPhaseInv, SavePhaseInv, ProcPhaseInv, ReturnPhaseInv
         DEF Next, Scout, Proc, ProcFails
  <1>2. CASE UNCHANGED vars
    BY <1>2 DEF vars, saveVars, history,
       PhaseInv, Shape, Idle, MemoryBehind, DraftsBehind, DiskBehind, NothingLeft, NobodySaves, Behind
  <1>3. QED BY <1>1, <1>2

LEMMA PhaseInvariant == Spec => []PhaseInv
  <1>1. Init => PhaseInv
    BY InitPhaseInv
  <1>2. PhaseInv /\ [Next]_vars => PhaseInv'
    BY NextPhaseInv, ProcedureAssumption
  <1>3. QED BY <1>1, <1>2, PTL DEF Spec

(* The phases before the one that the memory or the disk is at have all    *)
(* been run to their end, for any developers, faults and timeouts.         *)
THEOREM NoPhaseLeftOut == Spec => []PhasesInOrder
  <1>1. PhaseInv => PhasesInOrder
    BY DEF PhaseInv, MemoryBehind, DiskBehind, Behind, PhasesInOrder
  <1>2. QED BY <1>1, PhaseInvariant, PTL

-----------------------------------------------------------------------------
(* Types.                                                                  *)

(* What a field is serialised to is what its file may hold.                *)
LEMMA ContentType ==
    ASSUME ProcedureAssumption, NEW m \in Memory, NEW field \in Fields,
           NEW f \in FilesOf(field, m)
    PROVE  f \in Files /\ ContentOf(f, m) \in Contents(f)
  <1>1. CASE field = "state"
    BY <1>1 DEF Memory, FilesOf, Files, ContentOf, Contents
  <1>2. CASE field = "times"
    BY <1>2 DEF Memory, FilesOf, Files, ContentOf, Contents
  <1>3. CASE field = "snaps"
    <2>1. f \in Devs /\ f # "state" /\ f # "times" /\ m.snaps[f] \in 1..MaxSnaps
      BY <1>3 DEF ProcedureAssumption, Memory, FilesOf
    <2>2. QED BY <2>1 DEF Files, ContentOf, Contents
  <1>4. QED BY <1>1, <1>2, <1>3 DEF Fields

(* What is loaded from readable files is a memory.                         *)
LEMMA LoadedType ==
    ASSUME ProcedureAssumption, TypeOK, Loadable PROVE Loaded \in Memory
  <1>1. /\ disk["state"] \in [phase: Phases, updated: SUBSET Devs, id: BOOLEAN]
        /\ disk["times"] \in SUBSET Devs
    BY DEF TypeOK, Loadable, Mandatory, Range, Contents
  <1>2. ASSUME NEW d \in Devs, d \in DOMAIN disk PROVE disk[d] \in 0..MaxSnaps
    BY <1>2 DEF TypeOK, Loadable, Range, Contents, ProcedureAssumption
  <1>3. QED
    BY <1>1, <1>2 DEF Loaded, Memory, ProcedureAssumption

LEMMA NewStateType ==
    ASSUME ProcedureAssumption PROVE NewState \in Memory
  BY DEF ProcedureAssumption, NewState, Memory, Phases, Discovery, Done

LEMMA MoreSnapshotsType ==
    ASSUME NEW m \in Memory, NEW d \in Devs, NEW n \in 0..MaxSnaps
    PROVE  [m EXCEPT !.times = @ \cup {d}, !.snaps[d] = n] \in Memory
  BY DEF Memory

LEMMA InitTyped ==
    ASSUME ProcedureAssumption, Init PROVE TypeOK
  <1>1. stage \in [Savers -> {"idle", "remove", "serialise", "write"}]
        /\ open \in [Savers -> Files \cup {NoFile}]
    BY DEF Init, NobodySaves
  <1>2. DOMAIN disk = {} /\ \A s \in Savers : DOMAIN draft[s] = {} /\ todo[s] = {}
    BY DEF Init, NobodySaves, NoFiles
  <1>3. Idle("proc") /\ Idle("scout") /\ \A s \in Savers : open[s] = NoFile
    BY DEF Init, NobodySaves, Idle, Savers
  <1>4. DOMAIN todo = Savers /\ DOMAIN draft = Savers /\ mem \in Memory
    BY NewStateType DEF Init, NobodySaves
  <1>5. proc = "none" /\ scout = "none" /\ dir = FALSE /\ faults = 0 /\ stored = 0
        /\ done = {} /\ found = {}
    BY DEF Init
  <1>6. \A s \in Savers :
         /\ stage[s] # "write" => open[s] = NoFile
         /\ todo[s] \subseteq IF stage[s] = "write" THEN DOMAIN draft[s] ELSE Fields
         /\ open[s] # NoFile => open[s] \in DOMAIN draft[s]
         /\ DOMAIN draft[s] \subseteq Files
         /\ \A f \in DOMAIN draft[s] : draft[s][f] \in Contents(f)
    BY <1>2, <1>3
  <1>7. DOMAIN disk \subseteq Files /\ \A f \in DOMAIN disk : disk[f] = Torn \/ disk[f] \in Contents(f)
    BY <1>2
  <1>8. /\ faults \in 0..MaxFaults /\ done \subseteq Phases /\ found \subseteq Devs
        /\ stored \in Nat /\ dir \in BOOLEAN
    <2>1. faults \in 0..MaxFaults /\ stored \in Nat
      BY <1>5 DEF ProcedureAssumption
    <2>2. done \subseteq Phases /\ found \subseteq Devs
      BY <1>5
    <2>3. dir \in BOOLEAN
      BY DEF Init
    <2>4. QED BY <2>1, <2>2, <2>3
  <1>9. /\ ~Idle("proc") <=> proc \in {"checkpoint", "after"}
        /\ ~Idle("scout") <=> scout = "saving"
        /\ scout \in {"none", "waiting", "saving", "leaving", "refused"}
        /\ proc \in {"none", "work", "checkpoint", "after", "store", "delete",
                     "failed", "finished"}
    BY <1>3, <1>5
  <1>10. QED
    BY <1>1, <1>4, <1>6, <1>7, <1>8, <1>9, Zenon DEF TypeOK

LEMMA EndTyped ==
    ASSUME ProcedureAssumption, TypeOK, ProcessEnds, faults' \in 0..MaxFaults PROVE TypeOK'
  BY DEF ProcedureAssumption, ProcessEnds, history, NoFiles, TypeOK, Idle, Memory, NewState,
         Phases, Discovery, Done, Savers, Files

LEMMA BeginTyped ==
    ASSUME ProcedureAssumption, PhaseInv, TypeOK, BeginNew \/ BeginLoaded \/ BeginRefused
    PROVE  TypeOK'
  <1>0. scout = "none" => proc = "none" /\ Idle("proc")
    BY DEF PhaseInv, NothingLeft, NobodySaves, Idle, Savers
  <1>1. CASE BeginNew
    <2>1. mem' \in Memory /\ proc' = "work" /\ Idle("proc")'
      BY <1>0, <1>1, NewStateType DEF BeginNew, saveVars, Idle
    <2>2. QED
      BY <1>1, <2>1 DEF BeginNew, saveVars, TypeOK, Idle
  <1>2. CASE BeginLoaded
    <2>1. mem' \in Memory /\ proc' \in {"work", "store"} /\ Idle("proc")'
      BY <1>0, <1>2, LoadedType DEF BeginLoaded, saveVars, Idle
    <2>2. QED
      BY <1>2, <2>1 DEF BeginLoaded, saveVars, history, TypeOK, Idle
  <1>3. CASE BeginRefused
    BY <1>3 DEF BeginRefused, saveVars, history,
       TypeOK, Idle
  <1>4. QED BY <1>1, <1>2, <1>3

LEMMA SaveTyped ==
    ASSUME ProcedureAssumption, TypeOK, NEW s \in Savers, Save(s) \/ SaveFails(s) PROVE TypeOK'
  <1>1. CASE RemoveFile(s)
    BY <1>1 DEF RemoveFile, Restrict, Savers, saveVars, history,
       TypeOK, Idle
  <1>2. CASE RemoveDir(s)
    BY <1>2 DEF RemoveDir, NoFiles, Savers, Fields, saveVars, history,
       TypeOK, Idle
  <1>3. CASE Serialise(s)
    BY <1>3, ContentType DEF Serialise, Savers, saveVars, history,
       TypeOK, Idle
  <1>4. CASE StartWriting(s)
    BY <1>4 DEF StartWriting, Savers, saveVars, history,
       TypeOK, Idle
  <1>5. CASE CreateFile(s)
    BY <1>5 DEF CreateFile, Savers, saveVars, history,
       TypeOK, Idle
  <1>6. CASE FillFile(s)
    BY <1>6 DEF FillFile, Savers, saveVars, history,
       TypeOK, Idle
  <1>7. CASE Saved(s)
    BY <1>7 DEF Saved, AfterSave, Savers, saveVars, history,
       TypeOK, Idle
  <1>8. CASE SaveFails(s)
    BY <1>8 DEF SaveFails, AfterSave, Savers, Fault, ProcedureAssumption, saveVars, history,
       TypeOK, Idle
  <1>9. QED BY <1>1, <1>2, <1>3, <1>4, <1>5, <1>6, <1>7, <1>8 DEF Save

LEMMA ProcTyped ==
    ASSUME ProcedureAssumption, TypeOK,
           \/ Checkpoint \/ FinishPhase \/ FailPhase \/ StoreResult \/ StoreFails
           \/ DeleteFile \/ DeleteDir \/ DeleteFails
           \/ \E d \in Devs : Discover(d) \/ UpdateDeveloper(d)
    PROVE  TypeOK'
  <1>1. CASE Checkpoint
    BY <1>1 DEF Checkpoint, StartSaving, Savers, saveVars, history,
       TypeOK, Idle
  <1>2. CASE FinishPhase
    BY <1>2 DEF FinishPhase, StartSaving, Savers, Memory, NextPhase, Phases, Discovery, Done, saveVars, history,
       TypeOK, Idle
  <1>3. CASE FailPhase
    BY <1>3 DEF FailPhase, Fault, ProcedureAssumption, saveVars, history,
       TypeOK, Idle
  <1>4. CASE StoreResult
    <2>1. mem' \in Memory
      BY <1>4 DEF StoreResult, Memory, TypeOK
    <2>2. QED
      BY <1>4, <2>1 DEF StoreResult, saveVars, TypeOK, Idle
  <1>5. CASE StoreFails
    BY <1>5 DEF StoreFails, Fault, ProcedureAssumption, saveVars, history,
       TypeOK, Idle
  <1>6. CASE DeleteFile
    BY <1>6 DEF DeleteFile, Restrict, saveVars, history,
       TypeOK, Idle
  <1>7. CASE DeleteDir
    BY <1>7 DEF DeleteDir, saveVars, history,
       TypeOK, Idle
  <1>8. CASE DeleteFails
    BY <1>8 DEF DeleteFails, Fault, ProcedureAssumption, saveVars, history,
       TypeOK, Idle
  <1>9. ASSUME NEW d \in Devs, Discover(d) \/ UpdateDeveloper(d) PROVE TypeOK'
    <2>1. mem' \in Memory
      <3>1. CASE Discover(d)
        <4>1. mem.snaps[d] + 1 \in 0..MaxSnaps
          <5>1. mem.snaps[d] \in 0..MaxSnaps
            BY DEF TypeOK, Memory
          <5>2. mem.snaps[d] < MaxSnaps /\ MaxSnaps \in Nat
            BY <3>1 DEF Discover, ProcedureAssumption
          <5>3. QED BY <5>1, <5>2
        <4>2. mem' = [mem EXCEPT !.times = @ \cup {d}, !.snaps[d] = mem.snaps[d] + 1]
          BY <3>1 DEF Discover
        <4>3. mem \in Memory
          BY DEF TypeOK
        <4>4. [mem EXCEPT !.times = @ \cup {d}, !.snaps[d] = mem.snaps[d] + 1] \in Memory
          BY <4>1, <4>3, MoreSnapshotsType, Zenon
        <4>5. QED BY <4>2, <4>4, Zenon
      <3>2. CASE UpdateDeveloper(d)
        <4>1. 1 \in 0..MaxSnaps
          BY DEF ProcedureAssumption
        <4>2. mem' = [mem EXCEPT !.times = @ \cup {d}, !.snaps[d] = 1, !.updated = @ \cup {d}]
          BY <3>2 DEF UpdateDeveloper
        <4>3. QED BY <4>1, <4>2 DEF Memory, TypeOK
      <3>3. QED BY <1>9, <3>1, <3>2
    <2>2. QED
      BY <1>9, <2>1 DEF Discover, UpdateDeveloper, saveVars, history, TypeOK, Idle
  <1>10. QED BY <1>1, <1>2, <1>3, <1>4, <1>5, <1>6, <1>7, <1>8, <1>9

LEMMA ReturnTyped ==
    ASSUME ProcedureAssumption, TypeOK,
           \/ ReturnError \/ ReturnNil \/ TimeOut \/ Leave \/ Crash \/ SerialisesRaces
    PROVE  TypeOK'
  <1>1. CASE ReturnError
    BY <1>1 DEF ReturnError, StartSaving, Savers, saveVars, history,
       TypeOK, Idle
  <1>2. CASE TimeOut
    BY <1>2 DEF TimeOut, StartSaving, Fault, Savers, ProcedureAssumption, saveVars, history,
       TypeOK, Idle
  <1>3. CASE ReturnNil \/ Leave \/ Crash \/ SerialisesRaces
    <2>1. ProcessEnds /\ faults' \in 0..MaxFaults
      BY <1>3 DEF ReturnNil, Leave, Crash, SerialisesRaces, Fault, TypeOK, ProcedureAssumption
    <2>2. QED BY <2>1, EndTyped
  <1>4. QED BY <1>1, <1>2, <1>3

LEMMA NextTyped ==
    ASSUME ProcedureAssumption, PhaseInv, TypeOK, [Next]_vars PROVE TypeOK'
  <1>1. CASE Next
    <2>1. "proc" \in Savers /\ "scout" \in Savers
      BY DEF Savers
    <2>2. QED
      BY <1>1, <2>1, BeginTyped, SaveTyped, ProcTyped, ReturnTyped
         DEF Next, Scout, Proc, ProcFails
  <1>2. CASE UNCHANGED vars
    BY <1>2 DEF vars, saveVars, history, TypeOK, Idle
  <1>3. QED BY <1>1, <1>2

(* Every file, in memory and on disk, is of the type of its field, and     *)
(* each goroutine is in a save exactly where its position says so, for any *)
(* developers, faults and timeouts.                                        *)
THEOREM ProcedureTyped == Spec => []TypeOK
  <1>1. Init => TypeOK
    BY InitTyped, ProcedureAssumption
  <1>2. PhaseInv /\ TypeOK /\ [Next]_vars => TypeOK'
    BY NextTyped, ProcedureAssumption
  <1>3. QED
    BY <1>1, <1>2, PhaseInvariant, PTL DEF Spec
-----------------------------------------------------------------------------
(* The invariants of the saves and of the result.                          *)

(* What has to be left for a procedure that is still to store its result:  *)
(* one fault for each time it has done so already, and one more while its  *)
(* process is being left, unless it was the error of a phase.  A process   *)
(* that cannot load its state does not come so far.                        *)
Credit ==
    /\ scout = "refused" => proc = "none"
    /\ stored <= 1 + faults
    /\ scout = "none" /\ dir => stored <= faults
    /\ scout = "waiting" /\ (proc = "finished" => dir) /\ proc # "delete" => stored <= faults
    /\ scout \in {"saving", "leaving"} => stored <= faults
    /\ scout \in {"saving", "leaving"} /\ proc \notin {"delete", "finished", "failed"}
         => stored < faults

(* Without ScoutTimeout only an error of the phases makes Scout save.      *)
Alone == scout \in {"saving", "leaving"} => proc = "failed"

(* What is on disk is of the save that wrote last.                         *)
OnDisk ==
    /\ \A f \in DOMAIN disk : disk[f] = Torn \/ (f \in DOMAIN saved /\ disk[f] = saved[f])
    /\ \A s \in Savers :
         /\ stage[s] = "serialise" => DOMAIN disk = {}
         /\ stage[s] = "write" => saved = draft[s]

(* The memory does not change under a save: all that has been serialised   *)
(* is of one memory, the present one.                                      *)
Pieces ==
    \A s \in Savers : stage[s] \in {"serialise", "write"} =>
        \A f \in DOMAIN draft[s] :
            draft[s][f] = ContentOf(f, mem) /\ (f \in Devs => mem.snaps[f] > 0)

(* The developers of the memory have their times, ...                      *)
MemoryWhole ==
    /\ mem.phase # Discovery => found \subseteq mem.times
    /\ mem.updated \subseteq mem.times
    /\ \A d \in Devs : mem.snaps[d] > 0 => d \in mem.times

(* ... and so have those of what the last Save has set out to write; while *)
(* the Discovery phase runs, that is of the Discovery phase too.           *)
SavedWhole ==
    /\ {"state", "times"} \subseteq DOMAIN saved =>
         /\ saved["state"].phase # Discovery => found \subseteq saved["times"]
         /\ saved["state"].updated \subseteq saved["times"]
         /\ \A d \in Devs \cap DOMAIN saved : d \in saved["times"]
    /\ proc # "none" /\ mem.phase = Discovery /\ "state" \in DOMAIN saved
         => saved["state"].phase = Discovery

SaveInv ==
    ~ScoutTimesOut => Alone /\ OnDisk /\ Pieces /\ MemoryWhole /\ SavedWhole

LEMMA CreditKept ==
    ASSUME ProcedureAssumption, PhaseInv, TypeOK, Credit, [Next]_vars PROVE Credit'
  <1>0. stored \in Nat /\ faults \in Nat
    BY DEF TypeOK
  <1>1. CASE BeginNew
    BY <1>0, <1>1 DEF BeginNew, Credit
  <1>2. CASE BeginLoaded
    BY <1>0, <1>2 DEF BeginLoaded, history, Credit
  <1>3. CASE BeginRefused
    BY <1>0, <1>3 DEF BeginRefused, history, Credit, PhaseInv, NothingLeft
  <1>4. ASSUME NEW s \in Savers, Save(s) \/ SaveFails(s) PROVE Credit'
    <2>1. CASE RemoveFile(s)
      BY <1>0, <2>1 DEF RemoveFile, history, Credit
    <2>2. CASE RemoveDir(s)
      <3>1. stage[s] # "idle"
        BY <2>2 DEF RemoveDir
      <3>2. proc \in {"checkpoint", "after"} \/ scout = "saving"
        BY <3>1 DEF TypeOK, Idle, Savers
      <3>3. QED BY <1>0, <2>2, <3>2 DEF RemoveDir, history, Credit
    <2>3. CASE Serialise(s)
      BY <1>0, <2>3 DEF Serialise, history, Credit
    <2>4. CASE StartWriting(s)
      BY <1>0, <2>4 DEF StartWriting, Credit
    <2>5. CASE CreateFile(s)
      <3>1. stage[s] # "idle"
        BY <2>5 DEF CreateFile
      <3>2. proc \in {"checkpoint", "after"} \/ scout = "saving"
        BY <3>1 DEF TypeOK, Idle, Savers
      <3>3. scout # "none"
        BY <3>2 DEF PhaseInv, NothingLeft
      <3>4. QED BY <1>0, <2>5, <3>2, <3>3 DEF CreateFile, history, Credit
    <2>6. CASE FillFile(s)
      BY <1>0, <2>6 DEF FillFile, history, Credit
    <2>7. CASE Saved(s)
      <3>1. stage[s] # "idle"
        BY <2>7 DEF Saved
      <3>2. IF s = "proc" THEN proc \in {"checkpoint", "after"} ELSE scout = "saving"
        BY <3>1 DEF TypeOK, Idle, Savers
      <3>3. QED BY <1>0, <2>7, <3>2 DEF Saved, AfterSave, history, Credit, Savers
    <2>8. CASE SaveFails(s)
      <3>1. IF s = "proc" THEN proc \in {"checkpoint", "after"} ELSE scout = "saving"
        BY <2>8 DEF SaveFails, TypeOK, Idle, Savers
      <3>2. QED BY <1>0, <2>8, <3>1 DEF SaveFails, AfterSave, Fault, history, Credit, Savers
    <2>9. QED BY <1>4, <2>1, <2>2, <2>3, <2>4, <2>5, <2>6, <2>7, <2>8 DEF Save
  <1>5. CASE Checkpoint
    BY <1>0, <1>5 DEF Checkpoint, history, Credit
  <1>6. CASE FinishPhase
    BY <1>0, <1>6 DEF FinishPhase, Credit
  <1>7. CASE FailPhase
    BY <1>0, <1>7 DEF FailPhase, Fault, history, Credit
  <1>8. CASE StoreResult
    <2>1. scout # "none"
      BY <1>8 DEF StoreResult, PhaseInv, NothingLeft
    <2>2. QED BY <1>0, <1>8, <2>1 DEF StoreResult, Credit, TypeOK
  <1>9. CASE StoreFails
    BY <1>0, <1>9 DEF StoreFails, Fault, history, Credit
  <1>10. CASE DeleteFile
    BY <1>0, <1>10 DEF DeleteFile, history, Credit
  <1>11. CASE DeleteDir
    BY <1>0, <1>11 DEF DeleteDir, history, Credit
  <1>12. CASE DeleteFails
    BY <1>0, <1>12 DEF DeleteFails, Fault, history, Credit
  <1>13. ASSUME NEW d \in Devs, Discover(d) \/ UpdateDeveloper(d) PROVE Credit'
    BY <1>0, <1>13 DEF Discover, UpdateDeveloper, history, Credit
  <1>14. CASE ReturnError
    BY <1>0, <1>14 DEF ReturnError, history, Credit
  <1>15. CASE ReturnNil
    BY <1>0, <1>15 DEF ReturnNil, ProcessEnds, history, Credit
  <1>16. CASE TimeOut
    BY <1>0, <1>16 DEF TimeOut, Fault, history, Credit
  <1>17. CASE Leave
    BY <1>0, <1>17 DEF Leave, ProcessEnds, history, Credit
  <1>18. CASE Crash
    BY <1>0, <1>18 DEF Crash, Fault, ProcessEnds, history, Credit
  <1>19. CASE SerialisesRaces
    <2>1. scout = "saving"
      BY <1>19 DEF SerialisesRaces, TypeOK, Idle
    <2>2. QED BY <1>0, <1>19, <2>1 DEF SerialisesRaces, ProcessEnds, history, Credit
  <1>20. CASE UNCHANGED vars
    BY <1>20 DEF vars, history, Credit
  <1>21. QED
    <2>1. "proc" \in Savers /\ "scout" \in Savers
      BY DEF Savers
    <2>2. QED
      BY <2>1, <1>1, <1>2, <1>3, <1>4, <1>5, <1>6, <1>7, <1>8, <1>9, <1>10, <1>11, <1>12,
         <1>13, <1>14, <1>15, <1>16, <1>17, <1>18, <1>19, <1>20
         DEF Next, Scout, Proc, ProcFails

(* One ScoutResult is stored for a procedure, and one more for each fault  *)
(* at most, ScoutTimeout included: stored in scout.go, after which only an *)
(* error of the deletion, a crash or a second save can leave a state that  *)
(* a later process stores again.                                           *)
THEOREM ResultsArePaid == Spec => []OneResultPerFault
  <1>1. Init => Credit
    BY DEF Init, Credit
  <1>2. PhaseInv /\ TypeOK /\ Credit /\ [Next]_vars => Credit'
    BY CreditKept, ProcedureAssumption
  <1>3. Credit => OneResultPerFault
    BY DEF Credit, OneResultPerFault
  <1>4. QED
    BY <1>1, <1>2, <1>3, PhaseInvariant, ProcedureTyped, PTL DEF Spec

-----------------------------------------------------------------------------
(* Only one of the two saves.                                              *)
LEMMA AloneKept ==
    ASSUME PhaseInv, TypeOK, ~ScoutTimesOut, Alone, [Next]_vars PROVE Alone'
  <1>1. CASE BeginNew
    BY <1>1 DEF BeginNew, Alone
  <1>2. CASE BeginLoaded
    BY <1>2 DEF BeginLoaded, Alone
  <1>3. CASE BeginRefused
    BY <1>3 DEF BeginRefused, Alone
  <1>4. ASSUME NEW s \in Savers, Save(s) \/ SaveFails(s) PROVE Alone'
    <2>1. CASE RemoveFile(s) \/ RemoveDir(s) \/ Serialise(s) \/ StartWriting(s)
               \/ CreateFile(s) \/ FillFile(s)
      BY <2>1 DEF RemoveFile, RemoveDir, Serialise, StartWriting, CreateFile, FillFile, Alone
    <2>2. CASE Saved(s) \/ SaveFails(s)
      <3>1. stage[s] # "idle" /\ (s = "scout" => scout = "saving")
            /\ (s = "proc" => proc \in {"checkpoint", "after"})
        BY <2>2 DEF Saved, SaveFails, TypeOK, Idle
      <3>2. \E failed \in BOOLEAN : AfterSave(s, failed)
        BY <2>2 DEF Saved, SaveFails
      <3>3. QED BY <3>1, <3>2 DEF AfterSave, Alone, Savers
    <2>3. QED BY <1>4, <2>1, <2>2 DEF Save
  <1>5. CASE Checkpoint \/ FinishPhase \/ FailPhase \/ StoreResult \/ StoreFails
             \/ DeleteFile \/ DeleteDir \/ DeleteFails
             \/ \E d \in Devs : Discover(d) \/ UpdateDeveloper(d)
    BY <1>5 DEF Checkpoint, FinishPhase, FailPhase, StoreResult, StoreFails,
       DeleteFile, DeleteDir, DeleteFails, Discover, UpdateDeveloper, Alone
  <1>6. CASE ReturnError \/ TimeOut
    BY <1>6 DEF ReturnError, TimeOut, Alone
  <1>7. CASE ReturnNil \/ Leave \/ Crash \/ SerialisesRaces
    BY <1>7 DEF ReturnNil, Leave, Crash, SerialisesRaces, ProcessEnds, Alone
  <1>8. CASE UNCHANGED vars
    BY <1>8 DEF vars, Alone
  <1>9. QED
    <2>1. "proc" \in Savers /\ "scout" \in Savers
      BY DEF Savers
    <2>2. QED
      BY <2>1, <1>1, <1>2, <1>3, <1>4, <1>5, <1>6, <1>7, <1>8
         DEF Next, Scout, Proc, ProcFails

(* While one of them saves the other does not, and no phase runs, nothing  *)
(* is stored and nothing deleted.                                          *)
LEMMA SavesAlone ==
    ASSUME PhaseInv, TypeOK, Alone, NEW s \in Savers, ~Idle(s)
    PROVE  /\ \A r \in Savers \ {s} : Idle(r)
           /\ proc \in {"checkpoint", "after", "failed"}
  BY DEF Alone, TypeOK, Savers, Idle

(* What a memory that is a piece of the save is serialised to.             *)
LEMMA FieldFiles ==
    ASSUME ProcedureAssumption, NEW m \in Memory, NEW field \in Fields, NEW f \in FilesOf(field, m),
           f \in Devs
    PROVE  m.snaps[f] > 0
  BY DEF ProcedureAssumption, FilesOf, Fields

LEMMA OnDiskKept ==
    ASSUME ProcedureAssumption, PhaseInv, TypeOK, ~ScoutTimesOut, Alone, OnDisk, [Next]_vars
    PROVE  OnDisk'
  <1>1. CASE BeginNew
    <2>1. DOMAIN disk = {}
      BY <1>1 DEF BeginNew, PhaseInv, NothingLeft
    <2>2. \A s \in Savers : stage[s] = "idle"
      BY <1>1 DEF BeginNew, PhaseInv, NothingLeft, NobodySaves
    <2>3. QED BY <1>1, <2>1, <2>2 DEF BeginNew, saveVars, OnDisk
  <1>2. CASE BeginLoaded
    BY <1>2 DEF BeginLoaded, saveVars, history, OnDisk
  <1>3. CASE BeginRefused
    BY <1>3 DEF BeginRefused, saveVars, history, OnDisk
  <1>4. ASSUME NEW s \in Savers, Save(s) \/ SaveFails(s) PROVE OnDisk'
    <2>0. /\ \A r \in Savers \ {s} : stage[r] = "idle"
          /\ stage[s] # "idle"
      <3>1. stage[s] # "idle"
        BY <1>4 DEF Save, RemoveFile, RemoveDir, Serialise, StartWriting, CreateFile, FillFile,
           Saved, SaveFails, Idle, PhaseInv, Shape
      <3>2. QED BY <3>1, SavesAlone DEF Idle
    <2>1. CASE RemoveFile(s)
      BY <2>1 DEF RemoveFile, Restrict, saveVars, history, OnDisk
    <2>2. CASE RemoveDir(s)
      BY <2>0, <2>2 DEF RemoveDir, history, OnDisk, PhaseInv, Shape
    <2>3. CASE Serialise(s)
      BY <2>0, <2>3 DEF Serialise, history, OnDisk
    <2>4. CASE StartWriting(s)
      BY <2>0, <2>4 DEF StartWriting, OnDisk, PhaseInv, Shape
    <2>5. CASE CreateFile(s)
      BY <2>0, <2>5 DEF CreateFile, history, OnDisk, PhaseInv, Shape
    <2>6. CASE FillFile(s)
      <3>1. stage[s] = "write" /\ open[s] \in DOMAIN draft[s] /\ saved = draft[s]
        BY <2>6 DEF FillFile, PhaseInv, Shape, OnDisk
      <3>2. \A r \in Savers \ {s} : Idle(r)
        BY <2>0 DEF Idle
      <3>3. disk' = disk \/ (open[s] \in DOMAIN disk
                             /\ disk' = [disk EXCEPT ![open[s]] = draft[s][open[s]]])
        BY <2>6, <3>2 DEF FillFile
      <3>4. QED BY <2>0, <2>6, <3>1, <3>3 DEF FillFile, history, OnDisk
    <2>7. CASE Saved(s)
      BY <2>0, <2>7 DEF Saved, history, OnDisk, PhaseInv, Shape
    <2>8. CASE SaveFails(s)
      BY <2>0, <2>8 DEF SaveFails, history, OnDisk, PhaseInv, Shape
    <2>9. QED BY <1>4, <2>1, <2>2, <2>3, <2>4, <2>5, <2>6, <2>7, <2>8 DEF Save
  <1>5. CASE Checkpoint \/ FinishPhase
    BY <1>5 DEF Checkpoint, FinishPhase, StartSaving, history, OnDisk, PhaseInv, Shape
  <1>6. CASE FailPhase \/ StoreResult \/ StoreFails \/ DeleteDir \/ DeleteFails
             \/ \E d \in Devs : Discover(d) \/ UpdateDeveloper(d)
    BY <1>6 DEF FailPhase, StoreResult, StoreFails, DeleteDir, DeleteFails,
       Discover, UpdateDeveloper, saveVars, history, OnDisk
  <1>7. CASE DeleteFile
    BY <1>7 DEF DeleteFile, Restrict, saveVars, history, OnDisk
  <1>8. CASE ReturnError \/ TimeOut
    BY <1>8 DEF ReturnError, TimeOut, StartSaving, history, OnDisk, PhaseInv, Shape
  <1>9. CASE ReturnNil \/ Leave \/ Crash \/ SerialisesRaces
    BY <1>9 DEF ReturnNil, Leave, Crash, SerialisesRaces, ProcessEnds, history, OnDisk
  <1>10. CASE UNCHANGED vars
    BY <1>10 DEF vars, saveVars, history, OnDisk
  <1>11. QED
    <2>1. "proc" \in Savers /\ "scout" \in Savers
      BY DEF Savers
    <2>2. QED
      BY <2>1, <1>1, <1>2, <1>3, <1>4, <1>5, <1>6, <1>7, <1>8, <1>9, <1>10
         DEF Next, Scout, Proc, ProcFails

LEMMA PiecesKept ==
    ASSUME ProcedureAssumption, PhaseInv, TypeOK, ~ScoutTimesOut, Alone, Pieces, [Next]_vars
    PROVE  Pieces'
  <1>1. CASE BeginNew \/ BeginLoaded
    <2>1. \A s \in Savers : stage[s] = "idle"
      BY <1>1 DEF BeginNew, BeginLoaded, PhaseInv, NothingLeft, NobodySaves
    <2>2. QED BY <1>1, <2>1 DEF BeginNew, BeginLoaded, saveVars, Pieces
  <1>2. CASE BeginRefused
    BY <1>2 DEF BeginRefused, saveVars, Pieces
  <1>3. ASSUME NEW s \in Savers, Save(s) \/ SaveFails(s) PROVE Pieces'
    <2>0. mem' = mem
      BY <1>3 DEF Save, RemoveFile, RemoveDir, Serialise, StartWriting, CreateFile, FillFile,
         Saved, SaveFails
    <2>1. CASE RemoveFile(s) \/ CreateFile(s) \/ FillFile(s)
      BY <2>0, <2>1 DEF RemoveFile, CreateFile, FillFile, saveVars, Pieces
    <2>2. CASE RemoveDir(s)
      BY <2>0, <2>2 DEF RemoveDir, NoFiles, Pieces, PhaseInv, Shape
    <2>3. CASE Serialise(s)
      <3>1. PICK field \in todo[s] :
              draft' = [draft EXCEPT ![s] =
                [f \in DOMAIN draft[s] \cup FilesOf(field, mem) |->
                   IF f \in FilesOf(field, mem) THEN ContentOf(f, mem) ELSE draft[s][f]]]
        BY <2>3 DEF Serialise
      <3>2. field \in Fields /\ mem \in Memory
        BY <2>3 DEF Serialise, TypeOK
      <3>3. \A f \in FilesOf(field, mem) : f \in Devs => mem.snaps[f] > 0
        BY <3>2, FieldFiles
      <3>4. stage' = stage /\ stage[s] = "serialise"
        BY <2>3 DEF Serialise
      <3>5. ASSUME NEW r \in Savers, stage'[r] \in {"serialise", "write"}, NEW f \in DOMAIN draft'[r]
            PROVE  draft'[r][f] = ContentOf(f, mem) /\ (f \in Devs => mem.snaps[f] > 0)
        <4>1. CASE r = s
          <5> DEFINE files == FilesOf(field, mem)
          <5>1. DOMAIN draft = Savers
            BY DEF PhaseInv, Shape, TypeOK
          <5> HIDE DEF files
          <5>2. draft'[s] = [g \in DOMAIN draft[s] \cup files |-> IF g \in files THEN ContentOf(g, mem) ELSE draft[s][g]]
            BY <3>1, <5>1 DEF files
          <5>3. CASE f \in files
            BY <3>3, <3>5, <4>1, <5>2, <5>3 DEF files
          <5>4. CASE f \notin files
            <6>1. f \in DOMAIN draft[s] /\ draft'[s][f] = draft[s][f]
              BY <3>5, <4>1, <5>2, <5>4
            <6>2. QED BY <3>4, <4>1, <6>1 DEF Pieces
          <5>5. QED BY <5>3, <5>4
        <4>2. CASE r # s
          BY <3>1, <3>4, <3>5, <4>2 DEF Pieces, PhaseInv, Shape
        <4>3. QED BY <4>1, <4>2
      <3>6. QED BY <2>0, <3>5 DEF Pieces
    <2>4. CASE StartWriting(s)
      BY <2>0, <2>4 DEF StartWriting, Pieces, PhaseInv, Shape
    <2>5. CASE Saved(s) \/ SaveFails(s)
      <3>1. draft' = draft /\ stage' = [stage EXCEPT ![s] = "idle"] /\ DOMAIN stage = Savers
        BY <2>5 DEF Saved, SaveFails, PhaseInv, Shape
      <3>2. \A r \in Savers : stage'[r] \in {"serialise", "write"} => stage[r] = stage'[r]
        BY <3>1
      <3>3. QED BY <2>0, <3>1, <3>2 DEF Pieces
    <2>6. QED BY <1>3, <2>1, <2>2, <2>3, <2>4, <2>5 DEF Save
  <1>4. CASE Checkpoint
    BY <1>4 DEF Checkpoint, StartSaving, Pieces, PhaseInv, Shape
  <1>5. CASE FinishPhase \/ StoreResult \/ \E d \in Devs : Discover(d) \/ UpdateDeveloper(d)
    <2>1. proc \in {"work", "store"}
      BY <1>5 DEF FinishPhase, StoreResult, Discover, UpdateDeveloper
    <2>2. \A s \in Savers : stage[s] = "idle"
      BY <2>1, SavesAlone DEF Idle
    <2>3. \A s \in Savers : stage'[s] \in {"idle", "remove"}
      BY <1>5, <2>2 DEF FinishPhase, StartSaving, StoreResult, Discover, UpdateDeveloper, saveVars,
         PhaseInv, Shape
    <2>4. QED BY <2>3 DEF Pieces
  <1>6. CASE FailPhase \/ StoreFails \/ DeleteDir \/ DeleteFails \/ DeleteFile
    BY <1>6 DEF FailPhase, StoreFails, DeleteDir, DeleteFails, DeleteFile, saveVars, Pieces
  <1>7. CASE ReturnError \/ TimeOut
    BY <1>7 DEF ReturnError, TimeOut, StartSaving, Pieces, PhaseInv, Shape
  <1>8. CASE ReturnNil \/ Leave \/ Crash \/ SerialisesRaces
    BY <1>8 DEF ReturnNil, Leave, Crash, SerialisesRaces, ProcessEnds, Pieces
  <1>9. CASE UNCHANGED vars
    BY <1>9 DEF vars, saveVars, Pieces
  <1>10. QED
    <2>1. "proc" \in Savers /\ "scout" \in Savers
      BY DEF Savers
    <2>2. QED
      BY <2>1, <1>1, <1>2, <1>3, <1>4, <1>5, <1>6, <1>7, <1>8, <1>9
         DEF Next, Scout, Proc, ProcFails

(* What can be loaded is what was saved.                                   *)
LEMMA LoadedWhole ==
    ASSUME ProcedureAssumption, TypeOK, OnDisk, SavedWhole, Loadable
    PROVE  /\ "state" \in DOMAIN saved /\ Loaded.phase = saved["state"].phase
           /\ Loaded.phase # Discovery => found \subseteq Loaded.times
           /\ Loaded.updated \subseteq Loaded.times
           /\ \A d \in Devs : Loaded.snaps[d] > 0 => d \in Loaded.times
  <1>1. /\ {"state", "times"} \subseteq DOMAIN disk
        /\ \A f \in DOMAIN disk : f \in DOMAIN saved /\ disk[f] = saved[f]
    BY DEF Loadable, Mandatory, Range, OnDisk
  <1>2. /\ saved["state"].phase # Discovery => found \subseteq saved["times"]
        /\ saved["state"].updated \subseteq saved["times"]
        /\ \A d \in Devs \cap DOMAIN saved : d \in saved["times"]
    BY <1>1 DEF SavedWhole
  <1>3. /\ Loaded.phase = saved["state"].phase
        /\ Loaded.updated = saved["state"].updated
        /\ Loaded.times = saved["times"]
        /\ \A d \in Devs : Loaded.snaps[d] = IF d \in DOMAIN disk THEN disk[d] ELSE 0
    BY <1>1 DEF Loaded
  <1>4. ASSUME NEW d \in Devs, Loaded.snaps[d] > 0 PROVE d \in Loaded.times
    <2>1. d \in DOMAIN disk
      BY <1>3, <1>4
    <2>2. QED BY <1>1, <1>2, <1>3, <2>1
  <1>5. QED BY <1>1, <1>2, <1>3, <1>4

LEMMA MemoryWholeKept ==
    ASSUME ProcedureAssumption, PhaseInv, TypeOK, OnDisk, MemoryWhole, SavedWhole, [Next]_vars
    PROVE  MemoryWhole'
  <1>1. mem \in Memory
    BY DEF TypeOK
  <1>2. CASE BeginNew
    BY <1>2 DEF BeginNew, NewState, MemoryWhole
  <1>3. CASE BeginLoaded
    BY <1>3, LoadedWhole DEF BeginLoaded, history, MemoryWhole
  <1>4. CASE FinishPhase
    BY <1>1, <1>4 DEF FinishPhase, Memory, MemoryWhole, NextPhase, Discovery
  <1>5. CASE StoreResult
    BY <1>1, <1>5 DEF StoreResult, Memory, MemoryWhole
  <1>6. ASSUME NEW d \in Devs, Discover(d) PROVE MemoryWhole'
    BY <1>1, <1>6 DEF Discover, Memory, MemoryWhole, history
  <1>7. ASSUME NEW d \in Devs, UpdateDeveloper(d) PROVE MemoryWhole'
    BY <1>1, <1>7 DEF UpdateDeveloper, Memory, MemoryWhole, history
  <1>8. CASE UNCHANGED <<mem, found>>
    BY <1>8 DEF MemoryWhole
  <1>9. CASE ReturnNil \/ Leave \/ Crash \/ SerialisesRaces
    BY <1>9 DEF ReturnNil, Leave, Crash, SerialisesRaces, ProcessEnds, history, NewState, MemoryWhole
  <1>10. CASE \/ BeginRefused \/ Checkpoint \/ FailPhase \/ StoreFails \/ DeleteDir \/ DeleteFails
              \/ DeleteFile \/ ReturnError \/ TimeOut \/ UNCHANGED vars
    <2>1. UNCHANGED <<mem, found>>
      BY <1>10 DEF BeginRefused, Checkpoint, FailPhase, StoreFails, DeleteDir, DeleteFails,
         DeleteFile, ReturnError, TimeOut, vars, history
    <2>2. QED BY <1>8, <2>1
  <1>11. ASSUME NEW s \in Savers, Save(s) \/ SaveFails(s) PROVE MemoryWhole'
    <2>1. UNCHANGED <<mem, found>>
      BY <1>11 DEF Save, RemoveFile, RemoveDir, Serialise, StartWriting, CreateFile, FillFile,
         Saved, SaveFails, history
    <2>2. QED BY <1>8, <2>1
  <1>12. QED
    <2>1. "proc" \in Savers /\ "scout" \in Savers
      BY DEF Savers
    <2>2. QED
      BY <2>1, <1>2, <1>3, <1>4, <1>5, <1>6, <1>7, <1>9, <1>10, <1>11
         DEF Next, Scout, Proc, ProcFails

LEMMA SavedWholeKept ==
    ASSUME ProcedureAssumption, PhaseInv, TypeOK, ~ScoutTimesOut, Alone, OnDisk, Pieces,
           MemoryWhole, SavedWhole, [Next]_vars
    PROVE  SavedWhole'
  <1>1. mem \in Memory
    BY DEF TypeOK
  <1>2. CASE BeginNew
    BY <1>2 DEF BeginNew, NoFiles, SavedWhole
  <1>3. CASE BeginLoaded
    BY <1>3, LoadedWhole DEF BeginLoaded, history, SavedWhole
  <1>4. CASE FinishPhase
    <2>1. mem'.phase # Discovery
      BY <1>1, <1>4 DEF FinishPhase, Memory, NextPhase, Phases, Discovery, Done
    <2>2. CASE mem.phase = Discovery
      BY <1>4, <2>1, <2>2 DEF FinishPhase, SavedWhole
    <2>3. CASE mem.phase # Discovery
      BY <1>4, <2>1, <2>3 DEF FinishPhase, SavedWhole
    <2>4. QED BY <2>2, <2>3
  <1>5. CASE StoreResult
    BY <1>1, <1>5 DEF StoreResult, Memory, SavedWhole
  <1>6. ASSUME NEW d \in Devs, Discover(d) \/ UpdateDeveloper(d) PROVE SavedWhole'
    <2>1. mem'.phase = mem.phase /\ proc' = proc /\ proc = "work" /\ saved' = saved /\ found' = found
      BY <1>1, <1>6 DEF Discover, UpdateDeveloper, Memory, history
    <2>2. QED BY <2>1 DEF SavedWhole
  <1>7. CASE ReturnNil \/ Leave \/ Crash \/ SerialisesRaces
    BY <1>7 DEF ReturnNil, Leave, Crash, SerialisesRaces, ProcessEnds, history, SavedWhole
  <1>8. CASE \/ BeginRefused \/ Checkpoint \/ FailPhase \/ StoreFails \/ DeleteDir \/ DeleteFails
             \/ DeleteFile \/ ReturnError \/ TimeOut \/ UNCHANGED vars
    <2>1. UNCHANGED <<mem, found, saved>> /\ (proc = "none" => proc' = "none")
      BY <1>8 DEF BeginRefused, Checkpoint, FailPhase, StoreFails, DeleteDir, DeleteFails,
         DeleteFile, ReturnError, TimeOut, vars, history
    <2>2. QED BY <2>1 DEF SavedWhole
  <1>9. ASSUME NEW s \in Savers, StartWriting(s) PROVE SavedWhole'
    <2>1. saved' = draft[s] /\ mem' = mem /\ found' = found /\ stage[s] = "serialise"
      BY <1>9 DEF StartWriting
    <2>2. \A f \in DOMAIN saved' : saved'[f] = ContentOf(f, mem) /\ (f \in Devs => mem.snaps[f] > 0)
      BY <2>1 DEF Pieces
    <2>3. "state" \in DOMAIN saved' =>
            saved'["state"].phase = mem.phase /\ saved'["state"].updated = mem.updated
      BY <2>2 DEF ContentOf
    <2>4. "times" \in DOMAIN saved' => saved'["times"] = mem.times
      BY <2>2 DEF ContentOf
    <2>5. \A d \in Devs \cap DOMAIN saved' : d \in mem.times
      BY <2>2 DEF MemoryWhole
    <2>6. QED BY <2>1, <2>3, <2>4, <2>5 DEF SavedWhole, MemoryWhole
  <1>10. ASSUME NEW s \in Savers,
                RemoveFile(s) \/ RemoveDir(s) \/ Serialise(s) \/ CreateFile(s) \/ FillFile(s)
                  \/ Saved(s) \/ SaveFails(s)
         PROVE SavedWhole'
    <2>1. UNCHANGED <<mem, found, saved>>
      BY <1>10 DEF RemoveFile, RemoveDir, Serialise, CreateFile, FillFile, Saved, SaveFails, history
    <2>2. proc' = proc \/ \E failed \in BOOLEAN : AfterSave(s, failed)
      BY <1>10 DEF RemoveFile, RemoveDir, Serialise, CreateFile, FillFile, Saved, SaveFails
    <2>3. s = "proc" /\ proc' # proc => proc # "none"
      BY <1>10, <2>2 DEF RemoveFile, RemoveDir, Serialise, CreateFile, FillFile, Saved, SaveFails,
         TypeOK, Idle
    <2>4. proc = "none" => proc' = "none"
      BY <2>2, <2>3 DEF AfterSave, Savers
    <2>5. QED BY <2>1, <2>4 DEF SavedWhole
  <1>11. QED
    <2>1. "proc" \in Savers /\ "scout" \in Savers
      BY DEF Savers
    <2>2. QED
      BY <2>1, <1>2, <1>3, <1>4, <1>5, <1>6, <1>7, <1>8, <1>9, <1>10
         DEF Next, Scout, Proc, ProcFails, Save

LEMMA InitSaveInv ==
    ASSUME Init PROVE SaveInv
  BY DEF Init, NobodySaves, NewState, NoFiles, SaveInv, Alone, OnDisk, Pieces, MemoryWhole, SavedWhole

LEMMA SaveInvariant == Spec => []SaveInv
  <1>1. Init => SaveInv
    BY InitSaveInv
  <1>2. PhaseInv /\ TypeOK /\ SaveInv /\ [Next]_vars => SaveInv'
    BY AloneKept, OnDiskKept, PiecesKept, MemoryWholeKept, SavedWholeKept, ProcedureAssumption
       DEF SaveInv
  <1>3. QED
    BY <1>1, <1>2, PhaseInvariant, ProcedureTyped, PTL DEF Spec

(* Whatever is read from the disk is of the save that wrote last, whole or *)
(* torn, wherever a crash or an error has interrupted it: Save removes the *)
(* files of the last one before it writes (state.go), and only one of the  *)
(* two goroutines saves, as long as ScoutTimeout is not reached.           *)
THEOREM FilesAreOfOneSave == Spec => []OneSave
  <1>1. SaveInv => OneSave
    BY DEF SaveInv, OnDisk, OneSave
  <1>2. QED BY <1>1, SaveInvariant, PTL

(* A state that a process can load has the times of the developers that    *)
(* the Discovery phase found and of those it lists as updated, although    *)
(* its fields are serialised and written one at a time.                    *)
THEOREM LoadedStateIsWhole == Spec => []PastPhasesHaveTheirTimes
  <1>1. TypeOK /\ SaveInv => PastPhasesHaveTheirTimes
    BY LoadedWhole, ProcedureAssumption DEF SaveInv, PastPhasesHaveTheirTimes
  <1>2. QED BY <1>1, SaveInvariant, ProcedureTyped, PTL

-----------------------------------------------------------------------------
(* The fields.                                                             *)

(* The values that a field may have, with the numbers N of its additions.  *)
Numbers(adds, f) == 1 .. adds[f]
Entries(N) ==
    [developer : {{}} \cup {{d} : d \in Developers}, snapshots : SUBSET N,
     games : SUBSET SUBSET Games, trend : SUBSET {"run", "loaded"}]
States(N) ==
    [scalar : N \cup {0}, updated : Seq([id : N, type : {"T", "R"}]), toEnable : [{"T", "R"} -> N \cup {0}]]

Fits(f, value, N) ==
    /\ f \in Maps => /\ DOMAIN value \subseteq Users(f)
                     /\ value \in [DOMAIN value -> Seq(N)]
    /\ f = "GameIDs" => value \subseteq N
    /\ f = "DeletedDevelopers" =>
         /\ \A i \in DOMAIN value : value[i] \in Entries(N)
         /\ \A i, j \in DOMAIN value : i # j => value[i].developer \cap value[j].developer = {}
    /\ f = "State" => value \in States(N)

(* No addition is in a field twice.                                        *)
AtMostOnce(f, value, N) == \A n \in N : \A p, q \in Places(f, value, n) : p = q

(* A state, or what is decoded from files, whose deleted developers are in *)
(* no order.                                                               *)
Sound(state, adds) ==
    /\ DOMAIN state = Types /\ state = [f \in Types |-> state[f]]
    /\ \A f \in Types : Fits(f, state[f], Numbers(adds, f)) /\ AtMostOnce(f, state[f], Numbers(adds, f))

IsThere(state, x) == Places(x[2], state[x[2]], x[1]) # {}

(* Deleted developers that a save can encode.                              *)
Complete(list) == \A i \in DOMAIN list : list[i].developer # {} /\ list[i].trend # {}

Counted(additions) == \A x \in additions : x[2] \in Types /\ x[1] \in Numbers(hist.adds, x[2])
HistType ==
    [adds : [Types -> Nat], live : SUBSET (Nat \X Types), pending : SUBSET (Nat \X Iterable), saved : SUBSET (Nat \X Types),
     whole : BOOLEAN, torn : BOOLEAN, faults : Nat]
Counts ==
    /\ hist \in HistType
    /\ Counted(hist.live) /\ Counted(hist.pending) /\ Counted(hist.saved)

FieldsSound ==
    /\ Sound(fields, hist.adds)
    /\ fields["DeletedDevelopers"] \in Seq(Entries(Numbers(hist.adds, "DeletedDevelopers")))

(* The other state has none of what the fields have.                       *)
Apart(f, value, other, N) == \A n \in N : Places(f, value, n) = {} \/ Places(f, other, n) = {}
TempSound ==
    /\ pc # "up" => temp = {}
    /\ \A t, u \in temp : t = u
    /\ \A t \in temp :
         /\ Sound(t, hist.adds) /\ t["DeletedDevelopers"] = <<>>
         /\ \A f \in Types : Apart(f, fields[f], t[f], Numbers(hist.adds, f))

Present ==
    pc = "up" =>
        /\ \A x \in hist.live : IsThere(fields, x)
        /\ \A x \in hist.pending : \E t \in temp : IsThere(t, x)
        /\ ~hist.torn => Complete(fields["DeletedDevelopers"])

(* What a load would find.                                                 *)
HasJson(files) == \A f \in Json : <<f>> \in DOMAIN files
Developer(d, entry, whole) ==
    /\ d \in Developers /\ entry.developer \subseteq {d}
    /\ whole => entry.developer # {} /\ entry.trend # {}
Holds(files, adds, whole, wanted) ==
    /\ \A p \in DOMAIN files : p[1] \in Snapshots => p = <<p[1], p[2]>>
    /\ Sound(Decoded(files), adds)
    /\ \A x \in wanted : IsThere(Decoded(files), x)
    /\ \A d \in DOMAIN Decoded(files)["DeletedDevelopers"] : Developer(d, Decoded(files)["DeletedDevelopers"][d], whole)
FilesSound ==
    /\ directory.made \in BOOLEAN /\ directory = [made |-> directory.made, files |-> directory.files]
    /\ ~directory.made => hist.saved = {}
    /\ directory.made /\ hist.whole => HasJson(directory.files)
    /\ directory.made /\ HasJson(directory.files) => Holds(directory.files, hist.adds, hist.whole, Found)

FieldsInv == Counts /\ FieldsSound /\ TempSound /\ Present /\ FilesSound

(* What has been visited, and what is to be, are two orders of the keys of *)
(* both maps.                                                              *)
Keys(k) == DOMAIN fields[IF k = 1 THEN "DeveloperSnapshots" ELSE "RedditDeveloperSnapshots"]
Rest(queue, order, from) ==
    /\ Len(queue) = Len(order) - from
    /\ \A i \in 1 .. Len(order) - from : queue[i] = order[from + i]
Walks(it, first, second) ==
    /\ it.queues = <<it.queues[1], it.queues[2]>>
    /\ it.queues[1] \in Seq(Developers) /\ it.queues[2] \in Seq(Developers)
    /\ it.passed \in Nat
    /\ \/ it.at = 1 /\ it.done = 0 /\ Rest(it.queues[1], first, it.passed) /\ Rest(it.queues[2], second, 0)
       \/ it.at = 2 /\ it.done = Len(first) /\ it.queues[1] = <<>> /\ Rest(it.queues[2], second, it.passed)
    /\ it.seen \in Seq([i : Nat, key : Developers]) /\ Len(it.seen) = it.done + it.passed
    /\ \A k \in 1 .. Len(it.seen) :
         /\ it.seen[k].i = k - 1
         /\ it.seen[k].key = IF k <= Len(first) THEN first[k] ELSE second[k - Len(first)]

Walking ==
    iter # NoIter => /\ pc = "up"
                     /\ iter = [queues |-> iter.queues, at |-> iter.at, done |-> iter.done, passed |-> iter.passed, seen |-> iter.seen]
                     /\ \E first \in SetToSeqs(Keys(1)), second \in SetToSeqs(Keys(2)) : Walks(iter, first, second)
-----------------------------------------------------------------------------
LEMMA TypesAre ==
    ASSUME NEW f \in Types
    PROVE  f \in Maps \/ f = "GameIDs" \/ f = "DeletedDevelopers" \/ f = "State"
  BY DEF Types

LEMMA TypesDiffer ==
    /\ "GameIDs" \notin Maps /\ "DeletedDevelopers" \notin Maps /\ "State" \notin Maps
    /\ "GameIDs" # "DeletedDevelopers" /\ "GameIDs" # "State" /\ "DeletedDevelopers" # "State"
  BY DEF Maps, Times, Snapshots

(* The places of an addition, by the kind of the field.                    *)
LEMMA MapPlaces ==
    ASSUME NEW f \in Maps, NEW value, NEW n, NEW p
    PROVE  p \in Places(f, value, n) <=>
              \E d \in DOMAIN value : \E i \in DOMAIN value[d] : p = <<d, i>> /\ value[d][i] = n
<1>1. Places(f, value, n) = UNION {{d} \X {i \in DOMAIN value[d] : value[d][i] = n} : d \in DOMAIN value}
  BY TypesDiffer DEF Places
<1>2. QED BY <1>1

LEMMA OtherPlaces ==
    ASSUME NEW value, NEW n
    PROVE  /\ Places("GameIDs", value, n) = {n} \cap value
           /\ Places("DeletedDevelopers", value, n) = {i \in DOMAIN value : n \in value[i].snapshots}
  BY DEF Places, Maps, Times, Snapshots

LEMMA StatePlaces ==
    ASSUME NEW value, NEW n, NEW p
    PROVE  p \in Places("State", value, n) <=>
              \/ p = <<"scalar", n>> /\ value.scalar = n
              \/ \E t \in {"T", "R"} : p = <<"toEnable", t>> /\ value.toEnable[t] = n
              \/ \E i \in DOMAIN value.updated :
                   /\ p = <<"updated", i>> /\ value.updated[i].id = n /\ value.updated[i].type \in {"T", "R"}
<1> DEFINE ofType(t) == {i \in GetUpdated(value.updated, t) : value.updated[i].id = n}
           updated == UNION {ofType(t) : t \in {"T", "R"}}
           toEnable == {t \in {"T", "R"} : value.toEnable[t] = n}
           scalar == {n} \cap {value.scalar}
<1>1. Places("State", value, n) = ({"scalar"} \X scalar) \cup ({"toEnable"} \X toEnable) \cup ({"updated"} \X updated)
  BY DEF Places, Maps, Times, Snapshots
<1>2. \A i : i \in updated <=> i \in DOMAIN value.updated /\ value.updated[i].id = n /\ value.updated[i].type \in {"T", "R"}
  BY DEF GetUpdated
<1>3. /\ \A x : x \in scalar <=> x = n /\ value.scalar = n
      /\ \A t : t \in toEnable <=> t \in {"T", "R"} /\ value.toEnable[t] = n
  OBVIOUS
<1> HIDE DEF updated, toEnable, scalar
<1>4. p \in Places("State", value, n) <=>
         \/ \E x \in scalar : p = <<"scalar", x>>
         \/ \E t \in toEnable : p = <<"toEnable", t>>
         \/ \E i \in updated : p = <<"updated", i>>
  BY <1>1
<1>5. QED BY <1>2, <1>3, <1>4

(* A value has only numbers that are given, and 0 for what was not set.    *)
LEMMA NoPlaces ==
    ASSUME NEW f \in Types, NEW value, NEW N, Fits(f, value, N), NEW n, n \notin N, n # 0
    PROVE  Places(f, value, n) = {}
<1>1. CASE f \in Maps
  <2>1. ASSUME NEW d \in DOMAIN value, NEW i \in DOMAIN value[d] PROVE value[d][i] \in N
    <3>1. value[d] \in Seq(N)
      BY <1>1 DEF Fits
    <3>2. i \in 1 .. Len(value[d])
      BY <3>1, LenProperties
    <3>3. QED BY <3>1, <3>2, ElementOfSeq
  <2>2. \A p \in Places(f, value, n) : \E d \in DOMAIN value : \E i \in DOMAIN value[d] : value[d][i] = n
    BY <1>1, MapPlaces
  <2>3. QED BY <2>1, <2>2
<1>2. CASE f = "GameIDs"
  BY <1>2, OtherPlaces DEF Fits
<1>3. CASE f = "DeletedDevelopers"
  <2>1. \A i \in DOMAIN value : value[i].snapshots \subseteq N
    BY <1>3 DEF Fits, Entries
  <2>2. QED BY <1>3, <2>1, OtherPlaces
<1>4. CASE f = "State"
  <2>1. /\ value.scalar \in N \cup {0} /\ value.toEnable \in [{"T", "R"} -> N \cup {0}]
        /\ value.updated \in Seq([id : N, type : {"T", "R"}])
    BY <1>4 DEF Fits, States
  <2>2. ASSUME NEW i \in DOMAIN value.updated PROVE value.updated[i].id \in N
    <3>1. i \in 1 .. Len(value.updated)
      BY <2>1, LenProperties
    <3>2. value.updated[i] \in [id : N, type : {"T", "R"}]
      BY <2>1, <3>1, ElementOfSeq
    <3>3. QED BY <3>2
  <2>3. value.scalar # n /\ \A t \in {"T", "R"} : value.toEnable[t] # n
    BY <2>1
  <2>4. QED BY <1>4, <2>2, <2>3, StatePlaces
<1>5. QED BY <1>1, <1>2, <1>3, <1>4, TypesAre

(* It fits also more numbers.                                              *)
LEMMA MoreNumbers ==
    ASSUME NEW f \in Types, NEW value, NEW N, NEW M, N \subseteq M, 0 \notin M,
           Fits(f, value, N), AtMostOnce(f, value, N)
    PROVE  Fits(f, value, M) /\ AtMostOnce(f, value, M)
<1>1. AtMostOnce(f, value, M)
  <2>1. ASSUME NEW n \in M, n \notin N PROVE Places(f, value, n) = {}
    BY <2>1, NoPlaces
  <2>2. QED BY <2>1 DEF AtMostOnce
<1>2. CASE f \in Maps
  <2>1. \A d \in DOMAIN value : value[d] \in Seq(M)
    BY <1>2, SeqMonotonic DEF Fits
  <2>2. QED BY <1>1, <1>2, <2>1, TypesDiffer DEF Fits
<1>3. CASE f = "GameIDs"
  BY <1>1, <1>3, TypesDiffer DEF Fits
<1>4. CASE f = "DeletedDevelopers"
  <2>1. \A i \in DOMAIN value : value[i] \in Entries(M)
    BY <1>4 DEF Fits, Entries
  <2>2. QED BY <1>1, <1>4, <2>1, TypesDiffer DEF Fits
<1>5. CASE f = "State"
  <2>1. value \in States(N)
    BY <1>5 DEF Fits
  <2>2. value.updated \in Seq([id : M, type : {"T", "R"}])
    <3>1. [id : N, type : {"T", "R"}] \subseteq [id : M, type : {"T", "R"}]
      OBVIOUS
    <3>2. value.updated \in Seq([id : N, type : {"T", "R"}])
      BY <2>1 DEF States
    <3>3. QED BY <3>1, <3>2, SeqMonotonic
  <2>3. value.scalar \in M \cup {0} /\ value.toEnable \in [{"T", "R"} -> M \cup {0}]
    BY <2>1 DEF States
  <2>4. value = [scalar |-> value.scalar, updated |-> value.updated, toEnable |-> value.toEnable]
    BY <2>1 DEF States
  <2>5. value \in States(M)
    BY <2>2, <2>3, <2>4 DEF States
  <2>6. QED BY <1>1, <1>5, <2>5, TypesDiffer DEF Fits
<1>6. QED BY <1>2, <1>3, <1>4, <1>5, TypesAre

(* A value that has, of each addition, only what one before it had, and the*)
(* new addition at one place at most.                                      *)
LEMMA OnceMore ==
    ASSUME NEW f \in Types, NEW value, NEW other, NEW N, NEW M, N \subseteq M, 0 \notin M, NEW n \in M, n \notin N,
           Fits(f, value, N), AtMostOnce(f, value, N),
           \A m \in M : m # n => Places(f, other, m) \subseteq Places(f, value, m),
           \A p, q \in Places(f, other, n) : p = q
    PROVE  AtMostOnce(f, other, M)
<1>1. ASSUME NEW m \in M, m # n, m \notin N PROVE Places(f, other, m) = {}
  BY <1>1, NoPlaces
<1>2. QED BY <1>1 DEF AtMostOnce

(* AddToMap.                                                               *)
LEMMA AppendToFits ==
    ASSUME NEW f \in Maps, NEW map, NEW N, NEW M, N \subseteq M, Fits(f, map, N), NEW d \in Users(f), NEW n \in M
    PROVE  Fits(f, AppendTo(map, d, <<n>>), M)
<1> DEFINE new == AppendTo(map, d, <<n>>)
<1>1. DOMAIN new = DOMAIN map \cup {d} /\ DOMAIN map \subseteq Users(f)
  BY DEF AppendTo, Fits
<1>2. <<n>> \in Seq(M) /\ <<>> \in Seq(M) /\ \A k \in DOMAIN map : map[k] \in Seq(M)
  <2>1. \A k \in DOMAIN map : map[k] \in Seq(N)
    BY DEF Fits
  <2>2. QED BY <2>1, SeqMonotonic, EmptySeq
<1>3. ASSUME NEW k \in DOMAIN new PROVE new[k] \in Seq(M)
  <2> DEFINE old == IF k \in DOMAIN map THEN map[k] ELSE <<>>
             more == IF k = d THEN <<n>> ELSE <<>>
  <2>1. new[k] = old \o more
    BY <1>1 DEF AppendTo
  <2>2. old \in Seq(M) /\ more \in Seq(M)
    BY <1>2
  <2> HIDE DEF old, more, new
  <2>3. QED BY <2>1, <2>2, ConcatProperties
<1>4. new = [k \in DOMAIN new |-> new[k]]
  BY DEF AppendTo
<1>5. QED BY <1>1, <1>3, <1>4, TypesDiffer DEF Fits

LEMMA AppendToPlaces ==
    ASSUME NEW f \in Maps, NEW map, NEW N, Fits(f, map, N), NEW d, NEW n, NEW m, NEW p
    PROVE  p \in Places(f, AppendTo(map, d, <<n>>), m) <=>
              \/ p \in Places(f, map, m)
              \/ m = n /\ p = <<d, 1 + (IF d \in DOMAIN map THEN Len(map[d]) ELSE 0)>>
<1> DEFINE new == AppendTo(map, d, <<n>>)
           old(k) == IF k \in DOMAIN map THEN map[k] ELSE <<>>
           more(k) == IF k = d THEN <<n>> ELSE <<>>
<1>1. DOMAIN new = DOMAIN map \cup {d} /\ \A k \in DOMAIN new : new[k] = old(k) \o more(k)
  BY DEF AppendTo
<1>2. \A k : /\ old(k) \in Seq(N \cup {n}) /\ more(k) \in Seq(N \cup {n})
  <2>1. \A k \in DOMAIN map : map[k] \in Seq(N)
    BY DEF Fits
  <2>2. \A k \in DOMAIN map : map[k] \in Seq(N \cup {n})
    BY <2>1, SeqMonotonic
  <2>3. <<n>> \in Seq(N \cup {n}) /\ <<>> \in Seq(N \cup {n})
    BY EmptySeq
  <2>4. QED BY <2>2, <2>3
<1>3. \A k : /\ Len(old(k)) = IF k \in DOMAIN map THEN Len(map[k]) ELSE 0
             /\ Len(more(k)) = IF k = d THEN 1 ELSE 0
             /\ k = d => more(k)[1] = n
             /\ Len(old(k)) \in Nat
             /\ k \in DOMAIN map => DOMAIN map[k] = 1 .. Len(old(k)) /\ map[k] = old(k)
  BY <1>2, LenProperties, EmptySeq
<1> HIDE DEF old, more, new
<1>4. ASSUME NEW k \in DOMAIN new
      PROVE  /\ DOMAIN new[k] = 1 .. Len(old(k)) + Len(more(k))
             /\ \A i \in 1 .. Len(old(k)) + Len(more(k)) : new[k][i] = IF i <= Len(old(k)) THEN old(k)[i] ELSE more(k)[i - Len(old(k))]
  <2>1. old(k) \in Seq(N \cup {n}) /\ more(k) \in Seq(N \cup {n}) /\ new[k] = old(k) \o more(k)
    BY <1>1, <1>2
  <2>2. /\ old(k) \o more(k) \in Seq(N \cup {n}) /\ Len(old(k) \o more(k)) = Len(old(k)) + Len(more(k))
        /\ \A i \in 1 .. Len(old(k)) + Len(more(k)) : (old(k) \o more(k))[i] = IF i <= Len(old(k)) THEN old(k)[i] ELSE more(k)[i - Len(old(k))]
    BY <2>1, ConcatProperties
  <2>3. DOMAIN (old(k) \o more(k)) = 1 .. Len(old(k) \o more(k))
    BY <2>2, LenProperties
  <2>4. QED BY <2>1, <2>2, <2>3
<1>5. ASSUME NEW k \in DOMAIN new, k # d, NEW i
      PROVE  i \in DOMAIN new[k] /\ new[k][i] = m <=> k \in DOMAIN map /\ i \in DOMAIN map[k] /\ map[k][i] = m
  <2>1. k \in DOMAIN map
    BY <1>1, <1>5
  <2>2. Len(more(k)) = 0 /\ DOMAIN map[k] = 1 .. Len(old(k)) /\ map[k] = old(k) /\ Len(old(k)) \in Nat
    BY <1>3, <1>5, <2>1
  <2>3. QED BY <1>4, <2>1, <2>2
<1>6. ASSUME NEW i
      PROVE  i \in DOMAIN new[d] /\ new[d][i] = m <=> \/ d \in DOMAIN map /\ i \in DOMAIN map[d] /\ map[d][i] = m
                                                      \/ i = 1 + Len(old(d)) /\ n = m
  <2>1. d \in DOMAIN new
    BY <1>1
  <2>2. Len(more(d)) = 1 /\ more(d)[1] = n /\ Len(old(d)) \in Nat
    BY <1>3
  <2>3. /\ DOMAIN new[d] = 1 .. Len(old(d)) + 1
        /\ \A j \in 1 .. Len(old(d)) + 1 : new[d][j] = IF j <= Len(old(d)) THEN old(d)[j] ELSE more(d)[j - Len(old(d))]
    BY <1>4, <2>1, <2>2
  <2>4. CASE i = 1 + Len(old(d))
    <3>1. i \in DOMAIN new[d] /\ new[d][i] = n
      BY <2>2, <2>3, <2>4
    <3>2. d \in DOMAIN map => i \notin DOMAIN map[d]
      BY <1>3, <2>2, <2>4
    <3>3. QED BY <2>4, <3>1, <3>2
  <2>5. CASE i # 1 + Len(old(d))
    <3>1. CASE d \in DOMAIN map
      <4>1. DOMAIN map[d] = 1 .. Len(old(d)) /\ map[d] = old(d)
        BY <1>3, <3>1
      <4>2. QED BY <2>2, <2>3, <2>5, <3>1, <4>1
    <3>2. CASE d \notin DOMAIN map
      <4>1. Len(old(d)) = 0
        BY <1>3, <3>2
      <4>2. QED BY <2>3, <2>5, <3>2, <4>1
    <3>3. QED BY <3>1, <3>2
  <2>6. QED BY <2>4, <2>5
<1>7. 1 + (IF d \in DOMAIN map THEN Len(map[d]) ELSE 0) = 1 + Len(old(d))
  BY <1>3
<1>8. p \in Places(f, new, m) <=> \E k \in DOMAIN new : \E i \in DOMAIN new[k] : p = <<k, i>> /\ new[k][i] = m
  BY MapPlaces
<1>9. p \in Places(f, map, m) <=> \E k \in DOMAIN map : \E i \in DOMAIN map[k] : p = <<k, i>> /\ map[k][i] = m
  BY MapPlaces
<1>10. ASSUME p \in Places(f, new, m) PROVE p \in Places(f, map, m) \/ (m = n /\ p = <<d, 1 + Len(old(d))>>)
  <2>1. PICK k \in DOMAIN new : \E i \in DOMAIN new[k] : p = <<k, i>> /\ new[k][i] = m
    BY <1>8, <1>10
  <2>2. PICK i \in DOMAIN new[k] : p = <<k, i>> /\ new[k][i] = m
    BY <2>1
  <2>3. CASE k = d
    <3>1. \/ d \in DOMAIN map /\ i \in DOMAIN map[d] /\ map[d][i] = m
          \/ i = 1 + Len(old(d)) /\ n = m
      BY <1>6, <2>2, <2>3
    <3>2. CASE d \in DOMAIN map /\ i \in DOMAIN map[d] /\ map[d][i] = m
      <4>1. p \in Places(f, map, m)
        BY <1>9, <2>2, <2>3, <3>2
      <4>2. QED BY <4>1
    <3>3. CASE i = 1 + Len(old(d)) /\ n = m
      <4>1. p = <<d, 1 + Len(old(d))>>
        BY <2>2, <2>3, <3>3
      <4>2. QED BY <3>3, <4>1
    <3>4. QED BY <3>1, <3>2, <3>3
  <2>4. CASE k # d
    <3>1. k \in DOMAIN map /\ i \in DOMAIN map[k] /\ map[k][i] = m
      BY <1>5, <2>2, <2>4
    <3>2. p \in Places(f, map, m)
      BY <1>9, <2>2, <3>1
    <3>3. QED BY <3>2
  <2>5. QED BY <2>3, <2>4
<1>11. ASSUME p \in Places(f, map, m) PROVE p \in Places(f, new, m)
  <2>1. PICK k \in DOMAIN map : \E i \in DOMAIN map[k] : p = <<k, i>> /\ map[k][i] = m
    BY <1>9, <1>11
  <2>2. PICK i \in DOMAIN map[k] : p = <<k, i>> /\ map[k][i] = m
    BY <2>1
  <2>3. k \in DOMAIN new
    BY <1>1
  <2>4. i \in DOMAIN new[k] /\ new[k][i] = m
    BY <1>5, <1>6, <2>2, <2>3
  <2>5. QED BY <1>8, <2>2, <2>3, <2>4
<1>12. ASSUME m = n, p = <<d, 1 + Len(old(d))>> PROVE p \in Places(f, new, m)
  <2>1. d \in DOMAIN new
    BY <1>1
  <2>2. 1 + Len(old(d)) \in DOMAIN new[d] /\ new[d][1 + Len(old(d))] = m
    BY <1>6, <1>12
  <2>3. QED BY <1>8, <1>12, <2>1, <2>2
<1>13. QED BY <1>7, <1>10, <1>11, <1>12 DEF new

(* What an addition makes of a value: it fits also with the new number n,  *)
(* nothing comes back that was not there, and nothing but the lost number  *)
(* goes.                                                                   *)
Gains(f, value, other, N, n, lost) ==
    /\ Fits(f, other, N \cup {n}) /\ AtMostOnce(f, other, N \cup {n})
    /\ \A m \in N : Places(f, value, m) = {} => Places(f, other, m) = {}
    /\ \A m \in N \ {lost} : Places(f, value, m) # {} => Places(f, other, m) # {}

LEMMA MapGains ==
    ASSUME NEW f \in Maps, NEW map, NEW N, Fits(f, map, N), AtMostOnce(f, map, N), 0 \notin N,
           NEW d \in Users(f), NEW n, n \notin N, n # 0
    PROVE  /\ Gains(f, map, AppendTo(map, d, <<n>>), N, n, 0)
           /\ Places(f, AppendTo(map, d, <<n>>), n) # {}
<1> DEFINE new == AppendTo(map, d, <<n>>)
           q == <<d, 1 + (IF d \in DOMAIN map THEN Len(map[d]) ELSE 0)>>
<1>1. Fits(f, new, N \cup {n})
  BY AppendToFits
<1>2. ASSUME NEW m, m # n PROVE Places(f, new, m) = Places(f, map, m)
  <2>1. \A p : p \in Places(f, new, m) <=> p \in Places(f, map, m)
    BY <1>2, AppendToPlaces
  <2> HIDE DEF new
  <2>2. QED BY <2>1
<1>3. f \in Types
  BY DEF Types
<1>4. Places(f, map, n) = {}
  BY <1>3, NoPlaces
<1>5. \A p : p \in Places(f, new, n) <=> p = q
  BY <1>4, AppendToPlaces
<1> HIDE DEF new, q
<1>6. AtMostOnce(f, new, N \cup {n})
  BY <1>2, <1>3, <1>5, OnceMore
<1>7. Gains(f, map, new, N, n, 0)
  BY <1>1, <1>2, <1>6 DEF Gains
<1>8. QED BY <1>5, <1>7 DEF new

LEMMA GameGains ==
    ASSUME NEW ids, NEW N, Fits("GameIDs", ids, N), 0 \notin N, NEW n, n \notin N, n # 0
    PROVE  /\ Gains("GameIDs", ids, Merge("GameIDs", ids, {n}), N, n, 0)
           /\ Places("GameIDs", Merge("GameIDs", ids, {n}), n) # {}
<1> DEFINE new == Merge("GameIDs", ids, {n})
<1>1. new = ids \cup {n}
  BY TypesDiffer DEF Merge
<1>2. ids \subseteq N
  BY DEF Fits
<1>3. Fits("GameIDs", new, N \cup {n})
  BY <1>1, <1>2, TypesDiffer DEF Fits
<1>4. \A m : Places("GameIDs", new, m) = {m} \cap new /\ Places("GameIDs", ids, m) = {m} \cap ids
  BY OtherPlaces
<1> HIDE DEF new
<1>5. AtMostOnce("GameIDs", new, N \cup {n})
  BY <1>4 DEF AtMostOnce
<1>6. ASSUME NEW m \in N PROVE Places("GameIDs", new, m) = Places("GameIDs", ids, m)
  <2>1. {m} \cap (ids \cup {n}) = {m} \cap ids
    BY <1>6
  <2>2. QED BY <1>1, <1>4, <2>1
<1>7. Gains("GameIDs", ids, new, N, n, 0)
  BY <1>3, <1>5, <1>6 DEF Gains
<1>8. Places("GameIDs", new, n) # {}
  BY <1>1, <1>4
<1>9. QED BY <1>7, <1>8 DEF new

(* State.                                                                  *)
LEMMA StateValue ==
    ASSUME NEW value, NEW N, Fits("State", value, N)
    PROVE  /\ value = [scalar |-> value.scalar, updated |-> value.updated, toEnable |-> value.toEnable]
           /\ value.scalar \in N \cup {0} /\ value.toEnable \in [{"T", "R"} -> N \cup {0}]
           /\ value.updated \in Seq([id : N, type : {"T", "R"}])
           /\ DOMAIN value.updated = 1 .. Len(value.updated) /\ Len(value.updated) \in Nat
           /\ \A i \in DOMAIN value.updated : value.updated[i].id \in N /\ value.updated[i].type \in {"T", "R"}
<1>1. value \in States(N)
  BY DEF Fits
<1>2. /\ value = [scalar |-> value.scalar, updated |-> value.updated, toEnable |-> value.toEnable]
      /\ value.scalar \in N \cup {0} /\ value.toEnable \in [{"T", "R"} -> N \cup {0}]
      /\ value.updated \in Seq([id : N, type : {"T", "R"}])
  BY <1>1 DEF States
<1>3. DOMAIN value.updated = 1 .. Len(value.updated) /\ Len(value.updated) \in Nat
  BY <1>2, LenProperties
<1>4. ASSUME NEW i \in DOMAIN value.updated PROVE value.updated[i] \in [id : N, type : {"T", "R"}]
  <2>1. i \in 1 .. Len(value.updated)
    BY <1>3
  <2>2. QED BY <1>2, <2>1, ElementOfSeq
<1>5. QED BY <1>2, <1>3, <1>4

LEMMA MoreStates ==
    ASSUME NEW N, NEW n, NEW scalar \in N \cup {0, n}, NEW updated \in Seq([id : N \cup {n}, type : {"T", "R"}]),
           NEW toEnable \in [{"T", "R"} -> N \cup {0, n}]
    PROVE  Fits("State", [scalar |-> scalar, updated |-> updated, toEnable |-> toEnable], N \cup {n})
<1> DEFINE new == [scalar |-> scalar, updated |-> updated, toEnable |-> toEnable]
<1>1. toEnable \in [{"T", "R"} -> (N \cup {n}) \cup {0}]
  <2>1. N \cup {0, n} = (N \cup {n}) \cup {0}
    OBVIOUS
  <2>2. QED BY <2>1
<1>2. scalar \in (N \cup {n}) \cup {0}
  OBVIOUS
<1>3. new \in States(N \cup {n})
  BY <1>1, <1>2 DEF States
<1>4. QED BY <1>3, TypesDiffer DEF Fits

LEMMA ScalarGains ==
    ASSUME NEW value, NEW N, Fits("State", value, N), AtMostOnce("State", value, N), 0 \notin N, NEW n, n \notin N, n # 0
    PROVE  /\ Gains("State", value, [value EXCEPT !.scalar = n], N, n, value.scalar)
           /\ Places("State", [value EXCEPT !.scalar = n], n) # {}
<1> DEFINE new == [value EXCEPT !.scalar = n]
<1>1. /\ value = [scalar |-> value.scalar, updated |-> value.updated, toEnable |-> value.toEnable]
      /\ value.scalar \in N \cup {0} /\ value.toEnable \in [{"T", "R"} -> N \cup {0}]
      /\ value.updated \in Seq([id : N, type : {"T", "R"}])
      /\ \A i \in DOMAIN value.updated : value.updated[i].id \in N
  BY StateValue
<1>2. new = [scalar |-> n, updated |-> value.updated, toEnable |-> value.toEnable]
  BY <1>1
<1>3. Fits("State", new, N \cup {n})
  <2>1. n \in N \cup {0, n} /\ value.toEnable \in [{"T", "R"} -> N \cup {0, n}]
    BY <1>1
  <2>2. [id : N, type : {"T", "R"}] \subseteq [id : N \cup {n}, type : {"T", "R"}]
    OBVIOUS
  <2>3. value.updated \in Seq([id : N \cup {n}, type : {"T", "R"}])
    BY <1>1, <2>2, SeqMonotonic
  <2>4. Fits("State", [scalar |-> n, updated |-> value.updated, toEnable |-> value.toEnable], N \cup {n})
    BY <2>1, <2>3, MoreStates
  <2>5. QED BY <1>2, <2>4
<1>4. new.scalar = n /\ new.updated = value.updated /\ new.toEnable = value.toEnable
  BY <1>2
<1> HIDE DEF new
<1>5. \A m, p : p \in Places("State", new, m) => p \in Places("State", value, m) \/ (m = n /\ p = <<"scalar", n>>)
  BY <1>4, StatePlaces
<1>6. \A m, p : m # value.scalar /\ p \in Places("State", value, m) => p \in Places("State", new, m)
  BY <1>4, StatePlaces
<1>7. Places("State", value, n) = {}
  BY NoPlaces DEF Types
<1>8. "State" \in Types
  BY DEF Types
<1>9. \A p \in Places("State", new, n) : p = <<"scalar", n>>
  BY <1>5, <1>7
<1>10. \A m \in N : Places("State", new, m) \subseteq Places("State", value, m)
  BY <1>5
<1>11. AtMostOnce("State", new, N \cup {n})
  BY <1>8, <1>9, <1>10, OnceMore
<1>12. Gains("State", value, new, N, n, value.scalar)
  BY <1>3, <1>6, <1>10, <1>11 DEF Gains
<1>13. <<"scalar", n>> \in Places("State", new, n)
  BY <1>4, StatePlaces
<1>14. QED BY <1>12, <1>13 DEF new

LEMMA ToEnableGains ==
    ASSUME NEW value, NEW N, Fits("State", value, N), AtMostOnce("State", value, N), 0 \notin N, NEW n, n \notin N, n # 0,
           NEW t \in {"T", "R"}
    PROVE  /\ Gains("State", value, [value EXCEPT !.toEnable[t] = n], N, n, value.toEnable[t])
           /\ Places("State", [value EXCEPT !.toEnable[t] = n], n) # {}
<1> DEFINE new == [value EXCEPT !.toEnable[t] = n]
           counts == [value.toEnable EXCEPT ![t] = n]
<1>1. /\ value = [scalar |-> value.scalar, updated |-> value.updated, toEnable |-> value.toEnable]
      /\ value.scalar \in N \cup {0} /\ value.toEnable \in [{"T", "R"} -> N \cup {0}]
      /\ value.updated \in Seq([id : N, type : {"T", "R"}])
      /\ \A i \in DOMAIN value.updated : value.updated[i].id \in N
  BY StateValue
<1>2. new = [scalar |-> value.scalar, updated |-> value.updated, toEnable |-> counts]
  BY <1>1
<1>3. counts \in [{"T", "R"} -> N \cup {0, n}] /\ counts[t] = n /\ \A u \in {"T", "R"} : u # t => counts[u] = value.toEnable[u]
  BY <1>1
<1> HIDE DEF counts
<1>4. Fits("State", new, N \cup {n})
  <2>1. value.scalar \in N \cup {0, n}
    BY <1>1
  <2>2. [id : N, type : {"T", "R"}] \subseteq [id : N \cup {n}, type : {"T", "R"}]
    OBVIOUS
  <2>3. value.updated \in Seq([id : N \cup {n}, type : {"T", "R"}])
    BY <1>1, <2>2, SeqMonotonic
  <2>4. Fits("State", [scalar |-> value.scalar, updated |-> value.updated, toEnable |-> counts], N \cup {n})
    BY <1>3, <2>1, <2>3, MoreStates
  <2>5. QED BY <1>2, <2>4
<1>5. new.scalar = value.scalar /\ new.updated = value.updated /\ new.toEnable = counts
  BY <1>2
<1> HIDE DEF new
<1>6. \A m, p : p \in Places("State", new, m) => p \in Places("State", value, m) \/ (m = n /\ p = <<"toEnable", t>>)
  BY <1>3, <1>5, StatePlaces
<1>7. \A m, p : m # value.toEnable[t] /\ p \in Places("State", value, m) => p \in Places("State", new, m)
  BY <1>3, <1>5, StatePlaces
<1>8. "State" \in Types
  BY DEF Types
<1>9. Places("State", value, n) = {}
  BY <1>8, NoPlaces
<1>10. \A p \in Places("State", new, n) : p = <<"toEnable", t>>
  BY <1>6, <1>9
<1>11. \A m \in N : Places("State", new, m) \subseteq Places("State", value, m)
  BY <1>6
<1>12. AtMostOnce("State", new, N \cup {n})
  BY <1>8, <1>10, <1>11, OnceMore
<1>13. Gains("State", value, new, N, n, value.toEnable[t])
  BY <1>4, <1>7, <1>11, <1>12 DEF Gains
<1>14. <<"toEnable", t>> \in Places("State", new, n)
  BY <1>3, <1>5, StatePlaces
<1>15. QED BY <1>13, <1>14 DEF new

LEMMA UpdatedGains ==
    ASSUME NEW value, NEW N, Fits("State", value, N), AtMostOnce("State", value, N), 0 \notin N, NEW n, n \notin N, n # 0,
           NEW t \in {"T", "R"}
    PROVE  LET other == [value EXCEPT !.updated = Append(@, [id |-> n, type |-> t])]
           IN  Gains("State", value, other, N, n, 0) /\ Places("State", other, n) # {}
<1> DEFINE entry == [id |-> n, type |-> t]
           list == Append(value.updated, entry)
           new == [value EXCEPT !.updated = list]
           last == Len(value.updated) + 1
           Each == [id : N \cup {n}, type : {"T", "R"}]
<1>1. /\ value = [scalar |-> value.scalar, updated |-> value.updated, toEnable |-> value.toEnable]
      /\ value.scalar \in N \cup {0} /\ value.toEnable \in [{"T", "R"} -> N \cup {0}]
      /\ value.updated \in Seq([id : N, type : {"T", "R"}])
      /\ DOMAIN value.updated = 1 .. Len(value.updated) /\ Len(value.updated) \in Nat
      /\ \A i \in DOMAIN value.updated : value.updated[i].id \in N
  BY StateValue
<1> HIDE DEF list
<1>2. new = [scalar |-> value.scalar, updated |-> list, toEnable |-> value.toEnable]
  BY <1>1
<1>3. entry.id = n /\ entry.type = t /\ entry \in Each
  OBVIOUS
<1> HIDE DEF entry, Each
<1>4. value.updated \in Seq(Each)
  <2>1. [id : N, type : {"T", "R"}] \subseteq Each
    BY DEF Each
  <2>2. QED BY <1>1, <2>1, SeqMonotonic
<1>5. list \in Seq(Each) /\ DOMAIN list = 1 .. last /\ list[last] = entry /\ \A i \in DOMAIN value.updated : list[i] = value.updated[i]
  BY <1>1, <1>3, <1>4 DEF list
<1>6. Fits("State", new, N \cup {n})
  <2>1. value.scalar \in N \cup {0, n} /\ value.toEnable \in [{"T", "R"} -> N \cup {0, n}]
    BY <1>1
  <2>2. list \in Seq([id : N \cup {n}, type : {"T", "R"}])
    BY <1>5 DEF Each
  <2>3. Fits("State", [scalar |-> value.scalar, updated |-> list, toEnable |-> value.toEnable], N \cup {n})
    BY <2>1, <2>2, MoreStates
  <2>4. QED BY <1>2, <2>3
<1>7. new.scalar = value.scalar /\ new.updated = list /\ new.toEnable = value.toEnable
  BY <1>2
<1>8. last \in DOMAIN list /\ \A i \in DOMAIN list : i \in DOMAIN value.updated \/ i = last
  BY <1>1, <1>5
<1>9. \A i \in DOMAIN value.updated : i \in DOMAIN list
  BY <1>1, <1>5
<1> HIDE DEF new, last
<1>10. \A m, p : p \in Places("State", new, m) => p \in Places("State", value, m) \/ (m = n /\ p = <<"updated", last>>)
  <2> SUFFICES ASSUME NEW m, NEW p, p \in Places("State", new, m)
               PROVE  p \in Places("State", value, m) \/ (m = n /\ p = <<"updated", last>>)
    OBVIOUS
  <2>1. CASE p = <<"scalar", m>> /\ new.scalar = m
    BY <1>7, <2>1, StatePlaces
  <2>2. CASE \E u \in {"T", "R"} : p = <<"toEnable", u>> /\ new.toEnable[u] = m
    BY <1>7, <2>2, StatePlaces
  <2>3. ASSUME NEW i \in DOMAIN list, p = <<"updated", i>>, list[i].id = m, list[i].type \in {"T", "R"}
        PROVE  p \in Places("State", value, m) \/ (m = n /\ p = <<"updated", last>>)
    <3>1. CASE i \in DOMAIN value.updated
      <4>1. value.updated[i].id = m /\ value.updated[i].type \in {"T", "R"}
        BY <1>5, <2>3, <3>1
      <4>2. p \in Places("State", value, m)
        BY <2>3, <3>1, <4>1, StatePlaces
      <4>3. QED BY <4>2
    <3>2. CASE i = last
      BY <1>3, <1>5, <2>3, <3>2
    <3>3. QED BY <1>8, <3>1, <3>2
  <2>4. \/ p = <<"scalar", m>> /\ new.scalar = m
        \/ \E u \in {"T", "R"} : p = <<"toEnable", u>> /\ new.toEnable[u] = m
        \/ \E i \in DOMAIN list : p = <<"updated", i>> /\ list[i].id = m /\ list[i].type \in {"T", "R"}
    BY <1>7, StatePlaces
  <2>5. QED BY <2>1, <2>2, <2>3, <2>4
<1>11. \A m, p : p \in Places("State", value, m) => p \in Places("State", new, m)
  <2> SUFFICES ASSUME NEW m, NEW p, p \in Places("State", value, m)
               PROVE  p \in Places("State", new, m)
    OBVIOUS
  <2>1. CASE p = <<"scalar", m>> /\ value.scalar = m
    BY <1>7, <2>1, StatePlaces
  <2>2. CASE \E u \in {"T", "R"} : p = <<"toEnable", u>> /\ value.toEnable[u] = m
    BY <1>7, <2>2, StatePlaces
  <2>3. ASSUME NEW i \in DOMAIN value.updated, p = <<"updated", i>>, value.updated[i].id = m, value.updated[i].type \in {"T", "R"}
        PROVE  p \in Places("State", new, m)
    <3>1. i \in DOMAIN list /\ list[i] = value.updated[i]
      BY <1>5, <1>9
    <3>2. QED BY <1>7, <2>3, <3>1, StatePlaces
  <2>4. QED BY <2>1, <2>2, <2>3, StatePlaces
<1>12. "State" \in Types
  BY DEF Types
<1>13. Places("State", value, n) = {}
  BY <1>12, NoPlaces
<1>14. \A p \in Places("State", new, n) : p = <<"updated", last>>
  BY <1>10, <1>13
<1>15. \A m \in N : Places("State", new, m) = Places("State", value, m)
  <2>1. \A m \in N : \A p : p \in Places("State", new, m) <=> p \in Places("State", value, m)
    BY <1>10, <1>11
  <2>2. QED BY <2>1
<1>16. AtMostOnce("State", new, N \cup {n})
  BY <1>12, <1>14, <1>15, OnceMore
<1>17. Gains("State", value, new, N, n, 0)
  BY <1>6, <1>15, <1>16 DEF Gains
<1>18. <<"updated", last>> \in Places("State", new, n)
  BY <1>3, <1>5, <1>7, <1>8, StatePlaces
<1>19. new = [value EXCEPT !.updated = Append(@, [id |-> n, type |-> t])]
  BY DEF new, list, entry
<1>20. QED BY <1>17, <1>18, <1>19

(* AddDeleted.                                                             *)
LEMMA EntryIs ==
    ASSUME NEW N, NEW entry
    PROVE  entry \in Entries(N) <=>
              /\ entry = [developer |-> entry.developer, snapshots |-> entry.snapshots, games |-> entry.games, trend |-> entry.trend]
              /\ entry.developer \in {{}} \cup {{d} : d \in Developers} /\ entry.snapshots \in SUBSET N
              /\ entry.games \in SUBSET SUBSET Games /\ entry.trend \in SUBSET {"run", "loaded"}
  BY DEF Entries

LEMMA MoreEntries ==
    ASSUME NEW N, NEW M, N \subseteq M
    PROVE  Entries(N) \subseteq Entries(M)
  BY DEF Entries

(* A list that has as it had, and has the new number n at place k at most. *)
LEMMA ListGains ==
    ASSUME NEW N, NEW list \in Seq(Entries(N)), Fits("DeletedDevelopers", list, N), AtMostOnce("DeletedDevelopers", list, N), 0 \notin N,
           NEW n, n \notin N, n # 0, NEW other \in Seq(Entries(N \cup {n})), DOMAIN list \subseteq DOMAIN other,
           NEW k \in DOMAIN other,
           \A i \in DOMAIN other : i # k => i \in DOMAIN list /\ other[i] = list[i],
           \A i \in DOMAIN other : i # k => other[i].developer \cap other[k].developer = {},
           \A m \in N : k \in DOMAIN list /\ m \in list[k].snapshots <=> m \in other[k].snapshots
    PROVE  Gains("DeletedDevelopers", list, other, N, n, 0)
<1>1. Fits("DeletedDevelopers", other, N \cup {n})
  <2>1. \A i \in DOMAIN other : other[i] \in Entries(N \cup {n})
    <3>1. DOMAIN other = 1 .. Len(other)
      BY LenProperties
    <3>2. QED BY <3>1, ElementOfSeq
  <2>2. ASSUME NEW i \in DOMAIN other, NEW j \in DOMAIN other, i # j PROVE other[i].developer \cap other[j].developer = {}
    <3>1. CASE i = k \/ j = k
      BY <2>2, <3>1
    <3>2. CASE i # k /\ j # k
      <4>1. i \in DOMAIN list /\ j \in DOMAIN list /\ other[i] = list[i] /\ other[j] = list[j]
        BY <3>2
      <4>2. list[i].developer \cap list[j].developer = {}
        BY <2>2, <4>1, TypesDiffer DEF Fits
      <4>3. QED BY <4>1, <4>2
    <3>3. QED BY <3>1, <3>2
  <2>3. QED BY <2>1, <2>2, TypesDiffer DEF Fits
<1>2. ASSUME NEW m \in N PROVE Places("DeletedDevelopers", other, m) = Places("DeletedDevelopers", list, m)
  <2>1. ASSUME NEW i PROVE i \in DOMAIN other /\ m \in other[i].snapshots <=> i \in DOMAIN list /\ m \in list[i].snapshots
    <3>1. CASE i = k
      BY <3>1
    <3>2. CASE i # k
      BY <3>2
    <3>3. QED BY <3>1, <3>2
  <2>2. /\ Places("DeletedDevelopers", other, m) = {i \in DOMAIN other : m \in other[i].snapshots}
        /\ Places("DeletedDevelopers", list, m) = {i \in DOMAIN list : m \in list[i].snapshots}
    BY OtherPlaces
  <2>3. QED BY <2>1, <2>2
<1>3. "DeletedDevelopers" \in Types
  BY DEF Types
<1>4. Places("DeletedDevelopers", list, n) = {}
  BY <1>3, NoPlaces
<1>5. \A p \in Places("DeletedDevelopers", other, n) : p = k
  BY <1>4, OtherPlaces
<1>6. AtMostOnce("DeletedDevelopers", other, N \cup {n})
  <2>1. \A p, q \in Places("DeletedDevelopers", other, n) : p = q
    BY <1>5
  <2>2. \A m \in N \cup {n} : m # n => Places("DeletedDevelopers", other, m) \subseteq Places("DeletedDevelopers", list, m)
    BY <1>2
  <2>3. 0 \notin N \cup {n} /\ N \subseteq N \cup {n} /\ n \in N \cup {n}
    OBVIOUS
  <2>4. QED BY <1>3, <2>1, <2>2, <2>3, OnceMore
<1>7. QED BY <1>1, <1>2, <1>6 DEF Gains

LEMMA DeletedGains ==
    ASSUME NEW N, NEW list \in Seq(Entries(N)), Fits("DeletedDevelopers", list, N), AtMostOnce("DeletedDevelopers", list, N), 0 \notin N,
           NEW n, n \notin N, n # 0, NEW d \in Developers, NEW games \in SUBSET Games
    PROVE  LET other == SetOrAdd(list, [developer |-> {d}, snapshots |-> {n}, games |-> {games}, trend |-> {"run"}])
           IN  /\ other \in Seq(Entries(N \cup {n}))
               /\ Gains("DeletedDevelopers", list, other, N, n, 0)
               /\ IndexOf(list, d) = {} => Places("DeletedDevelopers", other, n) # {}
               /\ Complete(list) => Complete(other)
<1> DEFINE entry == [developer |-> {d}, snapshots |-> {n}, games |-> {games}, trend |-> {"run"}]
           same == {i \in DOMAIN list : list[i].developer = entry.developer}
           filled(old) == [developer |-> old.developer, snapshots |-> NotNil(old.snapshots, entry.snapshots),
                           games |-> NotNil(old.games, entry.games), trend |-> NotNil(old.trend, entry.trend)]
           E == Entries(N \cup {n})
           other == SetOrAdd(list, entry)
           Goal == /\ other \in Seq(E)
                   /\ Gains("DeletedDevelopers", list, other, N, n, 0)
                   /\ IndexOf(list, d) = {} => Places("DeletedDevelopers", other, n) # {}
                   /\ Complete(list) => Complete(other)
<1> SUFFICES Goal
  OBVIOUS
<1> HIDE DEF Goal
<1>1. entry.developer = {d} /\ entry.snapshots = {n} /\ entry.games = {games} /\ entry.trend = {"run"}
  OBVIOUS
<1>2. entry \in E
  BY EntryIs
<1>3. list \in Seq(E) /\ DOMAIN list = 1 .. Len(list) /\ Len(list) \in Nat /\ \A i \in DOMAIN list : list[i] \in E /\ list[i] \in Entries(N)
  <2>1. Entries(N) \subseteq E
    BY MoreEntries
  <2>2. list \in Seq(E)
    BY <2>1, SeqMonotonic
  <2>3. DOMAIN list = 1 .. Len(list) /\ Len(list) \in Nat
    BY LenProperties
  <2>4. \A i \in DOMAIN list : list[i] \in Entries(N)
    BY <2>3, ElementOfSeq
  <2>5. QED BY <2>1, <2>2, <2>3, <2>4
<1>4. same = IndexOf(list, d)
  BY <1>1 DEF IndexOf
<1>5. \A i \in DOMAIN list : list[i].developer \in {{}} \cup {{e} : e \in Developers}
  BY <1>3, EntryIs
<1>6. ASSUME NEW i \in DOMAIN list, i \notin same PROVE list[i].developer \cap {d} = {}
  BY <1>1, <1>5, <1>6
<1>7. other = IF same = {} THEN Append(list, entry)
              ELSE [list EXCEPT ![Min(same)] = filled(list[Min(same)])]
  BY DEF SetOrAdd
<1>8. CASE same = {}
  <2> DEFINE k == Len(list) + 1
  <2>1. other = Append(list, entry)
    BY <1>7, <1>8
  <2> HIDE DEF entry, E, other
  <2>2. other \in Seq(E) /\ DOMAIN other = 1 .. k /\ other[k] = entry /\ \A i \in DOMAIN list : other[i] = list[i]
    BY <1>2, <1>3, <2>1
  <2>3. k \in DOMAIN other /\ k \notin DOMAIN list /\ DOMAIN list \subseteq DOMAIN other
    BY <1>3, <2>2
  <2>4. \A i \in DOMAIN other : i # k => i \in DOMAIN list /\ other[i] = list[i]
    BY <1>3, <2>2
  <2> HIDE DEF k
  <2>5. \A i \in DOMAIN other : i # k => other[i].developer \cap other[k].developer = {}
    BY <1>1, <1>6, <1>8, <2>2, <2>4
  <2>6. \A m \in N : k \in DOMAIN list /\ m \in list[k].snapshots <=> m \in other[k].snapshots
    BY <1>1, <2>2, <2>3
  <2>7. Gains("DeletedDevelopers", list, other, N, n, 0)
    BY <2>2, <2>3, <2>4, <2>5, <2>6, ListGains DEF E
  <2>8. k \in Places("DeletedDevelopers", other, n)
    BY <1>1, <2>2, <2>3, OtherPlaces
  <2>9. Complete(list) => Complete(other)
    BY <1>1, <2>2, <2>4 DEF Complete
  <2>10. QED BY <2>2, <2>7, <2>8, <2>9 DEF Goal
<1>9. CASE same # {}
  <2>1. PICK k \in same : TRUE
    BY <1>9
  <2>2. k \in DOMAIN list /\ list[k].developer = {d}
    BY <1>1, <2>1
  <2>3. same = {k}
    <3>1. ASSUME NEW i \in same, i # k PROVE FALSE
      <4>1. i \in DOMAIN list /\ list[i].developer = {d}
        BY <1>1, <3>1
      <4>2. list[i].developer \cap list[k].developer = {}
        BY <2>2, <3>1, <4>1, TypesDiffer DEF Fits
      <4>3. QED BY <2>2, <4>1, <4>2
    <3>2. QED BY <2>1, <3>1
  <2>4. Min(same) = k
    <3>1. k \in Nat
      BY <1>3, <2>2
    <3>2. QED BY <2>3, <3>1 DEF Min
  <2> DEFINE old == list[k]
             now == filled(old)
  <2> HIDE DEF same, other, entry, filled
  <2>5. other = [list EXCEPT ![k] = now]
    BY <1>7, <1>9, <2>4
  <2>6. /\ old = [developer |-> old.developer, snapshots |-> old.snapshots, games |-> old.games, trend |-> old.trend]
        /\ old.developer = {d} /\ old.snapshots \in SUBSET N /\ old.games \in SUBSET SUBSET Games /\ old.trend \in SUBSET {"run", "loaded"}
    BY <1>3, <2>2, EntryIs
  <2>7. now = [developer |-> old.developer, snapshots |-> NotNil(old.snapshots, entry.snapshots), games |-> NotNil(old.games, entry.games),
               trend |-> NotNil(old.trend, entry.trend)]
    BY DEF filled
  <2> HIDE DEF old
  <2> HIDE DEF now
  <2>8. /\ now.developer = {d} /\ now.snapshots = NotNil(old.snapshots, {n}) /\ now.games = NotNil(old.games, {games})
        /\ now.trend = NotNil(old.trend, {"run"})
    BY <1>1, <2>6, <2>7
  <2>9. now \in E
    <3>1. now.snapshots \in SUBSET (N \cup {n}) /\ now.games \in SUBSET SUBSET Games /\ now.trend \in SUBSET {"run", "loaded"}
      BY <2>6, <2>8 DEF NotNil
    <3>2. now = [developer |-> now.developer, snapshots |-> now.snapshots, games |-> now.games, trend |-> now.trend]
      BY <2>7
    <3>3. now.developer \in {{}} \cup {{e} : e \in Developers}
      BY <2>8
    <3>4. QED BY <3>1, <3>2, <3>3, EntryIs
  <2> HIDE DEF E
  <2>10. /\ other \in Seq(E) /\ DOMAIN other = DOMAIN list /\ other[k] = now
         /\ \A i \in DOMAIN list : i # k => other[i] = list[i]
    <3>1. k \in 1 .. Len(list)
      BY <1>3, <2>2
    <3>2. other \in Seq(E)
      BY <1>3, <2>5, <2>9, <3>1, ExceptSeq
    <3>3. QED BY <1>3, <2>2, <2>5, <3>2
  <2>11. \A i \in DOMAIN other : i # k => other[i].developer \cap other[k].developer = {}
    BY <1>6, <2>3, <2>8, <2>10
  <2>12. \A m \in N : k \in DOMAIN list /\ m \in list[k].snapshots <=> m \in other[k].snapshots
    BY <2>2, <2>6, <2>8, <2>10 DEF NotNil, old
  <2>13. Gains("DeletedDevelopers", list, other, N, n, 0)
    BY <2>2, <2>10, <2>11, <2>12, ListGains DEF E
  <2>14. Complete(list) => Complete(other)
    <3>1. SUFFICES ASSUME Complete(list), NEW i \in DOMAIN other PROVE other[i].developer # {} /\ other[i].trend # {}
      BY DEF Complete
    <3>2. CASE i = k
      <4>1. now.trend # {}
        BY <2>8 DEF NotNil
      <4>2. QED BY <2>8, <2>10, <3>2, <4>1
    <3>3. CASE i # k
      BY <2>10, <3>1, <3>3 DEF Complete
    <3>4. QED BY <3>2, <3>3
  <2>15. QED BY <1>4, <1>9, <2>10, <2>13, <2>14 DEF Goal
<1>10. QED BY <1>8, <1>9

(* Merge, of two values of which an addition is in one at most.            *)
Before(map, d) == IF d \in DOMAIN map THEN Len(map[d]) ELSE 0
Later(one, two, m, p) == \E d \in DOMAIN two : \E i \in DOMAIN two[d] : two[d][i] = m /\ p = <<d, i + Before(one, d)>>

LEMMA MergeMaps ==
    ASSUME NEW f \in Maps, NEW one, NEW two, NEW N, Fits(f, one, N), Fits(f, two, N)
    PROVE  /\ Fits(f, Merge(f, one, two), N)
           /\ \A m, p : p \in Places(f, Merge(f, one, two), m) <=> (p \in Places(f, one, m) \/ Later(one, two, m, p))
<1> DEFINE new == Merge(f, one, two)
           first(k) == IF k \in DOMAIN one THEN one[k] ELSE <<>>
           second(k) == IF k \in DOMAIN two THEN two[k] ELSE <<>>
<1>1. DOMAIN new = DOMAIN one \cup DOMAIN two /\ new = [k \in DOMAIN new |-> new[k]]
      /\ \A k \in DOMAIN new : new[k] = first(k) \o second(k)
  BY TypesDiffer DEF Merge
<1>2. \A k : /\ first(k) \in Seq(N) /\ second(k) \in Seq(N)
  <2>1. \A k \in DOMAIN one : one[k] \in Seq(N)
    BY DEF Fits
  <2>2. \A k \in DOMAIN two : two[k] \in Seq(N)
    BY DEF Fits
  <2>3. <<>> \in Seq(N)
    BY EmptySeq
  <2>4. QED BY <2>1, <2>2, <2>3
<1>3. \A k : /\ Len(first(k)) = (IF k \in DOMAIN one THEN Len(one[k]) ELSE 0)
             /\ Len(first(k)) \in Nat /\ Len(second(k)) \in Nat
             /\ k \in DOMAIN one => DOMAIN one[k] = 1 .. Len(first(k)) /\ one[k] = first(k)
             /\ k \notin DOMAIN one => Len(first(k)) = 0
             /\ k \in DOMAIN two => DOMAIN two[k] = 1 .. Len(second(k)) /\ two[k] = second(k)
             /\ k \notin DOMAIN two => Len(second(k)) = 0
  BY <1>2, LenProperties, EmptySeq
<1> HIDE DEF first, second, new
<1>4. ASSUME NEW k \in DOMAIN new PROVE new[k] \in Seq(N)
  <2>1. first(k) \in Seq(N) /\ second(k) \in Seq(N) /\ new[k] = first(k) \o second(k)
    BY <1>1, <1>2
  <2>2. QED BY <2>1, ConcatProperties
<1>5. Fits(f, new, N)
  <2>1. DOMAIN new \subseteq Users(f)
    BY <1>1 DEF Fits
  <2>2. QED BY <1>1, <1>4, <2>1, TypesDiffer DEF Fits
<1>6. ASSUME NEW k \in DOMAIN new
      PROVE  /\ DOMAIN new[k] = 1 .. Len(first(k)) + Len(second(k))
             /\ \A i \in 1 .. Len(first(k)) + Len(second(k)) : new[k][i] = IF i <= Len(first(k)) THEN first(k)[i] ELSE second(k)[i - Len(first(k))]
  <2>1. first(k) \in Seq(N) /\ second(k) \in Seq(N) /\ new[k] = first(k) \o second(k)
    BY <1>1, <1>2
  <2>2. /\ first(k) \o second(k) \in Seq(N) /\ Len(first(k) \o second(k)) = Len(first(k)) + Len(second(k))
        /\ \A i \in 1 .. Len(first(k)) + Len(second(k)) :
              (first(k) \o second(k))[i] = IF i <= Len(first(k)) THEN first(k)[i] ELSE second(k)[i - Len(first(k))]
    BY <2>1, ConcatProperties
  <2>3. DOMAIN (first(k) \o second(k)) = 1 .. Len(first(k) \o second(k))
    BY <2>2, LenProperties
  <2>4. QED BY <2>1, <2>2, <2>3
<1>7. ASSUME NEW k \in DOMAIN new, NEW i \in DOMAIN new[k]
      PROVE  \/ k \in DOMAIN one /\ i \in DOMAIN one[k] /\ one[k][i] = new[k][i]
             \/ /\ k \in DOMAIN two /\ i - Len(first(k)) \in DOMAIN two[k] /\ two[k][i - Len(first(k))] = new[k][i]
                /\ i = (i - Len(first(k))) + Len(first(k))
  <2>1. /\ Len(first(k)) \in Nat /\ Len(second(k)) \in Nat /\ i \in 1 .. Len(first(k)) + Len(second(k))
        /\ new[k][i] = IF i <= Len(first(k)) THEN first(k)[i] ELSE second(k)[i - Len(first(k))]
    BY <1>3, <1>6
  <2>2. CASE i <= Len(first(k))
    <3>1. k \in DOMAIN one
      BY <1>3, <2>1, <2>2
    <3>2. DOMAIN one[k] = 1 .. Len(first(k)) /\ one[k] = first(k)
      BY <1>3, <3>1
    <3>3. QED BY <2>1, <2>2, <3>1, <3>2
  <2>3. CASE ~(i <= Len(first(k)))
    <3>1. i - Len(first(k)) \in 1 .. Len(second(k))
      BY <2>1, <2>3
    <3>2. k \in DOMAIN two
      BY <1>3, <2>1, <3>1
    <3>3. DOMAIN two[k] = 1 .. Len(second(k)) /\ two[k] = second(k)
      BY <1>3, <3>2
    <3>4. QED BY <2>1, <2>3, <3>1, <3>2, <3>3
  <2>4. QED BY <2>2, <2>3
<1>8. ASSUME NEW k \in DOMAIN one, NEW i \in DOMAIN one[k] PROVE k \in DOMAIN new /\ i \in DOMAIN new[k] /\ new[k][i] = one[k][i]
  <2>1. k \in DOMAIN new /\ Len(first(k)) \in Nat /\ Len(second(k)) \in Nat /\ i \in 1 .. Len(first(k)) /\ one[k] = first(k)
    BY <1>1, <1>3
  <2>2. i \in 1 .. Len(first(k)) + Len(second(k)) /\ i <= Len(first(k))
    BY <2>1
  <2>3. QED BY <1>6, <2>1, <2>2
<1>9. ASSUME NEW k \in DOMAIN two, NEW i \in DOMAIN two[k]
      PROVE  k \in DOMAIN new /\ i + Len(first(k)) \in DOMAIN new[k] /\ new[k][i + Len(first(k))] = two[k][i]
  <2>1. k \in DOMAIN new /\ Len(first(k)) \in Nat /\ Len(second(k)) \in Nat /\ i \in 1 .. Len(second(k)) /\ two[k] = second(k)
    BY <1>1, <1>3
  <2>2. i + Len(first(k)) \in 1 .. Len(first(k)) + Len(second(k)) /\ ~(i + Len(first(k)) <= Len(first(k)))
        /\ (i + Len(first(k))) - Len(first(k)) = i
    BY <2>1
  <2>3. QED BY <1>6, <2>1, <2>2
<1>10. ASSUME NEW m, NEW p, p \in Places(f, new, m)
       PROVE  \/ p \in Places(f, one, m)
              \/ \E d \in DOMAIN two : \E i \in DOMAIN two[d] : two[d][i] = m /\ p = <<d, i + Len(first(d))>>
  <2>1. PICK k \in DOMAIN new : \E i \in DOMAIN new[k] : p = <<k, i>> /\ new[k][i] = m
    BY <1>10, MapPlaces
  <2>2. PICK i \in DOMAIN new[k] : p = <<k, i>> /\ new[k][i] = m
    BY <2>1
  <2>3. CASE k \in DOMAIN one /\ i \in DOMAIN one[k] /\ one[k][i] = new[k][i]
    <3>1. p \in Places(f, one, m)
      BY <2>2, <2>3, MapPlaces
    <3>2. QED BY <3>1
  <2>4. CASE /\ k \in DOMAIN two /\ i - Len(first(k)) \in DOMAIN two[k] /\ two[k][i - Len(first(k))] = new[k][i]
             /\ i = (i - Len(first(k))) + Len(first(k))
    BY <2>2, <2>4
  <2>5. QED BY <1>7, <2>3, <2>4
<1>11. ASSUME NEW m, NEW p, p \in Places(f, one, m) PROVE p \in Places(f, new, m)
  <2>1. PICK k \in DOMAIN one : \E i \in DOMAIN one[k] : p = <<k, i>> /\ one[k][i] = m
    BY <1>11, MapPlaces
  <2>2. PICK i \in DOMAIN one[k] : p = <<k, i>> /\ one[k][i] = m
    BY <2>1
  <2>3. k \in DOMAIN new /\ i \in DOMAIN new[k] /\ new[k][i] = one[k][i]
    BY <1>8
  <2>4. QED BY <2>2, <2>3, MapPlaces
<1>12. ASSUME NEW m, NEW d \in DOMAIN two, NEW i \in DOMAIN two[d], two[d][i] = m
       PROVE  <<d, i + Len(first(d))>> \in Places(f, new, m)
  <2>1. d \in DOMAIN new /\ i + Len(first(d)) \in DOMAIN new[d] /\ new[d][i + Len(first(d))] = two[d][i]
    BY <1>9
  <2>2. QED BY <1>12, <2>1, MapPlaces
<1>13. ASSUME NEW d PROVE Before(one, d) = Len(first(d))
  BY <1>3 DEF Before
<1>14. ASSUME NEW m, NEW p PROVE p \in Places(f, new, m) <=> (p \in Places(f, one, m) \/ Later(one, two, m, p))
  <2>1. Later(one, two, m, p) <=> \E d \in DOMAIN two : \E i \in DOMAIN two[d] : two[d][i] = m /\ p = <<d, i + Len(first(d))>>
    BY <1>13 DEF Later
  <2>2. QED BY <1>10, <1>11, <1>12, <2>1
<1>15. QED BY <1>5, <1>14 DEF new

(* Merge loses nothing, and doubles nothing that is in one of both at most.*)
LEMMA MergeKeeps ==
    ASSUME NEW f \in Iterable, NEW one, NEW two, NEW N, Fits(f, one, N), Fits(f, two, N),
           AtMostOnce(f, one, N), AtMostOnce(f, two, N), Apart(f, one, two, N),
           f = "DeletedDevelopers" => one \in Seq(Entries(N)) /\ two = <<>>
    PROVE  /\ Fits(f, Merge(f, one, two), N) /\ AtMostOnce(f, Merge(f, one, two), N)
           /\ \A m \in N : Places(f, one, m) # {} \/ Places(f, two, m) # {} => Places(f, Merge(f, one, two), m) # {}
           /\ f = "DeletedDevelopers" => Merge(f, one, two) = one
<1> DEFINE new == Merge(f, one, two)
           Goal == /\ Fits(f, new, N) /\ AtMostOnce(f, new, N)
                   /\ \A m \in N : Places(f, one, m) # {} \/ Places(f, two, m) # {} => Places(f, new, m) # {}
                   /\ f = "DeletedDevelopers" => new = one
<1> SUFFICES Goal
  OBVIOUS
<1> HIDE DEF new
<1>1. CASE f \in Maps
  <2>1. Fits(f, new, N) /\ \A m, p : p \in Places(f, new, m) <=> (p \in Places(f, one, m) \/ Later(one, two, m, p))
    BY <1>1, MergeMaps DEF new
  <2>2. ASSUME NEW m, NEW p, Later(one, two, m, p) PROVE Places(f, two, m) # {}
    <3>1. PICK d \in DOMAIN two : \E i \in DOMAIN two[d] : two[d][i] = m /\ p = <<d, i + Before(one, d)>>
      BY <2>2 DEF Later
    <3>2. PICK i \in DOMAIN two[d] : two[d][i] = m
      BY <3>1
    <3>3. <<d, i>> \in Places(f, two, m)
      BY <1>1, <3>2, MapPlaces
    <3>4. QED BY <3>3
  <2>3. ASSUME NEW m, Places(f, two, m) # {} PROVE \E p : Later(one, two, m, p)
    <3>1. PICK q \in Places(f, two, m) : TRUE
      BY <2>3
    <3>2. PICK d \in DOMAIN two : \E i \in DOMAIN two[d] : q = <<d, i>> /\ two[d][i] = m
      BY <1>1, <3>1, MapPlaces
    <3>3. PICK i \in DOMAIN two[d] : two[d][i] = m
      BY <3>2
    <3>4. Later(one, two, m, <<d, i + Before(one, d)>>)
      BY <3>3 DEF Later
    <3>5. QED BY <3>4
  <2>4. ASSUME NEW m \in N, NEW p, NEW q, Later(one, two, m, p), Later(one, two, m, q) PROVE p = q
    <3>1. PICK d \in DOMAIN two : \E i \in DOMAIN two[d] : two[d][i] = m /\ p = <<d, i + Before(one, d)>>
      BY <2>4 DEF Later
    <3>2. PICK i \in DOMAIN two[d] : two[d][i] = m /\ p = <<d, i + Before(one, d)>>
      BY <3>1
    <3>3. PICK e \in DOMAIN two : \E j \in DOMAIN two[e] : two[e][j] = m /\ q = <<e, j + Before(one, e)>>
      BY <2>4 DEF Later
    <3>4. PICK j \in DOMAIN two[e] : two[e][j] = m /\ q = <<e, j + Before(one, e)>>
      BY <3>3
    <3>5. <<d, i>> \in Places(f, two, m) /\ <<e, j>> \in Places(f, two, m)
      BY <1>1, <3>2, <3>4, MapPlaces
    <3>6. <<d, i>> = <<e, j>>
      BY <3>5 DEF AtMostOnce
    <3>7. d = e /\ i = j
      BY <3>6
    <3>8. QED BY <3>2, <3>4, <3>7
  <2>5. AtMostOnce(f, new, N)
    <3>1. SUFFICES ASSUME NEW m \in N, NEW p \in Places(f, new, m), NEW q \in Places(f, new, m) PROVE p = q
      BY DEF AtMostOnce
    <3>2. CASE Places(f, one, m) = {}
      BY <2>1, <2>4, <3>2
    <3>3. CASE Places(f, two, m) = {}
      <4>1. p \in Places(f, one, m) /\ q \in Places(f, one, m)
        BY <2>1, <2>2, <3>3
      <4>2. QED BY <4>1 DEF AtMostOnce
    <3>4. QED BY <3>2, <3>3 DEF Apart
  <2>6. ASSUME NEW m \in N, Places(f, one, m) # {} \/ Places(f, two, m) # {} PROVE Places(f, new, m) # {}
    BY <2>1, <2>3, <2>6
  <2>7. QED BY <1>1, <2>1, <2>5, <2>6, TypesDiffer
<1>2. CASE f = "GameIDs"
  <2>1. new = one \cup two
    BY <1>2, TypesDiffer DEF Merge, new
  <2>2. one \subseteq N /\ two \subseteq N
    BY <1>2 DEF Fits
  <2>3. Fits(f, new, N)
    BY <1>2, <2>1, <2>2, TypesDiffer DEF Fits
  <2>4. \A m : Places(f, new, m) = {m} \cap new /\ Places(f, one, m) = {m} \cap one /\ Places(f, two, m) = {m} \cap two
    BY <1>2, OtherPlaces
  <2>5. AtMostOnce(f, new, N)
    BY <2>4 DEF AtMostOnce
  <2>6. ASSUME NEW m \in N, Places(f, one, m) # {} \/ Places(f, two, m) # {} PROVE Places(f, new, m) # {}
    <3>1. m \in one \/ m \in two
      BY <2>4, <2>6
    <3>2. m \in new
      BY <2>1, <3>1
    <3>3. QED BY <2>4, <3>2
  <2>7. QED BY <1>2, <2>3, <2>5, <2>6
<1>3. CASE f = "DeletedDevelopers"
  <2>1. new = one \o <<>>
    BY <1>3, TypesDiffer DEF Merge, new
  <2>2. new = one
    BY <1>3, <2>1, ConcatEmptySeq
  <2>3. ASSUME NEW m \in N, Places(f, two, m) # {} PROVE FALSE
    <3>1. two = <<>>
      BY <1>3
    <3>2. Places(f, two, m) = {i \in DOMAIN two : m \in two[i].snapshots}
      BY <1>3, OtherPlaces
    <3>3. QED BY <2>3, <3>1, <3>2
  <2>4. QED BY <2>2, <2>3
<1>4. f \in Types /\ f # "State"
  BY DEF Iterable
<1>5. QED BY <1>1, <1>2, <1>3, <1>4, TypesAre

(* A state that was made has none of the additions.                        *)
LEMMA Made ==
    ASSUME NEW adds
    PROVE  /\ Sound(MakeState, adds) /\ MakeState["DeletedDevelopers"] = <<>> /\ Complete(MakeState["DeletedDevelopers"])
           /\ \A f \in Types : \A n \in Numbers(adds, f) : n # 0 => Places(f, MakeState[f], n) = {}
<1> DEFINE None == {}
<1>1. DOMAIN MakeState = Types /\ \A f \in Types : MakeState[f] = Make(f)
  BY DEF MakeState
<1>2. MakeState = [f \in Types |-> MakeState[f]]
  BY DEF MakeState
<1>3. /\ \A f \in Maps : Make(f) = EmptyMap
      /\ Make("GameIDs") = {} /\ Make("DeletedDevelopers") = <<>>
      /\ Make("State") = [scalar |-> 0, updated |-> <<>>, toEnable |-> [t \in {"T", "R"} |-> 0]]
  BY TypesDiffer DEF Make
<1>4. ASSUME NEW f \in Types PROVE Fits(f, Make(f), None)
  <2>1. CASE f \in Maps
    <3>1. Make(f) = EmptyMap /\ DOMAIN EmptyMap = {}
      BY <1>3, <2>1 DEF EmptyMap
    <3>2. EmptyMap \in [{} -> Seq(None)]
      BY DEF EmptyMap
    <3>3. QED BY <2>1, <3>1, <3>2, TypesDiffer DEF Fits
  <2>2. CASE f = "GameIDs"
    BY <1>3, <2>2, TypesDiffer DEF Fits
  <2>3. CASE f = "DeletedDevelopers"
    <3>1. DOMAIN <<>> = {}
      OBVIOUS
    <3>2. QED BY <1>3, <2>3, <3>1, TypesDiffer DEF Fits
  <2>4. CASE f = "State"
    <3>1. <<>> \in Seq([id : None, type : {"T", "R"}])
      BY EmptySeq
    <3>2. [t \in {"T", "R"} |-> 0] \in [{"T", "R"} -> None \cup {0}]
      OBVIOUS
    <3> DEFINE none == <<>>
               zero == [t \in {"T", "R"} |-> 0]
    <3> HIDE DEF none, zero
    <3>3. [scalar |-> 0, updated |-> none, toEnable |-> zero] \in States(None)
      BY <3>1, <3>2 DEF States, none, zero
    <3>4. Make("State") \in States(None)
      BY <1>3, <3>3 DEF none, zero
    <3>5. QED BY <2>4, <3>4, TypesDiffer DEF Fits
  <2>5. QED BY <2>1, <2>2, <2>3, <2>4, TypesAre
<1>5. ASSUME NEW f \in Types, NEW n, n # 0 PROVE Places(f, Make(f), n) = {}
  BY <1>4, <1>5, NoPlaces
<1>6. ASSUME NEW f \in Types PROVE Fits(f, MakeState[f], Numbers(adds, f)) /\ AtMostOnce(f, MakeState[f], Numbers(adds, f))
  <2>1. AtMostOnce(f, Make(f), None)
    BY DEF AtMostOnce
  <2>2. None \subseteq Numbers(adds, f) /\ 0 \notin Numbers(adds, f)
    BY DEF Numbers
  <2> HIDE DEF None
  <2>3. QED BY <1>1, <1>4, <2>1, <2>2, MoreNumbers
<1>7. Sound(MakeState, adds)
  BY <1>1, <1>2, <1>6 DEF Sound
<1>8. MakeState["DeletedDevelopers"] = <<>>
  BY <1>1, <1>3 DEF Types
<1>9. Complete(<<>>)
  BY DEF Complete
<1>10. QED BY <1>1, <1>5, <1>7, <1>8, <1>9

(* A sound state is sound with more additions.                             *)
LEMMA MoreAdds ==
    ASSUME NEW state, NEW adds, NEW more, Sound(state, adds),
           \A f \in Types : adds[f] \in Nat /\ more[f] \in Nat /\ adds[f] <= more[f]
    PROVE  Sound(state, more)
<1>1. ASSUME NEW f \in Types PROVE Fits(f, state[f], Numbers(more, f)) /\ AtMostOnce(f, state[f], Numbers(more, f))
  <2>1. Numbers(adds, f) \subseteq Numbers(more, f) /\ 0 \notin Numbers(more, f)
    BY DEF Numbers
  <2>2. QED BY <2>1, MoreNumbers DEF Sound
<1>2. QED BY <1>1 DEF Sound
-----------------------------------------------------------------------------
(* The files of a state, by the shape of their paths.                      *)
LEMMA KindsOfTypes ==
    /\ Json \subseteq Types /\ Snapshots \subseteq Types /\ "DeletedDevelopers" \in Types /\ Snapshots \subseteq Maps
    /\ Json \cap Snapshots = {} /\ "DeletedDevelopers" \notin Json \cup Snapshots
    /\ \A f \in Types : f \in Json \/ f \in Snapshots \/ f = "DeletedDevelopers"
  BY DEF Types, Json, Maps, Snapshots, Times

LEMMA PathsOf ==
    ASSUME NEW state, NEW p
    PROVE  p \in DOMAIN SerialiseFields(state) <=>
              \/ \E f \in Json : p = <<f>>
              \/ \E f \in Snapshots : \E d \in DOMAIN state[f] : p = <<f, d>>
              \/ \E d \in Names(state["DeletedDevelopers"]) : \E part \in Parts : p = <<"DeletedDevelopers", d, part>>
<1> DEFINE list == state["DeletedDevelopers"]
<1>1. DOMAIN SerialiseFields(state) = JsonFiles \cup MapFiles(state) \cup DeletedFiles(list)
  BY DEF SerialiseFields
<1>2. p \in JsonFiles <=> \E f \in Json : p = <<f>>
  BY DEF JsonFiles
<1>3. p \in MapFiles(state) <=> \E f \in Snapshots : \E d \in DOMAIN state[f] : p = <<f, d>>
  BY DEF MapFiles
<1>4. p \in DeletedFiles(list) <=> \E d \in Names(list) : \E part \in Parts : p = <<"DeletedDevelopers", d, part>>
  BY DEF DeletedFiles
<1> HIDE DEF list
<1>5. p \in DOMAIN SerialiseFields(state) <=> p \in JsonFiles \/ p \in MapFiles(state) \/ p \in DeletedFiles(list)
  BY <1>1
<1>6. QED BY <1>2, <1>3, <1>4, <1>5 DEF list

LEMMA JsonFile ==
    ASSUME NEW state, NEW f \in Json
    PROVE  <<f>> \in DOMAIN SerialiseFields(state) /\ SerialiseFields(state)[<<f>>] = state[f]
<1>1. <<f>> \in DOMAIN SerialiseFields(state)
  BY PathsOf
<1>2. Len(<<f>>) = 1 /\ <<f>>[1] = f
  OBVIOUS
<1>3. QED BY <1>1, <1>2 DEF SerialiseFields

LEMMA MapFile ==
    ASSUME NEW state, NEW f \in Snapshots, NEW d \in DOMAIN state[f]
    PROVE  <<f, d>> \in DOMAIN SerialiseFields(state) /\ SerialiseFields(state)[<<f, d>>] = state[f][d]
<1>1. <<f, d>> \in DOMAIN SerialiseFields(state)
  BY PathsOf
<1>2. Len(<<f, d>>) = 2 /\ <<f, d>>[1] = f /\ <<f, d>>[2] = d
  OBVIOUS
<1>3. QED BY <1>1, <1>2 DEF SerialiseFields

LEMMA DeletedFile ==
    ASSUME NEW state, NEW d \in Names(state["DeletedDevelopers"]), NEW part \in Parts
    PROVE  /\ <<"DeletedDevelopers", d, part>> \in DOMAIN SerialiseFields(state)
           /\ SerialiseFields(state)[<<"DeletedDevelopers", d, part>>] = EntryOf(state["DeletedDevelopers"], d)[part]
<1> DEFINE p == <<"DeletedDevelopers", d, part>>
<1>1. p \in DOMAIN SerialiseFields(state)
  BY PathsOf
<1>2. Len(p) = 3 /\ p[1] = "DeletedDevelopers" /\ p[2] = d /\ p[3] = part
  OBVIOUS
<1> HIDE DEF p
<1>3. SerialiseFields(state)[p] = EntryOf(state["DeletedDevelopers"], p[2])[p[3]]
  BY <1>1, <1>2 DEF SerialiseFields
<1>4. QED BY <1>1, <1>2, <1>3 DEF p

(* What is named in a directory.                                           *)
Ids(files, f) == {p[2] : p \in InDirectory(files, f)}

LEMMA DecodedIs ==
    ASSUME NEW files
    PROVE  /\ DOMAIN Decoded(files) = Types /\ Decoded(files) = [f \in Types |-> Decoded(files)[f]]
           /\ \A f \in Json : Decoded(files)[f] = files[<<f>>]
           /\ \A f \in Snapshots : Decoded(files)[f] = [d \in Ids(files, f) |-> files[<<f, d>>]]
           /\ Decoded(files)["DeletedDevelopers"] = [d \in Ids(files, "DeletedDevelopers") |-> DecodedEntry(files, d)]
<1>1. Decoded(files) = [f \in Types |->
            CASE f \in Json -> files[<<f>>]
              [] f \in Snapshots -> [d \in Ids(files, f) |-> files[<<f, d>>]]
              [] f = "DeletedDevelopers" -> [d \in Ids(files, f) |-> DecodedEntry(files, d)]]
  BY DEF Decoded, Ids
<1>2. DOMAIN Decoded(files) = Types /\ Decoded(files) = [f \in Types |-> Decoded(files)[f]]
  BY <1>1
<1>3. ASSUME NEW f \in Json PROVE Decoded(files)[f] = files[<<f>>]
  <2>1. f \in Types /\ f \notin Snapshots /\ f # "DeletedDevelopers"
    BY KindsOfTypes
  <2>2. QED BY <1>1, <2>1
<1>4. ASSUME NEW f \in Snapshots PROVE Decoded(files)[f] = [d \in Ids(files, f) |-> files[<<f, d>>]]
  <2>1. f \in Types /\ f \notin Json /\ f # "DeletedDevelopers"
    BY KindsOfTypes
  <2>2. QED BY <1>1, <2>1
<1>5. Decoded(files)["DeletedDevelopers"] = [d \in Ids(files, "DeletedDevelopers") |-> DecodedEntry(files, d)]
  <2>1. "DeletedDevelopers" \in Types /\ "DeletedDevelopers" \notin Json /\ "DeletedDevelopers" \notin Snapshots
    BY KindsOfTypes
  <2>2. QED BY <1>1, <2>1
<1>6. QED BY <1>2, <1>3, <1>4, <1>5

LEMMA IdsOf ==
    ASSUME NEW state
    PROVE  /\ \A f \in Snapshots : Ids(SerialiseFields(state), f) = DOMAIN state[f]
           /\ Ids(SerialiseFields(state), "DeletedDevelopers") = Names(state["DeletedDevelopers"])
<1> DEFINE files == SerialiseFields(state)
           list == state["DeletedDevelopers"]
<1>1. ASSUME NEW f, NEW d PROVE d \in Ids(files, f) <=> \E p \in DOMAIN files : p[1] = f /\ Len(p) > 1 /\ d = p[2]
  BY DEF Ids, InDirectory
<1>2. ASSUME NEW f \in Snapshots, NEW d PROVE d \in Ids(files, f) <=> d \in DOMAIN state[f]
  <2>1. ASSUME NEW p \in DOMAIN files, p[1] = f, Len(p) > 1, d = p[2] PROVE d \in DOMAIN state[f]
    <3>1. CASE \E g \in Json : p = <<g>>
      <4>1. Len(p) = 1
        BY <3>1
      <4>2. QED BY <2>1, <4>1
    <3>2. CASE \E g \in Snapshots : \E e \in DOMAIN state[g] : p = <<g, e>>
      BY <2>1, <3>2
    <3>3. CASE \E e \in Names(list) : \E part \in Parts : p = <<"DeletedDevelopers", e, part>>
      <4>1. p[1] = "DeletedDevelopers"
        BY <3>3
      <4>2. QED BY <2>1, <4>1, KindsOfTypes
    <3>4. QED BY <3>1, <3>2, <3>3, PathsOf
  <2>2. ASSUME d \in DOMAIN state[f] PROVE \E p \in DOMAIN files : p[1] = f /\ Len(p) > 1 /\ d = p[2]
    <3>1. <<f, d>> \in DOMAIN files
      BY <2>2, MapFile
    <3>2. <<f, d>>[1] = f /\ Len(<<f, d>>) = 2 /\ <<f, d>>[2] = d
      OBVIOUS
    <3>3. QED BY <3>1, <3>2
  <2>3. QED BY <1>1, <2>1, <2>2
<1>3. ASSUME NEW d PROVE d \in Ids(files, "DeletedDevelopers") <=> d \in Names(list)
  <2>1. ASSUME NEW p \in DOMAIN files, p[1] = "DeletedDevelopers", Len(p) > 1, d = p[2] PROVE d \in Names(list)
    <3>1. CASE \E g \in Json : p = <<g>>
      <4>1. Len(p) = 1
        BY <3>1
      <4>2. QED BY <2>1, <4>1
    <3>2. CASE \E g \in Snapshots : \E e \in DOMAIN state[g] : p = <<g, e>>
      <4>1. p[1] \in Snapshots
        BY <3>2
      <4>2. QED BY <2>1, <4>1, KindsOfTypes
    <3>3. CASE \E e \in Names(list) : \E part \in Parts : p = <<"DeletedDevelopers", e, part>>
      BY <2>1, <3>3
    <3>4. QED BY <3>1, <3>2, <3>3, PathsOf
  <2>2. ASSUME d \in Names(list) PROVE \E p \in DOMAIN files : p[1] = "DeletedDevelopers" /\ Len(p) > 1 /\ d = p[2]
    <3> DEFINE p == <<"DeletedDevelopers", d, "developer">>
    <3>1. p \in DOMAIN files
      BY <2>2, DeletedFile DEF Parts
    <3>2. p[1] = "DeletedDevelopers" /\ Len(p) = 3 /\ p[2] = d
      OBVIOUS
    <3>3. QED BY <3>1, <3>2
  <2>3. QED BY <1>1, <2>1, <2>2
<1> HIDE DEF files, list
<1>4. QED BY <1>2, <1>3 DEF files, list

(* What a save keeps of the deleted developers.                            *)
LEMMA NameOf ==
    ASSUME NEW N, NEW list \in Seq(Entries(N)), Fits("DeletedDevelopers", list, N), Complete(list),
           NEW i \in DOMAIN list
    PROVE  \E d \in Names(list) : d \in Developers /\ list[i].developer = {d}
<1>1. i \in 1 .. Len(list)
  BY LenProperties
<1>2. list[i] \in Entries(N)
  BY <1>1, ElementOfSeq
<1>3. list[i].developer \in {{}} \cup {{d} : d \in Developers}
  BY <1>2, EntryIs
<1>4. list[i].developer # {}
  BY DEF Complete
<1>5. PICK d \in Developers : list[i].developer = {d}
  BY <1>3, <1>4
<1>6. d \in Names(list)
  BY <1>5 DEF Names
<1>7. QED BY <1>5, <1>6

LEMMA EntryOfName ==
    ASSUME NEW N, NEW list \in Seq(Entries(N)), Fits("DeletedDevelopers", list, N), Complete(list),
           NEW d \in Names(list)
    PROVE  d \in Developers /\ \E i \in DOMAIN list : EntryOf(list, d) = list[i] /\ list[i].developer = {d}
<1> DEFINE i == CHOOSE i \in DOMAIN list : d \in list[i].developer
<1>1. i \in DOMAIN list /\ d \in list[i].developer
  BY DEF Names
<1>2. EntryOf(list, d) = list[i]
  BY DEF EntryOf
<1> HIDE DEF i
<1>3. PICK e \in Names(list) : e \in Developers /\ list[i].developer = {e}
  BY <1>1, NameOf
<1>4. d = e
  BY <1>1, <1>3
<1>5. QED BY <1>1, <1>2, <1>3, <1>4

LEMMA EntryOfPlace ==
    ASSUME NEW N, NEW list \in Seq(Entries(N)), Fits("DeletedDevelopers", list, N), Complete(list),
           NEW d \in Names(list), NEW i \in DOMAIN list, list[i].developer = {d}
    PROVE  EntryOf(list, d) = list[i]
<1>1. PICK j \in DOMAIN list : EntryOf(list, d) = list[j] /\ list[j].developer = {d}
  <2>1. list \in Seq(Entries(N)) /\ Fits("DeletedDevelopers", list, N) /\ Complete(list) /\ d \in Names(list)
    OBVIOUS
  <2>2. QED BY ONLY <2>1, EntryOfName
<1>2. i # j => list[i].developer \cap list[j].developer = {}
  BY <1>1, TypesDiffer DEF Fits
<1>3. i = j
  BY <1>1, <1>2
<1>4. QED BY <1>1, <1>3

LEMMA SavedEntry ==
    ASSUME NEW state, NEW N, state["DeletedDevelopers"] \in Seq(Entries(N)), Fits("DeletedDevelopers", state["DeletedDevelopers"], N),
           Complete(state["DeletedDevelopers"]), NEW d \in Names(state["DeletedDevelopers"])
    PROVE  LET entry == DecodedEntry(SerialiseFields(state), d)
           IN  /\ entry \in Entries(N) /\ entry.developer = {d} /\ entry.trend # {}
               /\ entry.snapshots = EntryOf(state["DeletedDevelopers"], d).snapshots
<1> DEFINE files == SerialiseFields(state)
           list == state["DeletedDevelopers"]
           old == EntryOf(list, d)
           entry == DecodedEntry(files, d)
           path(part) == <<"DeletedDevelopers", d, part>>
<1>1. PICK i \in DOMAIN list : old = list[i] /\ list[i].developer = {d}
  BY EntryOfName
<1>2. old \in Entries(N)
  <2>1. i \in 1 .. Len(list)
    BY LenProperties
  <2>2. QED BY <1>1, <2>1, ElementOfSeq
<1>3. \A part \in Parts : path(part) \in DOMAIN files /\ files[path(part)] = old[part]
  BY DeletedFile
<1>4. DecodedPart(files, d, "developer") = old.developer
  <2>1. path("developer") \in DOMAIN files /\ files[path("developer")] = old["developer"]
    BY <1>3 DEF Parts
  <2>2. QED BY <2>1 DEF DecodedPart
<1>5. DecodedPart(files, d, "snapshots") = old.snapshots
  <2>1. path("snapshots") \in DOMAIN files /\ files[path("snapshots")] = old["snapshots"]
    BY <1>3 DEF Parts
  <2>2. QED BY <2>1 DEF DecodedPart
<1>6. DecodedPart(files, d, "games") = old.games \ {{}}
  <2>1. path("games") \in DOMAIN files /\ files[path("games")] = old["games"]
    BY <1>3 DEF Parts
  <2>2. QED BY <2>1 DEF DecodedPart
<1>7. DecodedPart(files, d, "trend") = {"loaded"}
  <2>1. path("trend") \in DOMAIN files
    BY <1>3 DEF Parts
  <2>2. QED BY <2>1 DEF DecodedPart
<1>8. entry = [developer |-> old.developer, snapshots |-> old.snapshots, games |-> old.games \ {{}}, trend |-> {"loaded"}]
  BY <1>4, <1>5, <1>6, <1>7 DEF DecodedEntry
<1>9. /\ old.developer \in {{}} \cup {{e} : e \in Developers} /\ old.snapshots \in SUBSET N /\ old.games \in SUBSET SUBSET Games
  BY <1>2, EntryIs
<1>10. old.games \ {{}} \in SUBSET SUBSET Games /\ {"loaded"} \in SUBSET {"run", "loaded"}
  BY <1>9
<1> HIDE DEF old, entry
<1>11. /\ entry.developer = old.developer /\ entry.snapshots = old.snapshots /\ entry.games = old.games \ {{}} /\ entry.trend = {"loaded"}
       /\ entry = [developer |-> entry.developer, snapshots |-> entry.snapshots, games |-> entry.games, trend |-> entry.trend]
  BY <1>8
<1>12. entry \in Entries(N)
  BY <1>9, <1>10, <1>11, EntryIs
<1>13. QED BY <1>1, <1>11, <1>12 DEF entry, old

(* A save that is not interrupted keeps everything.                        *)
LEMMA SavedHolds ==
    ASSUME NEW state, NEW adds, Sound(state, adds), state["DeletedDevelopers"] \in Seq(Entries(Numbers(adds, "DeletedDevelopers"))),
           Complete(state["DeletedDevelopers"]), NEW wanted, \A x \in wanted : x[2] \in Types /\ IsThere(state, x)
    PROVE  HasJson(SerialiseFields(state)) /\ Holds(SerialiseFields(state), adds, TRUE, wanted)
<1> DEFINE files == SerialiseFields(state)
           list == state["DeletedDevelopers"]
           deleted == Decoded(files)["DeletedDevelopers"]
           N == Numbers(adds, "DeletedDevelopers")
<1>1. HasJson(files)
  BY JsonFile DEF HasJson
<1>0. ASSUME NEW p \in DOMAIN files, p[1] \in Snapshots PROVE p = <<p[1], p[2]>>
  <2>1. CASE \E f \in Json : p = <<f>>
    <3>1. p[1] \in Json
      BY <2>1
    <3>2. QED BY <1>0, <3>1, KindsOfTypes
  <2>2. CASE \E f \in Snapshots : \E d \in DOMAIN state[f] : p = <<f, d>>
    BY <2>2
  <2>3. CASE \E d \in Names(list) : \E part \in Parts : p = <<"DeletedDevelopers", d, part>>
    <3>1. p[1] = "DeletedDevelopers"
      BY <2>3
    <3>2. QED BY <1>0, <3>1, KindsOfTypes
  <2>4. QED BY <2>1, <2>2, <2>3, PathsOf
<1> HIDE DEF files, deleted
<1>2. DOMAIN Decoded(files) = Types /\ Decoded(files) = [f \in Types |-> Decoded(files)[f]]
  BY DecodedIs
<1>3. \A f \in Types : Fits(f, state[f], Numbers(adds, f)) /\ AtMostOnce(f, state[f], Numbers(adds, f))
  BY DEF Sound
<1>4. ASSUME NEW f \in Types, f # "DeletedDevelopers" PROVE Decoded(files)[f] = state[f]
  <2>1. CASE f \in Json
    <3>1. Decoded(files)[f] = files[<<f>>]
      BY <2>1, DecodedIs
    <3>2. files[<<f>>] = state[f]
      BY <2>1, JsonFile DEF files
    <3>3. QED BY <3>1, <3>2
  <2>2. CASE f \in Snapshots
    <3>1. Decoded(files)[f] = [d \in DOMAIN state[f] |-> files[<<f, d>>]]
      <4>1. Decoded(files)[f] = [d \in Ids(files, f) |-> files[<<f, d>>]]
        BY <2>2, DecodedIs
      <4>2. Ids(files, f) = DOMAIN state[f]
        BY <2>2, IdsOf DEF files
      <4>3. QED BY <4>1, <4>2
    <3>2. \A d \in DOMAIN state[f] : files[<<f, d>>] = state[f][d]
      BY <2>2, MapFile DEF files
    <3>3. state[f] = [d \in DOMAIN state[f] |-> state[f][d]]
      <4>1. f \in Maps
        BY <2>2, KindsOfTypes
      <4>2. state[f] \in [DOMAIN state[f] -> Seq(Numbers(adds, f))]
        BY <1>3, <4>1 DEF Fits
      <4>3. QED BY <4>2
    <3>4. QED BY <3>1, <3>2, <3>3
  <2>3. QED BY <1>4, <2>1, <2>2, KindsOfTypes
<1>5. DOMAIN deleted = Names(list) /\ \A d \in Names(list) : deleted[d] = DecodedEntry(files, d)
  <2>1. deleted = [d \in Ids(files, "DeletedDevelopers") |-> DecodedEntry(files, d)]
    BY DecodedIs DEF deleted
  <2>2. Ids(files, "DeletedDevelopers") = Names(list)
    BY IdsOf DEF files
  <2>3. QED BY <2>1, <2>2
<1>6. "DeletedDevelopers" \in Types /\ Fits("DeletedDevelopers", list, N) /\ AtMostOnce("DeletedDevelopers", list, N)
  BY <1>3, KindsOfTypes
<1>7. ASSUME NEW d \in Names(list)
      PROVE  /\ deleted[d] \in Entries(N) /\ deleted[d].developer = {d} /\ deleted[d].trend # {}
             /\ deleted[d].snapshots = EntryOf(list, d).snapshots
  BY <1>5, <1>6, SavedEntry DEF files
<1> HIDE DEF list, N
<1>8. Fits("DeletedDevelopers", deleted, N)
  <2>1. \A d, e \in DOMAIN deleted : d # e => deleted[d].developer \cap deleted[e].developer = {}
    BY <1>5, <1>7
  <2>2. \A d \in DOMAIN deleted : deleted[d] \in Entries(N)
    BY <1>5, <1>7
  <2>3. QED BY <2>1, <2>2, TypesDiffer DEF Fits
<1>9. list \in Seq(Entries(N)) /\ Complete(list)
  BY DEF list, N
<1>10. ASSUME NEW n, NEW i, i \in Places("DeletedDevelopers", list, n)
       PROVE  \E d \in Names(list) : d \in Places("DeletedDevelopers", deleted, n) /\ list[i].developer = {d}
  <2>1. i \in DOMAIN list /\ n \in list[i].snapshots
    BY <1>10, OtherPlaces
  <2>2. PICK d \in Names(list) : list[i].developer = {d}
    BY <1>6, <1>9, <2>1, NameOf
  <2>3. EntryOf(list, d) = list[i]
    BY <1>6, <1>9, <2>1, <2>2, EntryOfPlace
  <2>4. d \in DOMAIN deleted /\ n \in deleted[d].snapshots
    BY <1>5, <1>7, <2>1, <2>3
  <2>5. QED BY <2>2, <2>4, OtherPlaces
<1>11. ASSUME NEW n, NEW d, d \in Places("DeletedDevelopers", deleted, n)
       PROVE  \E i \in DOMAIN list : i \in Places("DeletedDevelopers", list, n) /\ list[i].developer = {d}
  <2>1. d \in Names(list) /\ n \in deleted[d].snapshots
    BY <1>5, <1>11, OtherPlaces
  <2>2. PICK i \in DOMAIN list : EntryOf(list, d) = list[i] /\ list[i].developer = {d}
    BY <1>6, <1>9, <2>1, EntryOfName
  <2>3. n \in list[i].snapshots
    BY <1>7, <2>1, <2>2
  <2>4. QED BY <2>2, <2>3, OtherPlaces
<1>12. AtMostOnce("DeletedDevelopers", deleted, N)
  <2>1. SUFFICES ASSUME NEW n \in N, NEW d \in Places("DeletedDevelopers", deleted, n), NEW e \in Places("DeletedDevelopers", deleted, n)
                 PROVE  d = e
    BY DEF AtMostOnce
  <2>2. PICK i \in DOMAIN list : i \in Places("DeletedDevelopers", list, n) /\ list[i].developer = {d}
    BY <1>11
  <2>3. PICK j \in DOMAIN list : j \in Places("DeletedDevelopers", list, n) /\ list[j].developer = {e}
    BY <1>11
  <2>4. i = j
    BY <1>6, <2>2, <2>3 DEF AtMostOnce
  <2>5. QED BY <2>2, <2>3, <2>4
<1>13. Sound(Decoded(files), adds)
  <2>1. ASSUME NEW f \in Types PROVE Fits(f, Decoded(files)[f], Numbers(adds, f)) /\ AtMostOnce(f, Decoded(files)[f], Numbers(adds, f))
    BY <1>3, <1>4, <1>8, <1>12 DEF deleted, N
  <2>2. QED BY <1>2, <2>1 DEF Sound
<1>14. ASSUME NEW x \in wanted PROVE IsThere(Decoded(files), x)
  <2>1. x[2] \in Types /\ Places(x[2], state[x[2]], x[1]) # {}
    BY DEF IsThere
  <2>2. CASE x[2] = "DeletedDevelopers"
    <3>1. PICK i \in Places("DeletedDevelopers", list, x[1]) : TRUE
      BY <2>1, <2>2 DEF list
    <3>2. Places("DeletedDevelopers", deleted, x[1]) # {}
      BY <1>10, <3>1
    <3>3. QED BY <2>2, <3>2 DEF IsThere, deleted
  <2>3. CASE x[2] # "DeletedDevelopers"
    BY <1>4, <2>1, <2>3 DEF IsThere
  <2>4. QED BY <2>2, <2>3
<1>15. ASSUME NEW d \in DOMAIN deleted PROVE Developer(d, deleted[d], TRUE)
  <2>1. d \in Developers
    BY <1>5, <1>6, <1>9, EntryOfName
  <2>2. QED BY <1>5, <1>7, <2>1 DEF Developer
<1>16. Holds(files, adds, TRUE, wanted)
  BY <1>0, <1>13, <1>14, <1>15 DEF Holds, deleted
<1>17. QED BY <1>1, <1>16 DEF files

(* What an interrupted removal or write leaves, if it can be loaded.       *)
LEMMA LeftIs ==
    ASSUME NEW files, NEW left \in Left(files), HasJson(left)
    PROVE  /\ DOMAIN left \subseteq DOMAIN files /\ \A p \in DOMAIN left : left[p] = files[p]
           /\ HasJson(files)
<1>1. left # EmptyMap
  <2>1. "GameIDs" \in Json /\ DOMAIN EmptyMap = {}
    BY DEF Json, EmptyMap
  <2>2. QED BY <2>1 DEF HasJson
<1>2. PICK lost \in SUBSET {p \in DOMAIN files : Len(p) > 1} : left = Restrict(files, DOMAIN files \ lost)
  BY <1>1 DEF Left
<1>3. left = [p \in DOMAIN files \ lost |-> files[p]]
  BY <1>2 DEF Restrict
<1>4. DOMAIN left \subseteq DOMAIN files /\ \A p \in DOMAIN left : left[p] = files[p]
  BY <1>3
<1>5. QED BY <1>4 DEF HasJson

LEMMA LeftHolds ==
    ASSUME NEW files, NEW left \in Left(files), HasJson(left), NEW adds, NEW whole, NEW wanted, Holds(files, adds, whole, wanted),
           NEW less \in SUBSET wanted, \A x \in less : x[2] \in Json
    PROVE  Holds(left, adds, FALSE, less)
<1> DEFINE N == Numbers(adds, "DeletedDevelopers")
           deleted == Decoded(files)["DeletedDevelopers"]
           some == Decoded(left)["DeletedDevelopers"]
<1>1. DOMAIN left \subseteq DOMAIN files /\ \A p \in DOMAIN left : left[p] = files[p]
  BY LeftIs
<1>2. ASSUME NEW f PROVE Ids(left, f) \subseteq Ids(files, f)
  BY <1>1 DEF Ids, InDirectory
<1>3. Sound(Decoded(files), adds)
  BY DEF Holds
<1>4. \A f \in Types : Fits(f, Decoded(files)[f], Numbers(adds, f)) /\ AtMostOnce(f, Decoded(files)[f], Numbers(adds, f))
  BY <1>3 DEF Sound
<1>5. DOMAIN Decoded(left) = Types /\ Decoded(left) = [f \in Types |-> Decoded(left)[f]]
  BY DecodedIs
<1>6. ASSUME NEW f \in Json PROVE Decoded(left)[f] = Decoded(files)[f]
  <2>1. Decoded(left)[f] = left[<<f>>] /\ Decoded(files)[f] = files[<<f>>]
    BY DecodedIs
  <2>2. <<f>> \in DOMAIN left
    BY DEF HasJson
  <2>3. QED BY <1>1, <2>1, <2>2
<1>7. ASSUME NEW f \in Snapshots
      PROVE  Fits(f, Decoded(left)[f], Numbers(adds, f)) /\ AtMostOnce(f, Decoded(left)[f], Numbers(adds, f))
  <2> DEFINE all == Decoded(files)[f]
             map == Decoded(left)[f]
  <2>1. f \in Maps /\ f \in Types
    BY KindsOfTypes
  <2>2. all = [d \in Ids(files, f) |-> files[<<f, d>>]] /\ map = [d \in Ids(left, f) |-> left[<<f, d>>]]
    BY DecodedIs
  <2>3. ASSUME NEW d \in Ids(left, f) PROVE d \in Ids(files, f) /\ left[<<f, d>>] = files[<<f, d>>]
    <3>1. PICK p \in DOMAIN left : p[1] = f /\ Len(p) > 1 /\ d = p[2]
      BY DEF Ids, InDirectory
    <3>2. p = <<f, d>>
      BY <1>1, <3>1 DEF Holds
    <3>3. QED BY <1>1, <1>2, <3>1, <3>2
  <2> HIDE DEF all, map
  <2>4. DOMAIN map \subseteq DOMAIN all /\ map = [d \in DOMAIN map |-> map[d]] /\ \A d \in DOMAIN map : map[d] = all[d]
    BY <2>2, <2>3
  <2>5. Fits(f, all, Numbers(adds, f)) /\ AtMostOnce(f, all, Numbers(adds, f))
    BY <1>4, <2>1 DEF all
  <2>6. Fits(f, map, Numbers(adds, f))
    <3>1. DOMAIN all \subseteq Users(f) /\ all \in [DOMAIN all -> Seq(Numbers(adds, f))]
      BY <2>1, <2>5 DEF Fits
    <3>2. \A d \in DOMAIN map : map[d] \in Seq(Numbers(adds, f))
      BY <2>4, <3>1
    <3>3. map \in [DOMAIN map -> Seq(Numbers(adds, f))] /\ DOMAIN map \subseteq Users(f)
      BY <2>4, <3>1, <3>2
    <3>4. QED BY <2>1, <3>3, TypesDiffer DEF Fits
  <2>7. ASSUME NEW n, NEW p \in Places(f, map, n) PROVE p \in Places(f, all, n)
    <3>1. PICK d \in DOMAIN map : \E i \in DOMAIN map[d] : p = <<d, i>> /\ map[d][i] = n
      BY <2>1, MapPlaces
    <3>2. d \in DOMAIN all /\ map[d] = all[d]
      BY <2>4
    <3>3. QED BY <2>1, <3>1, <3>2, MapPlaces
  <2>8. QED BY <2>5, <2>6, <2>7 DEF AtMostOnce, map
<1>8. /\ deleted = [d \in Ids(files, "DeletedDevelopers") |-> DecodedEntry(files, d)]
      /\ some = [d \in Ids(left, "DeletedDevelopers") |-> DecodedEntry(left, d)]
  BY DecodedIs
<1>9. Fits("DeletedDevelopers", deleted, N) /\ AtMostOnce("DeletedDevelopers", deleted, N)
  BY <1>4, KindsOfTypes
<1>10. \A d \in DOMAIN deleted : Developer(d, deleted[d], whole)
  BY DEF Holds
<1> HIDE DEF deleted, some
<1>11. DOMAIN some \subseteq DOMAIN deleted
  BY <1>2, <1>8
<1>12. ASSUME NEW d, NEW part PROVE DecodedPart(left, d, part) = {} \/ DecodedPart(left, d, part) = DecodedPart(files, d, part)
  <2> DEFINE p == <<"DeletedDevelopers", d, part>>
  <2>1. p \in DOMAIN left => p \in DOMAIN files /\ left[p] = files[p]
    BY <1>1
  <2> HIDE DEF p
  <2>2. QED BY <2>1 DEF DecodedPart, p
<1>13. ASSUME NEW d \in DOMAIN some
       PROVE  /\ some[d] \in Entries(N)
              /\ some[d].developer \subseteq deleted[d].developer /\ some[d].snapshots \subseteq deleted[d].snapshots
  <2> DEFINE entry == DecodedEntry(left, d)
             old == DecodedEntry(files, d)
  <2>1. some[d] = entry /\ deleted[d] = old /\ d \in DOMAIN deleted
    BY <1>8, <1>11
  <2>2. /\ old.developer = DecodedPart(files, d, "developer") /\ old.snapshots = DecodedPart(files, d, "snapshots")
        /\ old.games = DecodedPart(files, d, "games") /\ old.trend = DecodedPart(files, d, "trend")
        /\ entry.developer = DecodedPart(left, d, "developer") /\ entry.snapshots = DecodedPart(left, d, "snapshots")
        /\ entry.games = DecodedPart(left, d, "games") /\ entry.trend = DecodedPart(left, d, "trend")
        /\ entry = [developer |-> entry.developer, snapshots |-> entry.snapshots, games |-> entry.games, trend |-> entry.trend]
    BY DEF DecodedEntry
  <2>3. old \in Entries(N)
    BY <1>9, <2>1, TypesDiffer DEF Fits
  <2> HIDE DEF entry, old
  <2>4. /\ old.developer \in {{}} \cup {{e} : e \in Developers} /\ old.snapshots \in SUBSET N
        /\ old.games \in SUBSET SUBSET Games /\ old.trend \in SUBSET {"run", "loaded"}
    BY <2>3, EntryIs
  <2>5. /\ entry.developer = {} \/ entry.developer = old.developer
        /\ entry.snapshots = {} \/ entry.snapshots = old.snapshots
        /\ entry.games = {} \/ entry.games = old.games
        /\ entry.trend = {} \/ entry.trend = old.trend
    BY <1>12, <2>2
  <2>6. /\ entry.developer \in {{}} \cup {{e} : e \in Developers} /\ entry.snapshots \in SUBSET N
        /\ entry.games \in SUBSET SUBSET Games /\ entry.trend \in SUBSET {"run", "loaded"}
    BY <2>4, <2>5
  <2>7. entry \in Entries(N)
    BY <2>2, <2>6, EntryIs
  <2>8. QED BY <2>1, <2>5, <2>7
<1>14. Fits("DeletedDevelopers", some, N)
  <2>1. ASSUME NEW d \in DOMAIN some, NEW e \in DOMAIN some, d # e PROVE some[d].developer \cap some[e].developer = {}
    <3>1. deleted[d].developer \cap deleted[e].developer = {}
      BY <1>9, <1>11, <2>1, TypesDiffer DEF Fits
    <3>2. QED BY <1>13, <3>1
  <2>2. QED BY <1>13, <2>1, TypesDiffer DEF Fits
<1>15. AtMostOnce("DeletedDevelopers", some, N)
  <2>1. ASSUME NEW n, NEW d \in Places("DeletedDevelopers", some, n) PROVE d \in Places("DeletedDevelopers", deleted, n)
    <3>1. d \in DOMAIN some /\ n \in some[d].snapshots
      BY OtherPlaces
    <3>2. d \in DOMAIN deleted /\ n \in deleted[d].snapshots
      BY <1>11, <1>13, <3>1
    <3>3. QED BY <3>2, OtherPlaces
  <2>2. QED BY <1>9, <2>1 DEF AtMostOnce
<1>16. Sound(Decoded(left), adds)
  <2>1. ASSUME NEW f \in Types PROVE Fits(f, Decoded(left)[f], Numbers(adds, f)) /\ AtMostOnce(f, Decoded(left)[f], Numbers(adds, f))
    <3>1. CASE f \in Json
      BY <1>4, <1>6, <3>1
    <3>2. CASE f \in Snapshots
      BY <1>7, <3>2
    <3>3. CASE f = "DeletedDevelopers"
      BY <1>14, <1>15, <3>3 DEF some
    <3>4. QED BY <3>1, <3>2, <3>3, KindsOfTypes
  <2>2. QED BY <1>5, <2>1 DEF Sound
<1>17. ASSUME NEW x \in less PROVE IsThere(Decoded(left), x)
  <2>1. x[2] \in Json /\ IsThere(Decoded(files), x)
    BY DEF Holds
  <2>2. QED BY <1>6, <2>1 DEF IsThere
<1>18. ASSUME NEW d \in DOMAIN some PROVE Developer(d, some[d], FALSE)
  <2>1. d \in Developers /\ deleted[d].developer \subseteq {d}
    BY <1>10, <1>11 DEF Developer
  <2>2. QED BY <1>13, <2>1 DEF Developer
<1>19. \A p \in DOMAIN left : p[1] \in Snapshots => p = <<p[1], p[2]>>
  BY <1>1 DEF Holds
<1>20. QED BY <1>16, <1>17, <1>18, <1>19 DEF Holds, some

-----------------------------------------------------------------------------
(* The elements of a finite set in an order.                               *)
LEMMA OrderIs ==
    ASSUME NEW S, IsFiniteSet(S), NEW order \in SetToSeqs(S)
    PROVE  /\ order \in Seq(S) /\ DOMAIN order = 1 .. Len(order) /\ Len(order) = Cardinality(S) /\ Len(order) \in Nat
           /\ \A i, j \in DOMAIN order : order[i] = order[j] => i = j
           /\ \A x \in S : \E i \in DOMAIN order : order[i] = x
<1> DEFINE n == Cardinality(S)
           D == 1 .. n
<1>1. n \in Nat
  BY FS_CardinalityType
<1>2. order \in [D -> S] /\ \A i, j \in D : i # j => order[i] # order[j]
  BY DEF SetToSeqs
<1>3. order \in Seq(S) /\ Len(order) = n /\ DOMAIN order = D
  BY <1>1, <1>2
<1>4. IsFiniteSet(D) /\ Cardinality(D) = n
  BY <1>1, FS_Interval
<1>5. order \in Injection(D, S)
  BY <1>2 DEF Injection, IsInjective
<1>6. order \in Surjection(D, S)
  BY <1>4, <1>5, FS_Injection
<1>7. \A x \in S : \E i \in D : order[i] = x
  BY <1>6 DEF Surjection
<1>8. QED BY <1>1, <1>2, <1>3, <1>7

(* The state of a load.                                                    *)
LEMMA LoadedHolds ==
    ASSUME NEW files, NEW adds, NEW whole, NEW wanted, Holds(files, adds, whole, wanted), NEW state \in DeserialisedFields(files)
    PROVE  /\ Sound(state, adds) /\ state["DeletedDevelopers"] \in Seq(Entries(Numbers(adds, "DeletedDevelopers")))
           /\ \A x \in wanted : x[2] \in Types => IsThere(state, x)
           /\ whole => Complete(state["DeletedDevelopers"])
<1> DEFINE decoded == Decoded(files)
           map == decoded["DeletedDevelopers"]
           N == Numbers(adds, "DeletedDevelopers")
           list == state["DeletedDevelopers"]
<1>1. PICK order \in SetToSeqs(DOMAIN map) : state = [decoded EXCEPT !["DeletedDevelopers"] = Listed(map, order)]
  BY DEF DeserialisedFields
<1>2. IsFiniteSet(DOMAIN map)
  <2>1. DOMAIN map \subseteq Developers
    BY DEF Holds, Developer
  <2>2. QED BY <2>1, FS_Subset, CachedFieldsAssumption DEF CachedFieldsAssumption
<1>3. /\ DOMAIN order = 1 .. Len(order) /\ Len(order) \in Nat /\ order \in Seq(DOMAIN map)
      /\ \A i, j \in DOMAIN order : order[i] = order[j] => i = j
      /\ \A x \in DOMAIN map : \E i \in DOMAIN order : order[i] = x
  BY <1>2, OrderIs
<1>4. /\ Sound(decoded, adds)
      /\ \A x \in wanted : IsThere(decoded, x)
      /\ \A d \in DOMAIN map : Developer(d, map[d], whole)
  BY DEF Holds
<1>5. DOMAIN decoded = Types /\ "DeletedDevelopers" \in Types
  BY DecodedIs, KindsOfTypes
<1>6. Fits("DeletedDevelopers", map, N) /\ AtMostOnce("DeletedDevelopers", map, N)
  BY <1>4, <1>5 DEF Sound
<1> HIDE DEF decoded, map, N
<1>7. /\ DOMAIN state = Types /\ state = [f \in Types |-> state[f]]
      /\ \A f \in Types : f # "DeletedDevelopers" => state[f] = decoded[f]
      /\ list = Listed(map, order)
  BY <1>1, <1>5
<1> HIDE DEF list
<1>8. DOMAIN list = DOMAIN order /\ list = [i \in 1 .. Len(order) |-> list[i]] /\ \A i \in DOMAIN order : list[i] = map[order[i]]
  BY <1>3, <1>7 DEF Listed
<1>9. \A i \in DOMAIN order : order[i] \in DOMAIN map
  BY <1>3, ElementOfSeq
<1>10. \A d \in DOMAIN map : map[d] \in Entries(N)
  BY <1>6, TypesDiffer DEF Fits
<1>11. \A i \in DOMAIN list : list[i] \in Entries(N)
  BY <1>8, <1>9, <1>10
<1>12. list \in Seq(Entries(N))
  <2>1. list \in [1 .. Len(order) -> Entries(N)]
    BY <1>3, <1>8, <1>11
  <2>2. QED BY <1>3, <2>1
<1>13. Fits("DeletedDevelopers", list, N)
  <2>1. ASSUME NEW i \in DOMAIN list, NEW j \in DOMAIN list, i # j PROVE list[i].developer \cap list[j].developer = {}
    <3>1. order[i] \in DOMAIN map /\ order[j] \in DOMAIN map /\ order[i] # order[j]
      BY <1>3, <1>8, <1>9, <2>1
    <3>2. map[order[i]].developer \cap map[order[j]].developer = {}
      BY <1>6, <3>1, TypesDiffer DEF Fits
    <3>3. QED BY <1>8, <3>2
  <2>2. QED BY <1>11, <2>1, TypesDiffer DEF Fits
<1>14. ASSUME NEW n, NEW i PROVE i \in Places("DeletedDevelopers", list, n) <=> i \in DOMAIN order /\ order[i] \in Places("DeletedDevelopers", map, n)
  <2>1. i \in Places("DeletedDevelopers", list, n) <=> i \in DOMAIN list /\ n \in list[i].snapshots
    BY OtherPlaces
  <2>2. order[i] \in Places("DeletedDevelopers", map, n) <=> order[i] \in DOMAIN map /\ n \in map[order[i]].snapshots
    BY OtherPlaces
  <2>3. QED BY <1>8, <1>9, <2>1, <2>2
<1>15. AtMostOnce("DeletedDevelopers", list, N)
  <2>1. SUFFICES ASSUME NEW n \in N, NEW i \in Places("DeletedDevelopers", list, n), NEW j \in Places("DeletedDevelopers", list, n)
                 PROVE  i = j
    BY DEF AtMostOnce
  <2>2. order[i] = order[j]
    BY <1>6, <1>14 DEF AtMostOnce
  <2>3. QED BY <1>3, <1>14, <2>2
<1>16. Sound(state, adds)
  <2>1. ASSUME NEW f \in Types PROVE Fits(f, state[f], Numbers(adds, f)) /\ AtMostOnce(f, state[f], Numbers(adds, f))
    <3>1. CASE f = "DeletedDevelopers"
      BY <1>13, <1>15, <3>1 DEF list, N
    <3>2. CASE f # "DeletedDevelopers"
      BY <1>4, <1>7, <3>2 DEF Sound
    <3>3. QED BY <3>1, <3>2
  <2>2. QED BY <1>7, <2>1 DEF Sound
<1>17. ASSUME NEW x \in wanted, x[2] \in Types PROVE IsThere(state, x)
  <2>1. Places(x[2], decoded[x[2]], x[1]) # {}
    BY <1>4 DEF IsThere
  <2>2. CASE x[2] = "DeletedDevelopers"
    <3>1. PICK d \in Places("DeletedDevelopers", map, x[1]) : TRUE
      BY <2>1, <2>2 DEF map
    <3>2. d \in DOMAIN map
      BY OtherPlaces
    <3>3. PICK i \in DOMAIN order : order[i] = d
      BY <1>3, <3>2
    <3>4. i \in Places("DeletedDevelopers", list, x[1])
      BY <1>14, <3>1, <3>3
    <3>5. QED BY <2>2, <3>4 DEF IsThere, list
  <2>3. CASE x[2] # "DeletedDevelopers"
    BY <1>7, <1>17, <2>1, <2>3 DEF IsThere
  <2>4. QED BY <2>2, <2>3
<1>18. ASSUME whole PROVE Complete(list)
  BY <1>4, <1>8, <1>9, <1>18 DEF Complete, Developer
<1>19. QED BY <1>12, <1>16, <1>17, <1>18 DEF list, N
-----------------------------------------------------------------------------
(* The steps.                                                              *)
LEMMA HistIs ==
    ASSUME NEW h
    PROVE  h \in HistType <=>
              /\ h = [adds |-> h.adds, live |-> h.live, pending |-> h.pending, saved |-> h.saved, whole |-> h.whole, torn |-> h.torn,
                      faults |-> h.faults]
              /\ h.adds \in [Types -> Nat] /\ h.live \in SUBSET (Nat \X Types) /\ h.pending \in SUBSET (Nat \X Iterable)
              /\ h.saved \in SUBSET (Nat \X Types) /\ h.whole \in BOOLEAN /\ h.torn \in BOOLEAN /\ h.faults \in Nat
  BY DEF HistType

(* One more addition to f.                                                 *)
More(f) ==
    /\ hist'.adds = [hist.adds EXCEPT ![f] = @ + 1]
    /\ hist' = [adds |-> hist'.adds, live |-> hist'.live, pending |-> hist'.pending, saved |-> hist.saved, whole |-> hist.whole,
                torn |-> hist.torn, faults |-> hist.faults]

LEMMA MoreIs ==
    ASSUME Counts, NEW f \in Types, More(f)
    PROVE  /\ hist'.adds \in [Types -> Nat] /\ hist'.adds[f] = Number(f) /\ Number(f) \in Nat /\ Number(f) # 0
           /\ Number(f) \notin Numbers(hist.adds, f) /\ 0 \notin Numbers(hist.adds, f)
           /\ Numbers(hist'.adds, f) = Numbers(hist.adds, f) \cup {Number(f)}
           /\ \A g \in Types : g # f => hist'.adds[g] = hist.adds[g] /\ Numbers(hist'.adds, g) = Numbers(hist.adds, g)
           /\ \A g \in Types : hist.adds[g] \in Nat /\ hist'.adds[g] \in Nat /\ hist.adds[g] <= hist'.adds[g]
           /\ hist'.saved = hist.saved /\ hist'.whole = hist.whole /\ hist'.torn = hist.torn /\ hist'.faults = hist.faults
<1>1. hist.adds \in [Types -> Nat]
  BY HistIs DEF Counts
<1>2. hist'.adds \in [Types -> Nat] /\ hist'.adds[f] = hist.adds[f] + 1 /\ \A g \in Types : g # f => hist'.adds[g] = hist.adds[g]
  BY <1>1 DEF More
<1>3. Number(f) = hist.adds[f] + 1 /\ hist.adds[f] \in Nat
  BY <1>1 DEF Number
<1>4. hist'.saved = hist.saved /\ hist'.whole = hist.whole /\ hist'.torn = hist.torn /\ hist'.faults = hist.faults
  BY DEF More
<1>5. Numbers(hist'.adds, f) = Numbers(hist.adds, f) \cup {Number(f)}
  BY <1>2, <1>3 DEF Numbers
<1>6. Number(f) \notin Numbers(hist.adds, f) /\ 0 \notin Numbers(hist.adds, f) /\ Number(f) \in Nat /\ Number(f) # 0
  BY <1>3 DEF Numbers
<1>7. \A g \in Types : g # f => Numbers(hist'.adds, g) = Numbers(hist.adds, g)
  BY <1>2 DEF Numbers
<1>8. ASSUME NEW g \in Types PROVE hist.adds[g] \in Nat /\ hist'.adds[g] \in Nat /\ hist.adds[g] <= hist'.adds[g]
  BY <1>1, <1>2, <1>3
<1>9. QED BY <1>2, <1>3, <1>4, <1>5, <1>6, <1>7, <1>8

LEMMA MoreCounted ==
    ASSUME Counts, NEW f \in Types, More(f), NEW additions, NEW others, additions \subseteq others \cup {<<Number(f), f>>},
           Counted(others)
    PROVE  \A x \in additions : x[2] \in Types /\ x[1] \in Numbers(hist'.adds, x[2])
<1>1. SUFFICES ASSUME NEW x \in additions PROVE x[2] \in Types /\ x[1] \in Numbers(hist'.adds, x[2])
  OBVIOUS
<1>2. CASE x = <<Number(f), f>>
  <2>1. x[1] = Number(f) /\ x[2] = f
    BY <1>2
  <2>2. QED BY <2>1, MoreIs
<1>3. CASE x \in others
  <2>1. x[2] \in Types /\ x[1] \in Numbers(hist.adds, x[2])
    BY <1>3 DEF Counted
  <2>2. Numbers(hist.adds, x[2]) \subseteq Numbers(hist'.adds, x[2])
    BY <2>1, MoreIs
  <2>3. QED BY <2>1, <2>2
<1>4. QED BY <1>2, <1>3

LEMMA MoreCounts ==
    ASSUME Counts, NEW f \in Types, More(f), hist'.live \subseteq hist.live \cup {<<Number(f), f>>},
           hist'.pending \subseteq hist.pending \cup {<<Number(f), f>>}, f \in Iterable \/ hist'.pending = hist.pending
    PROVE  Counts'
<1>1. hist.live \in SUBSET (Nat \X Types) /\ hist.pending \in SUBSET (Nat \X Iterable) /\ hist.saved \in SUBSET (Nat \X Types)
      /\ hist.whole \in BOOLEAN /\ hist.torn \in BOOLEAN /\ hist.faults \in Nat
  BY HistIs DEF Counts
<1>2. Number(f) \in Nat /\ hist'.adds \in [Types -> Nat]
      /\ hist'.saved = hist.saved /\ hist'.whole = hist.whole /\ hist'.torn = hist.torn /\ hist'.faults = hist.faults
  BY MoreIs
<1>3. hist'.live \in SUBSET (Nat \X Types) /\ hist'.pending \in SUBSET (Nat \X Iterable)
  BY <1>1, <1>2
<1>4. hist' = [adds |-> hist'.adds, live |-> hist'.live, pending |-> hist'.pending, saved |-> hist'.saved, whole |-> hist'.whole,
               torn |-> hist'.torn, faults |-> hist'.faults]
  BY <1>2 DEF More
<1>5. hist' \in HistType
  BY <1>1, <1>2, <1>3, <1>4, HistIs
<1>6. Counted(hist.live) /\ Counted(hist.pending) /\ Counted(hist.saved)
  BY DEF Counts
<1>7. \A x \in hist'.live : x[2] \in Types /\ x[1] \in Numbers(hist'.adds, x[2])
  BY <1>6, MoreCounted
<1>8. \A x \in hist'.pending : x[2] \in Types /\ x[1] \in Numbers(hist'.adds, x[2])
  BY <1>6, MoreCounted
<1>9. \A x \in hist'.saved : x[2] \in Types /\ x[1] \in Numbers(hist'.adds, x[2])
  BY <1>2, <1>6, MoreCounted
<1>10. QED BY <1>5, <1>7, <1>8, <1>9 DEF Counts, Counted

LEMMA MoreFiles ==
    ASSUME Counts, FilesSound, NEW f \in Types, More(f), directory' = directory
    PROVE  FilesSound'
<1>1. hist'.saved = hist.saved /\ hist'.whole = hist.whole
  BY MoreIs
<1>2. Found' = Found
  BY <1>1 DEF Found
<1>3. ASSUME directory.made, HasJson(directory.files) PROVE Holds(directory.files, hist'.adds, hist'.whole, Found')
  <2>1. Holds(directory.files, hist.adds, hist.whole, Found)
    BY <1>3 DEF FilesSound
  <2>2. Sound(Decoded(directory.files), hist'.adds)
    BY <2>1, MoreAdds, MoreIs DEF Holds
  <2>3. QED BY <1>1, <1>2, <2>1, <2>2 DEF Holds
<1>4. QED BY <1>1, <1>3 DEF FilesSound

(* An addition to the fields.                                              *)
LEMMA FieldsGain ==
    ASSUME FieldsInv, pc = "up", pc' = pc, temp' = temp, directory' = directory, NEW f \in Types, More(f), NEW value, NEW lost,
           fields' = [fields EXCEPT ![f] = value], Gains(f, fields[f], value, Numbers(hist.adds, f), Number(f), lost),
           hist'.pending = hist.pending, hist'.live \subseteq hist.live \cup {<<Number(f), f>>}, <<lost, f>> \notin hist'.live,
           <<Number(f), f>> \in hist'.live => Places(f, value, Number(f)) # {},
           f = "DeletedDevelopers" => /\ value \in Seq(Entries(Numbers(hist.adds, f) \cup {Number(f)}))
                                      /\ Complete(fields[f]) => Complete(value)
    PROVE  FieldsInv'
<1> DEFINE n == Number(f)
           N == Numbers(hist.adds, f)
<1>1. Counts /\ FieldsSound /\ TempSound /\ Present /\ FilesSound
  BY DEF FieldsInv
<1>2. /\ Numbers(hist'.adds, f) = N \cup {n} /\ n \notin N /\ n # 0 /\ 0 \notin N
      /\ \A g \in Types : g # f => Numbers(hist'.adds, g) = Numbers(hist.adds, g)
      /\ \A g \in Types : hist.adds[g] \in Nat /\ hist'.adds[g] \in Nat /\ hist.adds[g] <= hist'.adds[g]
      /\ hist'.saved = hist.saved /\ hist'.whole = hist.whole /\ hist'.torn = hist.torn
  BY <1>1, MoreIs
<1>3. /\ DOMAIN fields = Types /\ fields = [g \in Types |-> fields[g]]
      /\ \A g \in Types : Fits(g, fields[g], Numbers(hist.adds, g)) /\ AtMostOnce(g, fields[g], Numbers(hist.adds, g))
  BY <1>1 DEF FieldsSound, Sound
<1>4. /\ DOMAIN fields' = Types /\ fields' = [g \in Types |-> fields'[g]]
      /\ fields'[f] = value /\ \A g \in Types : g # f => fields'[g] = fields[g]
  BY <1>3
<1>5. /\ Fits(f, value, N \cup {n}) /\ AtMostOnce(f, value, N \cup {n})
      /\ \A m \in N : Places(f, fields[f], m) = {} => Places(f, value, m) = {}
      /\ \A m \in N \ {lost} : Places(f, fields[f], m) # {} => Places(f, value, m) # {}
  BY DEF Gains
<1> HIDE DEF n, N
<1>6. Sound(fields', hist'.adds)
  <2>1. ASSUME NEW g \in Types PROVE Fits(g, fields'[g], Numbers(hist'.adds, g)) /\ AtMostOnce(g, fields'[g], Numbers(hist'.adds, g))
    <3>1. CASE g = f
      BY <1>2, <1>4, <1>5, <3>1
    <3>2. CASE g # f
      BY <1>2, <1>3, <1>4, <3>2
    <3>3. QED BY <3>1, <3>2
  <2>2. QED BY <1>4, <2>1 DEF Sound
<1>7. FieldsSound'
  <2>1. fields'["DeletedDevelopers"] \in Seq(Entries(Numbers(hist'.adds, "DeletedDevelopers")))
    <3>1. CASE f = "DeletedDevelopers"
      BY <1>2, <1>4, <3>1 DEF n, N
    <3>2. CASE f # "DeletedDevelopers"
      BY <1>1, <1>2, <1>4, <3>2, KindsOfTypes DEF FieldsSound
    <3>3. QED BY <3>1, <3>2
  <2>2. QED BY <1>6, <2>1 DEF FieldsSound
<1>8. TempSound'
  <2>1. SUFFICES ASSUME NEW t \in temp
                 PROVE  /\ Sound(t, hist'.adds) /\ t["DeletedDevelopers"] = <<>>
                        /\ \A g \in Types : Apart(g, fields'[g], t[g], Numbers(hist'.adds, g))
    BY <1>1 DEF TempSound
  <2>2. /\ Sound(t, hist.adds) /\ t["DeletedDevelopers"] = <<>>
        /\ \A g \in Types : Apart(g, fields[g], t[g], Numbers(hist.adds, g))
    BY <1>1 DEF TempSound
  <2>3. Sound(t, hist'.adds)
    BY <1>2, <2>2, MoreAdds
  <2>4. Apart(f, value, t[f], N \cup {n})
    <3>1. Places(f, t[f], n) = {}
      BY <1>2, <2>2, NoPlaces DEF Sound, N
    <3>2. ASSUME NEW m \in N PROVE Places(f, value, m) = {} \/ Places(f, t[f], m) = {}
      BY <1>5, <2>2 DEF Apart, N
    <3>3. QED BY <3>1, <3>2 DEF Apart
  <2>5. ASSUME NEW g \in Types PROVE Apart(g, fields'[g], t[g], Numbers(hist'.adds, g))
    <3>1. CASE g = f
      BY <1>2, <1>4, <2>4, <3>1
    <3>2. CASE g # f
      BY <1>2, <1>4, <2>2, <3>2
    <3>3. QED BY <3>1, <3>2
  <2>6. QED BY <2>2, <2>3, <2>5
<1>9. Present'
  <2>1. ASSUME NEW x \in hist'.live PROVE IsThere(fields', x)
    <3>1. CASE x \in hist.live
      <4>1. x[2] \in Types /\ x[1] \in Numbers(hist.adds, x[2]) /\ IsThere(fields, x)
        BY <1>1, <3>1 DEF Counts, Counted, Present
      <4>2. x = <<x[1], x[2]>>
        BY <1>1, <3>1, HistIs DEF Counts
      <4>3. CASE x[2] = f
        <5>1. x[1] # lost
          BY <2>1, <4>2, <4>3
        <5>2. x[1] \in N /\ Places(f, fields[f], x[1]) # {}
          BY <4>1, <4>3 DEF IsThere, N
        <5>3. Places(f, value, x[1]) # {}
          BY <1>5, <5>1, <5>2
        <5>4. QED BY <1>4, <4>3, <5>3 DEF IsThere
      <4>4. CASE x[2] # f
        BY <1>4, <4>1, <4>4 DEF IsThere
      <4>5. QED BY <4>3, <4>4
    <3>2. CASE x = <<n, f>>
      <4>1. x[1] = n /\ x[2] = f /\ Places(f, value, n) # {}
        BY <2>1, <3>2 DEF n
      <4>2. QED BY <1>4, <4>1 DEF IsThere
    <3>3. QED BY <2>1, <3>1, <3>2 DEF n
  <2>2. ~hist'.torn => Complete(fields'["DeletedDevelopers"])
    <3>1. ~hist.torn => Complete(fields["DeletedDevelopers"])
      BY <1>1 DEF Present
    <3>2. CASE f = "DeletedDevelopers"
      BY <1>2, <1>4, <3>1, <3>2
    <3>3. CASE f # "DeletedDevelopers"
      BY <1>2, <1>4, <3>1, <3>3, KindsOfTypes
    <3>4. QED BY <3>2, <3>3
  <2>3. \A x \in hist'.pending : \E t \in temp' : IsThere(t, x)
    BY <1>1 DEF Present
  <2>4. QED BY <2>1, <2>2, <2>3 DEF Present
<1>10. Counts'
  BY <1>1, MoreCounts
<1>11. FilesSound'
  BY <1>1, MoreFiles
<1>12. QED BY <1>7, <1>8, <1>9, <1>10, <1>11 DEF FieldsInv

(* An addition to the other state.                                         *)
LEMMA TempGain ==
    ASSUME FieldsInv, pc = "up", pc' = pc, fields' = fields, directory' = directory, NEW f \in Types, More(f), NEW value,
           NEW t \in temp, temp' = {[t EXCEPT ![f] = value]}, Gains(f, t[f], value, Numbers(hist.adds, f), Number(f), 0),
           hist'.live = hist.live, hist'.pending = hist.pending \cup {<<Number(f), f>>},
           Places(f, value, Number(f)) # {}, f \in Iterable, f # "DeletedDevelopers"
    PROVE  FieldsInv'
<1> DEFINE n == Number(f)
           N == Numbers(hist.adds, f)
           u == [t EXCEPT ![f] = value]
<1>1. Counts /\ FieldsSound /\ TempSound /\ Present /\ FilesSound
  BY DEF FieldsInv
<1>2. /\ Numbers(hist'.adds, f) = N \cup {n} /\ n \notin N /\ n # 0 /\ 0 \notin N
      /\ \A g \in Types : g # f => Numbers(hist'.adds, g) = Numbers(hist.adds, g)
      /\ \A g \in Types : hist.adds[g] \in Nat /\ hist'.adds[g] \in Nat /\ hist.adds[g] <= hist'.adds[g]
      /\ hist'.saved = hist.saved /\ hist'.whole = hist.whole /\ hist'.torn = hist.torn
  BY <1>1, MoreIs
<1>3. /\ Sound(t, hist.adds) /\ t["DeletedDevelopers"] = <<>> /\ \A s \in temp : s = t
      /\ \A g \in Types : Apart(g, fields[g], t[g], Numbers(hist.adds, g))
  BY <1>1 DEF TempSound
<1>4. /\ DOMAIN t = Types /\ t = [g \in Types |-> t[g]]
      /\ \A g \in Types : Fits(g, t[g], Numbers(hist.adds, g)) /\ AtMostOnce(g, t[g], Numbers(hist.adds, g))
  BY <1>3 DEF Sound
<1>5. /\ DOMAIN u = Types /\ u = [g \in Types |-> u[g]] /\ u[f] = value /\ \A g \in Types : g # f => u[g] = t[g]
  BY <1>4
<1>6. /\ Fits(f, value, N \cup {n}) /\ AtMostOnce(f, value, N \cup {n})
      /\ \A m \in N : Places(f, t[f], m) = {} => Places(f, value, m) = {}
      /\ \A m \in N \ {0} : Places(f, t[f], m) # {} => Places(f, value, m) # {}
  BY DEF Gains
<1>7. temp' = {u}
  OBVIOUS
<1> HIDE DEF n, N, u
<1>8. FieldsSound'
  <2>1. Sound(fields, hist'.adds)
    BY <1>1, <1>2, MoreAdds DEF FieldsSound
  <2>2. fields["DeletedDevelopers"] \in Seq(Entries(Numbers(hist'.adds, "DeletedDevelopers")))
    BY <1>1, <1>2, KindsOfTypes DEF FieldsSound
  <2>3. QED BY <2>1, <2>2 DEF FieldsSound
<1>9. TempSound'
  <2>1. Sound(u, hist'.adds)
    <3>1. ASSUME NEW g \in Types PROVE Fits(g, u[g], Numbers(hist'.adds, g)) /\ AtMostOnce(g, u[g], Numbers(hist'.adds, g))
      <4>1. CASE g = f
        BY <1>2, <1>5, <1>6, <4>1
      <4>2. CASE g # f
        BY <1>2, <1>4, <1>5, <4>2
      <4>3. QED BY <4>1, <4>2
    <3>2. QED BY <1>5, <3>1 DEF Sound
  <2>2. Apart(f, fields[f], value, N \cup {n})
    <3>1. Places(f, fields[f], n) = {}
      BY <1>1, <1>2, NoPlaces DEF FieldsSound, Sound, N
    <3>2. ASSUME NEW m \in N PROVE Places(f, fields[f], m) = {} \/ Places(f, value, m) = {}
      BY <1>3, <1>6 DEF Apart, N
    <3>3. QED BY <3>1, <3>2 DEF Apart
  <2>3. ASSUME NEW g \in Types PROVE Apart(g, fields[g], u[g], Numbers(hist'.adds, g))
    <3>1. CASE g = f
      BY <1>2, <1>5, <2>2, <3>1
    <3>2. CASE g # f
      BY <1>2, <1>3, <1>5, <3>2
    <3>3. QED BY <3>1, <3>2
  <2>4. u["DeletedDevelopers"] = <<>>
    BY <1>3, <1>5, KindsOfTypes
  <2>5. QED BY <1>7, <2>1, <2>3, <2>4 DEF TempSound
<1>10. Present'
  <2>1. ASSUME NEW x \in hist'.pending PROVE IsThere(u, x)
    <3>1. CASE x \in hist.pending
      <4>1. x[2] \in Types /\ x[1] \in Numbers(hist.adds, x[2]) /\ \E s \in temp : IsThere(s, x)
        BY <1>1, <3>1 DEF Counts, Counted, Present
      <4>2. IsThere(t, x)
        BY <1>3, <4>1
      <4>3. CASE x[2] = f
        <5>1. x[1] \in N \ {0} /\ Places(f, t[f], x[1]) # {}
          BY <1>2, <4>1, <4>2, <4>3 DEF IsThere, N
        <5>2. Places(f, value, x[1]) # {}
          BY <1>6, <5>1
        <5>3. QED BY <1>5, <4>3, <5>2 DEF IsThere
      <4>4. CASE x[2] # f
        BY <1>5, <4>1, <4>2, <4>4 DEF IsThere
      <4>5. QED BY <4>3, <4>4
    <3>2. CASE x = <<n, f>>
      <4>1. x[1] = n /\ x[2] = f /\ Places(f, value, n) # {}
        BY <3>2 DEF n
      <4>2. QED BY <1>5, <4>1 DEF IsThere
    <3>3. QED BY <2>1, <3>1, <3>2 DEF n
  <2>2. /\ \A x \in hist.live : IsThere(fields, x)
        /\ ~hist.torn => Complete(fields["DeletedDevelopers"])
    BY <1>1 DEF Present
  <2>3. QED BY <1>2, <1>7, <2>1, <2>2 DEF Present
<1>11. Counts'
  BY <1>1, MoreCounts
<1>12. FilesSound'
  BY <1>1, MoreFiles
<1>13. QED BY <1>8, <1>9, <1>10, <1>11, <1>12 DEF FieldsInv

(* The history of an addition, of which nothing is lost.                   *)
LEMMA AddedIs ==
    ASSUME Counts, NEW f \in Types, NEW live, hist' = [hist EXCEPT !.adds[f] = @ + 1, !.live = live]
    PROVE  More(f) /\ hist'.live = live /\ hist'.pending = hist.pending
<1>1. hist = [adds |-> hist.adds, live |-> hist.live, pending |-> hist.pending, saved |-> hist.saved, whole |-> hist.whole,
              torn |-> hist.torn, faults |-> hist.faults]
  BY HistIs DEF Counts
<1>2. hist' = [adds |-> [hist.adds EXCEPT ![f] = @ + 1], live |-> live, pending |-> hist.pending, saved |-> hist.saved,
               whole |-> hist.whole, torn |-> hist.torn, faults |-> hist.faults]
  BY <1>1
<1>3. QED BY <1>2 DEF More

LEMMA AddedToTempIs ==
    ASSUME Counts, NEW f \in Types, AddedToTemp(f)
    PROVE  More(f) /\ hist'.live = hist.live /\ hist'.pending = hist.pending \cup {<<Number(f), f>>}
<1>1. hist = [adds |-> hist.adds, live |-> hist.live, pending |-> hist.pending, saved |-> hist.saved, whole |-> hist.whole,
              torn |-> hist.torn, faults |-> hist.faults]
  BY HistIs DEF Counts
<1> DEFINE pending == hist.pending \cup {<<Number(f), f>>}
<1>2. hist' = [hist EXCEPT !.adds[f] = @ + 1, !.pending = pending]
  BY DEF AddedToTemp
<1> HIDE DEF pending
<1>3. hist' = [adds |-> [hist.adds EXCEPT ![f] = @ + 1], live |-> hist.live, pending |-> pending, saved |-> hist.saved,
               whole |-> hist.whole, torn |-> hist.torn, faults |-> hist.faults]
  BY <1>1, <1>2
<1>4. QED BY <1>3 DEF More, pending

LEMMA FieldIs ==
    ASSUME FieldsInv, NEW f \in Types
    PROVE  /\ Fits(f, fields[f], Numbers(hist.adds, f)) /\ AtMostOnce(f, fields[f], Numbers(hist.adds, f))
           /\ 0 \notin Numbers(hist.adds, f) /\ Number(f) \notin Numbers(hist.adds, f) /\ Number(f) # 0
           /\ \A x \in hist.live : x \in Nat \X Types /\ x[1] # 0
           /\ Counts
<1>1. Counts /\ Sound(fields, hist.adds)
  BY DEF FieldsInv, FieldsSound
<1>2. hist.adds[f] \in Nat /\ hist.live \subseteq Nat \X Types
  BY <1>1, HistIs DEF Counts
<1>3. 0 \notin Numbers(hist.adds, f) /\ Number(f) \notin Numbers(hist.adds, f) /\ Number(f) # 0
  BY <1>2 DEF Numbers, Number
<1>4. \A x \in hist.live : x[1] # 0
  BY <1>1 DEF Counts, Counted, Numbers
<1>5. QED BY <1>1, <1>2, <1>3, <1>4 DEF Sound

LEMMA TempFieldIs ==
    ASSUME FieldsInv, NEW f \in Types, NEW t \in temp
    PROVE  /\ Fits(f, t[f], Numbers(hist.adds, f)) /\ AtMostOnce(f, t[f], Numbers(hist.adds, f))
<1>1. Sound(t, hist.adds)
  BY DEF FieldsInv, TempSound
<1>2. QED BY <1>1 DEF Sound

(* 0 is no addition, so that nothing is lost with it.                      *)
LEMMA ZeroIsNone ==
    ASSUME FieldsInv, NEW f \in Types
    PROVE  <<0, f>> \notin hist.live \cup {<<Number(f), f>>}
<1>1. <<0, f>> \notin hist.live
  BY FieldIs
<1>2. <<0, f>> # <<Number(f), f>>
  BY FieldIs
<1>3. QED BY <1>1, <1>2

LEMMA AddToMapStep ==
    ASSUME FieldsInv, NEW f \in Maps, NEW d \in Users(f), AddToMap(f, d)
    PROVE  FieldsInv'
<1> DEFINE n == Number(f)
           value(map) == AppendTo(map, d, <<n>>)
<1>1. pc = "up" /\ pc' = pc /\ directory' = directory
  BY DEF AddToMap, Adding, Ready
<1>2. f \in Types /\ f \in Iterable /\ f # "DeletedDevelopers"
  BY TypesDiffer DEF Types, Iterable
<1>3. CASE fields' = [fields EXCEPT ![f] = value(@)] /\ Added(f) /\ temp' = temp
  <2>1. More(f) /\ hist'.live = hist.live \cup {<<n, f>>} /\ hist'.pending = hist.pending
    BY <1>2, <1>3, AddedIs, FieldIs DEF Added
  <2>2. Gains(f, fields[f], value(fields[f]), Numbers(hist.adds, f), n, 0) /\ Places(f, value(fields[f]), n) # {}
    BY <1>2, FieldIs, MapGains
  <2>3. <<0, f>> \notin hist'.live
    BY <1>2, <2>1, ZeroIsNone
  <2>4. fields' = [fields EXCEPT ![f] = value(fields[f])]
    BY <1>3
  <2> HIDE DEF value
  <2>5. QED BY <1>1, <1>2, <1>3, <2>1, <2>2, <2>3, <2>4, FieldsGain
<1>4. CASE (\E t \in temp : temp' = {[t EXCEPT ![f] = value(@)]}) /\ AddedToTemp(f) /\ fields' = fields
  <2>1. PICK t \in temp : temp' = {[t EXCEPT ![f] = value(@)]}
    BY <1>4
  <2>2. More(f) /\ hist'.live = hist.live /\ hist'.pending = hist.pending \cup {<<n, f>>}
    BY <1>2, <1>4, AddedToTempIs, FieldIs
  <2>3. Gains(f, t[f], value(t[f]), Numbers(hist.adds, f), n, 0) /\ Places(f, value(t[f]), n) # {}
    BY <1>2, FieldIs, TempFieldIs, MapGains
  <2>4. temp' = {[t EXCEPT ![f] = value(t[f])]}
    BY <2>1
  <2> HIDE DEF value
  <2>5. QED BY <1>1, <1>2, <1>4, <2>2, <2>3, <2>4, TempGain
<1>5. QED BY <1>3, <1>4 DEF AddToMap

LEMMA AddGameStep ==
    ASSUME FieldsInv, AddGame
    PROVE  FieldsInv'
<1> DEFINE f == "GameIDs"
           n == Number(f)
           value(ids) == Merge(f, ids, {n})
<1>1. pc = "up" /\ pc' = pc /\ directory' = directory
  BY DEF AddGame, Adding, Ready
<1>2. f \in Types /\ f \in Iterable /\ f # "DeletedDevelopers"
  BY DEF Types, Iterable
<1>3. CASE fields' = [fields EXCEPT ![f] = value(@)] /\ Added(f) /\ temp' = temp
  <2>1. More(f) /\ hist'.live = hist.live \cup {<<n, f>>} /\ hist'.pending = hist.pending
    BY <1>2, <1>3, AddedIs, FieldIs DEF Added
  <2>2. Gains(f, fields[f], value(fields[f]), Numbers(hist.adds, f), n, 0) /\ Places(f, value(fields[f]), n) # {}
    BY <1>2, FieldIs, GameGains
  <2>3. <<0, f>> \notin hist'.live
    BY <1>2, <2>1, ZeroIsNone
  <2>4. fields' = [fields EXCEPT ![f] = value(fields[f])]
    BY <1>3
  <2> HIDE DEF value, f
  <2>5. QED BY <1>1, <1>2, <1>3, <2>1, <2>2, <2>3, <2>4, FieldsGain
<1>4. CASE (\E t \in temp : temp' = {[t EXCEPT ![f] = value(@)]}) /\ AddedToTemp(f) /\ fields' = fields
  <2>1. PICK t \in temp : temp' = {[t EXCEPT ![f] = value(@)]}
    BY <1>4
  <2>2. More(f) /\ hist'.live = hist.live /\ hist'.pending = hist.pending \cup {<<n, f>>}
    BY <1>2, <1>4, AddedToTempIs, FieldIs
  <2>3. Gains(f, t[f], value(t[f]), Numbers(hist.adds, f), n, 0) /\ Places(f, value(t[f]), n) # {}
    BY <1>2, FieldIs, TempFieldIs, GameGains
  <2>4. temp' = {[t EXCEPT ![f] = value(t[f])]}
    BY <2>1
  <2> HIDE DEF value, f
  <2>5. QED BY <1>1, <1>2, <1>4, <2>2, <2>3, <2>4, TempGain
<1>5. QED BY <1>3, <1>4 DEF AddGame

(* A process that ends or is stopped has no state, and its files are as    *)
(* they were.                                                              *)
LEMMA StoppedKeeps ==
    ASSUME FieldsInv, fields' = MakeState, temp' = {}, pc' # "up", directory' = directory, hist' = hist
    PROVE  FieldsInv'
<1>1. Counts' /\ FilesSound'
  BY DEF FieldsInv, Counts, Counted, FilesSound, Found
<1>2. FieldsSound'
  <2>1. Sound(fields', hist'.adds)
    BY Made
  <2>2. fields'["DeletedDevelopers"] \in Seq(Entries(Numbers(hist'.adds, "DeletedDevelopers")))
    BY Made, EmptySeq
  <2>3. QED BY <2>1, <2>2 DEF FieldsSound
<1>3. TempSound' /\ Present'
  BY DEF TempSound, Present
<1>4. QED BY <1>1, <1>2, <1>3 DEF FieldsInv

LEMMA AddDeletedStep ==
    ASSUME FieldsInv, NEW d \in Developers, AddDeleted(d)
    PROVE  FieldsInv'
<1> DEFINE f == "DeletedDevelopers"
           n == Number(f)
           entry(games) == [developer |-> {d}, snapshots |-> {n}, games |-> {games}, trend |-> {"run"}]
           live == IF IndexOf(fields[f], d) = {} THEN hist.live \cup {<<n, f>>} ELSE hist.live
<1>1. pc = "up" /\ directory' = directory
  BY DEF AddDeleted, Adding, Ready
<1>2. f \in Types
  BY KindsOfTypes
<1>3. CASE Panics(fields[f], d)
  <2>1. fields' = MakeState /\ temp' = {} /\ pc' = "down" /\ hist' = hist
    BY <1>3 DEF AddDeleted, Down
  <2>2. QED BY <1>1, <2>1, StoppedKeeps
<1>4. CASE ~Panics(fields[f], d)
  <2>1. PICK games \in SUBSET Games : fields' = [fields EXCEPT ![f] = SetOrAdd(@, entry(games))]
    BY <1>4 DEF AddDeleted
  <2> DEFINE value == SetOrAdd(fields[f], entry(games))
  <2>2. hist' = [hist EXCEPT !.adds[f] = @ + 1, !.live = live]
    BY <1>4 DEF AddDeleted
  <2>3. pc' = pc /\ temp' = temp
    BY <1>4 DEF AddDeleted
  <2>4. fields[f] \in Seq(Entries(Numbers(hist.adds, f)))
    BY DEF FieldsInv, FieldsSound
  <2>5. /\ value \in Seq(Entries(Numbers(hist.adds, f) \cup {n}))
        /\ Gains(f, fields[f], value, Numbers(hist.adds, f), n, 0)
        /\ IndexOf(fields[f], d) = {} => Places(f, value, n) # {}
        /\ Complete(fields[f]) => Complete(value)
    BY <1>2, <2>4, FieldIs, DeletedGains
  <2>6. fields' = [fields EXCEPT ![f] = value]
    BY <2>1
  <2> HIDE DEF value, f, live
  <2>7. More(f) /\ hist'.live = live /\ hist'.pending = hist.pending
    BY <1>2, <2>2, AddedIs, FieldIs
  <2>8. live \subseteq hist.live \cup {<<n, f>>} /\ (<<n, f>> \in live => IndexOf(fields[f], d) = {})
    <3>1. <<n, f>> \notin hist.live
      <4>1. Counts /\ Number(f) \notin Numbers(hist.adds, f)
        BY <1>2, FieldIs
      <4>2. QED BY <4>1 DEF Counts, Counted
    <3>2. QED BY <3>1 DEF live
  <2>9. <<0, f>> \notin hist'.live
    BY <1>2, <2>7, <2>8, ZeroIsNone
  <2>10. QED BY <1>1, <1>2, <2>3, <2>5, <2>6, <2>7, <2>8, <2>9, FieldsGain
<1>5. QED BY <1>3, <1>4

(* What replaces an entry of State.                                        *)
LEMMA ReplacedStep ==
    ASSUME FieldsInv, pc = "up", pc' = pc, temp' = temp, directory' = directory, NEW value, NEW n, Replaced(n),
           fields' = [fields EXCEPT !["State"] = value],
           Gains("State", fields["State"], value, Numbers(hist.adds, "State"), Number("State"), n),
           Places("State", value, Number("State")) # {}, n # Number("State")
    PROVE  FieldsInv'
<1> DEFINE f == "State"
           live == (hist.live \ {<<n, f>>}) \cup {<<Number(f), f>>}
<1>1. f \in Types /\ f # "DeletedDevelopers"
  BY DEF Types
<1>2. hist' = [hist EXCEPT !.adds[f] = @ + 1, !.live = live]
  BY DEF Replaced
<1> HIDE DEF f
<1>3. live \subseteq hist.live \cup {<<Number(f), f>>} /\ <<n, f>> \notin live
  <2>1. <<n, f>> # <<Number(f), f>>
    BY DEF f
  <2>2. QED BY <2>1
<1> HIDE DEF live
<1>4. More(f) /\ hist'.live = live /\ hist'.pending = hist.pending
  BY <1>1, <1>2, AddedIs, FieldIs
<1>5. /\ fields' = [fields EXCEPT ![f] = value] /\ Places(f, value, Number(f)) # {}
      /\ Gains(f, fields[f], value, Numbers(hist.adds, f), Number(f), n)
  BY DEF f
<1>6. QED BY <1>1, <1>3, <1>4, <1>5, FieldsGain

LEMMA SetScalarStep ==
    ASSUME FieldsInv, SetScalar
    PROVE  FieldsInv'
<1> DEFINE f == "State"
           value == [fields[f] EXCEPT !.scalar = Number(f)]
<1>1. pc = "up" /\ pc' = pc /\ directory' = directory /\ temp' = temp /\ Replaced(fields[f].scalar)
      /\ fields' = [fields EXCEPT ![f].scalar = Number(f)]
  BY DEF SetScalar, Adding, Ready
<1>2. fields' = [fields EXCEPT ![f] = value]
  BY <1>1
<1>3. f \in Types
  BY DEF Types
<1>4. /\ Fits(f, fields[f], Numbers(hist.adds, f)) /\ AtMostOnce(f, fields[f], Numbers(hist.adds, f)) /\ 0 \notin Numbers(hist.adds, f)
      /\ Number(f) \notin Numbers(hist.adds, f) /\ Number(f) # 0
  BY <1>3, FieldIs
<1>5. Gains(f, fields[f], value, Numbers(hist.adds, f), Number(f), fields[f].scalar) /\ Places(f, value, Number(f)) # {}
  BY <1>4, ScalarGains
<1>6. fields[f].scalar # Number(f)
  <2>1. fields[f].scalar \in Numbers(hist.adds, f) \cup {0}
    BY <1>4, StateValue
  <2>2. QED BY <1>4, <2>1
<1> HIDE DEF value
<1>7. QED BY <1>1, <1>2, <1>5, <1>6, ReplacedStep

LEMMA SetToEnableStep ==
    ASSUME FieldsInv, NEW t \in {"T", "R"}, SetToEnable(t)
    PROVE  FieldsInv'
<1> DEFINE f == "State"
           value == [fields[f] EXCEPT !.toEnable[t] = Number(f)]
<1>1. pc = "up" /\ pc' = pc /\ directory' = directory /\ temp' = temp /\ Replaced(fields[f].toEnable[t])
      /\ fields' = [fields EXCEPT ![f].toEnable[t] = Number(f)]
  BY DEF SetToEnable, Adding, Ready
<1>2. fields' = [fields EXCEPT ![f] = value]
  BY <1>1
<1>3. f \in Types
  BY DEF Types
<1>4. /\ Fits(f, fields[f], Numbers(hist.adds, f)) /\ AtMostOnce(f, fields[f], Numbers(hist.adds, f)) /\ 0 \notin Numbers(hist.adds, f)
      /\ Number(f) \notin Numbers(hist.adds, f) /\ Number(f) # 0
  BY <1>3, FieldIs
<1>5. Gains(f, fields[f], value, Numbers(hist.adds, f), Number(f), fields[f].toEnable[t]) /\ Places(f, value, Number(f)) # {}
  BY <1>4, ToEnableGains
<1>6. fields[f].toEnable[t] # Number(f)
  <2>1. fields[f].toEnable \in [{"T", "R"} -> Numbers(hist.adds, f) \cup {0}]
    BY <1>4, StateValue
  <2>2. QED BY <1>4, <2>1
<1> HIDE DEF value
<1>7. QED BY <1>1, <1>2, <1>5, <1>6, ReplacedStep

LEMMA AddDeveloperStep ==
    ASSUME FieldsInv, NEW d \in Developers, AddDeveloper(d)
    PROVE  FieldsInv'
<1> DEFINE f == "State"
           t == DevType(d)
           value == [fields[f] EXCEPT !.updated = Append(@, [id |-> Number(f), type |-> t])]
<1>1. pc = "up" /\ pc' = pc /\ directory' = directory /\ temp' = temp /\ Added(f)
      /\ fields' = [fields EXCEPT ![f].updated = Append(@, [id |-> Number(f), type |-> t])]
  BY DEF AddDeveloper, Adding, Ready
<1>2. fields' = [fields EXCEPT ![f] = value]
  BY <1>1
<1>3. f \in Types /\ f # "DeletedDevelopers"
  BY DEF Types
<1>4. t \in {"T", "R"}
  BY DEF DevType
<1>5. Gains(f, fields[f], value, Numbers(hist.adds, f), Number(f), 0) /\ Places(f, value, Number(f)) # {}
  BY <1>3, <1>4, FieldIs, UpdatedGains
<1>6. hist' = [hist EXCEPT !.adds[f] = @ + 1, !.live = hist.live \cup {<<Number(f), f>>}]
  BY <1>1 DEF Added
<1> HIDE DEF value, f
<1>7. More(f) /\ hist'.live = hist.live \cup {<<Number(f), f>>} /\ hist'.pending = hist.pending
  BY <1>3, <1>6, AddedIs, FieldIs
<1>8. <<0, f>> \notin hist'.live
  BY <1>3, <1>7, ZeroIsNone
<1>9. QED BY <1>1, <1>2, <1>3, <1>5, <1>7, <1>8, FieldsGain

(* A step that changes neither the fields nor the files.                   *)
LEMMA FieldsKept ==
    ASSUME FieldsInv, UNCHANGED <<fields, temp, directory, pc, hist>>
    PROVE  FieldsInv'
  BY DEF FieldsInv, Counts, Counted, FieldsSound, TempSound, Present, FilesSound, Found

LEMMA StateInMemoryStep ==
    ASSUME FieldsInv, StateInMemory
    PROVE  FieldsInv'
<1>1. pc = "up" /\ temp = {} /\ temp' = {MakeState} /\ UNCHANGED <<fields, directory, pc, hist>>
  BY DEF StateInMemory, Ready
<1>2. Counts' /\ FieldsSound' /\ FilesSound'
  BY <1>1 DEF FieldsInv, Counts, Counted, FieldsSound, FilesSound, Found
<1>3. TempSound'
  <2>1. Sound(MakeState, hist.adds) /\ MakeState["DeletedDevelopers"] = <<>>
    BY Made
  <2>2. ASSUME NEW f \in Types PROVE Apart(f, fields[f], MakeState[f], Numbers(hist.adds, f))
    <3>1. \A n \in Numbers(hist.adds, f) : n # 0
      BY FieldIs
    <3>2. QED BY <3>1, Made DEF Apart
  <2>3. QED BY <1>1, <2>1, <2>2 DEF TempSound
<1>4. Present'
  <2>1. hist.pending = {}
    BY <1>1 DEF FieldsInv, Present
  <2>2. QED BY <1>1, <2>1 DEF FieldsInv, Present
<1>5. QED BY <1>2, <1>3, <1>4 DEF FieldsInv

LEMMA MergeStep ==
    ASSUME FieldsInv, MergeIterableCachedFields
    PROVE  FieldsInv'
<1>1. Counts /\ FieldsSound /\ TempSound /\ Present /\ FilesSound
  BY DEF FieldsInv
<1>2. pc = "up" /\ pc' = pc /\ temp' = {} /\ directory' = directory
  BY DEF MergeIterableCachedFields, Ready
<1>3. PICK t \in temp : fields' = [f \in Types |-> IF f \in Iterable THEN Merge(f, fields[f], t[f]) ELSE fields[f]]
  BY DEF MergeIterableCachedFields
<1>4. hist' = [hist EXCEPT !.live = hist.live \cup hist.pending, !.pending = {}]
  BY DEF MergeIterableCachedFields
<1>5. /\ hist = [adds |-> hist.adds, live |-> hist.live, pending |-> hist.pending, saved |-> hist.saved, whole |-> hist.whole,
                 torn |-> hist.torn, faults |-> hist.faults]
      /\ hist.adds \in [Types -> Nat] /\ hist.live \in SUBSET (Nat \X Types) /\ hist.pending \in SUBSET (Nat \X Iterable)
      /\ hist.saved \in SUBSET (Nat \X Types) /\ hist.whole \in BOOLEAN /\ hist.torn \in BOOLEAN /\ hist.faults \in Nat
  BY <1>1, HistIs DEF Counts
<1>6. hist' = [adds |-> hist.adds, live |-> hist.live \cup hist.pending, pending |-> {}, saved |-> hist.saved, whole |-> hist.whole,
               torn |-> hist.torn, faults |-> hist.faults]
  BY <1>4, <1>5
<1>7. /\ hist'.adds = hist.adds /\ hist'.live = hist.live \cup hist.pending /\ hist'.pending = {} /\ hist'.saved = hist.saved
      /\ hist'.whole = hist.whole /\ hist'.torn = hist.torn /\ hist'.faults = hist.faults
  BY <1>6
<1>8. ASSUME NEW f \in Iterable
      PROVE  /\ f \in Types /\ fields'[f] = Merge(f, fields[f], t[f])
             /\ Fits(f, fields'[f], Numbers(hist.adds, f)) /\ AtMostOnce(f, fields'[f], Numbers(hist.adds, f))
             /\ \A m \in Numbers(hist.adds, f) : Places(f, fields[f], m) # {} \/ Places(f, t[f], m) # {} => Places(f, fields'[f], m) # {}
             /\ f = "DeletedDevelopers" => fields'[f] = fields[f]
  <2>1. f \in Types
    BY DEF Iterable
  <2>2. fields'[f] = Merge(f, fields[f], t[f])
    BY <1>3, <2>1
  <2>3. Apart(f, fields[f], t[f], Numbers(hist.adds, f))
    BY <1>1, <2>1 DEF TempSound
  <2>4. f = "DeletedDevelopers" => fields[f] \in Seq(Entries(Numbers(hist.adds, f))) /\ t[f] = <<>>
    BY <1>1 DEF FieldsSound, TempSound
  <2>5. /\ Fits(f, fields[f], Numbers(hist.adds, f)) /\ AtMostOnce(f, fields[f], Numbers(hist.adds, f))
        /\ Fits(f, t[f], Numbers(hist.adds, f)) /\ AtMostOnce(f, t[f], Numbers(hist.adds, f))
    BY <2>1, FieldIs, TempFieldIs
  <2>6. QED BY <2>1, <2>2, <2>3, <2>4, <2>5, MergeKeeps
<1>9. fields'["State"] = fields["State"] /\ \A f \in Types : f \in Iterable \/ f = "State"
  BY <1>3 DEF Types, Iterable
<1>10. "DeletedDevelopers" \in Iterable
  BY KindsOfTypes DEF Iterable
<1>11. FieldsSound'
  <2>1. ASSUME NEW f \in Types PROVE Fits(f, fields'[f], Numbers(hist.adds, f)) /\ AtMostOnce(f, fields'[f], Numbers(hist.adds, f))
    BY <1>8, <1>9, FieldIs
  <2>2. DOMAIN fields' = Types /\ fields' = [f \in Types |-> fields'[f]]
    BY <1>3
  <2>3. Sound(fields', hist'.adds)
    BY <1>7, <2>1, <2>2 DEF Sound
  <2>4. fields'["DeletedDevelopers"] = fields["DeletedDevelopers"]
    BY <1>8, <1>10
  <2>5. QED BY <1>1, <1>7, <2>3, <2>4 DEF FieldsSound
<1>12. Present'
  <2>1. ASSUME NEW x \in hist.live \cup hist.pending PROVE IsThere(fields', x)
    <3>1. x[2] \in Types /\ x[1] \in Numbers(hist.adds, x[2])
      BY <1>1 DEF Counts, Counted
    <3>2. CASE x \in hist.live
      <4>1. Places(x[2], fields[x[2]], x[1]) # {}
        BY <1>1, <1>2, <3>2 DEF Present, IsThere
      <4>2. QED BY <1>8, <1>9, <3>1, <4>1 DEF IsThere
    <3>3. CASE x \in hist.pending
      <4>1. x[2] \in Iterable
        BY <1>5, <3>3
      <4>2. PICK s \in temp : IsThere(s, x)
        BY <1>1, <1>2, <3>3 DEF Present
      <4>3. s = t
        BY <1>1 DEF TempSound
      <4>4. Places(x[2], t[x[2]], x[1]) # {}
        BY <4>2, <4>3 DEF IsThere
      <4>5. QED BY <1>8, <3>1, <4>1, <4>4 DEF IsThere
    <3>4. QED BY <3>2, <3>3
  <2>2. ~hist'.torn => Complete(fields'["DeletedDevelopers"])
    BY <1>1, <1>2, <1>7, <1>8, <1>10 DEF Present
  <2>3. QED BY <1>7, <2>1, <2>2 DEF Present
<1>13. Counts'
  <2>1. hist.live \cup hist.pending \in SUBSET (Nat \X Types) /\ {} \in SUBSET (Nat \X Iterable)
    BY <1>5 DEF Iterable
  <2>2. hist' = [adds |-> hist'.adds, live |-> hist'.live, pending |-> hist'.pending, saved |-> hist'.saved, whole |-> hist'.whole,
                 torn |-> hist'.torn, faults |-> hist'.faults]
    BY <1>6, <1>7
  <2>3. hist' \in HistType
    BY <1>5, <1>7, <2>1, <2>2, HistIs
  <2>4. QED BY <1>1, <1>7, <2>3 DEF Counts, Counted
<1>14. FilesSound'
  BY <1>1, <1>2, <1>7 DEF FilesSound, Found
<1>15. TempSound'
  BY <1>2 DEF TempSound
<1>16. QED BY <1>11, <1>12, <1>13, <1>14, <1>15 DEF FieldsInv

(* What a save or a fault leaves of the memory: it is kept or lost.        *)
LEMMA MemoryKept ==
    ASSUME FieldsInv, pc = "up", Up \/ Down, hist'.adds = hist.adds, hist'.live = hist.live, hist'.pending = hist.pending,
           hist'.torn = hist.torn
    PROVE  FieldsSound' /\ TempSound' /\ Present'
<1>1. CASE Up
  <2>1. pc' = "up" /\ UNCHANGED <<fields, temp>>
    BY <1>1 DEF Up
  <2>2. QED BY <2>1 DEF FieldsInv, FieldsSound, TempSound, Present
<1>2. CASE Down
  <2>1. pc' = "down" /\ fields' = MakeState /\ temp' = {}
    BY <1>2 DEF Down
  <2>2. Sound(fields', hist'.adds) /\ fields'["DeletedDevelopers"] = <<>>
    BY <2>1, Made
  <2>3. <<>> \in Seq(Entries(Numbers(hist'.adds, "DeletedDevelopers")))
    BY EmptySeq
  <2>4. QED BY <2>1, <2>2, <2>3 DEF FieldsSound, TempSound, Present
<1>3. QED BY <1>1, <1>2

LEMMA CompleteIs ==
    ASSUME NEW state
    PROVE  Complete(state["DeletedDevelopers"]) <=> ~Nameless(state) /\ Encodable(state)
  BY DEF Complete, Nameless, Encodable

(* What is saved counts, and a save or a fault changes nothing else of the *)
(* history.                                                                *)
LEMMA SavedCounts ==
    ASSUME Counts, NEW kept \in {hist.live, hist.saved, {}}, NEW whole \in BOOLEAN, NEW failures \in Nat,
           hist' = [hist EXCEPT !.saved = kept, !.whole = whole, !.faults = failures]
    PROVE  /\ Counts'
           /\ hist'.adds = hist.adds /\ hist'.live = hist.live /\ hist'.pending = hist.pending /\ hist'.torn = hist.torn
           /\ hist'.saved = kept /\ hist'.whole = whole
<1>1. /\ hist = [adds |-> hist.adds, live |-> hist.live, pending |-> hist.pending, saved |-> hist.saved, whole |-> hist.whole,
                 torn |-> hist.torn, faults |-> hist.faults]
      /\ hist.adds \in [Types -> Nat] /\ hist.live \in SUBSET (Nat \X Types) /\ hist.pending \in SUBSET (Nat \X Iterable)
      /\ hist.saved \in SUBSET (Nat \X Types) /\ hist.whole \in BOOLEAN /\ hist.torn \in BOOLEAN /\ hist.faults \in Nat
  BY HistIs DEF Counts
<1>2. hist' = [adds |-> hist.adds, live |-> hist.live, pending |-> hist.pending, saved |-> kept, whole |-> whole,
               torn |-> hist.torn, faults |-> failures]
  BY <1>1
<1>3. /\ hist'.adds = hist.adds /\ hist'.live = hist.live /\ hist'.pending = hist.pending /\ hist'.torn = hist.torn
      /\ hist'.saved = kept /\ hist'.whole = whole /\ hist'.faults = failures
  BY <1>2
<1>4. kept \in SUBSET (Nat \X Types)
  BY <1>1
<1>5. hist' = [adds |-> hist'.adds, live |-> hist'.live, pending |-> hist'.pending, saved |-> hist'.saved, whole |-> hist'.whole,
               torn |-> hist'.torn, faults |-> hist'.faults]
  BY <1>2, <1>3
<1>6. hist' \in HistType
  BY <1>1, <1>3, <1>4, <1>5, HistIs
<1>7. Counted(hist.live) /\ Counted(hist.pending) /\ Counted(kept)
  BY DEF Counts, Counted
<1>8. QED BY <1>3, <1>6, <1>7 DEF Counts, Counted

(* Live additions are all saved.                                           *)
LEMMA LiveHolds ==
    ASSUME FieldsInv, pc = "up", ~Nameless(fields), Encodable(fields)
    PROVE  /\ HasJson(SerialiseFields(fields)) /\ Holds(SerialiseFields(fields), hist.adds, TRUE, hist.live)
<1>1. Sound(fields, hist.adds) /\ fields["DeletedDevelopers"] \in Seq(Entries(Numbers(hist.adds, "DeletedDevelopers")))
  BY DEF FieldsInv, FieldsSound
<1>2. Complete(fields["DeletedDevelopers"])
  BY CompleteIs
<1>3. \A x \in hist.live : x[2] \in Types /\ IsThere(fields, x)
  BY DEF FieldsInv, Counts, Counted, Present
<1>4. QED BY <1>1, <1>2, <1>3, SavedHolds

LEMMA SaveStep ==
    ASSUME FieldsInv, SaveFields
    PROVE  FieldsInv'
<1>1. pc = "up"
  BY DEF SaveFields, Ready
<1>2. Counts /\ hist.faults \in Nat
  BY HistIs DEF FieldsInv, Counts
<1>3. hist = [adds |-> hist.adds, live |-> hist.live, pending |-> hist.pending, saved |-> hist.saved, whole |-> hist.whole,
              torn |-> hist.torn, faults |-> hist.faults]
  BY <1>2, HistIs DEF Counts
<1>4. CASE Nameless(fields) \/ ~Encodable(fields)
  <2>1. directory' = Gone /\ (Up \/ Down) /\ hist' = [hist EXCEPT !.saved = {}, !.whole = TRUE]
    BY <1>4 DEF SaveFields
  <2>2. hist' = [hist EXCEPT !.saved = {}, !.whole = TRUE, !.faults = hist.faults]
    BY <1>3, <2>1
  <2>3. /\ Counts' /\ hist'.adds = hist.adds /\ hist'.live = hist.live /\ hist'.pending = hist.pending /\ hist'.torn = hist.torn
        /\ hist'.saved = {}
    BY <1>2, <2>2, SavedCounts
  <2>4. FieldsSound' /\ TempSound' /\ Present'
    BY <1>1, <2>1, <2>3, MemoryKept
  <2>5. FilesSound'
    <3>1. directory' = [made |-> FALSE, files |-> EmptyMap] /\ directory'.made = FALSE /\ directory'.files = EmptyMap
      BY <2>1 DEF Gone
    <3>2. QED BY <2>3, <3>1 DEF FilesSound
  <2>6. QED BY <2>3, <2>4, <2>5 DEF FieldsInv
<1>5. CASE ~Nameless(fields) /\ Encodable(fields)
  <2>1. directory' = [made |-> TRUE, files |-> SerialiseFields(fields)] /\ Up /\ hist' = [hist EXCEPT !.saved = hist.live, !.whole = TRUE]
    BY <1>5 DEF SaveFields
  <2>2. hist' = [hist EXCEPT !.saved = hist.live, !.whole = TRUE, !.faults = hist.faults]
    BY <1>3, <2>1
  <2>3. /\ Counts' /\ hist'.adds = hist.adds /\ hist'.live = hist.live /\ hist'.pending = hist.pending /\ hist'.torn = hist.torn
        /\ hist'.saved = hist.live /\ hist'.whole = TRUE
    BY <1>2, <2>2, SavedCounts
  <2>4. FieldsSound' /\ TempSound' /\ Present'
    BY <1>1, <2>1, <2>3, MemoryKept
  <2>5. FilesSound'
    <3>1. /\ directory' = [made |-> directory'.made, files |-> directory'.files]
          /\ directory'.made = TRUE /\ directory'.files = SerialiseFields(fields)
      BY <2>1
    <3>2. Found' = hist.live
      BY <2>3 DEF Found
    <3>3. HasJson(directory'.files) /\ Holds(directory'.files, hist'.adds, hist'.whole, Found')
      BY <1>1, <1>5, <2>3, <3>1, <3>2, LiveHolds
    <3>4. QED BY <2>3, <3>1, <3>3 DEF FilesSound
  <2>6. QED BY <2>3, <2>4, <2>5 DEF FieldsInv
<1>6. QED BY <1>4, <1>5

LEMMA RemoveInterruptedStep ==
    ASSUME FieldsInv, RemoveInterrupted
    PROVE  FieldsInv'
<1>1. pc = "up" /\ directory.made /\ (Up \/ Down)
  BY DEF RemoveInterrupted, Ready
<1>2. PICK left \in Left(directory.files) : directory' = [directory EXCEPT !.files = left]
  BY DEF RemoveInterrupted
<1>3. Counts /\ hist.faults \in Nat
  BY HistIs DEF FieldsInv, Counts
<1>4. hist = [adds |-> hist.adds, live |-> hist.live, pending |-> hist.pending, saved |-> hist.saved, whole |-> hist.whole,
              torn |-> hist.torn, faults |-> hist.faults]
  BY <1>3, HistIs DEF Counts
<1> DEFINE failures == hist.faults + 1
<1>5. hist' = [hist EXCEPT !.faults = failures, !.whole = FALSE]
  BY DEF RemoveInterrupted
<1>6. failures \in Nat
  BY <1>3
<1> HIDE DEF failures
<1>7. hist' = [hist EXCEPT !.saved = hist.saved, !.whole = FALSE, !.faults = failures]
  BY <1>4, <1>5
<1>8. /\ Counts' /\ hist'.adds = hist.adds /\ hist'.live = hist.live /\ hist'.pending = hist.pending /\ hist'.torn = hist.torn
      /\ hist'.saved = hist.saved /\ hist'.whole = FALSE
  BY <1>3, <1>6, <1>7, SavedCounts
<1>9. FieldsSound' /\ TempSound' /\ Present'
  BY <1>1, <1>8, MemoryKept
<1>10. /\ directory' = [made |-> directory'.made, files |-> directory'.files] /\ directory'.made = TRUE /\ directory'.files = left
  <2>1. directory = [made |-> directory.made, files |-> directory.files] /\ directory.made = TRUE
    BY <1>1 DEF FieldsInv, FilesSound
  <2>2. directory' = [made |-> TRUE, files |-> left]
    BY <1>2, <2>1
  <2>3. QED BY <2>2
<1>11. ASSUME HasJson(left) PROVE Holds(left, hist.adds, FALSE, Found')
  <2>1. HasJson(directory.files)
    BY <1>11, LeftIs
  <2>2. Holds(directory.files, hist.adds, hist.whole, Found)
    BY <1>1, <2>1 DEF FieldsInv, FilesSound
  <2>3. Found' \in SUBSET Found /\ \A x \in Found' : x[2] \in Json
    BY <1>8 DEF Found
  <2>4. QED BY <1>11, <2>2, <2>3, LeftHolds
<1>12. FilesSound'
  BY <1>8, <1>10, <1>11 DEF FilesSound
<1>13. QED BY <1>8, <1>9, <1>12 DEF FieldsInv

LEMMA WriteInterruptedStep ==
    ASSUME FieldsInv, WriteInterrupted
    PROVE  FieldsInv'
<1>1. pc = "up" /\ (Up \/ Down) /\ ~Nameless(fields) /\ Encodable(fields)
  BY DEF WriteInterrupted, Ready
<1>2. Counts /\ hist.faults \in Nat
  BY HistIs DEF FieldsInv, Counts
<1>3. hist = [adds |-> hist.adds, live |-> hist.live, pending |-> hist.pending, saved |-> hist.saved, whole |-> hist.whole,
              torn |-> hist.torn, faults |-> hist.faults]
  BY <1>2, HistIs DEF Counts
<1> DEFINE failures == hist.faults + 1
<1>4. failures \in Nat
  BY <1>2
<1>5. CASE directory' = Gone /\ hist' = [hist EXCEPT !.faults = failures, !.saved = {}, !.whole = TRUE]
  <2> HIDE DEF failures
  <2>1. hist' = [hist EXCEPT !.saved = {}, !.whole = TRUE, !.faults = failures]
    BY <1>3, <1>5
  <2>2. /\ Counts' /\ hist'.adds = hist.adds /\ hist'.live = hist.live /\ hist'.pending = hist.pending /\ hist'.torn = hist.torn
        /\ hist'.saved = {}
    BY <1>2, <1>4, <2>1, SavedCounts
  <2>3. FieldsSound' /\ TempSound' /\ Present'
    BY <1>1, <2>2, MemoryKept
  <2>4. FilesSound'
    <3>1. directory' = [made |-> FALSE, files |-> EmptyMap] /\ directory'.made = FALSE /\ directory'.files = EmptyMap
      BY <1>5 DEF Gone
    <3>2. QED BY <2>2, <3>1 DEF FilesSound
  <2>5. QED BY <2>2, <2>3, <2>4 DEF FieldsInv
<1>6. CASE /\ \E left \in Left(SerialiseFields(fields)) : directory' = [made |-> TRUE, files |-> left]
           /\ hist' = [hist EXCEPT !.faults = failures, !.saved = hist.live, !.whole = FALSE]
  <2> HIDE DEF failures
  <2>1. hist' = [hist EXCEPT !.saved = hist.live, !.whole = FALSE, !.faults = failures]
    BY <1>3, <1>6
  <2>2. /\ Counts' /\ hist'.adds = hist.adds /\ hist'.live = hist.live /\ hist'.pending = hist.pending /\ hist'.torn = hist.torn
        /\ hist'.saved = hist.live /\ hist'.whole = FALSE
    BY <1>2, <1>4, <2>1, SavedCounts
  <2>3. FieldsSound' /\ TempSound' /\ Present'
    BY <1>1, <2>2, MemoryKept
  <2>4. PICK left \in Left(SerialiseFields(fields)) : directory' = [made |-> TRUE, files |-> left]
    BY <1>6
  <2>5. directory' = [made |-> directory'.made, files |-> directory'.files] /\ directory'.made = TRUE /\ directory'.files = left
    BY <2>4
  <2>6. Found' \in SUBSET hist.live /\ \A x \in Found' : x[2] \in Json
    BY <2>2 DEF Found
  <2>7. Holds(SerialiseFields(fields), hist.adds, TRUE, hist.live)
    BY <1>1, LiveHolds
  <2>8. HasJson(left) => Holds(left, hist.adds, FALSE, Found')
    BY <2>6, <2>7, LeftHolds
  <2>9. FilesSound'
    BY <2>2, <2>5, <2>8 DEF FilesSound
  <2>10. QED BY <2>2, <2>3, <2>9 DEF FieldsInv
<1>7. QED BY <1>5, <1>6 DEF WriteInterrupted

LEMMA CrashStep ==
    ASSUME FieldsInv, ProcessCrash
    PROVE  FieldsInv'
<1>1. fields' = MakeState /\ temp' = {} /\ pc' = "down" /\ directory' = directory /\ hist' = hist
  BY DEF ProcessCrash, Down
<1>2. QED BY <1>1, StoppedKeeps

LEMMA LoadStep ==
    ASSUME FieldsInv, Load
    PROVE  FieldsInv'
<1>1. Counts /\ FieldsSound /\ TempSound /\ FilesSound
  BY DEF FieldsInv
<1>2. pc = "down" /\ temp' = temp /\ directory' = directory
  BY DEF Load
<1>3. temp = {}
  BY <1>1, <1>2 DEF TempSound
<1>4. Readable = HasJson(directory.files)
  BY DEF Readable, HasJson
<1>5. TempSound'
  BY <1>2, <1>3 DEF TempSound
<1>6. CASE ~directory.made \/ Readable
  <2>1. /\ directory.made => fields' \in DeserialisedFields(directory.files)
        /\ ~directory.made => fields' = MakeState
        /\ hist' = [hist EXCEPT !.live = Found, !.pending = {}, !.torn = ~hist.whole]
    BY <1>6 DEF Load
  <2>2. /\ hist = [adds |-> hist.adds, live |-> hist.live, pending |-> hist.pending, saved |-> hist.saved, whole |-> hist.whole,
                   torn |-> hist.torn, faults |-> hist.faults]
        /\ hist.adds \in [Types -> Nat] /\ hist.live \in SUBSET (Nat \X Types) /\ hist.pending \in SUBSET (Nat \X Iterable)
        /\ hist.saved \in SUBSET (Nat \X Types) /\ hist.whole \in BOOLEAN /\ hist.torn \in BOOLEAN /\ hist.faults \in Nat
    BY <1>1, HistIs DEF Counts
  <2> DEFINE torn == ~hist.whole
  <2>3. torn \in BOOLEAN /\ (~torn => hist.whole)
    BY <2>2
  <2> HIDE DEF torn
  <2>4. hist' = [hist EXCEPT !.live = Found, !.pending = {}, !.torn = torn]
    BY <2>1 DEF torn
  <2>5. hist' = [adds |-> hist.adds, live |-> Found, pending |-> {}, saved |-> hist.saved, whole |-> hist.whole,
                 torn |-> torn, faults |-> hist.faults]
    BY <2>2, <2>4
  <2>6. /\ hist'.adds = hist.adds /\ hist'.live = Found /\ hist'.pending = {} /\ hist'.saved = hist.saved /\ hist'.whole = hist.whole
        /\ hist'.torn = torn /\ hist'.faults = hist.faults
    BY <2>5
  <2>7. Found \subseteq hist.saved
    BY DEF Found
  <2>8. Counts'
    <3>1. hist' = [adds |-> hist'.adds, live |-> hist'.live, pending |-> hist'.pending, saved |-> hist'.saved, whole |-> hist'.whole,
                   torn |-> hist'.torn, faults |-> hist'.faults]
      BY <2>5, <2>6
    <3>2. Found \in SUBSET (Nat \X Types) /\ {} \in SUBSET (Nat \X Iterable)
      BY <2>2, <2>7
    <3>3. hist' \in HistType
      BY <2>2, <2>3, <2>6, <3>1, <3>2, HistIs
    <3>4. QED BY <1>1, <2>6, <2>7, <3>3 DEF Counts, Counted
  <2>9. FilesSound'
    BY <1>1, <1>2, <2>6 DEF FilesSound, Found
  <2>10. CASE directory.made
    <3>1. Holds(directory.files, hist.adds, hist.whole, Found)
      BY <1>1, <1>4, <1>6, <2>10 DEF FilesSound
    <3>2. /\ Sound(fields', hist.adds) /\ fields'["DeletedDevelopers"] \in Seq(Entries(Numbers(hist.adds, "DeletedDevelopers")))
          /\ \A x \in Found : x[2] \in Types => IsThere(fields', x)
          /\ hist.whole => Complete(fields'["DeletedDevelopers"])
      BY <2>1, <2>10, <3>1, LoadedHolds
    <3>3. \A x \in Found : x[2] \in Types
      BY <1>1, <2>7 DEF Counts, Counted
    <3>4. FieldsSound' /\ Present'
      BY <2>3, <2>6, <3>2, <3>3 DEF FieldsSound, Present
    <3>5. QED BY <1>5, <2>8, <2>9, <3>4 DEF FieldsInv
  <2>11. CASE ~directory.made
    <3>1. Sound(fields', hist.adds) /\ fields'["DeletedDevelopers"] = <<>> /\ Complete(fields'["DeletedDevelopers"])
      BY <2>1, <2>11, Made
    <3>2. <<>> \in Seq(Entries(Numbers(hist.adds, "DeletedDevelopers")))
      BY EmptySeq
    <3>3. Found = {}
      BY <1>1, <2>7, <2>11 DEF FilesSound
    <3>4. FieldsSound' /\ Present'
      BY <2>6, <3>1, <3>2, <3>3 DEF FieldsSound, Present
    <3>5. QED BY <1>5, <2>8, <2>9, <3>4 DEF FieldsInv
  <2>12. QED BY <2>10, <2>11
<1>7. CASE ~(~directory.made \/ Readable)
  <2>1. pc' = "refused" /\ fields' = fields /\ hist' = hist
    BY <1>7 DEF Load
  <2>2. Counts' /\ FieldsSound' /\ FilesSound' /\ Present'
    BY <1>1, <1>2, <2>1 DEF Counts, Counted, FieldsSound, FilesSound, Found, Present
  <2>3. QED BY <1>5, <2>2 DEF FieldsInv
<1>8. QED BY <1>6, <1>7

LEMMA InitStep ==
    ASSUME FieldsInit
    PROVE  FieldsInv /\ Walking
<1>1. fields = MakeState /\ temp = {} /\ directory = Gone /\ iter = NoIter
  BY DEF FieldsInit
<1>2. hist = [adds |-> [f \in Types |-> 0], live |-> {}, pending |-> {}, saved |-> {}, whole |-> TRUE, torn |-> FALSE, faults |-> 0]
  BY DEF FieldsInit
<1>3. /\ hist.live = {} /\ hist.pending = {} /\ hist.saved = {} /\ hist.whole = TRUE /\ hist.torn = FALSE /\ hist.faults = 0
      /\ hist.adds \in [Types -> Nat]
      /\ hist = [adds |-> hist.adds, live |-> hist.live, pending |-> hist.pending, saved |-> hist.saved, whole |-> hist.whole,
                 torn |-> hist.torn, faults |-> hist.faults]
  BY <1>2
<1>4. Counts
  <2>1. /\ {} \in SUBSET (Nat \X Types) /\ {} \in SUBSET (Nat \X Iterable)
        /\ TRUE \in BOOLEAN /\ FALSE \in BOOLEAN /\ 0 \in Nat
    OBVIOUS
  <2>2. /\ hist.adds \in [Types -> Nat] /\ hist.live \in SUBSET (Nat \X Types) /\ hist.pending \in SUBSET (Nat \X Iterable)
        /\ hist.saved \in SUBSET (Nat \X Types) /\ hist.whole \in BOOLEAN /\ hist.torn \in BOOLEAN /\ hist.faults \in Nat
    BY <1>3, <2>1
  <2>3. hist \in HistType
    BY <1>3, <2>2 DEF HistType
  <2>4. QED BY <1>3, <2>3 DEF Counts, Counted
<1>5. Sound(fields, hist.adds) /\ fields["DeletedDevelopers"] = <<>> /\ Complete(fields["DeletedDevelopers"])
  BY <1>1, Made
<1>6. FieldsSound
  <2>1. <<>> \in Seq(Entries(Numbers(hist.adds, "DeletedDevelopers")))
    BY EmptySeq
  <2>2. QED BY <1>5, <2>1 DEF FieldsSound
<1>7. TempSound
  BY <1>1 DEF TempSound
<1>8. Present
  BY <1>3, <1>5 DEF Present
<1>9. FilesSound
  <2>1. directory = [made |-> FALSE, files |-> EmptyMap] /\ directory.made = FALSE /\ directory.files = EmptyMap
    BY <1>1 DEF Gone
  <2>2. QED BY <1>3, <2>1 DEF FilesSound
<1>10. QED BY <1>1, <1>4, <1>6, <1>7, <1>8, <1>9 DEF FieldsInv, Walking

LEMMA IterStep ==
    ASSUME FieldsInv, IterBegins \/ IterNext \/ IterEnds
    PROVE  FieldsInv'
<1>1. UNCHANGED <<fields, temp, directory, pc, hist>>
  BY DEF IterBegins, IterNext, IterEnds
<1>2. QED BY <1>1, FieldsKept

LEMMA FieldsStep ==
    ASSUME FieldsInv, [FieldsNext]_fieldsVars
    PROVE  FieldsInv'
<1>1. CASE UNCHANGED fieldsVars
  BY <1>1, FieldsKept DEF fieldsVars
<1>2. ASSUME NEW f \in Maps, NEW d \in Users(f), AddToMap(f, d) PROVE FieldsInv'
  BY <1>2, AddToMapStep
<1>3. CASE AddGame
  BY <1>3, AddGameStep
<1>4. ASSUME NEW d \in Developers, AddDeleted(d) \/ AddDeveloper(d) PROVE FieldsInv'
  BY <1>4, AddDeletedStep, AddDeveloperStep
<1>5. CASE SetScalar
  BY <1>5, SetScalarStep
<1>6. ASSUME NEW t \in {"T", "R"}, SetToEnable(t) PROVE FieldsInv'
  BY <1>6, SetToEnableStep
<1>7. CASE StateInMemory \/ MergeIterableCachedFields
  BY <1>7, StateInMemoryStep, MergeStep
<1>8. CASE SaveFields \/ RemoveInterrupted \/ WriteInterrupted
  BY <1>8, SaveStep, RemoveInterruptedStep, WriteInterruptedStep
<1>9. CASE ProcessCrash \/ Load
  BY <1>9, CrashStep, LoadStep
<1>10. CASE IterBegins \/ IterNext \/ IterEnds
  BY <1>10, IterStep
<1>11. QED BY <1>1, <1>2, <1>3, <1>4, <1>5, <1>6, <1>7, <1>8, <1>9, <1>10 DEF FieldsNext

(* The inductive invariant: what is in the fields, in the other state and  *)
(* in the files fits its field and is in none of them twice, and it is all *)
(* there, whatever is added, merged (state.go), saved, interrupted in a    *)
(* save (paths_to_bytes.go) or loaded.                                     *)
THEOREM FieldsInvariant == FieldsSpec => []FieldsInv
<1>1. FieldsInit => FieldsInv
  BY InitStep
<1>2. FieldsInv /\ [FieldsNext]_fieldsVars => FieldsInv'
  BY FieldsStep
<1>3. QED BY <1>1, <1>2, PTL DEF FieldsSpec

LEMMA OnceIs ==
    ASSUME NEW state, NEW adds, Sound(state, adds), NEW x, x[2] \in Types, x[1] \in Numbers(adds, x[2]), IsThere(state, x)
    PROVE  Once(state, x)
<1> DEFINE places == Places(x[2], state[x[2]], x[1])
<1>1. \A p, q \in places : p = q
  BY DEF Sound, AtMostOnce
<1>2. places # {}
  BY DEF IsThere
<1> HIDE DEF places
<1>3. \E p \in places : places = {p}
  BY <1>1, <1>2
<1>4. QED BY <1>3 DEF Once, places

LEMMA NothingIsLost ==
    ASSUME FieldsInv
    PROVE  NothingLost
<1>1. Counts /\ FieldsSound /\ TempSound /\ Present /\ FilesSound
  BY DEF FieldsInv
<1>2. ASSUME pc = "up", NEW x \in hist.live PROVE Once(fields, x)
  <2>1. x[2] \in Types /\ x[1] \in Numbers(hist.adds, x[2]) /\ IsThere(fields, x)
    BY <1>1, <1>2 DEF Counts, Counted, Present
  <2>2. Sound(fields, hist.adds)
    BY <1>1 DEF FieldsSound
  <2>3. QED BY <2>1, <2>2, OnceIs
<1>3. ASSUME pc = "up", NEW x \in hist.pending PROVE \E t \in temp : Once(t, x)
  <2>1. x[2] \in Types /\ x[1] \in Numbers(hist.adds, x[2])
    BY <1>1 DEF Counts, Counted
  <2>2. PICK t \in temp : IsThere(t, x)
    BY <1>1, <1>3 DEF Present
  <2>3. Sound(t, hist.adds)
    BY <1>1 DEF TempSound
  <2>4. Once(t, x)
    BY <2>1, <2>2, <2>3, OnceIs
  <2>5. QED BY <2>4
<1>4. ASSUME pc = "up", ~hist.torn PROVE ~Nameless(fields) /\ Encodable(fields)
  BY <1>1, <1>4, CompleteIs DEF Present
<1>5. ASSUME hist.whole, directory.made PROVE Readable
  BY <1>1, <1>5 DEF FilesSound, Readable, HasJson
<1>6. QED BY <1>2, <1>3, <1>4, <1>5 DEF NothingLost

(* What a process added to the fields of its state, or found in the save   *)
(* of one before, is in them exactly once, through merging, saving,        *)
(* interrupted saves and loading (cached_fields.go, state.go); and a save  *)
(* that was not interrupted can be loaded.                                 *)
THEOREM FieldsLoseNothing == FieldsSpec => []NothingLost
<1>1. FieldsInv => NothingLost
  BY NothingIsLost
<1>2. QED BY <1>1, FieldsInvariant, PTL

-----------------------------------------------------------------------------
(* The merged iterator.                                                    *)
LEMMA KeysAre ==
    ASSUME FieldsSound
    PROVE  /\ Keys(1) = DOMAIN fields["DeveloperSnapshots"] /\ Keys(2) = DOMAIN fields["RedditDeveloperSnapshots"]
           /\ Keys(1) \subseteq TwitterDevs /\ Keys(2) \subseteq RedditDevs
           /\ IsFiniteSet(Keys(1)) /\ IsFiniteSet(Keys(2))
<1>1. "DeveloperSnapshots" \in Maps /\ "RedditDeveloperSnapshots" \in Maps /\ Maps \subseteq Types
  BY DEF Maps, Snapshots, Types
<1>2. \A f \in Maps : DOMAIN fields[f] \subseteq Users(f)
  BY <1>1 DEF FieldsSound, Sound, Fits
<1>3. Users("DeveloperSnapshots") = TwitterDevs /\ Users("RedditDeveloperSnapshots") = RedditDevs
  BY DEF Users
<1>4. Keys(1) = DOMAIN fields["DeveloperSnapshots"] /\ Keys(2) = DOMAIN fields["RedditDeveloperSnapshots"]
  BY DEF Keys
<1>5. Keys(1) \subseteq TwitterDevs /\ Keys(2) \subseteq RedditDevs
  BY <1>1, <1>2, <1>3, <1>4
<1>6. IsFiniteSet(Developers) /\ Keys(1) \subseteq Developers /\ Keys(2) \subseteq Developers
  BY <1>5, CachedFieldsAssumption DEF CachedFieldsAssumption, Developers
<1>7. IsFiniteSet(Keys(1)) /\ IsFiniteSet(Keys(2))
  BY <1>6, FS_Subset
<1>8. QED BY <1>4, <1>5, <1>7

LEMMA OrdersAre ==
    ASSUME FieldsSound, NEW first \in SetToSeqs(Keys(1)), NEW second \in SetToSeqs(Keys(2))
    PROVE  /\ first \in Seq(Developers) /\ second \in Seq(Developers)
           /\ Len(first) = Cardinality(Keys(1)) /\ Len(first) \in Nat /\ Len(second) \in Nat
           /\ DOMAIN first = 1 .. Len(first) /\ DOMAIN second = 1 .. Len(second)
<1>1. /\ first \in Seq(Keys(1)) /\ second \in Seq(Keys(2)) /\ Len(first) = Cardinality(Keys(1)) /\ Len(first) \in Nat /\ Len(second) \in Nat
      /\ DOMAIN first = 1 .. Len(first) /\ DOMAIN second = 1 .. Len(second)
  BY KeysAre, OrderIs
<1>2. Keys(1) \subseteq Developers /\ Keys(2) \subseteq Developers
  BY KeysAre DEF Developers
<1>3. first \in Seq(Developers) /\ second \in Seq(Developers)
  BY <1>1, <1>2, SeqMonotonic
<1>4. QED BY <1>1, <1>3

IterIs(it) == it = [queues |-> it.queues, at |-> it.at, done |-> it.done, passed |-> it.passed, seen |-> it.seen]

LEMMA BeginsWalking ==
    ASSUME FieldsInv, IterBegins
    PROVE  Walking'
<1>1. FieldsSound /\ pc = "up" /\ pc' = pc /\ fields' = fields
  BY DEF FieldsInv, IterBegins, Ready
<1>2. PICK first \in SetToSeqs(Keys(1)), second \in SetToSeqs(Keys(2)) : iter' = [NoIter EXCEPT !.queues = <<first, second>>, !.at = 1]
  BY <1>1, KeysAre DEF IterBegins
<1>3. iter' = [queues |-> <<first, second>>, at |-> 1, done |-> 0, passed |-> 0, seen |-> <<>>]
  BY <1>2 DEF NoIter
<1>4. /\ iter'.queues = <<first, second>> /\ iter'.at = 1 /\ iter'.done = 0 /\ iter'.passed = 0 /\ iter'.seen = <<>>
      /\ iter'.queues[1] = first /\ iter'.queues[2] = second /\ IterIs(iter')
  BY <1>3 DEF IterIs
<1>5. /\ first \in Seq(Developers) /\ second \in Seq(Developers) /\ Len(first) \in Nat /\ Len(second) \in Nat
  BY <1>1, OrdersAre
<1>6. Rest(first, first, 0) /\ Rest(second, second, 0)
  BY <1>5 DEF Rest
<1>7. <<>> \in Seq([i : Nat, key : Developers]) /\ Len(<<>>) = 0
  BY EmptySeq
<1>8. Walks(iter', first, second)
  BY <1>4, <1>5, <1>6, <1>7 DEF Walks
<1>9. Keys(1)' = Keys(1) /\ Keys(2)' = Keys(2)
  BY <1>1 DEF Keys
<1>10. QED BY <1>1, <1>4, <1>8, <1>9 DEF Walking, IterIs

LEMMA PairLength ==
    ASSUME NEW pair, NEW a, NEW b, pair = <<a, b>>
    PROVE  Len(pair) = 2
OBVIOUS

(* Going on to the second map, and to the next key.                        *)
LEMMA ContinueWalks ==
    ASSUME FieldsSound, NEW first \in SetToSeqs(Keys(1)), NEW second \in SetToSeqs(Keys(2)), Walks(iter, first, second), IterIs(iter)
    PROVE  Walks(Continue, first, second) /\ IterIs(Continue)
<1> DEFINE moved == [iter EXCEPT !.at = @ + 1, !.done = @ + Length(iter.at), !.passed = 0]
<1>1. CASE ~(~Has(iter.at) /\ iter.at < Len(iter.queues) /\ Has(iter.at + 1))
  <2>1. Continue = iter
    BY <1>1 DEF Continue
  <2>2. QED BY <2>1
<1>2. CASE ~Has(iter.at) /\ iter.at < Len(iter.queues) /\ Has(iter.at + 1)
  <2>1. Continue = moved
    BY <1>2 DEF Continue
  <2>2. Len(iter.queues) = 2
    <3>1. iter.queues = <<iter.queues[1], iter.queues[2]>>
      BY DEF Walks
    <3>2. QED BY <3>1, PairLength
  <2>3. /\ iter.at = 1 /\ iter.done = 0 /\ Rest(iter.queues[1], first, iter.passed) /\ Rest(iter.queues[2], second, 0)
    BY <1>2, <2>2 DEF Walks
  <2>4. iter.queues[1] = <<>>
    BY <1>2, <2>3 DEF Has
  <2>5. Length(1) = Len(first) /\ Len(first) \in Nat /\ Len(second) \in Nat
    BY OrdersAre, KeysAre DEF Length
  <2>6. iter.passed = Len(first)
    <3>1. Len(iter.queues[1]) = Len(first) - iter.passed /\ iter.passed \in Nat /\ Len(iter.queues[1]) = 0
      BY <2>3, <2>4 DEF Rest, Walks
    <3>2. QED BY <2>5, <3>1
  <2>7. moved = [queues |-> iter.queues, at |-> 2, done |-> Len(first), passed |-> 0, seen |-> iter.seen]
    <3>1. iter = [queues |-> iter.queues, at |-> 1, done |-> 0, passed |-> iter.passed, seen |-> iter.seen]
      BY <2>3 DEF IterIs
    <3>2. iter.at + 1 = 2 /\ iter.done + Length(iter.at) = Len(first)
      BY <2>3, <2>5
    <3> DEFINE later == iter.at + 1
               before == iter.done + Length(iter.at)
    <3>3. moved = [iter EXCEPT !.at = later, !.done = before, !.passed = 0]
      OBVIOUS
    <3>4. later = 2 /\ before = Len(first)
      BY <3>2
    <3> HIDE DEF later, before, moved
    <3>5. QED BY ONLY <3>1, <3>3, <3>4
  <2> HIDE DEF moved
  <2>8. moved.queues = iter.queues /\ moved.at = 2 /\ moved.done = Len(first) /\ moved.passed = 0 /\ moved.seen = iter.seen
        /\ IterIs(moved)
    BY <2>7 DEF IterIs
  <2>9. Len(iter.seen) = Len(first) + 0
    BY <2>3, <2>5, <2>6 DEF Walks
  <2>10. Walks(moved, first, second)
    <3>1. /\ iter.queues = <<iter.queues[1], iter.queues[2]>>
          /\ iter.queues[1] \in Seq(Developers) /\ iter.queues[2] \in Seq(Developers) /\ iter.seen \in Seq([i : Nat, key : Developers])
          /\ \A k \in 1 .. Len(iter.seen) :
               /\ iter.seen[k].i = k - 1
               /\ iter.seen[k].key = IF k <= Len(first) THEN first[k] ELSE second[k - Len(first)]
      BY DEF Walks
    <3>2. moved.passed \in Nat /\ moved.at = 2 /\ moved.done = Len(first) /\ moved.queues[1] = <<>> /\ Rest(moved.queues[2], second, moved.passed)
      BY <2>3, <2>4, <2>8
    <3>3. Len(moved.seen) = moved.done + moved.passed
      BY <2>8, <2>9
    <3>4. /\ moved.queues = <<moved.queues[1], moved.queues[2]>>
          /\ moved.queues[1] \in Seq(Developers) /\ moved.queues[2] \in Seq(Developers) /\ moved.seen \in Seq([i : Nat, key : Developers])
          /\ \A k \in 1 .. Len(moved.seen) :
               /\ moved.seen[k].i = k - 1
               /\ moved.seen[k].key = IF k <= Len(first) THEN first[k] ELSE second[k - Len(first)]
      BY <2>8, <3>1
    <3>5. QED BY <3>2, <3>3, <3>4 DEF Walks
  <2>11. QED BY <2>1, <2>8, <2>10
<1>3. QED BY <1>1, <1>2

LEMMA RestPasses ==
    ASSUME NEW queue \in Seq(Developers), queue # <<>>, NEW order, Len(order) \in Nat, NEW from \in Nat, Rest(queue, order, from)
    PROVE  /\ from + 1 \in 1 .. Len(order) /\ Head(queue) = order[from + 1] /\ Head(queue) \in Developers
           /\ Tail(queue) \in Seq(Developers) /\ Rest(Tail(queue), order, from + 1)
<1>1. Len(queue) \in Nat /\ Len(queue) # 0
  BY EmptySeq, LenProperties
<1>2. Len(queue) = Len(order) - from /\ \A i \in 1 .. Len(order) - from : queue[i] = order[from + i]
  BY DEF Rest
<1>3. from + 1 \in 1 .. Len(order) /\ 1 \in 1 .. Len(order) - from
  BY <1>1, <1>2
<1>4. Head(queue) = queue[1] /\ Head(queue) \in Developers /\ Tail(queue) \in Seq(Developers) /\ Len(Tail(queue)) = Len(queue) - 1
      /\ \A i \in 1 .. Len(Tail(queue)) : Tail(queue)[i] = queue[i + 1]
  BY HeadTailProperties
<1>5. Head(queue) = order[from + 1]
  BY <1>2, <1>3, <1>4
<1>6. Len(Tail(queue)) = Len(order) - (from + 1)
  BY <1>1, <1>2, <1>4
<1>7. ASSUME NEW i \in 1 .. Len(order) - (from + 1) PROVE Tail(queue)[i] = order[from + 1 + i]
  <2>1. i + 1 \in 1 .. Len(order) - from /\ i \in 1 .. Len(Tail(queue)) /\ from + (i + 1) = from + 1 + i
    BY <1>6
  <2>2. QED BY <1>2, <1>4, <2>1
<1>8. QED BY <1>3, <1>4, <1>5, <1>6, <1>7 DEF Rest

(* What has been seen, with one more.                                      *)
Seen(seen, first, second) ==
    /\ seen \in Seq([i : Nat, key : Developers])
    /\ \A k \in 1 .. Len(seen) :
         /\ seen[k].i = k - 1
         /\ seen[k].key = IF k <= Len(first) THEN first[k] ELSE second[k - Len(first)]

LEMMA SeenGrows ==
    ASSUME NEW seen, NEW first, NEW second, Seen(seen, first, second), NEW n \in Nat, Len(seen) = n, NEW key \in Developers,
           key = IF n + 1 <= Len(first) THEN first[n + 1] ELSE second[n + 1 - Len(first)]
    PROVE  Seen(Append(seen, [i |-> n, key |-> key]), first, second) /\ Len(Append(seen, [i |-> n, key |-> key])) = n + 1
<1> DEFINE R == [i : Nat, key : Developers]
           r == [i |-> n, key |-> key]
<1>1. r \in R /\ r.i = n /\ r.key = key
  OBVIOUS
<1>2. seen \in Seq(R)
  BY DEF Seen
<1> HIDE DEF R, r
<1>3. /\ Append(seen, r) \in Seq(R) /\ Len(Append(seen, r)) = n + 1
      /\ \A k \in 1 .. n : Append(seen, r)[k] = seen[k]
      /\ Append(seen, r)[n + 1] = r
  BY <1>1, <1>2, AppendProperties
<1>4. ASSUME NEW k \in 1 .. n + 1
      PROVE  /\ Append(seen, r)[k].i = k - 1
             /\ Append(seen, r)[k].key = IF k <= Len(first) THEN first[k] ELSE second[k - Len(first)]
  <2>1. CASE k = n + 1
    <3>1. Append(seen, r)[k].i = n /\ Append(seen, r)[k].key = key /\ k - 1 = n
      BY <1>1, <1>3, <2>1
    <3>2. QED BY <2>1, <3>1
  <2>2. CASE k # n + 1
    <3>1. k \in 1 .. n
      BY <2>2
    <3>2. Append(seen, r)[k] = seen[k]
      BY <1>3, <3>1
    <3>3. seen[k].i = k - 1 /\ seen[k].key = IF k <= Len(first) THEN first[k] ELSE second[k - Len(first)]
      BY <3>1 DEF Seen
    <3>4. QED BY <3>2, <3>3
  <2>3. QED BY <2>1, <2>2
<1>5. Seen(Append(seen, r), first, second)
  BY <1>3, <1>4 DEF Seen, R
<1>6. QED BY <1>3, <1>5 DEF r

Advanced(it) ==
    [it EXCEPT !.queues[it.at] = Tail(@), !.passed = @ + 1,
               !.seen = Append(@, [i |-> it.done + it.passed, key |-> Head(it.queues[it.at])])]

LEMMA Advances ==
    ASSUME NEW it, IterIs(it), NEW k, NEW queue, NEW passed, NEW seen
    PROVE  [it EXCEPT !.queues[k] = queue, !.passed = passed, !.seen = seen]
             = [queues |-> [it.queues EXCEPT ![k] = queue], at |-> it.at, done |-> it.done, passed |-> passed, seen |-> seen]
<1> DEFINE queues == [it.queues EXCEPT ![k] = queue]
           r == [it EXCEPT !.queues = queues, !.passed = passed, !.seen = seen]
<1>1. [it EXCEPT !.queues[k] = queue, !.passed = passed, !.seen = seen] = r
  OBVIOUS
<1>2. DOMAIN it = {"queues", "at", "done", "passed", "seen"}
  BY DEF IterIs
<1> HIDE DEF queues
<1>3. DOMAIN r = {"queues", "at", "done", "passed", "seen"}
  BY ONLY <1>2
<1>4. r.queues = queues /\ r.at = it.at /\ r.done = it.done /\ r.passed = passed /\ r.seen = seen
  BY ONLY <1>2
<1>5. r = [f \in DOMAIN r |-> r[f]]
  BY ONLY <1>2
<1> HIDE DEF r
<1>6. r = [queues |-> r.queues, at |-> r.at, done |-> r.done, passed |-> r.passed, seen |-> r.seen]
  BY <1>3, <1>5
<1>7. r = [queues |-> queues, at |-> it.at, done |-> it.done, passed |-> passed, seen |-> seen]
  BY <1>4, <1>6
<1>8. QED BY <1>1, <1>7 DEF queues

LEMMA AdvancedIs ==
    ASSUME NEW it, IterIs(it)
    PROVE  Advanced(it) = [queues |-> [it.queues EXCEPT ![it.at] = Tail(@)], at |-> it.at, done |-> it.done, passed |-> it.passed + 1,
                           seen |-> Append(it.seen, [i |-> it.done + it.passed, key |-> Head(it.queues[it.at])])]
<1> DEFINE queue == Tail(it.queues[it.at])
           passed == it.passed + 1
           seen == Append(it.seen, [i |-> it.done + it.passed, key |-> Head(it.queues[it.at])])
<1>1. Advanced(it) = [it EXCEPT !.queues[it.at] = queue, !.passed = passed, !.seen = seen]
  BY DEF Advanced
<1> HIDE DEF queue, passed, seen
<1>2. Advanced(it) = [queues |-> [it.queues EXCEPT ![it.at] = queue], at |-> it.at, done |-> it.done, passed |-> passed, seen |-> seen]
  BY <1>1, Advances
<1>3. QED BY <1>2 DEF queue, passed, seen

LEMMA PairUpdate ==
    ASSUME NEW pair, NEW a, NEW b, pair = <<a, b>>, NEW x
    PROVE  [pair EXCEPT ![1] = x] = <<x, b>> /\ [pair EXCEPT ![2] = x] = <<a, x>>
OBVIOUS

LEMMA AdvancedWalks ==
    ASSUME NEW it, NEW first, NEW second, Len(first) \in Nat, Len(second) \in Nat, Walks(it, first, second), IterIs(it), it.queues[it.at] # <<>>
    PROVE  Walks(Advanced(it), first, second) /\ IterIs(Advanced(it))
<1> DEFINE n == it.done + it.passed
           key == Head(it.queues[it.at])
           queue == Tail(it.queues[it.at])
           queues == [it.queues EXCEPT ![it.at] = queue]
           seen == Append(it.seen, [i |-> n, key |-> key])
           after == Advanced(it)
<1>1. after = [queues |-> queues, at |-> it.at, done |-> it.done, passed |-> it.passed + 1, seen |-> seen]
  BY AdvancedIs
<1>2. /\ after.queues = queues /\ after.at = it.at /\ after.done = it.done /\ after.passed = it.passed + 1 /\ after.seen = seen
      /\ IterIs(after)
  <2> HIDE DEF queues, seen, after
  <2>1. QED BY <1>1 DEF IterIs
<1>3. /\ it.queues = <<it.queues[1], it.queues[2]>> /\ it.passed \in Nat
      /\ it.queues[1] \in Seq(Developers) /\ it.queues[2] \in Seq(Developers)
      /\ Len(it.seen) = n /\ Seen(it.seen, first, second)
  BY DEF Walks, Seen
<1>4. n \in Nat /\ it.done \in Nat
  <2>1. it.done = 0 \/ it.done = Len(first)
    BY DEF Walks
  <2>2. it.done \in Nat
    BY <2>1
  <2>3. QED BY <1>3, <2>2
<1>5. ASSUME key \in Developers, key = IF n + 1 <= Len(first) THEN first[n + 1] ELSE second[n + 1 - Len(first)]
      PROVE  Seen(seen, first, second) /\ Len(seen) = n + 1
  <2> HIDE DEF n, key
  <2>1. QED BY <1>3, <1>4, <1>5, SeenGrows
<1>6. ASSUME Seen(seen, first, second) /\ Len(seen) = n + 1,
             queues = <<queues[1], queues[2]>>, queues[1] \in Seq(Developers), queues[2] \in Seq(Developers),
             \/ it.at = 1 /\ it.done = 0 /\ Rest(queues[1], first, it.passed + 1) /\ Rest(queues[2], second, 0)
             \/ it.at = 2 /\ it.done = Len(first) /\ queues[1] = <<>> /\ Rest(queues[2], second, it.passed + 1)
      PROVE  Walks(after, first, second)
  <2>1. Len(seen) = it.done + (it.passed + 1) /\ it.passed + 1 \in Nat
    <3> HIDE DEF queues, seen, after, key, queue
    <3>1. QED BY <1>3, <1>4, <1>6
  <2> HIDE DEF queues, seen, after, n, key, queue
  <2>2. QED BY <1>2, <1>6, <2>1 DEF Walks, Seen
<1>7. CASE it.at = 1
  <2>1. it.done = 0 /\ Rest(it.queues[1], first, it.passed) /\ Rest(it.queues[2], second, 0) /\ it.queues[1] # <<>>
    BY <1>7 DEF Walks
  <2>2. /\ it.passed + 1 \in 1 .. Len(first) /\ key = first[it.passed + 1] /\ key \in Developers
        /\ queue \in Seq(Developers) /\ Rest(queue, first, it.passed + 1)
    BY <1>3, <1>7, <2>1, RestPasses
  <2>3. queues = <<queue, it.queues[2]>>
    <3> HIDE DEF queue
    <3>1. [it.queues EXCEPT ![1] = queue] = <<queue, it.queues[2]>>
      BY <1>3, PairUpdate
    <3>2. QED BY <1>7, <3>1
  <2>4. queues[1] = queue /\ queues[2] = it.queues[2] /\ queues = <<queues[1], queues[2]>>
    <3> HIDE DEF queues
    <3>1. QED BY <2>3
  <2>5. n = it.passed /\ n + 1 <= Len(first)
    BY <1>3, <2>1, <2>2
  <2>6. Seen(seen, first, second) /\ Len(seen) = n + 1
    <3>1. key = IF n + 1 <= Len(first) THEN first[n + 1] ELSE second[n + 1 - Len(first)]
      BY <2>2, <2>5
    <3>2. QED BY <1>5, <2>2, <3>1
  <2>7. Walks(after, first, second)
    <3> HIDE DEF queues, seen, after, n, key, queue
    <3>1. QED BY <1>3, <1>6, <1>7, <2>1, <2>2, <2>4, <2>6
  <2>8. QED BY <1>2, <2>7
<1>8. CASE it.at = 2
  <2>1. it.done = Len(first) /\ it.queues[1] = <<>> /\ Rest(it.queues[2], second, it.passed) /\ it.queues[2] # <<>>
    BY <1>8 DEF Walks
  <2>2. /\ it.passed + 1 \in 1 .. Len(second) /\ key = second[it.passed + 1] /\ key \in Developers
        /\ queue \in Seq(Developers) /\ Rest(queue, second, it.passed + 1)
    BY <1>3, <1>8, <2>1, RestPasses
  <2>3. queues = <<it.queues[1], queue>>
    <3> HIDE DEF queue
    <3>1. [it.queues EXCEPT ![2] = queue] = <<it.queues[1], queue>>
      BY <1>3, PairUpdate
    <3>2. QED BY <1>8, <3>1
  <2>4. queues[1] = it.queues[1] /\ queues[2] = queue /\ queues = <<queues[1], queues[2]>>
    <3> HIDE DEF queues
    <3>1. QED BY <2>3
  <2>5. n + 1 - Len(first) = it.passed + 1 /\ ~(n + 1 <= Len(first))
    BY <1>3, <2>1, <2>2
  <2>6. Seen(seen, first, second) /\ Len(seen) = n + 1
    <3>1. key = IF n + 1 <= Len(first) THEN first[n + 1] ELSE second[n + 1 - Len(first)]
      BY <2>2, <2>5
    <3>2. QED BY <1>5, <2>2, <3>1
  <2>7. Walks(after, first, second)
    <3> HIDE DEF queues, seen, after, n, key, queue
    <3>1. QED BY <1>3, <1>6, <1>8, <2>1, <2>2, <2>4, <2>6
  <2>8. QED BY <1>2, <2>7
<1>9. QED BY <1>7, <1>8 DEF Walks

LEMMA NextWalking ==
    ASSUME FieldsInv, Walking, IterNext
    PROVE  Walking'
<1>1. FieldsSound /\ pc = "up" /\ iter # NoIter /\ pc' = pc /\ fields' = fields
  BY DEF FieldsInv, IterNext
<1>2. IterIs(iter) /\ \E first \in SetToSeqs(Keys(1)), second \in SetToSeqs(Keys(2)) : Walks(iter, first, second)
  BY <1>1 DEF Walking, IterIs
<1>3. PICK first \in SetToSeqs(Keys(1)) : \E second \in SetToSeqs(Keys(2)) : Walks(iter, first, second)
  BY <1>2
<1>4. PICK second \in SetToSeqs(Keys(2)) : Walks(iter, first, second)
  BY <1>3
<1>5. Walks(Continue, first, second) /\ IterIs(Continue)
  BY <1>1, <1>2, <1>4, ContinueWalks
<1>6. Continue.queues[Continue.at] # <<>> /\ iter' = Advanced(Continue)
  BY DEF IterNext, Advanced
<1>7. Len(first) \in Nat /\ Len(second) \in Nat
  BY <1>1, OrdersAre
<1>8. Walks(iter', first, second) /\ IterIs(iter')
  BY <1>5, <1>6, <1>7, AdvancedWalks
<1>9. Keys(1)' = Keys(1) /\ Keys(2)' = Keys(2)
  BY <1>1 DEF Keys
<1>10. QED BY <1>1, <1>8, <1>9 DEF Walking, IterIs

LEMMA NotWalking ==
    ASSUME iter' = NoIter
    PROVE  Walking'
BY DEF Walking

LEMMA WalkingStep ==
    ASSUME FieldsInv, Walking, [FieldsNext]_fieldsVars
    PROVE  Walking'
<1>1. CASE UNCHANGED fieldsVars
  <2>1. iter' = iter /\ pc' = pc /\ fields' = fields /\ Keys(1)' = Keys(1) /\ Keys(2)' = Keys(2)
    BY <1>1 DEF fieldsVars, Keys
  <2>2. QED BY <2>1 DEF Walking
<1>2. ASSUME NEW f \in Maps, NEW d \in Users(f), AddToMap(f, d) PROVE Walking'
  BY <1>2, NotWalking DEF AddToMap, Adding, Ready
<1>3. CASE AddGame
  BY <1>3, NotWalking DEF AddGame, Adding, Ready
<1>4. ASSUME NEW d \in Developers, AddDeleted(d) \/ AddDeveloper(d) PROVE Walking'
  BY <1>4, NotWalking DEF AddDeleted, AddDeveloper, Adding, Ready, Down
<1>5. CASE SetScalar
  BY <1>5, NotWalking DEF SetScalar, Adding, Ready
<1>6. ASSUME NEW t \in {"T", "R"}, SetToEnable(t) PROVE Walking'
  BY <1>6, NotWalking DEF SetToEnable, Adding, Ready
<1>7. CASE StateInMemory \/ MergeIterableCachedFields
  BY <1>7, NotWalking DEF StateInMemory, MergeIterableCachedFields, Ready
<1>8. CASE SaveFields \/ RemoveInterrupted \/ WriteInterrupted
  BY <1>8, NotWalking DEF SaveFields, RemoveInterrupted, WriteInterrupted, Ready, Up, Down
<1>9. CASE ProcessCrash \/ IterEnds
  BY <1>9, NotWalking DEF ProcessCrash, IterEnds, Down
<1>10. CASE Load
  <2>1. iter' = iter /\ pc = "down"
    BY <1>10 DEF Load
  <2>2. iter = NoIter
    BY <2>1 DEF Walking
  <2>3. QED BY <2>1, <2>2, NotWalking
<1>11. CASE IterBegins \/ IterNext
  BY <1>11, BeginsWalking, NextWalking
<1>12. QED BY <1>1, <1>2, <1>3, <1>4, <1>5, <1>6, <1>7, <1>8, <1>9, <1>10, <1>11 DEF FieldsNext

LEMMA WalksToTheEnd ==
    ASSUME FieldsSound, NEW first \in SetToSeqs(Keys(1)), NEW second \in SetToSeqs(Keys(2)), Walks(iter, first, second),
           Continue = iter, IterIs(iter), ~Has(iter.at)
    PROVE  Len(iter.seen) = Len(first) + Len(second)
<1>1. Len(first) \in Nat /\ Len(second) \in Nat
  BY OrdersAre
<1>2. Len(<<>>) = 0 /\ iter.passed \in Nat /\ Len(iter.seen) = iter.done + iter.passed /\ iter.queues[iter.at] = <<>>
  BY DEF Has, Walks
<1>3. CASE iter.at = 1
  <2>1. iter.done = 0 /\ Rest(iter.queues[1], first, iter.passed) /\ Rest(iter.queues[2], second, 0) /\ iter.queues[1] = <<>>
    BY <1>2, <1>3 DEF Walks
  <2>2. Len(iter.queues) = 2
    <3>1. iter.queues = <<iter.queues[1], iter.queues[2]>>
      BY DEF Walks
    <3>2. QED BY <3>1, PairLength
  <2>3. iter.queues[2] = <<>>
    <3>1. SUFFICES ASSUME Has(2) PROVE FALSE
      BY DEF Has
    <3> DEFINE later == iter.at + 1
               before == iter.done + Length(iter.at)
    <3>2. iter = [iter EXCEPT !.at = later, !.done = before, !.passed = 0]
      BY <1>3, <2>2, <3>1 DEF Continue
    <3>3. later = 2
      BY <1>3
    <3> HIDE DEF later, before
    <3>4. iter = [queues |-> iter.queues, at |-> iter.at, done |-> iter.done, passed |-> iter.passed, seen |-> iter.seen]
      BY DEF IterIs
    <3>5. iter.at = 2
      BY ONLY <3>2, <3>3, <3>4
    <3>6. QED BY <1>3, <3>5
  <2>4. Len(second) = 0 /\ iter.passed = Len(first)
    BY <1>1, <1>2, <2>1, <2>3 DEF Rest
  <2>5. QED BY <1>1, <1>2, <2>1, <2>4
<1>4. CASE iter.at = 2
  <2>1. iter.done = Len(first) /\ Rest(iter.queues[2], second, iter.passed) /\ iter.queues[2] = <<>>
    BY <1>2, <1>4 DEF Walks
  <2>2. iter.passed = Len(second)
    BY <1>1, <1>2, <2>1 DEF Rest
  <2>3. QED BY <1>2, <2>1, <2>2
<1>5. QED BY <1>3, <1>4 DEF Walks

LEMMA AllVisited ==
    ASSUME FieldsInv, Walking
    PROVE  VisitedOnce
<1> SUFFICES ASSUME pc = "up", IterDone
             PROVE  /\ {iter.seen[i].key : i \in DOMAIN iter.seen} = UNION {DOMAIN fields[f] : f \in Snapshots}
                    /\ IsInjective([i \in DOMAIN iter.seen |-> iter.seen[i].key])
                    /\ \A i \in DOMAIN iter.seen : iter.seen[i].i = i - 1
  BY DEF VisitedOnce
<1>1. FieldsSound /\ iter # NoIter /\ Continue = iter /\ ~Has(iter.at)
  BY DEF FieldsInv, IterDone
<1>2. IterIs(iter) /\ \E first \in SetToSeqs(Keys(1)), second \in SetToSeqs(Keys(2)) : Walks(iter, first, second)
  BY <1>1 DEF Walking, IterIs
<1>3. PICK first \in SetToSeqs(Keys(1)) : \E second \in SetToSeqs(Keys(2)) : Walks(iter, first, second)
  BY <1>2
<1>4. PICK second \in SetToSeqs(Keys(2)) : Walks(iter, first, second)
  BY <1>3
<1> DEFINE a == Len(first)
           b == Len(second)
           key(k) == IF k <= a THEN first[k] ELSE second[k - a]
<1>5. /\ DOMAIN first = 1 .. a /\ \A i, j \in 1 .. a : first[i] = first[j] => i = j
      /\ \A x \in Keys(1) : \E i \in 1 .. a : first[i] = x
      /\ \A i \in 1 .. a : first[i] \in Keys(1)
  <2>1. /\ first \in Seq(Keys(1)) /\ DOMAIN first = 1 .. a /\ \A i, j \in DOMAIN first : first[i] = first[j] => i = j
        /\ \A x \in Keys(1) : \E i \in DOMAIN first : first[i] = x
    BY <1>1, KeysAre, OrderIs
  <2>2. QED BY <2>1
<1>6. /\ DOMAIN second = 1 .. b /\ \A i, j \in 1 .. b : second[i] = second[j] => i = j
      /\ \A x \in Keys(2) : \E i \in 1 .. b : second[i] = x
      /\ \A i \in 1 .. b : second[i] \in Keys(2)
  <2>1. /\ second \in Seq(Keys(2)) /\ DOMAIN second = 1 .. b /\ \A i, j \in DOMAIN second : second[i] = second[j] => i = j
        /\ \A x \in Keys(2) : \E i \in DOMAIN second : second[i] = x
    BY <1>1, KeysAre, OrderIs
  <2>2. QED BY <2>1
<1>7. a \in Nat /\ b \in Nat
  BY <1>1, OrdersAre
<1>8. Len(iter.seen) = a + b
  BY <1>1, <1>2, <1>4, WalksToTheEnd
<1>9. DOMAIN iter.seen = 1 .. a + b /\ \A k \in 1 .. a + b : iter.seen[k].i = k - 1 /\ iter.seen[k].key = key(k)
  <2>1. iter.seen \in Seq([i : Nat, key : Developers])
    BY <1>4 DEF Walks
  <2>2. \A k \in 1 .. Len(iter.seen) : iter.seen[k].i = k - 1 /\ iter.seen[k].key = key(k)
    BY <1>4 DEF Walks
  <2> HIDE DEF key
  <2>3. QED BY <1>8, <2>1, <2>2, LenProperties
<1>10. Keys(1) \cap Keys(2) = {}
  BY <1>1, KeysAre, CachedFieldsAssumption DEF CachedFieldsAssumption
<1>11. \A k \in 1 .. a : k \in 1 .. a + b /\ key(k) = first[k]
  BY <1>7
<1>12. \A k \in 1 .. a + b : k \notin 1 .. a => k - a \in 1 .. b /\ key(k) = second[k - a]
  BY <1>7
<1>13. ASSUME NEW k \in 1 .. b PROVE \E j \in 1 .. a + b : j \notin 1 .. a /\ j - a = k
  <2>1. a + k \in 1 .. a + b /\ a + k \notin 1 .. a /\ a + k - a = k
    BY <1>7
  <2>2. QED BY <2>1
<1> HIDE DEF a, b, key
<1>14. \A k \in 1 .. a + b : key(k) \in Keys(1) \cup Keys(2)
  BY <1>5, <1>6, <1>11, <1>12
<1>15. ASSUME NEW x \in Keys(1) \cup Keys(2) PROVE \E k \in 1 .. a + b : key(k) = x
  <2>1. CASE x \in Keys(1)
    BY <1>5, <1>11, <2>1
  <2>2. CASE x \in Keys(2)
    <3>1. PICK k \in 1 .. b : second[k] = x
      BY <1>6, <2>2
    <3>2. PICK j \in 1 .. a + b : j \notin 1 .. a /\ j - a = k
      BY <1>13
    <3>3. key(j) = second[k]
      BY <1>12, <3>2
    <3>4. QED BY <3>1, <3>2, <3>3
  <2>3. QED BY <2>1, <2>2
<1>16. ASSUME NEW j \in 1 .. a + b, NEW k \in 1 .. a + b, key(j) = key(k) PROVE j = k
  <2>1. CASE j \in 1 .. a /\ k \in 1 .. a
    BY <1>5, <1>11, <1>16, <2>1
  <2>2. CASE j \notin 1 .. a /\ k \notin 1 .. a
    <3>1. j - a = k - a
      BY <1>6, <1>12, <1>16, <2>2
    <3>2. QED BY <1>7, <3>1
  <2>3. CASE j \in 1 .. a /\ k \notin 1 .. a
    BY <1>5, <1>6, <1>10, <1>11, <1>12, <1>16, <2>3
  <2>4. CASE j \notin 1 .. a /\ k \in 1 .. a
    BY <1>5, <1>6, <1>10, <1>11, <1>12, <1>16, <2>4
  <2>5. QED BY <2>1, <2>2, <2>3, <2>4
<1>17. UNION {DOMAIN fields[f] : f \in Snapshots} = Keys(1) \cup Keys(2)
  BY <1>1, KeysAre DEF Snapshots
<1>18. {iter.seen[i].key : i \in DOMAIN iter.seen} = Keys(1) \cup Keys(2)
  BY <1>9, <1>14, <1>15
<1>19. IsInjective([i \in DOMAIN iter.seen |-> iter.seen[i].key])
  <2> DEFINE keys == [i \in DOMAIN iter.seen |-> iter.seen[i].key]
  <2>1. DOMAIN keys = 1 .. a + b /\ \A i \in 1 .. a + b : keys[i] = key(i)
    BY <1>9
  <2> HIDE DEF keys
  <2>2. \A i, j \in DOMAIN keys : keys[i] = keys[j] => i = j
    BY <1>16, <2>1
  <2>3. IsInjective(keys)
    BY <2>2 DEF IsInjective
  <2>4. QED BY <2>3 DEF keys
<1>20. QED BY <1>9, <1>17, <1>18, <1>19

(* Walking both maps of snapshots, with each iterator's keys in any order, *)
(* gives every key once and numbers them from 0 (cached_fields.go:102),    *)
(* which is what the Snapshot phase relies on.                             *)
THEOREM IteratorVisitsAllOnce == FieldsSpec => []VisitedOnce
<1>1. FieldsInit => FieldsInv /\ Walking
  BY InitStep
<1>2. FieldsInv /\ Walking /\ [FieldsNext]_fieldsVars => (FieldsInv /\ Walking)'
  BY FieldsStep, WalkingStep
<1>3. FieldsInv /\ Walking => VisitedOnce
  BY AllVisited
<1>4. QED BY <1>1, <1>2, <1>3, PTL DEF FieldsSpec
=============================================================================
