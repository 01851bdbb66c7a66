------------------------- MODULE UpdatePhase_proofs -------------------------
(***************************************************************************)
(* Proofs about UpdatePhase, for any sets of developers and workers and    *)
(* any configuration: first the pipeline (CoreInv: what each goroutine     *)
(* knows of the others), then the state in memory and on disk (IInv: that  *)
(* what is to be merged has not been merged, in whatever is loaded), and   *)
(* at last that each step is one of the ledger's or leaves it alone.       *)
(***************************************************************************)
EXTENDS UpdatePhase, FiniteSetTheorems, SequenceTheorems, TLAPS

-----------------------------------------------------------------------------
(* Facts about the constants and the operators.                            *)

(* There are finitely many developers, and any of them can be counted.     *)
LEMMA DevsFinite ==
    /\ IsFiniteSet(Dev)
    /\ \A S \in SUBSET Dev : IsFiniteSet(S) /\ Cardinality(S) \in Nat
<1>1. IsFiniteSet(Dev)
  BY DevAssumption, FS_Union DEF Dev
<1>2. ASSUME NEW S \in SUBSET Dev
      PROVE  IsFiniteSet(S) /\ Cardinality(S) \in Nat
  BY <1>1, FS_Subset, FS_CardinalityType
<1> QED
  BY <1>1, <1>2

(* A window is a natural number, and so is what a producer is left with.   *)
LEMMA WindowsAreNat ==
    ASSUME NEW p \in Producers, NEW n \in Nat
    PROVE  /\ FirstWindows(p, n) \subseteq Nat
           /\ NextWindows(p, n) \subseteq Nat
  BY ConfigAssumption DEF FirstWindows, NextWindows, Smaller

LEMMA DevsByType ==
    /\ \A p \in Producers : Devs(p) \subseteq Dev
    /\ \A d \in Dev : \E p \in Producers : d \in Devs(p)
    /\ \A p, q \in Producers : p # q => Devs(p) \cap Devs(q) = {}
  BY DevAssumption DEF Dev, Devs, Producers

(* Appending a developer adds it to those listed.                          *)
LEMMA RangeAppend ==
    ASSUME NEW s \in Seq(Dev), NEW d \in Dev
    PROVE  /\ Append(s, d) \in Seq(Dev)
           /\ Len(Append(s, d)) = Len(s) + 1
           /\ Range(Append(s, d)) = Range(s) \cup {d}
<1> DEFINE t == Append(s, d)
<1>1. /\ t \in Seq(Dev) /\ Len(t) = Len(s) + 1
      /\ \A i \in 1 .. Len(s) : t[i] = s[i]
      /\ t[Len(s) + 1] = d
      /\ Len(s) \in Nat
  BY AppendProperties, LenProperties
<1>2. DOMAIN t = 1 .. Len(s) + 1 /\ DOMAIN s = 1 .. Len(s)
  BY <1>1, LenProperties
<1> HIDE DEF t
<1>3. Range(t) \subseteq Range(s) \cup {d}
  BY <1>1, <1>2 DEF Range
<1>4. Range(s) \subseteq Range(t) /\ d \in Range(t)
  BY <1>1, <1>2 DEF Range
<1> QED
  BY <1>1, <1>3, <1>4 DEF t

(* What the consumer does to the state, field by field.                    *)
LEMMA TimesMerged ==
    ASSUME NEW s \in ScoutState, NEW d \in Dev
    PROVE  LET t == [s EXCEPT !.times = @ \cup {d}]
           IN  /\ t \in ScoutState
               /\ t.times = s.times \cup {d} /\ t.snaps = s.snaps
               /\ t.updated = s.updated /\ t.developers = s.developers
  BY DEF ScoutState

LEMMA SnapsMerged ==
    ASSUME NEW s \in ScoutState, NEW d \in Dev
    PROVE  LET t == [s EXCEPT !.snaps[d] = @ + 1]
           IN  /\ t \in ScoutState
               /\ t.times = s.times /\ t.snaps = [s.snaps EXCEPT ![d] = @ + 1]
               /\ t.updated = s.updated /\ t.developers = s.developers
<1>1. s.snaps[d] + 1 \in Nat
  BY DEF ScoutState
<1>2. [s.snaps EXCEPT ![d] = @ + 1] \in [Dev -> Nat]
  BY <1>1 DEF ScoutState
<1> QED
  BY <1>2 DEF ScoutState

LEMMA DeveloperListed ==
    ASSUME NEW s \in ScoutState, NEW d \in Dev
    PROVE  LET t == [s EXCEPT !.updated = Append(@, d)]
           IN  /\ t \in ScoutState
               /\ t.times = s.times /\ t.snaps = s.snaps
               /\ t.updated = Append(s.updated, d) /\ t.developers = s.developers
<1>1. Append(s.updated, d) \in Seq(Dev)
  BY RangeAppend DEF ScoutState
<1> QED
  BY <1>1 DEF ScoutState

LEMMA DeveloperCounted ==
    ASSUME NEW s \in ScoutState
    PROVE  LET t == [s EXCEPT !.developers = @ + 1]
           IN  /\ t \in ScoutState
               /\ t.times = s.times /\ t.snaps = s.snaps
               /\ t.updated = s.updated /\ t.developers = s.developers + 1
<1>1. s.developers + 1 \in Nat
  BY DEF ScoutState
<1> QED
  BY <1>1 DEF ScoutState

LEMMA BlankState == Blank \in ScoutState
  BY DEF Blank, ScoutState

-----------------------------------------------------------------------------
(* Types, and what the consumer holds.                                     *)

LEMMA InitTypeOK == Init => TypeOK
<1> SUFFICES ASSUME Init PROVE TypeOK
  OBVIOUS
<1>1. Discovered \subseteq Dev
  BY DevAssumption
<1>2. mem \in ScoutState
  BY <1>1 DEF Init, ScoutState
<1> QED
  BY <1>2, BlankState, ConfigAssumption
  DEF Init, TypeOK, NoPipeline, MainSteps, Joining, Producers, Parts

LEMMA NextTypeOK == TypeOK /\ ConsumerHolds /\ [Next]_vars => TypeOK'
<1> SUFFICES ASSUME TypeOK, ConsumerHolds, [Next]_vars PROVE TypeOK'
  OBVIOUS
<1> USE DEF vars, pipeVars, prodVars, chanVars, workVars, consVars, procVars, timeoutVars
<1>0. CASE UNCHANGED vars
  BY <1>0 DEF TypeOK
<1>a. ASSUME ProcessEnds, UNCHANGED <<mem, disk, faults>> PROVE TypeOK'
  BY <1>a, BlankState, ConfigAssumption DEF TypeOK, ProcessEnds, MainSteps, Parts
<1>1. CASE Main
  <2>1. CASE QueryError
    BY <2>1 DEF TypeOK, QueryError, MainSteps
  <2>2. CASE RefusePhase
    BY <2>2 DEF TypeOK, RefusePhase, MainSteps
  <2>3. CASE BudgetPanics
    BY <2>3, <1>a DEF BudgetPanics
  <2>4. CASE NothingToUpdate
    BY <2>4 DEF TypeOK, NothingToUpdate, MainSteps, Unscraped
  <2>5. CASE StartPipeline
    <3>a. PICK F \in Fetched("twitter"), R \in Fetched("reddit"), batch \in BOOLEAN :
            \E T \in Affordable(F, R) :
              /\ unqueued' = [p \in Producers |-> IF p = "twitter" THEN T ELSE R]
              /\ skipped' = Unscraped \ (T \cup R)
              /\ batched' = [p \in Producers |-> p = "twitter" => batch]
              /\ \E t \in IF batch THEN FirstWindows("twitter", Cardinality(T))
                                   ELSE {Cardinality(T)},
                    r \in FirstWindows("reddit", Cardinality(R)) :
                   window' = [p \in Producers |-> IF p = "twitter" THEN t ELSE r]
      BY <2>5 DEF StartPipeline
    <3>b. PICK T \in Affordable(F, R) :
            /\ unqueued' = [p \in Producers |-> IF p = "twitter" THEN T ELSE R]
            /\ skipped' = Unscraped \ (T \cup R)
            /\ batched' = [p \in Producers |-> p = "twitter" => batch]
            /\ \E t \in IF batch THEN FirstWindows("twitter", Cardinality(T))
                                 ELSE {Cardinality(T)},
                  r \in FirstWindows("reddit", Cardinality(R)) :
                 window' = [p \in Producers |-> IF p = "twitter" THEN t ELSE r]
      BY <3>a
    <3>1. PICK t \in IF batch THEN FirstWindows("twitter", Cardinality(T))
                              ELSE {Cardinality(T)},
               r \in FirstWindows("reddit", Cardinality(R)) :
            window' = [p \in Producers |-> IF p = "twitter" THEN t ELSE r]
      BY <3>b
    <3>2. T \subseteq Dev /\ R \subseteq Dev
      BY DEF Fetched, Affordable, Unscraped
    <3>3. t \in Nat /\ r \in Nat
      BY <3>2, DevsFinite, WindowsAreNat DEF Producers
    <3> QED
      BY <2>5, <3>b, <3>1, <3>2, <3>3 DEF TypeOK, StartPipeline, MainSteps, Joining, Unscraped
  <2>6. CASE JoinTwitter
    BY <2>6 DEF TypeOK, JoinTwitter, JoinProducer, MainSteps, Joining
  <2>7. CASE JoinReddit
    BY <2>7 DEF TypeOK, JoinReddit, JoinProducer, MainSteps, Joining
  <2>8. CASE JoinWorkers
    BY <2>8 DEF TypeOK, JoinWorkers, MainSteps, Joining
  <2>9. CASE JoinConsumer
    BY <2>9 DEF TypeOK, JoinConsumer, MainSteps
  <2> QED
    BY <1>1, <2>1, <2>2, <2>3, <2>4, <2>5, <2>6, <2>7, <2>8, <2>9 DEF Main
<1>2. ASSUME NEW p \in Producers, Producer(p) PROVE TypeOK'
  <2>1. CASE ProducerFinished(p)
    BY <2>1 DEF TypeOK, ProducerFinished
  <2>2. CASE SliceOutOfRange(p)
    BY <2>2, <1>a DEF SliceOutOfRange
  <2>3. CASE SliceInRange(p)
    BY <2>3 DEF TypeOK, SliceInRange
  <2>4. CASE QueueJob(p)
    BY <2>4 DEF TypeOK, QueueJob
  <2>5. CASE TickOff(p)
    BY <2>5, ConfigAssumption DEF TypeOK, TickOff
  <2>6. CASE TimeOut(p)
    BY <2>6, ConfigAssumption DEF TypeOK, TimeOut, Smaller
  <2>7. CASE NextBatch(p)
    <3>1. Cardinality(unqueued[p]) \in Nat
      BY DevsFinite DEF TypeOK
    <3>2. NextWindows(p, Cardinality(unqueued[p])) \subseteq Nat
      BY <3>1, WindowsAreNat
    <3> QED
      BY <2>7, <3>2, ConfigAssumption DEF TypeOK, NextBatch
  <2> QED
    BY <1>2, <2>1, <2>2, <2>3, <2>4, <2>5, <2>6, <2>7 DEF Producer
<1>3. ASSUME NEW w \in Workers, Worker(w) PROVE TypeOK'
  <2>1. CASE TakeJob(w)
    BY <2>1 DEF TypeOK, TakeJob
  <2>2. CASE SendResult(w)
    BY <2>2, ConfigAssumption DEF TypeOK, SendResult, Answers, Result
  <2>3. CASE WorkerReturns(w)
    BY <2>3 DEF TypeOK, WorkerReturns
  <2> QED
    BY <1>3, <2>1, <2>2, <2>3 DEF Worker
<1>4. CASE Consumer
  <2>1. CASE ConsumeError
    BY <2>1, DevsByType DEF TypeOK, ConsumeError, Notify, Result
  <2>2. CASE ConsumeResult
    BY <2>2 DEF TypeOK, ConsumeResult, Result
  <2>3. ASSUME NEW f \in Fields, MergeField(f) PROVE TypeOK'
    <3>1. consDev \in Dev
      BY <2>3 DEF TypeOK, MergeField, ConsumerHolds, Holding
    <3>2. mem' \in ScoutState
      BY <2>3, <3>1, TimesMerged, SnapsMerged DEF TypeOK, MergeField
    <3> QED
      BY <2>3, <3>2 DEF TypeOK, MergeField
  <2>4. CASE MarkUpdated
    <3>1. consDev \in Dev
      BY <2>4 DEF TypeOK, MarkUpdated, ConsumerHolds, Holding
    <3>2. mem' \in ScoutState
      BY <2>4, <3>1, DeveloperListed DEF TypeOK, MarkUpdated
    <3> QED
      BY <2>4, <3>2 DEF TypeOK, MarkUpdated
  <2>5. CASE CountUpdated
    <3>1. mem' \in ScoutState
      BY <2>5, DeveloperCounted DEF TypeOK, CountUpdated
    <3>2. batchCount' \in 0 .. BatchSize - 1
      BY <2>5, ConfigAssumption DEF TypeOK, CountUpdated
    <3> QED
      BY <2>5, <3>1, <3>2 DEF TypeOK, CountUpdated
  <2>6. CASE ConsumerErases
    BY <2>6 DEF TypeOK, ConsumerErases
  <2>7. CASE ConsumerWrites
    BY <2>7 DEF TypeOK, ConsumerWrites
  <2>8. CASE NotifyFinished
    BY <2>8, DevsByType DEF TypeOK, NotifyFinished, Notify
  <2>9. CASE ConsumerEnds
    BY <2>9 DEF TypeOK, ConsumerEnds
  <2> QED
    BY <1>4, <2>1, <2>2, <2>3, <2>4, <2>5, <2>6, <2>7, <2>8, <2>9 DEF Consumer
<1>5. CASE Saving
  <2>1. CASE PhaseAfterErases
    BY <2>1 DEF TypeOK, PhaseAfterErases, MainSteps
  <2>2. CASE PhaseAfterWrites
    BY <2>2 DEF TypeOK, PhaseAfterWrites, MainSteps
  <2>3. CASE ErrorErases
    BY <2>3 DEF TypeOK, ErrorErases, MainSteps
  <2>4. CASE ErrorWrites
    BY <2>4, BlankState, ConfigAssumption DEF TypeOK, ErrorWrites, ProcessEnds, MainSteps, Parts
  <2> QED
    BY <1>5, <2>1, <2>2, <2>3, <2>4 DEF Saving
<1>6. CASE TimingOut
  <2>1. CASE ScoutTimeout
    BY <2>1, ConfigAssumption DEF TypeOK, ScoutTimeout
  <2>2. CASE TimeoutErases
    BY <2>2 DEF TypeOK, TimeoutErases
  <2>3. ASSUME NEW f \in Parts, TimeoutSerialises(f) PROVE TypeOK'
    <3>1. draft' \in ScoutState
      BY <2>3 DEF TypeOK, TimeoutSerialises, ScoutState, Parts, Fields
    <3> QED
      BY <2>3, <3>1 DEF TypeOK, TimeoutSerialises
  <2>4. CASE TimeoutRaces
    BY <2>4, <1>a DEF TimeoutRaces
  <2>5. CASE TimeoutWrites
    BY <2>5 DEF TypeOK, TimeoutWrites
  <2>6. CASE TimeoutExits
    BY <2>6, <1>a DEF TimeoutExits
  <2> QED
    BY <1>6, <2>1, <2>2, <2>3, <2>4, <2>5, <2>6 DEF TimingOut, Returning
<1>7. CASE Crash \/ WorkerPanics
  <2>1. CASE Crash
    BY <2>1, BlankState, ConfigAssumption DEF TypeOK, Crash, ProcessEnds, MainSteps, Parts
  <2>2. CASE WorkerPanics
    BY <2>2, <1>a DEF WorkerPanics
  <2> QED BY <1>7, <2>1, <2>2
<1>8. CASE Resuming
  <2>1. CASE Restart
    BY <2>1 DEF TypeOK, Restart, MainSteps
  <2>2. CASE RestartFromNothing
    BY <2>2 DEF TypeOK, RestartFromNothing, MainSteps
  <2> QED
    BY <1>8, <2>1, <2>2 DEF Resuming
<1>9. CASE Over
  BY <1>9 DEF TypeOK, Over
<1> QED
  BY <1>0, <1>1, <1>2, <1>3, <1>4, <1>5, <1>6, <1>7, <1>8, <1>9 DEF Next

(* The steps that change what the consumer does.                           *)
LEMMA ConsumerFrame ==
    [Next]_vars =>
      \/ UNCHANGED <<cons, consDev, toMerge>> /\ (pc \in Joining <=> pc' \in Joining)
      \/ StartPipeline \/ JoinConsumer \/ Consumer
      \/ ProcessEnds
<1> SUFFICES ASSUME [Next]_vars
             PROVE  \/ /\ UNCHANGED <<cons, consDev, toMerge>>
                       /\ pc \in Joining <=> pc' \in Joining
                    \/ StartPipeline \/ JoinConsumer \/ Consumer
                    \/ ProcessEnds
  OBVIOUS
<1> USE DEF vars, pipeVars, prodVars, chanVars, workVars, consVars, procVars, timeoutVars,
        Joining
<1>1. CASE Main
  BY <1>1 DEF Main, QueryError, RefusePhase, BudgetPanics, NothingToUpdate,
     JoinTwitter, JoinReddit, JoinProducer, JoinWorkers
<1>2. ASSUME NEW p \in Producers, Producer(p)
      PROVE  UNCHANGED <<pc, cons, consDev, toMerge>> \/ ProcessEnds
  BY <1>2 DEF Producer, ProducerFinished, SliceOutOfRange, SliceInRange, QueueJob,
     TickOff, TimeOut, NextBatch
<1>3. ASSUME NEW w \in Workers, Worker(w)
      PROVE  UNCHANGED <<pc, cons, consDev, toMerge>>
  BY <1>3 DEF Worker, TakeJob, SendResult, WorkerReturns
<1>4. CASE Saving
  BY <1>4 DEF Saving, PhaseAfterErases, PhaseAfterWrites, ErrorErases, ErrorWrites
<1>5. CASE TimingOut
  BY <1>5 DEF TimingOut, Returning, ScoutTimeout, TimeoutErases, TimeoutSerialises,
     TimeoutRaces, TimeoutWrites, TimeoutExits
<1>6. CASE Crash \/ WorkerPanics \/ Resuming \/ Over
  BY <1>6 DEF Crash, WorkerPanics, Resuming, Restart, RestartFromNothing, Over
<1> QED
  BY <1>1, <1>2, <1>3, <1>4, <1>5, <1>6 DEF Next

LEMMA NextConsumerHolds ==
    TypeOK /\ ConsumerHolds /\ [Next]_vars => ConsumerHolds'
<1> SUFFICES ASSUME TypeOK, ConsumerHolds, [Next]_vars PROVE ConsumerHolds'
  OBVIOUS
<1> USE DEF ConsumerHolds, Holding, Joining
<1>1. CASE UNCHANGED <<cons, consDev, toMerge>> /\ (pc \in Joining <=> pc' \in Joining)
  BY <1>1
<1>2. CASE StartPipeline \/ JoinConsumer \/ ProcessEnds
  BY <1>2 DEF StartPipeline, JoinConsumer, ProcessEnds
<1>3. CASE Consumer
  <2>1. CASE ConsumeError
    BY <2>1 DEF ConsumeError
  <2>a. CASE ConsumerEnds
    BY <2>a DEF ConsumerEnds
  <2>b. CASE NotifyFinished
    BY <2>b DEF NotifyFinished
  <2>2. CASE ConsumeResult
    BY <2>2, DevAssumption DEF ConsumeResult, TypeOK, Result, Fields
  <2>3. ASSUME NEW f \in Fields, MergeField(f) PROVE ConsumerHolds'
    BY <2>3 DEF MergeField
  <2>4. CASE MarkUpdated \/ CountUpdated \/ ConsumerErases \/ ConsumerWrites
    BY <2>4 DEF MarkUpdated, CountUpdated, ConsumerErases, ConsumerWrites
  <2> QED
    BY <1>3, <2>1, <2>a, <2>b, <2>2, <2>3, <2>4 DEF Consumer
<1> QED
  BY <1>1, <1>2, <1>3, ConsumerFrame

LEMMA TypeInvariant == Spec => [](TypeOK /\ ConsumerHolds)
<1>1. Init => TypeOK /\ ConsumerHolds
  BY InitTypeOK DEF Init, NoPipeline, ConsumerHolds, Holding, Joining
<1> QED
  BY <1>1, NextTypeOK, NextConsumerHolds, PTL DEF Spec

(* Types: in particular the count of results between two saves never       *)
(* passes BatchSize, and a producer's window is a size.                    *)
THEOREM TypeCorrect == Spec => []TypeOK
  BY TypeInvariant, PTL

-----------------------------------------------------------------------------
(* The goroutines are joined in order.                                     *)

LEMMA NextPipelineAtRest ==
    TypeOK /\ ConsumerHolds /\ PipelineAtRest /\ JoinedInOrder /\ [Next]_vars => PipelineAtRest'
<1> SUFFICES ASSUME TypeOK, ConsumerHolds, PipelineAtRest, JoinedInOrder, [Next]_vars
             PROVE  PipelineAtRest'
  OBVIOUS
<1> USE DEF vars, pipeVars, prodVars, chanVars, workVars, consVars, procVars, timeoutVars,
        Joining, PipelineAtRest
<1>0. CASE UNCHANGED vars
  BY <1>0
<1>a. ASSUME ProcessEnds PROVE PipelineAtRest'
  BY <1>a DEF ProcessEnds
<1>1. CASE Main
  <2>1. CASE QueryError \/ RefusePhase \/ NothingToUpdate
    BY <2>1 DEF QueryError, RefusePhase, NothingToUpdate
  <2>2. CASE BudgetPanics
    BY <2>2, <1>a DEF BudgetPanics
  <2>3. CASE StartPipeline
    BY <2>3 DEF StartPipeline
  <2>4. CASE JoinTwitter \/ JoinReddit \/ JoinWorkers
    BY <2>4 DEF JoinTwitter, JoinReddit, JoinProducer, JoinWorkers
  <2>5. CASE JoinConsumer
    BY <2>5, DevAssumption DEF JoinConsumer, JoinedInOrder, Producers
  <2> QED
    BY <1>1, <2>1, <2>2, <2>3, <2>4, <2>5 DEF Main
<1>2. ASSUME NEW p \in Producers, Producer(p) PROVE PipelineAtRest'
  <2>1. CASE SliceOutOfRange(p)
    BY <2>1, <1>a DEF SliceOutOfRange
  <2>2. ASSUME pc \notin Joining PROVE ~Producer(p)
    BY <2>2 DEF Producer, ProducerFinished, SliceOutOfRange, SliceInRange, QueueJob,
       TickOff, TimeOut, NextBatch
  <2>3. pc' = pc \/ SliceOutOfRange(p)
    BY <1>2 DEF Producer, ProducerFinished, SliceInRange, QueueJob, TickOff, TimeOut,
       NextBatch
  <2> QED
    BY <1>2, <2>1, <2>2, <2>3
<1>3. ASSUME NEW w \in Workers, Worker(w) PROVE PipelineAtRest'
  <2>1. CASE TakeJob(w)
    BY <2>1 DEF TakeJob
  <2>2. CASE SendResult(w)
    BY <2>2 DEF SendResult
  <2>3. CASE WorkerReturns(w)
    BY <2>3 DEF WorkerReturns, JobsClosed
  <2> QED
    BY <1>3, <2>1, <2>2, <2>3 DEF Worker
<1>4. CASE Consumer
  <2>1. pc \in Joining
    BY <1>4 DEF Consumer, ConsumeError, ConsumeResult, MergeField, MarkUpdated, CountUpdated,
       ConsumerErases, ConsumerWrites, NotifyFinished, ConsumerEnds, ConsumerHolds
  <2>2. pc' = pc
    BY <1>4 DEF Consumer, ConsumeError, ConsumeResult, MergeField, MarkUpdated, CountUpdated,
       ConsumerErases, ConsumerWrites, NotifyFinished, ConsumerEnds
  <2> QED
    BY <2>1, <2>2
<1>5. CASE Saving
  BY <1>5, <1>a DEF Saving, PhaseAfterErases, PhaseAfterWrites, ErrorErases, ErrorWrites
<1>6. CASE TimingOut
  BY <1>6, <1>a DEF TimingOut, Returning, ScoutTimeout, TimeoutErases, TimeoutSerialises,
     TimeoutRaces, TimeoutWrites, TimeoutExits
<1>7. CASE Crash \/ WorkerPanics
  BY <1>7, <1>a DEF Crash, WorkerPanics
<1>8. CASE Resuming
  BY <1>8 DEF Resuming, Restart, RestartFromNothing
<1>9. CASE Over
  BY <1>9 DEF Over
<1> QED
  BY <1>0, <1>1, <1>2, <1>3, <1>4, <1>5, <1>6, <1>7, <1>8, <1>9 DEF Next

LEMMA NextJoinedInOrder ==
    TypeOK /\ ConsumerHolds /\ PipelineAtRest /\ JoinedInOrder /\ [Next]_vars => JoinedInOrder'
<1> SUFFICES ASSUME TypeOK, ConsumerHolds, PipelineAtRest, JoinedInOrder, [Next]_vars
             PROVE  JoinedInOrder'
  OBVIOUS
<1> USE DEF vars, pipeVars, prodVars, chanVars, workVars, consVars, procVars, timeoutVars,
        JoinedInOrder
<1>0. CASE UNCHANGED vars
  BY <1>0
<1>a. ASSUME ProcessEnds PROVE JoinedInOrder'
  BY <1>a DEF ProcessEnds
<1>1. CASE Main
  <2>1. CASE QueryError \/ RefusePhase \/ NothingToUpdate
    BY <2>1 DEF QueryError, RefusePhase, NothingToUpdate
  <2>2. CASE BudgetPanics
    BY <2>2, <1>a DEF BudgetPanics
  <2>3. CASE StartPipeline
    BY <2>3 DEF StartPipeline, PipelineAtRest, ConsumerHolds, Joining
  <2>4. CASE JoinTwitter
    BY <2>4 DEF JoinTwitter, JoinProducer, Producers, TypeOK
  <2>5. CASE JoinReddit
    BY <2>5 DEF JoinReddit, JoinProducer, Producers, TypeOK
  <2>6. CASE JoinWorkers
    BY <2>6 DEF JoinWorkers
  <2>7. CASE JoinConsumer
    BY <2>7 DEF JoinConsumer
  <2> QED
    BY <1>1, <2>1, <2>2, <2>3, <2>4, <2>5, <2>6, <2>7 DEF Main
<1>2. ASSUME NEW p \in Producers, Producer(p) PROVE JoinedInOrder'
  <2>a. prod[p] # "none"
    BY <1>2 DEF Producer, ProducerFinished, SliceOutOfRange, SliceInRange, QueueJob,
       TickOff, TimeOut, NextBatch
  <2>b. pc \in {"twitter", "reddit"} /\ (p = "twitter" => pc = "twitter")
    BY <2>a DEF PipelineAtRest, Joining, Producers
  <2>1. CASE ProducerFinished(p)
    BY <2>1, <2>b DEF ProducerFinished, TypeOK
  <2>2. CASE SliceOutOfRange(p)
    BY <2>2, <1>a DEF SliceOutOfRange
  <2>3. CASE SliceInRange(p)
    BY <2>3, <2>b DEF SliceInRange, TypeOK
  <2>4. CASE QueueJob(p)
    BY <2>4, <2>b DEF QueueJob, TypeOK
  <2>5. CASE TickOff(p)
    BY <2>5 DEF TickOff
  <2>6. CASE TimeOut(p)
    BY <2>6 DEF TimeOut
  <2>7. CASE NextBatch(p)
    BY <2>7, <2>b DEF NextBatch, TypeOK
  <2> QED
    BY <1>2, <2>1, <2>2, <2>3, <2>4, <2>5, <2>6, <2>7 DEF Producer
<1>3. ASSUME NEW w \in Workers, Worker(w) PROVE JoinedInOrder'
  <2>1. CASE TakeJob(w)
    BY <2>1 DEF TakeJob, TypeOK
  <2>2. CASE SendResult(w)
    BY <2>2 DEF SendResult, TypeOK
  <2>3. CASE WorkerReturns(w)
    BY <2>3 DEF WorkerReturns, JobsClosed, TypeOK
  <2> QED
    BY <1>3, <2>1, <2>2, <2>3 DEF Worker
<1>4. CASE Consumer
  <2>1. CASE ConsumeError
    BY <2>1 DEF ConsumeError
  <2>2. CASE ConsumeResult
    BY <2>2 DEF ConsumeResult
  <2>3. ASSUME NEW f \in Fields, MergeField(f) PROVE JoinedInOrder'
    BY <2>3 DEF MergeField
  <2>4. CASE MarkUpdated \/ CountUpdated \/ ConsumerErases \/ ConsumerWrites
    BY <2>4 DEF MarkUpdated, CountUpdated, ConsumerErases, ConsumerWrites
  <2>5. CASE NotifyFinished
    BY <2>5 DEF NotifyFinished
  <2>6. CASE ConsumerEnds
    BY <2>6 DEF ConsumerEnds, ResultsClosed
  <2> QED
    BY <1>4, <2>1, <2>2, <2>3, <2>4, <2>5, <2>6 DEF Consumer
<1>5. CASE Saving
  BY <1>5, <1>a DEF Saving, PhaseAfterErases, PhaseAfterWrites, ErrorErases, ErrorWrites
<1>6. CASE TimingOut
  BY <1>6, <1>a DEF TimingOut, Returning, ScoutTimeout, TimeoutErases, TimeoutSerialises,
     TimeoutRaces, TimeoutWrites, TimeoutExits
<1>7. CASE Crash \/ WorkerPanics
  BY <1>7, <1>a DEF Crash, WorkerPanics
<1>8. CASE Resuming
  BY <1>8 DEF Resuming, Restart, RestartFromNothing
<1>9. CASE Over
  BY <1>9 DEF Over
<1> QED
  BY <1>0, <1>1, <1>2, <1>3, <1>4, <1>5, <1>6, <1>7, <1>8, <1>9 DEF Next

-----------------------------------------------------------------------------
(* One job per developer.                                                  *)

(* Where the jobs are, and the steps that move them.                       *)
jobVars == <<unqueued, waiting, jobs, results, finished, worker, consDev>>

LEMMA JobsFrame ==
    [Next]_vars =>
      \/ UNCHANGED jobVars
      \/ StartPipeline
      \/ \E p \in Producers : QueueJob(p) \/ TickOff(p) \/ TimeOut(p)
      \/ \E w \in Workers : TakeJob(w) \/ SendResult(w)
      \/ ConsumeError \/ ConsumeResult \/ NotifyFinished
      \/ ProcessEnds
<1> SUFFICES ASSUME [Next]_vars
             PROVE  \/ UNCHANGED jobVars
                    \/ StartPipeline
                    \/ \E p \in Producers : QueueJob(p) \/ TickOff(p) \/ TimeOut(p)
                    \/ \E w \in Workers : TakeJob(w) \/ SendResult(w)
                    \/ ConsumeError \/ ConsumeResult \/ NotifyFinished
                    \/ ProcessEnds
  OBVIOUS
<1> USE DEF vars, pipeVars, prodVars, chanVars, workVars, consVars, procVars, timeoutVars, jobVars
<1>1. CASE Main
  BY <1>1 DEF Main, QueryError, RefusePhase, BudgetPanics, NothingToUpdate,
     JoinTwitter, JoinReddit, JoinProducer, JoinWorkers, JoinConsumer
<1>2. ASSUME NEW p \in Producers, Producer(p)
      PROVE  \/ UNCHANGED jobVars
             \/ QueueJob(p) \/ TickOff(p) \/ TimeOut(p)
             \/ ProcessEnds
  BY <1>2 DEF Producer, ProducerFinished, SliceOutOfRange, SliceInRange, NextBatch
<1>3. ASSUME NEW w \in Workers, Worker(w)
      PROVE  UNCHANGED jobVars \/ TakeJob(w) \/ SendResult(w)
  BY <1>3 DEF Worker, WorkerReturns
<1>4. CASE Consumer
  BY <1>4 DEF Consumer, MergeField, MarkUpdated, CountUpdated, ConsumerErases,
     ConsumerWrites, ConsumerEnds
<1>5. CASE Saving
  BY <1>5 DEF Saving, PhaseAfterErases, PhaseAfterWrites, ErrorErases, ErrorWrites
<1>6. CASE TimingOut
  BY <1>6 DEF TimingOut, Returning, ScoutTimeout, TimeoutErases, TimeoutSerialises,
     TimeoutRaces, TimeoutWrites, TimeoutExits
<1>7. CASE Crash \/ WorkerPanics \/ Resuming \/ Over
  BY <1>7 DEF Crash, WorkerPanics, Resuming, Restart, RestartFromNothing, Over
<1> QED
  BY <1>1, <1>2, <1>3, <1>4, <1>5, <1>6, <1>7 DEF Next

(* Each developer is in one place of the pipeline, whether it is to be     *)
(* queued, at work or acknowledged.                                        *)
JobsInv ==
    /\ TypeOK /\ ConsumerHolds /\ PipelineAtRest
    /\ ByType /\ OneJobPerDeveloper /\ Acknowledged

(* When no pipeline runs, no developer is at work.                         *)
LEMMA NobodyAtWork ==
    JobsInv /\ pc \notin Joining => AtWork = {}
  BY DevAssumption
  DEF JobsInv, PipelineAtRest, ConsumerHolds, AtWork, Queued, Held, Answered, Consumed,
      Holding, TypeOK

(* What each step does to the developers at work.                          *)
LEMMA QueueJobAtWork ==
    ASSUME JobsInv, NEW p \in Producers, QueueJob(p)
    PROVE  \E d \in unqueued[p] :
             /\ d \in Dev /\ d \notin AtWork
             /\ AtWork' = AtWork \cup {d}
             /\ jobs' = jobs \cup {d}
             /\ unqueued' = [unqueued EXCEPT ![p] = @ \ {d}]
             /\ waiting' = [waiting EXCEPT ![p] = @ \cup {d}]
             /\ UNCHANGED <<results, finished, worker, consDev>>
<1>1. PICK d \in unqueued[p] :
        /\ jobs' = jobs \cup {d}
        /\ unqueued' = [unqueued EXCEPT ![p] = @ \ {d}]
        /\ waiting' = [waiting EXCEPT ![p] = @ \cup {d}]
  BY DEF QueueJob
<1>2. UNCHANGED <<results, finished, worker, consDev>>
  BY DEF QueueJob, workVars, consVars
<1>3. d \in Dev /\ d \notin AtWork
  BY DEF JobsInv, TypeOK, OneJobPerDeveloper
<1>4. AtWork' = AtWork \cup {d}
  BY <1>1, <1>2, <1>3 DEF AtWork, Queued, Held, Answered, Consumed
<1> QED
  BY <1>1, <1>2, <1>3, <1>4

LEMMA SameAtWork ==
    ASSUME JobsInv,
           \/ \E w \in Workers : TakeJob(w) \/ SendResult(w)
           \/ ConsumeResult
    PROVE  AtWork' = AtWork /\ UNCHANGED <<unqueued, waiting, finished>>
<1> USE DEF JobsInv, AtWork, Queued, Held, Answered, Consumed, chanVars, workVars, consVars, prodVars
<1>1. ASSUME NEW w \in Workers, TakeJob(w) PROVE AtWork' = AtWork
  <2>1. PICK d \in jobs : jobs' = jobs \ {d} /\ worker' = [worker EXCEPT ![w] = d]
    BY <1>1 DEF TakeJob
  <2>2. \A e \in Dev : (\E v \in Workers : Held(e, v)') <=> (\E v \in Workers : Held(e, v)) \/ e = d
    BY <1>1, <2>1, DevAssumption DEF TakeJob, TypeOK
  <2>3. \A e \in Dev : Queued(e) <=> Queued(e)' \/ e = d
    BY <2>1
  <2> QED
    BY <1>1, <2>2, <2>3 DEF TakeJob
<1>2. ASSUME NEW w \in Workers, SendResult(w) PROVE AtWork' = AtWork
  <2>1. PICK o \in Answers : results' = results \cup {[dev |-> worker[w], outcome |-> o]}
    BY <1>2 DEF SendResult
  <2> DEFINE new == [dev |-> worker[w], outcome |-> o]
  <2>b. new.dev = worker[w] /\ results' = results \cup {new}
    BY <2>1
  <2> HIDE DEF new
  <2>2. \A d \in Dev : Answered(d)' <=> Answered(d) \/ Held(d, w)
    BY <2>b
  <2>3. \A d \in Dev : (\E v \in Workers : Held(d, v)) <=> Held(d, w) \/ (\E v \in Workers : Held(d, v)')
    BY <1>2, DevAssumption DEF SendResult, TypeOK
  <2> QED
    BY <1>2, <2>2, <2>3 DEF SendResult
<1>3. CASE ConsumeResult
  <2>1. PICK r \in results : results' = results \ {r} /\ consDev' = r.dev
    BY <1>3 DEF ConsumeResult
  <2>2. consDev = NoDev
    BY <1>3 DEF ConsumeResult, ConsumerHolds, Holding
  <2>3. \A d \in Dev : ~Consumed(d)
    BY <2>2, DevAssumption
  <2>4. \A d \in Dev : Answered(d) <=> Answered(d)' \/ Consumed(d)'
    BY <2>1
  <2> QED
    BY <1>3, <2>3, <2>4 DEF ConsumeResult
<1> QED
  BY <1>1, <1>2, <1>3 DEF TakeJob, SendResult, ConsumeResult

LEMMA ConsumeErrorAtWork ==
    ASSUME JobsInv, ConsumeError
    PROVE  \E r \in results :
             /\ r.dev \in AtWork
             /\ AtWork' = AtWork \ {r.dev}
             /\ results' = results \ {r}
             /\ Notify(r.dev)
             /\ UNCHANGED <<unqueued, waiting, jobs, worker, consDev>>
<1>1. PICK r \in results : results' = results \ {r} /\ Notify(r.dev)
  BY DEF ConsumeError
<1>2. UNCHANGED <<unqueued, waiting, jobs, worker, consDev>>
  BY DEF ConsumeError, prodVars, workVars
<1>3. r.dev \in Dev
  BY DEF JobsInv, TypeOK, Result
<1>4. /\ ~Queued(r.dev) /\ ~Consumed(r.dev) /\ (\A w \in Workers : ~Held(r.dev, w))
      /\ \A s \in results : s.dev = r.dev => s = r
  BY <1>3 DEF JobsInv, OneJobPerDeveloper, Answered
<1>5. AtWork' = AtWork \ {r.dev}
  BY <1>1, <1>2, <1>3, <1>4 DEF AtWork, Queued, Held, Answered, Consumed
<1>6. r.dev \in AtWork
  BY <1>3 DEF AtWork, Answered
<1> QED
  BY <1>1, <1>2, <1>5, <1>6

LEMMA NotifyFinishedAtWork ==
    ASSUME JobsInv, NotifyFinished
    PROVE  /\ consDev \in AtWork
           /\ AtWork' = AtWork \ {consDev}
           /\ Notify(consDev)
           /\ consDev' = NoDev
           /\ UNCHANGED <<unqueued, waiting, jobs, results, worker>>
<1>1. /\ Notify(consDev) /\ consDev' = NoDev
      /\ UNCHANGED <<unqueued, waiting, jobs, results, worker>>
  BY DEF NotifyFinished, prodVars, workVars
<1>2. consDev \in Dev
  BY DEF NotifyFinished, JobsInv, TypeOK, ConsumerHolds, Holding
<1>3. ~Queued(consDev) /\ ~Answered(consDev) /\ (\A w \in Workers : ~Held(consDev, w))
  BY <1>2 DEF JobsInv, OneJobPerDeveloper, Consumed
<1>4. AtWork' = AtWork \ {consDev}
  BY <1>1, <1>2, <1>3, DevAssumption DEF AtWork, Queued, Held, Answered, Consumed
<1>5. consDev \in AtWork
  BY <1>2 DEF AtWork, Consumed
<1> QED
  BY <1>1, <1>4, <1>5

LEMMA ProcessEndsAtWork ==
    ProcessEnds => AtWork' = {}
  BY DevAssumption DEF ProcessEnds, AtWork, Queued, Held, Answered, Consumed

LEMMA StartPipelineFetches ==
    StartPipeline =>
      /\ \A p \in Producers : unqueued'[p] \subseteq Devs(p) \cap Unscraped
      /\ unqueued' \in [Producers -> SUBSET Dev]
      /\ UNCHANGED <<mem, disk, waiting, timeouts, jobs, results, finished, worker, exited, consDev>>
<1> SUFFICES ASSUME StartPipeline
             PROVE  /\ \A p \in Producers : unqueued'[p] \subseteq Devs(p) \cap Unscraped
                    /\ unqueued' \in [Producers -> SUBSET Dev]
                    /\ UNCHANGED <<mem, disk, waiting, timeouts, jobs, results, finished,
                                   worker, exited, consDev>>
  OBVIOUS
<1>1. PICK F \in Fetched("twitter"), R \in Fetched("reddit") :
        \E T \in Affordable(F, R) :
          unqueued' = [p \in Producers |-> IF p = "twitter" THEN T ELSE R]
  BY DEF StartPipeline
<1>2. PICK T \in Affordable(F, R) :
        unqueued' = [p \in Producers |-> IF p = "twitter" THEN T ELSE R]
  BY <1>1
<1>3. T \subseteq Devs("twitter") \cap Unscraped /\ R \subseteq Devs("reddit") \cap Unscraped
  BY DEF Affordable, Fetched
<1>4. UNCHANGED <<mem, disk, waiting, timeouts, jobs, results, finished, worker, exited, consDev>>
  BY DEF StartPipeline, chanVars, workVars
<1> QED
  BY <1>2, <1>3, <1>4 DEF Unscraped, Producers

LEMMA NextByType ==
    JobsInv /\ [Next]_vars => ByType'
<1> SUFFICES ASSUME JobsInv, [Next]_vars PROVE ByType'
  OBVIOUS
<1> USE DEF ByType
<1>0. ByType /\ TypeOK
  BY DEF JobsInv
<1>1. CASE UNCHANGED jobVars
  BY <1>0, <1>1 DEF jobVars
<1>2. CASE StartPipeline
  BY <1>0, <1>2, StartPipelineFetches
<1>3. ASSUME NEW p \in Producers, QueueJob(p) PROVE ByType'
  BY <1>0, <1>3, QueueJobAtWork DEF TypeOK
<1>4. ASSUME NEW p \in Producers, TickOff(p) PROVE ByType'
  BY <1>0, <1>4 DEF TickOff, TypeOK
<1>5. ASSUME NEW p \in Producers, TimeOut(p) PROVE ByType'
  BY <1>0, <1>5 DEF TimeOut
<1>6. ASSUME NEW w \in Workers, TakeJob(w) \/ SendResult(w) PROVE ByType'
  BY <1>0, <1>6, SameAtWork
<1>7. CASE ConsumeError
  BY <1>0, <1>7, ConsumeErrorAtWork DEF Notify
<1>8. CASE ConsumeResult
  BY <1>0, <1>8, SameAtWork
<1>9. CASE NotifyFinished
  BY <1>0, <1>9, NotifyFinishedAtWork DEF Notify
<1>10. CASE ProcessEnds
  BY <1>10 DEF ProcessEnds
<1> QED
  BY <1>1, <1>2, <1>3, <1>4, <1>5, <1>6, <1>7, <1>8, <1>9, <1>10, JobsFrame

LEMMA NextAcknowledged ==
    JobsInv /\ [Next]_vars => Acknowledged'
<1> SUFFICES ASSUME JobsInv, [Next]_vars PROVE Acknowledged'
  OBVIOUS
<1> USE DEF Acknowledged
<1>0. Acknowledged /\ ByType /\ TypeOK /\ AtWork \subseteq Dev
  BY DEF JobsInv, AtWork
<1>1. CASE UNCHANGED jobVars
  BY <1>0, <1>1 DEF jobVars, AtWork, Queued, Held, Answered, Consumed
<1>2. CASE StartPipeline
  <2>1. AtWork = {}
    BY <1>2, NobodyAtWork DEF StartPipeline, Joining
  <2>2. AtWork' = {}
    BY <1>2, <2>1, StartPipelineFetches DEF AtWork, Queued, Held, Answered, Consumed
  <2>3. \A p \in Producers : waiting[p] = {} /\ finished[p] = {}
    BY <1>2 DEF StartPipeline, JobsInv, PipelineAtRest
  <2> QED
    BY <1>2, <2>2, <2>3, StartPipelineFetches
<1>3. ASSUME NEW p \in Producers, QueueJob(p) PROVE Acknowledged'
  <2>1. PICK d \in unqueued[p] :
             /\ d \in Dev /\ d \notin AtWork
             /\ AtWork' = AtWork \cup {d}
             /\ unqueued' = [unqueued EXCEPT ![p] = @ \ {d}]
             /\ waiting' = [waiting EXCEPT ![p] = @ \cup {d}]
             /\ UNCHANGED finished
    BY <1>3, QueueJobAtWork
  <2>2. d \in Devs(p) /\ \A q \in Producers : q # p => d \notin Devs(q)
    BY <1>0, DevsByType DEF ByType
  <2> QED
    BY <1>0, <2>1, <2>2 DEF TypeOK, ByType
<1>4. ASSUME NEW p \in Producers, TickOff(p) PROVE Acknowledged'
  <2>1. AtWork' = AtWork
    BY <1>4 DEF TickOff, AtWork, Queued, Held, Answered, Consumed, workVars, consVars
  <2> QED
    BY <1>0, <1>4, <2>1 DEF TickOff, TypeOK
<1>5. ASSUME NEW p \in Producers, TimeOut(p) PROVE Acknowledged'
  <2>1. AtWork' \subseteq AtWork
    BY <1>5 DEF TimeOut, AtWork, Queued, Held, Answered, Consumed, workVars, consVars
  <2> QED
    BY <1>0, <1>5, <2>1 DEF TimeOut
<1>6. ASSUME NEW w \in Workers, TakeJob(w) \/ SendResult(w) PROVE Acknowledged'
  BY <1>0, <1>6, SameAtWork
<1>7. CASE ConsumeError
  BY <1>0, <1>7, ConsumeErrorAtWork DEF Notify
<1>8. CASE ConsumeResult
  BY <1>0, <1>8, SameAtWork
<1>9. CASE NotifyFinished
  BY <1>0, <1>9, NotifyFinishedAtWork DEF Notify
<1>10. CASE ProcessEnds
  BY <1>10, ProcessEndsAtWork DEF ProcessEnds
<1> QED
  BY <1>1, <1>2, <1>3, <1>4, <1>5, <1>6, <1>7, <1>8, <1>9, <1>10, JobsFrame

LEMMA NextOneJobPerDeveloper ==
    JobsInv /\ [Next]_vars => OneJobPerDeveloper'
<1> SUFFICES ASSUME JobsInv, [Next]_vars PROVE OneJobPerDeveloper'
  OBVIOUS
<1> USE DEF OneJobPerDeveloper
<1>0. OneJobPerDeveloper /\ Acknowledged /\ ByType /\ TypeOK
  BY DEF JobsInv
<1>1. CASE UNCHANGED jobVars
  BY <1>0, <1>1 DEF jobVars, AtWork, Queued, Held, Answered, Consumed
<1>2. CASE StartPipeline
  <2>1. AtWork = {}
    BY <1>2, NobodyAtWork DEF StartPipeline, Joining
  <2>2. AtWork' = {}
    BY <1>2, <2>1, StartPipelineFetches DEF AtWork, Queued, Held, Answered, Consumed
  <2> QED
    BY <2>2 DEF AtWork, Queued, Held, Answered, Consumed
<1>3. ASSUME NEW p \in Producers, QueueJob(p) PROVE OneJobPerDeveloper'
  <2>1. PICK d \in unqueued[p] :
             /\ d \in Dev /\ d \notin AtWork
             /\ AtWork' = AtWork \cup {d}
             /\ jobs' = jobs \cup {d}
             /\ unqueued' = [unqueued EXCEPT ![p] = @ \ {d}]
             /\ UNCHANGED <<results, worker, consDev>>
    BY <1>3, QueueJobAtWork
  <2>2. ~Answered(d) /\ ~Consumed(d) /\ \A w \in Workers : ~Held(d, w)
    BY <2>1 DEF AtWork
  <2>3. d \in Devs(p) /\ \A q \in Producers : q # p => d \notin unqueued[q]
    BY <1>0, <2>1, DevsByType DEF ByType
  <2>4. \A q \in Producers : d \notin unqueued'[q] /\ unqueued'[q] \subseteq unqueued[q]
    BY <1>0, <2>1, <2>3 DEF TypeOK
  <2> QED
    BY <1>0, <2>1, <2>2, <2>4 DEF Queued, Held, Answered, Consumed
<1>4. ASSUME NEW p \in Producers, TickOff(p) PROVE OneJobPerDeveloper'
  BY <1>0, <1>4 DEF TickOff, AtWork, Queued, Held, Answered, Consumed, workVars, consVars
<1>5. ASSUME NEW p \in Producers, TimeOut(p) PROVE OneJobPerDeveloper'
  BY <1>0, <1>5 DEF TimeOut, AtWork, Queued, Held, Answered, Consumed, workVars, consVars
<1>6. ASSUME NEW w \in Workers, TakeJob(w) PROVE OneJobPerDeveloper'
  <2>1. PICK d \in jobs : jobs' = jobs \ {d} /\ worker' = [worker EXCEPT ![w] = d]
    BY <1>6 DEF TakeJob
  <2>2. UNCHANGED <<results, consDev>> /\ AtWork' = AtWork /\ UNCHANGED unqueued
    BY <1>6, SameAtWork DEF TakeJob, consVars
  <2>3. \A e \in Dev, v \in Workers : Held(e, v)' => Held(e, v) \/ (v = w /\ e = d)
    BY <1>0, <2>1 DEF Held, TypeOK
  <2>4. \A e \in Dev : Queued(e)' => Queued(e) /\ e # d
    BY <2>1 DEF Queued
  <2> QED
    BY <1>0, <2>1, <2>2, <2>3, <2>4 DEF Queued, Answered, Consumed
<1>7. ASSUME NEW w \in Workers, SendResult(w) PROVE OneJobPerDeveloper'
  <2>1. PICK o \in Answers : results' = results \cup {[dev |-> worker[w], outcome |-> o]}
    BY <1>7 DEF SendResult
  <2> DEFINE new == [dev |-> worker[w], outcome |-> o]
  <2>2. new.dev = worker[w] /\ results' = results \cup {new}
    BY <2>1
  <2> HIDE DEF new
  <2>3. worker[w] \in Dev /\ worker' = [worker EXCEPT ![w] = NoDev]
    BY <1>0, <1>7 DEF SendResult, TypeOK
  <2>4. UNCHANGED <<jobs, consDev>> /\ AtWork' = AtWork /\ UNCHANGED unqueued
    BY <1>7, SameAtWork DEF SendResult, consVars
  <2>5. \A e \in Dev, v \in Workers : Held(e, v)' => Held(e, v) /\ v # w
    BY <1>0, <2>3, DevAssumption DEF Held, TypeOK
  <2>6. \A e \in Dev : Answered(e)' <=> Answered(e) \/ e = worker[w]
    BY <2>2 DEF Answered
  <2>7. \A r, s \in results' : r.dev = s.dev => r = s
    BY <1>0, <2>2, <2>3 DEF Answered, Held, TypeOK, Result
  <2> QED
    BY <1>0, <2>3, <2>4, <2>5, <2>6, <2>7 DEF Queued, Consumed, Held
<1>8. CASE ConsumeError
  BY <1>0, <1>8, ConsumeErrorAtWork DEF Queued, Held, Answered, Consumed
<1>9. CASE ConsumeResult
  <2>1. PICK r \in results : results' = results \ {r} /\ consDev' = r.dev
    BY <1>9 DEF ConsumeResult
  <2>2. UNCHANGED <<jobs, worker, unqueued>> /\ AtWork' = AtWork
    BY <1>9, SameAtWork DEF ConsumeResult, workVars
  <2>3. r.dev \in Dev
    BY <1>0 DEF TypeOK, Result
  <2>4. Answered(r.dev) /\ \A s \in results : s.dev = r.dev => s = r
    BY <1>0, <2>3 DEF Answered
  <2>5. \A e \in Dev : Answered(e)' <=> Answered(e) /\ e # r.dev
    BY <2>1, <2>4 DEF Answered
  <2> QED
    BY <1>0, <2>1, <2>2, <2>3, <2>4, <2>5 DEF Queued, Held, Consumed
<1>10. CASE NotifyFinished
  BY <1>0, <1>10, NotifyFinishedAtWork, DevAssumption DEF Queued, Held, Answered, Consumed
<1>11. CASE ProcessEnds
  BY <1>11, ProcessEndsAtWork DEF ProcessEnds, AtWork, Queued, Held, Answered, Consumed
<1> QED
  BY <1>1, <1>2, <1>3, <1>4, <1>5, <1>6, <1>7, <1>8, <1>9, <1>10, <1>11, JobsFrame

-----------------------------------------------------------------------------
(* A producer's progress through its developers.                           *)

LEMMA ProducerFrame ==
    [Next]_vars =>
      \/ UNCHANGED <<prod, batched, window, unqueued, waiting>>
      \/ StartPipeline \/ JoinTwitter \/ JoinReddit
      \/ \E p \in Producers : ProducerFinished(p) \/ SliceInRange(p) \/ QueueJob(p)
                              \/ TickOff(p) \/ NextBatch(p)
      \/ ProcessEnds
<1> SUFFICES ASSUME [Next]_vars
             PROVE  \/ UNCHANGED <<prod, batched, window, unqueued, waiting>>
                    \/ StartPipeline \/ JoinTwitter \/ JoinReddit
                    \/ \E p \in Producers : ProducerFinished(p) \/ SliceInRange(p)
                                            \/ QueueJob(p) \/ TickOff(p) \/ NextBatch(p)
                    \/ ProcessEnds
  OBVIOUS
<1> USE DEF vars, pipeVars, prodVars, chanVars, workVars, consVars, procVars, timeoutVars
<1>1. CASE Main
  BY <1>1 DEF Main, QueryError, RefusePhase, BudgetPanics, NothingToUpdate, JoinWorkers,
     JoinConsumer
<1>2. ASSUME NEW p \in Producers, Producer(p)
      PROVE  \/ UNCHANGED <<prod, batched, window, unqueued, waiting>>
             \/ ProducerFinished(p) \/ SliceInRange(p) \/ QueueJob(p)
             \/ TickOff(p) \/ NextBatch(p)
             \/ ProcessEnds
  BY <1>2 DEF Producer, SliceOutOfRange, TimeOut
<1>3. ASSUME NEW w \in Workers, Worker(w)
      PROVE  UNCHANGED <<prod, batched, window, unqueued, waiting>>
  BY <1>3 DEF Worker, TakeJob, SendResult, WorkerReturns
<1>4. CASE Consumer
  BY <1>4 DEF Consumer, ConsumeError, ConsumeResult, MergeField, MarkUpdated, CountUpdated,
     ConsumerErases, ConsumerWrites, NotifyFinished, ConsumerEnds
<1>5. CASE Saving
  BY <1>5 DEF Saving, PhaseAfterErases, PhaseAfterWrites, ErrorErases, ErrorWrites
<1>6. CASE TimingOut
  BY <1>6 DEF TimingOut, Returning, ScoutTimeout, TimeoutErases, TimeoutSerialises,
     TimeoutRaces, TimeoutWrites, TimeoutExits
<1>7. CASE Crash \/ WorkerPanics \/ Resuming \/ Over
  BY <1>7 DEF Crash, WorkerPanics, Resuming, Restart, RestartFromNothing, Over
<1> QED
  BY <1>1, <1>2, <1>3, <1>4, <1>5, <1>6, <1>7 DEF Next

(* The size of a batch while it is being queued.                           *)
LEMMA MoveOne ==
    ASSUME NEW U \in SUBSET Dev, NEW W \in SUBSET Dev, NEW d \in U, d \notin W
    PROVE  /\ Cardinality(U) \in Nat /\ Cardinality(W) \in Nat
           /\ Cardinality(U \ {d}) = Cardinality(U) - 1
           /\ Cardinality(W \cup {d}) = Cardinality(W) + 1
           /\ Cardinality(U) = 1 => U \ {d} = {}
<1>1. IsFiniteSet(U) /\ IsFiniteSet(W) /\ IsFiniteSet(U \ {d})
  BY DevsFinite
<1>2. Cardinality(U \ {d}) = Cardinality(U) - 1
  BY <1>1, FS_RemoveElement
<1>3. Cardinality(W \cup {d}) = Cardinality(W) + 1
  BY <1>1, FS_AddElement
<1>4. Cardinality(U) = 1 => U \ {d} = {}
  BY <1>1, <1>2, FS_EmptySet
<1> QED
  BY <1>2, <1>3, <1>4, DevsFinite

LEMMA NextProducersExhausted ==
    JobsInv /\ ProducersExhausted /\ [Next]_vars => ProducersExhausted'
<1> SUFFICES ASSUME JobsInv, ProducersExhausted, [Next]_vars PROVE ProducersExhausted'
  OBVIOUS
<1> USE DEF ProducersExhausted
<1>0. TypeOK /\ ByType /\ Acknowledged
  BY DEF JobsInv
<1>1. CASE UNCHANGED <<prod, batched, window, unqueued, waiting>>
  BY <1>1
<1>2. CASE StartPipeline
  <2>1. \A p \in Producers : waiting'[p] = {} /\ prod'[p] = "slice"
    BY <1>2 DEF StartPipeline, JobsInv, PipelineAtRest
  <2>2. \A p \in Producers : ~batched'[p] => window'[p] = Cardinality(unqueued'[p])
    BY <1>2 DEF StartPipeline, Producers
  <2>3. \A p \in Producers : Cardinality(unqueued'[p]) \in Nat
    BY <1>2, StartPipelineFetches, DevsFinite
  <2>4. \A p \in Producers : Cardinality(waiting'[p]) = 0
    BY <2>1, FS_EmptySet
  <2>5. ASSUME NEW p \in Producers, ~batched'[p]
        PROVE  window'[p] = Cardinality(unqueued'[p]) + Cardinality(waiting'[p])
    BY <2>2, <2>3, <2>4, <2>5
  <2> QED
    BY <2>1, <2>5
<1>3. CASE JoinTwitter \/ JoinReddit
  BY <1>0, <1>3 DEF JoinTwitter, JoinReddit, JoinProducer, TypeOK, Producers
<1>4. ASSUME NEW p \in Producers, ProducerFinished(p) PROVE ProducersExhausted'
  BY <1>0, <1>4 DEF ProducerFinished, TypeOK
<1>5. ASSUME NEW p \in Producers, SliceInRange(p) PROVE ProducersExhausted'
  BY <1>0, <1>5 DEF SliceInRange, TypeOK
<1>6. ASSUME NEW p \in Producers, QueueJob(p) PROVE ProducersExhausted'
  <2>1. PICK d \in unqueued[p] :
          /\ unqueued' = [unqueued EXCEPT ![p] = @ \ {d}]
          /\ waiting' = [waiting EXCEPT ![p] = @ \cup {d}]
          /\ prod' = IF Cardinality(waiting[p] \cup {d}) < window[p]
                     THEN prod
                     ELSE [prod EXCEPT ![p] = IF batched[p] THEN "wait" ELSE "done"]
    BY <1>6 DEF QueueJob
  <2>2. prod[p] = "queue" /\ batched' = batched /\ window' = window
    BY <1>6 DEF QueueJob
  <2>3. d \notin waiting[p]
    BY <1>0, <2>1 DEF Acknowledged
  <2>4. /\ Cardinality(unqueued[p]) \in Nat /\ Cardinality(waiting[p]) \in Nat
        /\ Cardinality(unqueued[p] \ {d}) = Cardinality(unqueued[p]) - 1
        /\ Cardinality(waiting[p] \cup {d}) = Cardinality(waiting[p]) + 1
        /\ Cardinality(unqueued[p]) = 1 => unqueued[p] \ {d} = {}
    <3>1. unqueued[p] \in SUBSET Dev /\ waiting[p] \in SUBSET Dev
      BY <1>0 DEF TypeOK
    <3> QED
      BY <2>1, <2>3, <3>1, MoveOne
  <2>5. Cardinality(unqueued[p]) # 0
    BY <1>0, DevsFinite, FS_EmptySet DEF TypeOK
  <2>a. prod'[p] = "wait" => batched'[p]
    BY <1>0, <2>1, <2>2 DEF TypeOK
  <2>6. prod'[p] = "done" => unqueued'[p] = {}
    BY <1>0, <2>1, <2>2, <2>4, <2>5 DEF TypeOK
  <2>7. ~batched[p] /\ prod'[p] = "queue" =>
          window[p] = Cardinality(unqueued'[p]) + Cardinality(waiting'[p])
    BY <1>0, <2>1, <2>2, <2>4 DEF TypeOK
  <2>8. prod'[p] \in {"queue", "wait", "done"}
    BY <1>0, <2>1, <2>2 DEF TypeOK
  <2>9. \A q \in Producers : q # p =>
          prod'[q] = prod[q] /\ unqueued'[q] = unqueued[q] /\ waiting'[q] = waiting[q]
    BY <1>0, <2>1 DEF TypeOK
  <2> QED
    BY <2>2, <2>a, <2>6, <2>7, <2>8, <2>9
<1>7. ASSUME NEW p \in Producers, TickOff(p) PROVE ProducersExhausted'
  BY <1>0, <1>7 DEF TickOff, TypeOK
<1>8. ASSUME NEW p \in Producers, NextBatch(p) PROVE ProducersExhausted'
  BY <1>0, <1>8 DEF NextBatch, TypeOK
<1>9. CASE ProcessEnds
  BY <1>9 DEF ProcessEnds
<1> QED
  BY <1>1, <1>2, <1>3, <1>4, <1>5, <1>6, <1>7, <1>8, <1>9, ProducerFrame

(* The invariant of the pipeline: who is where.                            *)
CoreInv == JobsInv /\ JoinedInOrder /\ ProducersExhausted

LEMMA InitCoreInv == Init => CoreInv
<1> SUFFICES ASSUME Init PROVE CoreInv
  OBVIOUS
<1>1. TypeOK
  BY InitTypeOK
<1>2. ConsumerHolds
  BY DEF Init, NoPipeline, ConsumerHolds, Holding, Joining
<1>3. PipelineAtRest /\ JoinedInOrder /\ ByType
  BY DEF Init, NoPipeline, PipelineAtRest, JoinedInOrder, ByType, Joining
<1>4. AtWork = {}
  BY DevAssumption DEF Init, NoPipeline, AtWork, Queued, Held, Answered, Consumed
<1>5. OneJobPerDeveloper /\ Acknowledged
  BY <1>4, DevAssumption
  DEF Init, NoPipeline, OneJobPerDeveloper, Acknowledged, AtWork, Queued, Held, Answered, Consumed
<1>6. ProducersExhausted
  BY DEF Init, NoPipeline, ProducersExhausted
<1> QED
  BY <1>1, <1>2, <1>3, <1>5, <1>6 DEF CoreInv, JobsInv

LEMMA NextCoreInv == CoreInv /\ [Next]_vars => CoreInv'
  BY NextTypeOK, NextConsumerHolds, NextPipelineAtRest, NextJoinedInOrder, NextByType,
     NextOneJobPerDeveloper, NextAcknowledged, NextProducersExhausted
  DEF CoreInv, JobsInv

LEMMA CoreInvariant == Spec => []CoreInv
  BY InitCoreInv, NextCoreInv, PTL DEF Spec

(* No developer is in two places at once: whatever the interleaving of     *)
(* producers, workers and consumer, nobody is queued while being updated,  *)
(* no two workers have the same developer and no two results speak of it.  *)
THEOREM OneJob == Spec => []OneJobPerDeveloper
<1>1. CoreInv => OneJobPerDeveloper
  BY DEF CoreInv, JobsInv
<1> QED
  BY <1>1, CoreInvariant, PTL

(* A batching producer that comes back to the rate limit has no request of *)
(* its earlier batches under way.                                          *)
THEOREM RateLimitAtRest == Spec => []RateLimitReadAtRest
<1>1. CoreInv => RateLimitReadAtRest
  BY DEF CoreInv, JobsInv, ProducersExhausted, Acknowledged, RateLimitReadAtRest
<1> QED
  BY <1>1, CoreInvariant, PTL


-----------------------------------------------------------------------------
(* The state that UpdatePhase keeps in memory and on disk.                 *)

(* Which steps change what.                                                *)

LEMMA MemFrame ==
    [Next]_vars =>
      \/ UNCHANGED mem
      \/ \E f \in Fields : MergeField(f)
      \/ MarkUpdated \/ CountUpdated \/ Restart
<1> SUFFICES ASSUME [Next]_vars
             PROVE  \/ UNCHANGED mem
                    \/ \E f \in Fields : MergeField(f)
                    \/ MarkUpdated \/ CountUpdated \/ Restart
  OBVIOUS
<1> USE DEF vars
<1>1. CASE Main
  BY <1>1 DEF Main, QueryError, RefusePhase, BudgetPanics, NothingToUpdate, StartPipeline,
     JoinTwitter, JoinReddit, JoinProducer, JoinWorkers, JoinConsumer
<1>2. ASSUME NEW p \in Producers, Producer(p) PROVE UNCHANGED mem
  BY <1>2 DEF Producer, ProducerFinished, SliceOutOfRange, SliceInRange, QueueJob,
     TickOff, TimeOut, NextBatch
<1>3. ASSUME NEW w \in Workers, Worker(w) PROVE UNCHANGED mem
  BY <1>3 DEF Worker, TakeJob, SendResult, WorkerReturns
<1>4. CASE Consumer
  BY <1>4 DEF Consumer, ConsumeError, ConsumeResult, ConsumerErases, ConsumerWrites,
     NotifyFinished, ConsumerEnds
<1>5. CASE Saving
  BY <1>5 DEF Saving, PhaseAfterErases, PhaseAfterWrites, ErrorErases, ErrorWrites
<1>6. CASE TimingOut
  BY <1>6 DEF TimingOut, Returning, ScoutTimeout, TimeoutErases, TimeoutSerialises,
     TimeoutRaces, TimeoutWrites, TimeoutExits
<1>7. CASE Crash \/ WorkerPanics \/ Resuming \/ Over
  BY <1>7 DEF Crash, WorkerPanics, Resuming, RestartFromNothing, Over
<1> QED
  BY <1>1, <1>2, <1>3, <1>4, <1>5, <1>6, <1>7 DEF Next

LEMMA DiskFrame ==
    [Next]_vars =>
      \/ UNCHANGED disk
      \/ disk' = NoSave /\ UNCHANGED mem
      \/ ConsumerWrites \/ PhaseAfterWrites \/ ErrorWrites \/ TimeoutWrites
<1> SUFFICES ASSUME [Next]_vars
             PROVE  \/ UNCHANGED disk
                    \/ disk' = NoSave /\ UNCHANGED mem
                    \/ ConsumerWrites \/ PhaseAfterWrites \/ ErrorWrites \/ TimeoutWrites
  OBVIOUS
<1> USE DEF vars
<1>1. CASE Main
  BY <1>1 DEF Main, QueryError, RefusePhase, BudgetPanics, NothingToUpdate, StartPipeline,
     JoinTwitter, JoinReddit, JoinProducer, JoinWorkers, JoinConsumer
<1>2. ASSUME NEW p \in Producers, Producer(p) PROVE UNCHANGED disk
  BY <1>2 DEF Producer, ProducerFinished, SliceOutOfRange, SliceInRange, QueueJob,
     TickOff, TimeOut, NextBatch
<1>3. ASSUME NEW w \in Workers, Worker(w) PROVE UNCHANGED disk
  BY <1>3 DEF Worker, TakeJob, SendResult, WorkerReturns
<1>4. CASE Consumer
  BY <1>4 DEF Consumer, ConsumeError, ConsumeResult, MergeField, MarkUpdated, CountUpdated,
     ConsumerErases, NotifyFinished, ConsumerEnds
<1>5. CASE Saving
  BY <1>5 DEF Saving, PhaseAfterErases, ErrorErases
<1>6. CASE TimingOut
  BY <1>6 DEF TimingOut, Returning, ScoutTimeout, TimeoutErases, TimeoutSerialises,
     TimeoutRaces, TimeoutExits
<1>7. CASE Crash \/ WorkerPanics \/ Resuming \/ Over
  BY <1>7 DEF Crash, WorkerPanics, Resuming, Restart, RestartFromNothing, Over
<1> QED
  BY <1>1, <1>2, <1>3, <1>4, <1>5, <1>6, <1>7 DEF Next

(* The steps that bear on the result in the consumer's hands.              *)
LEMMA MergeFrame ==
    [Next]_vars =>
      \/ StartPipeline \/ JoinConsumer \/ Restart \/ Consumer
      \/ ProcessEnds /\ UNCHANGED mem
      \/ /\ UNCHANGED <<mem, cons, consDev, toMerge>>
         /\ pc \in {"down", "lost"} => pc' \in {"down", "lost"}
<1> SUFFICES ASSUME [Next]_vars
             PROVE  \/ StartPipeline \/ JoinConsumer \/ Restart \/ Consumer
                    \/ ProcessEnds /\ UNCHANGED mem
                    \/ /\ UNCHANGED <<mem, cons, consDev, toMerge>>
                       /\ pc \in {"down", "lost"} => pc' \in {"down", "lost"}
  OBVIOUS
<1> USE DEF vars, pipeVars, prodVars, chanVars, workVars, consVars, procVars, timeoutVars
<1>1. CASE Main
  BY <1>1 DEF Main, QueryError, RefusePhase, BudgetPanics, NothingToUpdate,
     JoinTwitter, JoinReddit, JoinProducer, JoinWorkers
<1>2. ASSUME NEW p \in Producers, Producer(p)
      PROVE  UNCHANGED mem /\ (UNCHANGED <<pc, cons, consDev, toMerge>> \/ ProcessEnds)
  BY <1>2 DEF Producer, ProducerFinished, SliceOutOfRange, SliceInRange, QueueJob,
     TickOff, TimeOut, NextBatch
<1>3. ASSUME NEW w \in Workers, Worker(w)
      PROVE  UNCHANGED <<pc, mem, cons, consDev, toMerge>>
  BY <1>3 DEF Worker, TakeJob, SendResult, WorkerReturns
<1>4. CASE Saving
  BY <1>4 DEF Saving, PhaseAfterErases, PhaseAfterWrites, ErrorErases, ErrorWrites
<1>5. CASE TimingOut
  BY <1>5 DEF TimingOut, Returning, ScoutTimeout, TimeoutErases, TimeoutSerialises,
     TimeoutRaces, TimeoutWrites, TimeoutExits
<1>6. CASE Crash \/ WorkerPanics \/ Resuming \/ Over
  BY <1>6 DEF Crash, WorkerPanics, Resuming, RestartFromNothing, Over
<1> QED
  BY <1>1, <1>2, <1>3, <1>4, <1>5, <1>6 DEF Next

(* Nobody starts to be at work who was not to be queued.                   *)
LEMMA WorkMoves ==
    JobsInv /\ [Next]_vars =>
      \/ StartPipeline
      \/ /\ \A p \in Producers : unqueued'[p] \subseteq unqueued[p]
         /\ \A d \in AtWork' : d \in AtWork \/ \E p \in Producers : d \in unqueued[p]
<1> SUFFICES ASSUME JobsInv, [Next]_vars, ~StartPipeline
             PROVE  /\ \A p \in Producers : unqueued'[p] \subseteq unqueued[p]
                    /\ \A d \in AtWork' : d \in AtWork \/ \E p \in Producers : d \in unqueued[p]
  OBVIOUS
<1>1. CASE UNCHANGED jobVars
  BY <1>1 DEF jobVars, AtWork, Queued, Held, Answered, Consumed
<1>2. ASSUME NEW p \in Producers, QueueJob(p)
      PROVE  /\ \A q \in Producers : unqueued'[q] \subseteq unqueued[q]
             /\ \A d \in AtWork' : d \in AtWork \/ \E q \in Producers : d \in unqueued[q]
  BY <1>2, QueueJobAtWork DEF JobsInv, TypeOK
<1>3. ASSUME NEW p \in Producers, TickOff(p) \/ TimeOut(p)
      PROVE  UNCHANGED unqueued /\ AtWork' \subseteq AtWork
  BY <1>3 DEF TickOff, TimeOut, AtWork, Queued, Held, Answered, Consumed, workVars, consVars
<1>4. CASE \E w \in Workers : TakeJob(w) \/ SendResult(w)
  BY <1>4, SameAtWork
<1>5. CASE ConsumeError \/ ConsumeResult \/ NotifyFinished
  BY <1>5, SameAtWork, ConsumeErrorAtWork, NotifyFinishedAtWork
<1>6. CASE ProcessEnds
  BY <1>6, ProcessEndsAtWork DEF ProcessEnds
<1> QED
  BY <1>1, <1>2, <1>3, <1>4, <1>5, <1>6, JobsFrame

(* Outside the pipeline nobody is left to queue.                           *)
LEMMA NobodyToQueue ==
    CoreInv /\ pc \notin Joining => \A p \in Producers : unqueued[p] = {}
  BY DEF CoreInv, JobsInv, PipelineAtRest, ProducersExhausted

-----------------------------------------------------------------------------
(* What is still to be merged has not been merged.                         *)

(* Whom the consumer holds is at work, hence not to be queued.             *)
LEMMA ConsumerAtWork ==
    ASSUME JobsInv, cons \in Holding
    PROVE  /\ consDev \in Dev /\ consDev \in AtWork
           /\ \A p \in Producers : consDev \notin unqueued[p]
<1>1. consDev \in Dev
  BY DEF JobsInv, TypeOK, ConsumerHolds
<1>2. consDev \in AtWork
  BY <1>1 DEF AtWork, Consumed
<1> QED
  BY <1>1, <1>2 DEF JobsInv, OneJobPerDeveloper

(* The consumer's steps on a result leave the others where they are.       *)
LEMMA ConsumerKeepsJobs ==
    ASSUME \/ \E f \in Fields : MergeField(f)
           \/ MarkUpdated \/ CountUpdated \/ ConsumerErases \/ ConsumerWrites \/ ConsumerEnds
    PROVE  UNCHANGED <<unqueued, consDev>> /\ AtWork' = AtWork
  BY DEF MergeField, MarkUpdated, CountUpdated, ConsumerErases, ConsumerWrites, ConsumerEnds,
         prodVars, chanVars, workVars, AtWork, Queued, Answered, Consumed, Held

LEMMA NextStillToMerge ==
    CoreInv /\ StillToMerge /\ MemoryConsistent /\ [Next]_vars => StillToMerge'
<1> SUFFICES ASSUME CoreInv, StillToMerge, MemoryConsistent, [Next]_vars PROVE StillToMerge'
  OBVIOUS
<1> USE DEF StillToMerge, Unmerged
<1>0. JobsInv /\ TypeOK /\ ConsumerHolds
  BY DEF CoreInv, JobsInv
<1>1. CASE StartPipeline
  <2>1. AtWork' = {} /\ UNCHANGED <<mem, consDev>> /\ cons' = "idle"
    <3>1. AtWork = {}
      BY <1>0, <1>1, NobodyAtWork DEF StartPipeline, Joining
    <3> QED
      BY <1>1, <3>1, StartPipelineFetches
      DEF StartPipeline, AtWork, Queued, Held, Answered, Consumed
  <2>2. ASSUME NEW p \in Producers, NEW d \in unqueued'[p] PROVE Unmerged(d)
    <3>1. d \in Dev /\ d \notin Excluded(mem)
      BY <1>1, StartPipelineFetches DEF Unscraped
    <3>2. mem.snaps[d] \in Nat
      BY <1>0, <3>1 DEF TypeOK, ScoutState
    <3>3. d \in TwitterDevs => mem.snaps[d] = 0
      BY <3>1, <3>2 DEF Excluded
    <3>4. d \notin Discovered /\ ~ScoutTimesOut => mem.snaps[d] = 0
      <4>1. pc = "start" /\ consDev = NoDev
        BY <1>0, <1>1 DEF StartPipeline, ConsumerHolds, Holding, Joining
      <4>2. d # NoDev
        BY <3>1, DevAssumption
      <4> QED
        BY <3>1, <3>2, <4>1, <4>2 DEF MemoryConsistent, Excluded
    <3> QED
      BY <3>1, <3>3, <3>4 DEF Excluded
  <2> QED
    BY <2>1, <2>2
<1>2. CASE JoinConsumer
  <2>1. UNCHANGED <<mem, unqueued, consDev>> /\ AtWork' = AtWork /\ cons' = "none"
    BY <1>2 DEF JoinConsumer, prodVars, chanVars, workVars, AtWork, Queued, Held, Answered, Consumed
  <2> QED
    BY <2>1
<1>3. CASE Restart
  <2>1. AtWork = {} /\ (\A p \in Producers : unqueued[p] = {}) /\ cons = "none"
    BY <1>0, <1>3, NobodyAtWork, NobodyToQueue DEF Restart, Joining, ConsumerHolds
  <2>2. UNCHANGED <<unqueued, cons>> /\ AtWork' = AtWork
    BY <1>3 DEF Restart, pipeVars, prodVars, chanVars, workVars, consVars,
       AtWork, Queued, Held, Answered, Consumed
  <2> QED
    BY <2>1, <2>2
<1>4. CASE ProcessEnds
  BY <1>4, ProcessEndsAtWork DEF ProcessEnds
<1>5. ASSUME UNCHANGED <<mem, cons, consDev, toMerge>>, ~StartPipeline
      PROVE  StillToMerge'
  <2>1. /\ \A p \in Producers : unqueued'[p] \subseteq unqueued[p]
        /\ \A d \in AtWork' : d \in AtWork \/ \E p \in Producers : d \in unqueued[p]
    BY <1>0, <1>5, WorkMoves
  <2> QED
    BY <1>5, <2>1
<1>6. CASE Consumer
  <2>1. CASE ConsumeError
    <3>1. AtWork' \subseteq AtWork /\ UNCHANGED <<unqueued, consDev>>
      BY <1>0, <2>1, ConsumeErrorAtWork
    <3>2. UNCHANGED mem /\ cons' \in {"gone", "idle"}
      BY <2>1 DEF ConsumeError
    <3> QED
      BY <3>1, <3>2
  <2>2. CASE ConsumeResult
    <3>1. AtWork' = AtWork /\ UNCHANGED <<unqueued, mem>> /\ cons' = "merge"
      BY <1>0, <2>2, SameAtWork DEF ConsumeResult
    <3>2. consDev = NoDev /\ consDev \notin AtWork
      BY <1>0, <2>2, DevAssumption DEF ConsumeResult, ConsumerHolds, Holding, AtWork
    <3>3. consDev' \in AtWork
      BY <1>0, <2>2 DEF ConsumeResult, AtWork, Answered, TypeOK, Result
    <3> QED
      BY <3>1, <3>2, <3>3
  <2>3. ASSUME NEW f \in Fields, MergeField(f) PROVE StillToMerge'
    <3>1. UNCHANGED <<unqueued, consDev>> /\ AtWork' = AtWork
      BY <2>3, ConsumerKeepsJobs
    <3>2. consDev \in Dev /\ \A p \in Producers : consDev \notin unqueued[p]
      BY <1>0, <2>3, ConsumerAtWork DEF MergeField, Holding
    <3>3. /\ mem'.updated = mem.updated
          /\ f = "times" => mem'.snaps = mem.snaps
          /\ f = "snaps" => \A d \in Dev : d # consDev => mem'.snaps[d] = mem.snaps[d]
      <4>1. mem \in ScoutState
        BY <1>0 DEF TypeOK
      <4> QED
        BY <2>3, <3>2, <4>1, TimesMerged, SnapsMerged DEF MergeField, Fields, ScoutState
    <3>4. cons' \in {"merge", "mark"} /\ toMerge' = toMerge \ {f} /\ cons = "merge"
      BY <2>3 DEF MergeField
    <3>5. ASSUME NEW d \in Dev, d # consDev, Unmerged(d) PROVE Unmerged(d)'
      BY <3>3, <3>5 DEF Fields
    <3>6. AtWork \subseteq Dev /\ \A p \in Producers : unqueued[p] \subseteq Dev
      BY <1>0 DEF AtWork, TypeOK
    <3>7. "snaps" \in toMerge' => f = "times" /\ "snaps" \in toMerge
      BY <3>4 DEF Fields
    <3> HIDE DEF Unmerged
    <3>8. /\ \A p \in Producers : \A d \in unqueued'[p] : Unmerged(d)'
          /\ \A d \in AtWork' : d # consDev' => Unmerged(d)'
      BY <3>1, <3>2, <3>5, <3>6
    <3>9. "snaps" \in toMerge' => Unmerged(consDev)'
      BY <3>1, <3>3, <3>4, <3>7 DEF Unmerged
    <3> QED
      BY <3>1, <3>3, <3>4, <3>8, <3>9
  <2>4. CASE MarkUpdated
    <3>1. UNCHANGED <<unqueued, consDev>> /\ AtWork' = AtWork
      BY <2>4, ConsumerKeepsJobs
    <3>2. consDev \in Dev /\ \A p \in Producers : consDev \notin unqueued[p]
      BY <1>0, <2>4, ConsumerAtWork DEF MarkUpdated, Holding
    <3>3. Range(mem'.updated) = Range(mem.updated) \cup {consDev} /\ mem'.snaps = mem.snaps
      <4>1. mem \in ScoutState /\ mem.updated \in Seq(Dev)
        BY <1>0 DEF TypeOK, ScoutState
      <4> QED
        BY <2>4, <3>2, <4>1, DeveloperListed, RangeAppend DEF MarkUpdated
    <3>4. cons' = "count"
      BY <2>4 DEF MarkUpdated
    <3> QED
      BY <3>1, <3>2, <3>3, <3>4
  <2>5. CASE CountUpdated
    <3>1. UNCHANGED <<unqueued, consDev>> /\ AtWork' = AtWork
      BY <2>5, ConsumerKeepsJobs
    <3>2. mem'.updated = mem.updated /\ mem'.snaps = mem.snaps
      BY <1>0, <2>5, DeveloperCounted DEF CountUpdated, TypeOK
    <3>3. cons = "count" /\ cons' \in {"erase", "notify"}
      BY <2>5 DEF CountUpdated
    <3> QED
      BY <3>1, <3>2, <3>3
  <2>6. CASE ConsumerErases \/ ConsumerWrites \/ ConsumerEnds
    <3>1. UNCHANGED <<unqueued, consDev>> /\ AtWork' = AtWork
      BY <2>6, ConsumerKeepsJobs
    <3>2. /\ UNCHANGED mem
          /\ cons' \in {"write", "notify", "sending"}
          /\ cons' \in {"write", "notify"} => cons \in {"erase", "write"}
      BY <2>6 DEF ConsumerErases, ConsumerWrites, ConsumerEnds
    <3> QED
      BY <3>1, <3>2
  <2>7. CASE NotifyFinished
    <3>1. AtWork' = AtWork \ {consDev} /\ UNCHANGED unqueued
      BY <1>0, <2>7, NotifyFinishedAtWork
    <3>2. UNCHANGED mem /\ cons' = "idle"
      BY <2>7 DEF NotifyFinished
    <3> QED
      BY <3>1, <3>2
  <2> QED
    BY <1>6, <2>1, <2>2, <2>3, <2>4, <2>5, <2>6, <2>7 DEF Consumer
<1> QED
  BY <1>1, <1>2, <1>3, <1>4, <1>5, <1>6, MergeFrame

-----------------------------------------------------------------------------
(* One partial snapshot each.                                              *)

LEMMA NextSnapshotsOnce ==
    CoreInv /\ StillToMerge /\ DraftBehind /\ SnapshotsOnce /\ [Next]_vars => SnapshotsOnce'
<1> SUFFICES ASSUME CoreInv, StillToMerge, DraftBehind, SnapshotsOnce, [Next]_vars
             PROVE  SnapshotsOnce'
  OBVIOUS
<1>0. JobsInv /\ TypeOK /\ NoSave \notin ScoutState
  BY NoSaveAssumption DEF CoreInv, JobsInv
<1>1. ASSUME NEW d \in Dev, d \in TwitterDevs \/ (d \notin Discovered /\ ~ScoutTimesOut)
      PROVE  mem'.snaps[d] <= 1
  <2>0. mem.snaps[d] <= 1
    BY <1>1 DEF SnapshotsOnce
  <2>1. ASSUME NEW f \in Fields, MergeField(f) PROVE mem'.snaps[d] <= 1
    <3>1. mem \in ScoutState /\ consDev \in Dev
      BY <1>0, <2>1, ConsumerAtWork DEF TypeOK, MergeField, Holding
    <3>2. CASE f = "times"
      BY <2>0, <2>1, <3>1, <3>2, TimesMerged DEF MergeField
    <3>3. CASE f = "snaps"
      <4>1. mem'.snaps = [mem.snaps EXCEPT ![consDev] = @ + 1]
        BY <2>1, <3>1, <3>3, SnapsMerged DEF MergeField
      <4>2. Unmerged(consDev)
        BY <2>1, <3>3 DEF StillToMerge, MergeField
      <4>3. d = consDev => mem.snaps[d] = 0
        BY <1>1, <4>2 DEF Unmerged
      <4> QED
        BY <2>0, <3>1, <4>1, <4>3 DEF ScoutState
    <3> QED
      BY <3>2, <3>3 DEF Fields
  <2>2. CASE MarkUpdated
    <3>1. mem \in ScoutState /\ consDev \in Dev
      BY <1>0, <2>2, ConsumerAtWork DEF TypeOK, MarkUpdated, Holding
    <3> QED
      BY <2>0, <2>2, <3>1, DeveloperListed DEF MarkUpdated
  <2>3. CASE CountUpdated
    BY <1>0, <2>0, <2>3, DeveloperCounted DEF CountUpdated, TypeOK
  <2>4. CASE Restart
    BY <1>1, <2>4 DEF Restart, SnapshotsOnce
  <2> QED
    BY <2>0, <2>1, <2>2, <2>3, <2>4, MemFrame
<1>2. ASSUME NEW d \in Dev, d \in TwitterDevs \/ (d \notin Discovered /\ ~ScoutTimesOut),
             disk' # NoSave
      PROVE  disk'.snaps[d] <= 1
  <2>1. disk' = mem \/ disk' = draft \/ disk' = disk
    BY <1>2, DiskFrame DEF ConsumerWrites, PhaseAfterWrites, ErrorWrites, TimeoutWrites
  <2> QED
    BY <1>2, <2>1 DEF SnapshotsOnce, DraftBehind
<1> QED
  BY <1>1, <1>2 DEF SnapshotsOnce

-----------------------------------------------------------------------------
(* What the return after ScoutTimeout has serialised.                      *)

LEMMA DraftFrame ==
    [Next]_vars =>
      \/ UNCHANGED timeoutVars /\ (pc' \in {"start", "down"} => pc \in {"start", "down"})
      \/ ScoutTimeout \/ TimeoutErases \/ (\E f \in Parts : TimeoutSerialises(f))
      \/ TimeoutWrites \/ ProcessEnds
<1> SUFFICES ASSUME [Next]_vars
             PROVE  \/ /\ UNCHANGED timeoutVars
                       /\ pc' \in {"start", "down"} => pc \in {"start", "down"}
                    \/ ScoutTimeout \/ TimeoutErases \/ (\E f \in Parts : TimeoutSerialises(f))
                    \/ TimeoutWrites \/ ProcessEnds
  OBVIOUS
<1> USE DEF vars, pipeVars, prodVars, chanVars, workVars, consVars, procVars, timeoutVars
<1>1. CASE Main
  BY <1>1 DEF Main, QueryError, RefusePhase, BudgetPanics, NothingToUpdate, StartPipeline,
     JoinTwitter, JoinReddit, JoinProducer, JoinWorkers, JoinConsumer
<1>2. ASSUME NEW p \in Producers, Producer(p)
      PROVE  UNCHANGED <<pc, timeoutVars>> \/ ProcessEnds
  BY <1>2 DEF Producer, ProducerFinished, SliceOutOfRange, SliceInRange, QueueJob,
     TickOff, TimeOut, NextBatch
<1>3. ASSUME NEW w \in Workers, Worker(w) PROVE UNCHANGED <<pc, timeoutVars>>
  BY <1>3 DEF Worker, TakeJob, SendResult, WorkerReturns
<1>4. CASE Consumer
  BY <1>4 DEF Consumer, ConsumeError, ConsumeResult, MergeField, MarkUpdated, CountUpdated,
     ConsumerErases, ConsumerWrites, NotifyFinished, ConsumerEnds
<1>5. CASE Saving
  BY <1>5 DEF Saving, PhaseAfterErases, PhaseAfterWrites, ErrorErases, ErrorWrites
<1>6. CASE TimingOut
  BY <1>6 DEF TimingOut, Returning, TimeoutRaces, TimeoutExits
<1>7. CASE Crash \/ WorkerPanics \/ Resuming \/ Over
  BY <1>7 DEF Crash, WorkerPanics, Resuming, Restart, RestartFromNothing, Over
<1> QED
  BY <1>1, <1>2, <1>3, <1>4, <1>5, <1>6, <1>7 DEF Next

(* The list only grows while a process runs.                               *)
LEMMA ListGrows ==
    ASSUME JobsInv, [Next]_vars, ~Restart
    PROVE  /\ Len(mem.updated) \in Nat /\ Len(mem'.updated) \in Nat
           /\ Len(mem.updated) <= Len(mem'.updated)
           /\ \A i \in 1 .. Len(mem.updated) : mem'.updated[i] = mem.updated[i]
<1>0. mem \in ScoutState /\ mem.updated \in Seq(Dev) /\ Len(mem.updated) \in Nat
  BY DEF JobsInv, TypeOK, ScoutState
<1>1. CASE mem'.updated = mem.updated
  BY <1>0, <1>1
<1>2. CASE MarkUpdated
  <2>1. consDev \in Dev
    BY <1>2, ConsumerAtWork DEF MarkUpdated, Holding
  <2>2. mem'.updated = Append(mem.updated, consDev)
    BY <1>0, <1>2, <2>1, DeveloperListed DEF MarkUpdated
  <2> QED
    BY <1>0, <2>1, <2>2, AppendProperties
<1>3. ASSUME NEW f \in Fields, MergeField(f) PROVE mem'.updated = mem.updated
  <2>1. consDev \in Dev
    BY <1>3, ConsumerAtWork DEF MergeField, Holding
  <2> QED
    BY <1>0, <1>3, <2>1, TimesMerged, SnapsMerged DEF MergeField
<1>4. CASE CountUpdated
  BY <1>0, <1>1, <1>4, DeveloperCounted DEF CountUpdated
<1> QED
  BY <1>1, <1>2, <1>3, <1>4, MemFrame

LEMMA NextDraftBehind ==
    CoreInv /\ SnapshotsOnce /\ DraftBehind /\ [Next]_vars => DraftBehind'
<1> SUFFICES ASSUME CoreInv, SnapshotsOnce, DraftBehind, [Next]_vars PROVE DraftBehind'
  OBVIOUS
<1>0. JobsInv /\ mem \in ScoutState /\ draft \in ScoutState
  BY DEF CoreInv, JobsInv, TypeOK
<1> USE DEF DraftBehind
<1>1. CASE UNCHANGED timeoutVars /\ (pc' \in {"start", "down"} => pc \in {"start", "down"})
  <2>1. CASE Restart
    BY <1>1, <2>1 DEF timeoutVars, Restart
  <2>2. CASE ~Restart
    <3>1. Len(draft.updated) \in Nat
      BY <1>0 DEF ScoutState
    <3> QED
      BY <1>0, <1>1, <2>2, <3>1, ListGrows DEF timeoutVars
  <2> QED
    BY <2>1, <2>2
<1>2. CASE ScoutTimeout
  BY <1>2 DEF ScoutTimeout, Joining
<1>3. CASE TimeoutErases
  BY <1>3 DEF TimeoutErases, Parts
<1>4. ASSUME NEW f \in Parts, TimeoutSerialises(f) PROVE DraftBehind'
  <2>1. UNCHANGED <<pc, mem, returning>> /\ unsaved' = unsaved \ {f}
    BY <1>4 DEF TimeoutSerialises
  <2>2. draft'.snaps \in {draft.snaps, mem.snaps}
    BY <1>0, <1>4 DEF TimeoutSerialises, Parts, Fields, ScoutState
  <2>3. IF f = "state" THEN draft'.updated = mem.updated ELSE draft'.updated = draft.updated
    BY <1>0, <1>4 DEF TimeoutSerialises, Parts, Fields, ScoutState
  <2>4. Len(mem.updated) \in Nat
    BY <1>0 DEF ScoutState
  <2> QED
    BY <2>1, <2>2, <2>3, <2>4 DEF SnapshotsOnce
<1>5. CASE TimeoutWrites
  BY <1>5 DEF TimeoutWrites
<1>6. CASE ProcessEnds
  BY <1>6 DEF ProcessEnds, Blank
<1> QED
  BY <1>1, <1>2, <1>3, <1>4, <1>5, <1>6, DraftFrame

-----------------------------------------------------------------------------
(* The state is consistent but for the result in the consumer's hands.     *)

LEMMA NextMemoryConsistent ==
    CoreInv /\ StillToMerge /\ DiskConsistent /\ MemoryConsistent /\ [Next]_vars
      => MemoryConsistent'
<1> SUFFICES ASSUME CoreInv, StillToMerge, DiskConsistent, MemoryConsistent, [Next]_vars,
                    pc' \notin {"down", "lost"}, ~ScoutTimesOut
             PROVE  MemoryConsistent'
  BY DEF MemoryConsistent
<1>0. JobsInv /\ TypeOK /\ ConsumerHolds /\ mem \in ScoutState
  BY DEF CoreInv, JobsInv, TypeOK
<1>1. CASE StartPipeline
  <2>1. pc = "start" /\ UNCHANGED <<mem, consDev>> /\ cons' = "idle" /\ cons = "none"
    BY <1>0, <1>1 DEF StartPipeline, ConsumerHolds, Joining
  <2> QED
    BY <2>1 DEF MemoryConsistent, Holding
<1>2. CASE JoinConsumer
  <2>1. pc = "consumer" /\ UNCHANGED <<mem, consDev>> /\ cons' = "none" /\ cons = "sending"
    BY <1>2 DEF JoinConsumer
  <2> QED
    BY <2>1 DEF MemoryConsistent, Holding
<1>3. CASE Restart
  <2>1. Consistent(disk) /\ mem' = disk
    BY <1>3 DEF Restart, DiskConsistent
  <2>2. cons = "none" /\ UNCHANGED <<cons, consDev>> /\ consDev = NoDev
    BY <1>0, <1>3 DEF Restart, ConsumerHolds, Holding, Joining, pipeVars, consVars
  <2>3. disk.developers \in Nat
    BY <1>0, <1>3 DEF Restart, TypeOK, ScoutState
  <2> QED
    BY <2>1, <2>2, <2>3 DEF MemoryConsistent, Consistent, Holding
<1>4. CASE ProcessEnds
  BY <1>4 DEF ProcessEnds
<1>5. CASE UNCHANGED <<mem, cons, consDev, toMerge>>
           /\ (pc \in {"down", "lost"} => pc' \in {"down", "lost"})
  BY <1>5 DEF MemoryConsistent
<1>6. CASE Consumer
  <2>0. pc \notin {"down", "lost"} /\ pc' = pc
    <3>1. cons # "none"
      BY <1>6 DEF Consumer, ConsumeError, ConsumeResult, MergeField, MarkUpdated, CountUpdated,
         ConsumerErases, ConsumerWrites, NotifyFinished, ConsumerEnds
    <3>2. pc' = pc
      BY <1>6 DEF Consumer, ConsumeError, ConsumeResult, MergeField, MarkUpdated, CountUpdated,
         ConsumerErases, ConsumerWrites, NotifyFinished, ConsumerEnds
    <3> QED
      BY <1>0, <3>1, <3>2 DEF ConsumerHolds, Joining
  <2>a. /\ mem.times \ {consDev} = (Range(mem.updated) \cup Discovered) \ {consDev}
        /\ \A d \in Dev \ {consDev} : mem.snaps[d] > 0 <=> d \in mem.times
        /\ cons \in Holding =>
             /\ cons # "merge" \/ "times" \notin toMerge => consDev \in mem.times
             /\ cons # "merge" \/ "snaps" \notin toMerge => mem.snaps[consDev] > 0
        /\ mem.developers + (IF cons = "count" THEN 1 ELSE 0) = Len(mem.updated)
    BY <2>0 DEF MemoryConsistent
  <2>1. CASE ConsumeError
    BY <2>1, <2>a DEF ConsumeError, MemoryConsistent, Holding
  <2>2. CASE ConsumeResult
    <3>1. consDev = NoDev /\ NoDev \notin Dev
      BY <1>0, <2>2, DevAssumption DEF ConsumeResult, ConsumerHolds, Holding
    <3>2. NoDev \notin mem.times /\ NoDev \notin Range(mem.updated) \cup Discovered
      <4>1. mem.times \subseteq Dev /\ Discovered \subseteq Dev /\ mem.updated \in Seq(Dev)
        BY <1>0, DevAssumption DEF ScoutState
      <4>2. Range(mem.updated) \subseteq Dev
        BY <4>1 DEF Range
      <4> QED
        BY <3>1, <4>1, <4>2
    <3>3. UNCHANGED mem /\ cons' = "merge" /\ toMerge' = Fields /\ cons = "idle"
      BY <2>2 DEF ConsumeResult
    <3> QED
      BY <2>a, <3>1, <3>2, <3>3 DEF MemoryConsistent, Fields
  <2>3. ASSUME NEW f \in Fields, MergeField(f) PROVE MemoryConsistent'
    <3>1. consDev \in Dev /\ consDev' = consDev /\ cons \in Holding
      BY <1>0, <2>3, ConsumerAtWork DEF MergeField, Holding
    <3>2. /\ cons = "merge" /\ cons' \in {"merge", "mark"} /\ toMerge' = toMerge \ {f}
          /\ cons' = "mark" => toMerge = {f}
      BY <2>3 DEF MergeField
    <3>3. /\ mem'.updated = mem.updated /\ mem'.developers = mem.developers
          /\ f = "times" => mem'.times = mem.times \cup {consDev} /\ mem'.snaps = mem.snaps
          /\ f = "snaps" =>
               mem'.times = mem.times /\ mem'.snaps = [mem.snaps EXCEPT ![consDev] = @ + 1]
      BY <1>0, <2>3, <3>1, TimesMerged, SnapsMerged DEF MergeField, Fields
    <3>4. mem.snaps \in [Dev -> Nat]
      BY <1>0 DEF ScoutState
    <3>5. CASE f = "times"
      BY <2>a, <3>1, <3>2, <3>3, <3>5 DEF MemoryConsistent
    <3>6. CASE f = "snaps"
      BY <2>a, <3>1, <3>2, <3>3, <3>4, <3>6 DEF MemoryConsistent
    <3> QED
      BY <3>5, <3>6 DEF Fields
  <2>4. CASE MarkUpdated
    <3>1. consDev \in Dev /\ consDev' = consDev /\ cons = "mark" /\ cons' = "count"
      BY <1>0, <2>4, ConsumerAtWork DEF MarkUpdated, Holding
    <3>2. /\ mem'.updated = Append(mem.updated, consDev) /\ mem'.developers = mem.developers
          /\ mem'.times = mem.times /\ mem'.snaps = mem.snaps
      BY <1>0, <2>4, <3>1, DeveloperListed DEF MarkUpdated
    <3>3. /\ Range(mem'.updated) = Range(mem.updated) \cup {consDev}
          /\ Len(mem'.updated) = Len(mem.updated) + 1
      BY <1>0, <3>1, <3>2, RangeAppend DEF ScoutState
    <3>4. mem.developers \in Nat
      BY <1>0 DEF ScoutState
    <3> QED
      BY <2>a, <3>1, <3>2, <3>3, <3>4 DEF MemoryConsistent, Holding
  <2>5. CASE CountUpdated
    <3>1. consDev' = consDev /\ cons = "count" /\ cons' \in {"erase", "notify"}
      BY <2>5 DEF CountUpdated
    <3>2. /\ mem'.updated = mem.updated /\ mem'.developers = mem.developers + 1
          /\ mem'.times = mem.times /\ mem'.snaps = mem.snaps
      BY <1>0, <2>5, DeveloperCounted DEF CountUpdated
    <3>3. mem.developers \in Nat
      BY <1>0 DEF ScoutState
    <3> QED
      BY <2>a, <3>1, <3>2, <3>3 DEF MemoryConsistent, Holding
  <2>6. CASE ConsumerErases \/ ConsumerWrites \/ ConsumerEnds
    <3>1. /\ UNCHANGED <<mem, consDev>>
          /\ \/ cons' \in {"write", "notify"} /\ cons \in {"erase", "write"}
             \/ cons' = "sending" /\ cons = "idle"
      BY <2>6 DEF ConsumerErases, ConsumerWrites, ConsumerEnds
    <3> QED
      BY <2>a, <3>1 DEF MemoryConsistent, Holding
  <2>7. CASE NotifyFinished
    <3>1. UNCHANGED mem /\ cons' = "idle" /\ consDev' = NoDev /\ cons = "notify"
      BY <2>7 DEF NotifyFinished
    <3>2. consDev \in Dev /\ consDev \in Range(mem.updated)
      BY <1>0, <2>7, ConsumerAtWork DEF NotifyFinished, Holding, StillToMerge
    <3>3. consDev \in mem.times /\ mem.snaps[consDev] > 0
      BY <2>a, <3>1 DEF Holding
    <3> QED
      BY <2>a, <3>1, <3>2, <3>3 DEF MemoryConsistent, Holding
  <2> QED
    BY <1>6, <2>1, <2>2, <2>3, <2>4, <2>5, <2>6, <2>7 DEF Consumer
<1> QED
  BY <1>1, <1>2, <1>3, <1>4, <1>5, <1>6, MergeFrame

(* Whoever saves finds the memory consistent.                              *)
LEMMA SavedWhenConsistent ==
    ASSUME CoreInv, StillToMerge, MemoryConsistent, ~ScoutTimesOut,
           cons = "write" \/ pc \in {"erased", "failedErased"}
    PROVE  Consistent(mem)
<1>0. JobsInv /\ ConsumerHolds /\ mem \in ScoutState
  BY DEF CoreInv, JobsInv, TypeOK
<1>a. mem.developers \in Nat /\ mem.times \subseteq Dev
  BY <1>0 DEF ScoutState
<1>b. Range(mem.updated) \cup Discovered \subseteq Dev
  BY <1>0, DevAssumption DEF ScoutState, Range
<1>1. CASE cons = "write"
  <2>1. pc \notin {"down", "lost"}
    BY <1>0, <1>1 DEF ConsumerHolds, Joining
  <2>2. consDev \in Range(mem.updated)
    BY <1>1 DEF StillToMerge
  <2> QED
    BY <1>1, <1>a, <2>1, <2>2 DEF MemoryConsistent, Consistent, Holding
<1>2. CASE pc \in {"erased", "failedErased"}
  <2>1. cons = "none" /\ consDev = NoDev /\ NoDev \notin Dev
    BY <1>0, <1>2, DevAssumption DEF ConsumerHolds, Holding, Joining
  <2> QED
    BY <1>2, <1>a, <1>b, <2>1 DEF MemoryConsistent, Consistent
<1> QED
  BY <1>1, <1>2

LEMMA NextDiskConsistent ==
    CoreInv /\ StillToMerge /\ MemoryConsistent /\ DraftBehind /\ DiskConsistent /\ [Next]_vars
      => DiskConsistent'
<1> SUFFICES ASSUME CoreInv, StillToMerge, MemoryConsistent, DraftBehind, DiskConsistent,
                    [Next]_vars, disk' # NoSave, ~ScoutTimesOut
             PROVE  Consistent(disk)'
  BY DEF DiskConsistent
<1>1. CASE UNCHANGED disk
  BY <1>1 DEF DiskConsistent, Consistent
<1>2. CASE ConsumerWrites \/ PhaseAfterWrites \/ ErrorWrites
  <2>1. disk' = mem /\ (cons = "write" \/ pc \in {"erased", "failedErased"})
    BY <1>2 DEF ConsumerWrites, PhaseAfterWrites, ErrorWrites
  <2> QED
    BY <2>1, SavedWhenConsistent DEF Consistent
<1>3. CASE TimeoutWrites
  BY <1>3 DEF TimeoutWrites, DraftBehind
<1> QED
  BY <1>1, <1>2, <1>3, DiskFrame

-----------------------------------------------------------------------------
(* Every developer that was there to update is accounted for.              *)

Accounting == Joining \cup {"returned", "erased", "complete"}

LEMMA AccountFrame ==
    [Next]_vars =>
      \/ StartPipeline \/ NothingToUpdate
      \/ pc' \notin Accounting
      \/ pc \in Accounting /\ skipped \subseteq skipped' /\ ~Restart /\ ~ProcessEnds
<1> SUFFICES ASSUME [Next]_vars, ~StartPipeline, ~NothingToUpdate, pc' \in Accounting
             PROVE  pc \in Accounting /\ skipped \subseteq skipped' /\ ~Restart /\ ~ProcessEnds
  OBVIOUS
<1> USE DEF vars, pipeVars, prodVars, chanVars, workVars, consVars, procVars, timeoutVars,
        Joining, Accounting
<1>a. ~ProcessEnds /\ ~Restart
  BY DEF ProcessEnds, Restart
<1>1. CASE Main
  BY <1>1, <1>a DEF Main, QueryError, RefusePhase, BudgetPanics,
     JoinTwitter, JoinReddit, JoinProducer, JoinWorkers, JoinConsumer
<1>2. ASSUME NEW p \in Producers, Producer(p)
      PROVE  ProcessEnds \/ (UNCHANGED pc /\ skipped \subseteq skipped')
  BY <1>2 DEF Producer, ProducerFinished, SliceOutOfRange, SliceInRange, QueueJob,
     TickOff, TimeOut, NextBatch
<1>3. ASSUME NEW w \in Workers, Worker(w) PROVE UNCHANGED <<pc, skipped>>
  BY <1>3 DEF Worker, TakeJob, SendResult, WorkerReturns
<1>4. CASE Consumer
  BY <1>4, <1>a DEF Consumer, ConsumeError, ConsumeResult, MergeField, MarkUpdated, CountUpdated,
     ConsumerErases, ConsumerWrites, NotifyFinished, ConsumerEnds
<1>5. CASE Saving
  BY <1>5, <1>a DEF Saving, PhaseAfterErases, PhaseAfterWrites, ErrorErases, ErrorWrites
<1>6. CASE TimingOut
  BY <1>6, <1>a DEF TimingOut, Returning, ScoutTimeout, TimeoutErases, TimeoutSerialises,
     TimeoutRaces, TimeoutWrites, TimeoutExits
<1>7. CASE Crash \/ WorkerPanics \/ Resuming \/ Over
  BY <1>7, <1>a DEF Crash, WorkerPanics, Resuming, RestartFromNothing, Over
<1> QED
  BY <1>a, <1>1, <1>2, <1>3, <1>4, <1>5, <1>6, <1>7 DEF Next

(* Nobody becomes unscraped again while a process runs.                    *)
LEMMA UnscrapedShrinks ==
    ASSUME JobsInv, [Next]_vars, ~Restart
    PROVE  Unscraped' \subseteq Unscraped
<1>0. mem \in ScoutState
  BY DEF JobsInv, TypeOK
<1>1. ASSUME NEW f \in Fields, MergeField(f) PROVE Unscraped' \subseteq Unscraped
  <2>1. consDev \in Dev
    BY <1>1, ConsumerAtWork DEF MergeField, Holding
  <2>2. /\ mem'.updated = mem.updated
        /\ mem'.snaps = mem.snaps \/ mem'.snaps = [mem.snaps EXCEPT ![consDev] = @ + 1]
    BY <1>0, <1>1, <2>1, TimesMerged, SnapsMerged DEF MergeField
  <2>3. ASSUME NEW d \in Dev, mem.snaps[d] > 0 PROVE mem'.snaps[d] > 0
    <3>1. mem.snaps \in [Dev -> Nat]
      BY <1>0 DEF ScoutState
    <3> QED
      BY <2>1, <2>2, <2>3, <3>1
  <2> QED
    BY <2>2, <2>3 DEF Unscraped, Excluded, Dev
<1>2. CASE MarkUpdated
  <2>1. consDev \in Dev
    BY <1>2, ConsumerAtWork DEF MarkUpdated, Holding
  <2>2. mem'.updated = Append(mem.updated, consDev) /\ mem'.snaps = mem.snaps
    BY <1>0, <1>2, <2>1, DeveloperListed DEF MarkUpdated
  <2>3. Range(mem'.updated) = Range(mem.updated) \cup {consDev}
    BY <1>0, <2>1, <2>2, RangeAppend DEF ScoutState
  <2> QED
    BY <2>2, <2>3 DEF Unscraped, Excluded
<1>3. CASE CountUpdated
  BY <1>0, <1>3, DeveloperCounted DEF CountUpdated, Unscraped, Excluded
<1>4. CASE UNCHANGED mem
  BY <1>4 DEF Unscraped, Excluded
<1> QED
  BY <1>1, <1>2, <1>3, <1>4, MemFrame

(* Who was at work or to be queued still is, was given up, or is done.     *)
LEMMA NobodyForgotten ==
    ASSUME CoreInv, StillToMerge, [Next]_vars, ~StartPipeline, ~ProcessEnds,
           NEW d \in Dev, d \in AtWork \/ \E p \in Producers : d \in unqueued[p]
    PROVE  \/ d \in AtWork' \/ \E p \in Producers : d \in unqueued'[p]
           \/ d \in skipped' \/ d \notin Unscraped
<1> DEFINE Found == \/ d \in AtWork' \/ \E p \in Producers : d \in unqueued'[p]
                    \/ d \in skipped' \/ d \notin Unscraped
<1>0. JobsInv /\ TypeOK
  BY DEF CoreInv, JobsInv
<1>1. CASE UNCHANGED jobVars
  BY <1>1 DEF jobVars, AtWork, Queued, Held, Answered, Consumed
<1>2. ASSUME NEW p \in Producers, QueueJob(p) PROVE Found
  <2>1. PICK e \in unqueued[p] :
          AtWork' = AtWork \cup {e} /\ unqueued' = [unqueued EXCEPT ![p] = @ \ {e}]
    BY <1>0, <1>2, QueueJobAtWork
  <2> QED
    BY <1>0, <2>1 DEF TypeOK
<1>3. ASSUME NEW p \in Producers, TickOff(p) \/ TimeOut(p) PROVE Found
  <2>1. UNCHANGED <<unqueued, results, worker, consDev>> /\ jobs \subseteq jobs' \cup skipped'
    BY <1>3 DEF TickOff, TimeOut, workVars, consVars
  <2> QED
    BY <2>1 DEF AtWork, Queued, Held, Answered, Consumed
<1>4. CASE (\E w \in Workers : TakeJob(w) \/ SendResult(w)) \/ ConsumeResult
  BY <1>0, <1>4, SameAtWork
<1>5. CASE ConsumeError
  <2>1. PICK r \in results : results' = results \ {r} /\ skipped' = skipped \cup {r.dev}
    BY <1>5 DEF ConsumeError
  <2>2. UNCHANGED <<unqueued, jobs, worker, consDev>>
    BY <1>5 DEF ConsumeError, prodVars, workVars
  <2>3. Answered(d) => Answered(d)' \/ d \in skipped'
    BY <2>1 DEF Answered
  <2> QED
    BY <2>2, <2>3 DEF AtWork, Queued, Held, Consumed
<1>6. CASE NotifyFinished
  <2>1. consDev \notin Unscraped
    BY <1>6 DEF NotifyFinished, StillToMerge, Unscraped, Excluded
  <2> QED
    BY <1>0, <1>6, <2>1, NotifyFinishedAtWork
<1> QED
  BY <1>1, <1>2, <1>3, <1>4, <1>5, <1>6, JobsFrame

LEMMA NextAccounted ==
    CoreInv /\ StillToMerge /\ Accounted /\ [Next]_vars => Accounted'
<1> SUFFICES ASSUME CoreInv, StillToMerge, Accounted, [Next]_vars,
                    pc' \in Accounting, NEW d \in Unscraped'
             PROVE  d \in skipped' \/ d \in AtWork' \/ \E p \in Producers : d \in unqueued'[p]
  BY DEF Accounted, Accounting
<1>0. JobsInv
  BY DEF CoreInv
<1>1. CASE StartPipeline
  <2>1. PICK F \in Fetched("twitter"), R \in Fetched("reddit") :
          \E T \in Affordable(F, R) :
            /\ unqueued' = [p \in Producers |-> IF p = "twitter" THEN T ELSE R]
            /\ skipped' = Unscraped \ (T \cup R)
    BY <1>1 DEF StartPipeline
  <2>2. PICK T \in Affordable(F, R) :
          /\ unqueued' = [p \in Producers |-> IF p = "twitter" THEN T ELSE R]
          /\ skipped' = Unscraped \ (T \cup R)
    BY <2>1
  <2>3. d \in Unscraped
    BY <1>0, <1>1, UnscrapedShrinks DEF StartPipeline, Restart
  <2> QED
    BY <2>2, <2>3 DEF Producers
<1>2. CASE NothingToUpdate
  BY <1>2 DEF NothingToUpdate, Unscraped, Excluded
<1>3. CASE /\ pc \in Accounting /\ skipped \subseteq skipped' /\ ~Restart /\ ~ProcessEnds
           /\ ~StartPipeline
  <2>1. d \in Unscraped /\ d \in Dev
    BY <1>0, <1>3, UnscrapedShrinks DEF Unscraped
  <2>2. d \in skipped \/ d \in AtWork \/ \E p \in Producers : d \in unqueued[p]
    BY <1>3, <2>1 DEF Accounted, Accounting
  <2> QED
    BY <1>3, <2>1, <2>2, NobodyForgotten
<1> QED
  BY <1>1, <1>2, <1>3, AccountFrame

-----------------------------------------------------------------------------
(* The inductive invariant, and what follows from it.                      *)

LEMMA InitIInv == Init => IInv
<1> SUFFICES ASSUME Init PROVE IInv
  OBVIOUS
<1>0. CoreInv /\ TypeOK
  BY InitCoreInv, InitTypeOK
<1>1. /\ pc = "start" /\ mem.updated = <<>> /\ mem.times = Discovered /\ mem.developers = 0
      /\ mem.snaps = [d \in Dev |-> IF d \in Discovered THEN 1 ELSE 0]
      /\ disk = mem /\ draft.snaps = [d \in Dev |-> 0]
      /\ returning = "no" /\ cons = "none" /\ consDev = NoDev
      /\ \A p \in Producers : unqueued[p] = {}
  BY DEF Init, NoPipeline, Blank
<1>2. AtWork = {}
  BY <1>0, <1>1, NobodyAtWork DEF CoreInv, Joining
<1>3. Range(mem.updated) = {} /\ Len(mem.updated) = 0
  BY <1>1 DEF Range
<1>4. StillToMerge
  BY <1>1, <1>2 DEF StillToMerge
<1>5. SnapshotsOnce
  BY <1>1 DEF SnapshotsOnce
<1>6. Consistent(mem)
  BY <1>1, <1>3 DEF Consistent
<1>7. DiskConsistent /\ MemoryConsistent
  BY <1>1, <1>3, <1>6 DEF DiskConsistent, MemoryConsistent, Consistent, Holding
<1>8. DraftBehind /\ Accounted
  BY <1>1 DEF DraftBehind, Accounted, Joining
<1> QED
  BY <1>0, <1>4, <1>5, <1>7, <1>8 DEF IInv, CoreInv, JobsInv

LEMMA NextIInv == IInv /\ [Next]_vars => IInv'
<1> SUFFICES ASSUME IInv, [Next]_vars PROVE IInv'
  OBVIOUS
<1>1. CoreInv
  BY DEF IInv, CoreInv, JobsInv
<1>2. CoreInv'
  BY <1>1, NextCoreInv
<1>3. StillToMerge' /\ SnapshotsOnce' /\ DiskConsistent' /\ MemoryConsistent'
      /\ DraftBehind' /\ Accounted'
  BY <1>1, NextStillToMerge, NextSnapshotsOnce, NextDiskConsistent, NextMemoryConsistent,
     NextDraftBehind, NextAccounted DEF IInv
<1> QED
  BY <1>2, <1>3 DEF IInv, CoreInv, JobsInv

(* The inductive invariant: who is where, what is merged, and what the     *)
(* memory, the disk and a half-finished save hold of it.                   *)
THEOREM Inductive == Spec => []IInv
  BY InitIInv, NextIInv, PTL DEF Spec

(* Over all the processes it takes to complete the phase, no developer     *)
(* gets a second partial snapshot, but for the cases the property names.   *)
THEOREM OneSnapshot == Spec => []SnapshotsOnce
<1>1. IInv => SnapshotsOnce
  BY DEF IInv
<1> QED
  BY <1>1, Inductive, PTL

(* Without ScoutTimeout, what a later process loads lists, counts and      *)
(* holds the same developers.                                              *)
THEOREM SavedConsistent == Spec => []SavedStateIsConsistent
<1>1. IInv => SavedStateIsConsistent
  BY DEF IInv, DiskConsistent, Consistent, SavedStateIsConsistent
<1> QED
  BY <1>1, Inductive, PTL

(* The phase returns without an error only when every developer that was   *)
(* there to update is merged and listed, or knowingly given up.            *)
THEOREM AllDone == Spec => []ReturnsWhenAllAreDone
<1>1. ASSUME IInv, pc \in {"returned", "erased", "complete"} PROVE Unscraped \subseteq skipped
  <2>1. CoreInv /\ JobsInv /\ pc \notin Joining
    BY <1>1 DEF IInv, CoreInv, JobsInv, Joining
  <2>2. AtWork = {} /\ \A p \in Producers : unqueued[p] = {}
    BY <2>1, NobodyAtWork, NobodyToQueue
  <2> QED
    BY <1>1, <2>2 DEF IInv, Accounted
<1>2. IInv => ReturnsWhenAllAreDone
  BY <1>1 DEF ReturnsWhenAllAreDone
<1> QED
  BY <1>2, Inductive, PTL

-----------------------------------------------------------------------------
(* The phase implements the ledger.                                        *)

(* A prefix is what a save that lags behind has of the list.               *)
LEMMA PrefixIsSubSeq ==
    ASSUME NEW s \in Seq(Dev), NEW t \in Seq(Dev), Len(t) <= Len(s),
           \A i \in 1 .. Len(t) : t[i] = s[i]
    PROVE  \E n \in 0 .. Len(s) : t = SubSeq(s, 1, n)
<1> DEFINE n == Len(t)
<1>1. n \in 0 .. Len(s) /\ Len(s) \in Nat
  BY LenProperties
<1>2. \A i \in 1 .. n : s[i] \in Dev
  BY <1>1, LenProperties
<1>3. /\ SubSeq(s, 1, n) \in Seq(Dev)
      /\ Len(SubSeq(s, 1, n)) = IF 1 <= n THEN n - 1 + 1 ELSE 0
      /\ \A i \in 1 .. n - 1 + 1 : SubSeq(s, 1, n)[i] = s[1 + i - 1]
  <2>1. 1 \in Int /\ n \in Int
    BY <1>1
  <2> HIDE DEF n
  <2> QED
    BY <1>2, <2>1, SubSeqProperties
<1>4. Len(SubSeq(s, 1, n)) = Len(t)
  BY <1>1, <1>3
<1>5. \A i \in 1 .. Len(t) : t[i] = SubSeq(s, 1, n)[i]
  BY <1>1, <1>3
<1>6. t = SubSeq(s, 1, n)
  BY <1>3, <1>4, <1>5, SeqEqual
<1> QED
  BY <1>1, <1>6

(* The saved copies, as the ledger sees them.                              *)
savedBar == IF disk = NoSave THEN {} ELSE {disk.updated}

LEMMA LedgerStep ==
    IInv /\ [Next]_vars => [Ledger!LedgerNext]_(Ledger!ledgerVars)
<1> SUFFICES ASSUME IInv, [Next]_vars
             PROVE  Ledger!LedgerNext \/ UNCHANGED <<mem.updated, savedBar>>
  BY DEF Ledger!ledgerVars, savedBar
<1>0. /\ CoreInv /\ JobsInv /\ StillToMerge /\ DraftBehind
      /\ mem \in ScoutState /\ draft \in ScoutState /\ NoSave \notin ScoutState
  BY NoSaveAssumption DEF IInv, CoreInv, JobsInv, TypeOK
<1>a. mem.updated \in Seq(Dev) /\ draft.updated \in Seq(Dev)
  BY <1>0 DEF ScoutState
<1>1. ASSUME NEW f \in Fields, MergeField(f) PROVE UNCHANGED <<mem.updated, savedBar>>
  <2>1. consDev \in Dev
    BY <1>0, <1>1, ConsumerAtWork DEF MergeField, Holding
  <2> QED
    BY <1>0, <1>1, <2>1, TimesMerged, SnapsMerged DEF MergeField, savedBar
<1>2. CASE MarkUpdated
  <2>1. consDev \in Dev /\ consDev \notin Range(mem.updated)
    BY <1>0, <1>2, ConsumerAtWork DEF MarkUpdated, Holding, StillToMerge
  <2>2. mem'.updated = Append(mem.updated, consDev) /\ UNCHANGED savedBar
    BY <1>0, <1>2, <2>1, DeveloperListed DEF MarkUpdated, savedBar
  <2>3. Ledger!Record(consDev)
    BY <2>1, <2>2 DEF Ledger!Record, Ledger!Range, Range, savedBar
  <2> QED
    BY <2>1, <2>3 DEF Ledger!LedgerNext
<1>3. CASE CountUpdated
  BY <1>0, <1>3, DeveloperCounted DEF CountUpdated, savedBar
<1>4. CASE Restart
  <2>1. Ledger!Resume
    BY <1>4 DEF Restart, Ledger!Resume
  <2> QED
    BY <2>1 DEF Ledger!LedgerNext
<1>5. CASE UNCHANGED mem
  <2>1. CASE UNCHANGED disk
    BY <1>5, <2>1 DEF savedBar
  <2>2. CASE disk' = NoSave
    <3>1. Ledger!Erase
      BY <1>5, <2>2 DEF Ledger!Erase
    <3> QED
      BY <3>1 DEF Ledger!LedgerNext
  <2>3. ASSUME NEW s \in ScoutState, disk' = s, Len(s.updated) <= Len(mem.updated),
               \A i \in 1 .. Len(s.updated) : s.updated[i] = mem.updated[i]
        PROVE  Ledger!LedgerNext
    <3>1. \E n \in 0 .. Len(mem.updated) : s.updated = SubSeq(mem.updated, 1, n)
      BY <1>a, <2>3, PrefixIsSubSeq DEF ScoutState
    <3>2. disk' # NoSave
      BY <1>0, <2>3
    <3>3. Ledger!Write
      BY <1>5, <2>3, <3>1, <3>2 DEF Ledger!Write
    <3> QED
      BY <3>3 DEF Ledger!LedgerNext
  <2>4. CASE ConsumerWrites \/ PhaseAfterWrites \/ ErrorWrites
    <3>1. disk' = mem
      BY <2>4 DEF ConsumerWrites, PhaseAfterWrites, ErrorWrites
    <3>2. Len(mem.updated) <= Len(mem.updated)
      BY <1>a, LenProperties
    <3> QED
      BY <1>0, <2>3, <3>1, <3>2
  <2>5. CASE TimeoutWrites
    <3>1. disk' = draft /\ returning = "serialise" /\ "state" \notin unsaved
      BY <2>5 DEF TimeoutWrites
    <3> QED
      BY <1>0, <2>3, <3>1 DEF DraftBehind
  <2> QED
    BY <2>1, <2>2, <2>4, <2>5, DiskFrame
<1> QED
  BY <1>1, <1>2, <1>3, <1>4, <1>5, MemFrame

(* The phase keeps the promise of the ledger: nobody is dealt with twice,  *)
(* the saved list is the list or an earlier one, and a new process goes on *)
(* from it.                                                                *)
THEOREM Refinement == Spec => KeepsLedger
<1>1. Init => Ledger!LedgerInit
  <2> SUFFICES ASSUME Init PROVE Ledger!LedgerInit
    OBVIOUS
  <2>1. mem \in ScoutState /\ mem.updated = <<>> /\ disk = mem
    BY InitTypeOK DEF Init, TypeOK
  <2> QED
    BY <2>1, NoSaveAssumption DEF Ledger!LedgerInit
<1>2. IInv /\ [Next]_vars => [Ledger!LedgerNext]_(Ledger!ledgerVars)
  BY LedgerStep
<1> QED
  BY <1>1, <1>2, Inductive, PTL DEF Spec, KeepsLedger, Ledger!LedgerSpec
=============================================================================
