-------------------------- MODULE DatabasePhases_proofs --------------------------
(***************************************************************************)
(* Proofs about the Snapshot, Delete and Measure phases, for any developers*)
(* games and apps, and any number of failures and restarts.                *)
(*                                                                         *)
(* What a phase may repeat is bounded by how many processes began it, so   *)
(* that each part of the invariant says what the process at hand has still *)
(* to do: the aggregates (Aggregated), the highlights and the email        *)
(* (Highlighted, Mailed), and what the board had before it (Boarded).  What*)
(* a phase may forget is what is in memory and not on disk, which for the  *)
(* list of the deleted developers are the stale ones at most (Listed).     *)
(***************************************************************************)
EXTENDS DatabasePhases, FiniteSetTheorems, Integers, TLAPS

-----------------------------------------------------------------------------
(* What FirstOf returns: rows of the set it is asked for, no more than the *)
(* limit.                                                                  *)

LEMMA RankType ==
    ASSUME NEW ranking, NEW S, NEW i \in Nat
    PROVE  /\ IsFiniteSet({j \in 1 .. i : ranking[j] \in S})
           /\ Rank(ranking, S, i) \in Nat
<1>1. IsFiniteSet(1 .. i)
  BY FS_Interval
<1>2. {j \in 1 .. i : ranking[j] \in S} \in SUBSET (1 .. i)
  OBVIOUS
<1>3. IsFiniteSet({j \in 1 .. i : ranking[j] \in S})
  BY <1>1, <1>2, FS_Subset
<1>4. QED
  BY <1>3, FS_CardinalityType DEF Rank

LEMMA RankGrows ==
    ASSUME NEW ranking, NEW S, NEW i \in Nat, NEW k \in Nat, i < k, ranking[k] \in S
    PROVE  Rank(ranking, S, i) < Rank(ranking, S, k)
<1> DEFINE I == {j \in 1 .. i : ranking[j] \in S}
           K == {j \in 1 .. k : ranking[j] \in S}
<1>1. IsFiniteSet(I) /\ IsFiniteSet(K) /\ Cardinality(I) \in Nat /\ Cardinality(K) \in Nat
  BY RankType DEF Rank
<1>2. I \in SUBSET K /\ k \in K /\ k \notin I
  OBVIOUS
<1> HIDE DEF I, K
<1>3. Cardinality(I) <= Cardinality(K) /\ Cardinality(K) # Cardinality(I)
  BY <1>1, <1>2, FS_Subset
<1>4. Cardinality(I) < Cardinality(K)
  BY <1>1, <1>3
<1>5. QED
  BY <1>4 DEF Rank, I, K

LEMMA RankZero ==
    ASSUME NEW ranking, NEW S PROVE Rank(ranking, S, 0) = 0
<1>1. {j \in 1 .. 0 : ranking[j] \in S} = {}
  OBVIOUS
<1>2. QED BY <1>1, FS_EmptySet DEF Rank

LEMMA FirstSubset ==
    ASSUME NEW n, NEW S, NEW ranking
    PROVE  FirstOf(n, S, ranking) \subseteq S
  BY DEF FirstOf

(* The rows of a limit are no more than the limit: their ranks differ.     *)
LEMMA FirstBound ==
    ASSUME NEW n \in Nat, NEW S, NEW ranking, Len(ranking) \in Nat
    PROVE  /\ IsFiniteSet(FirstOf(n, S, ranking))
           /\ Cardinality(FirstOf(n, S, ranking)) \in 0 .. n
<1> DEFINE K == {k \in 1 .. Len(ranking) : ranking[k] \in S /\ Rank(ranking, S, k) <= n}
           rank == [k \in K |-> Rank(ranking, S, k)]
           row == [k \in K |-> ranking[k]]
<1>1. \A k \in K : k \in Nat /\ k # 0 /\ ranking[k] \in S /\ Rank(ranking, S, k) \in 1 .. n
  <2> SUFFICES ASSUME NEW k \in K PROVE Rank(ranking, S, k) \in 1 .. n
    OBVIOUS
  <2>0. k \in Nat /\ 0 \in Nat
    OBVIOUS
  <2>1. Rank(ranking, S, k) \in Nat /\ Rank(ranking, S, 0) \in Nat
    BY <2>0, RankType
  <2>2. Rank(ranking, S, 0) < Rank(ranking, S, k)
    BY RankGrows
  <2>3. QED BY <2>1, <2>2
<1>2. \A j, k \in K : Rank(ranking, S, j) = Rank(ranking, S, k) => j = k
  <2> SUFFICES ASSUME NEW j \in K, NEW k \in K, j # k PROVE Rank(ranking, S, j) # Rank(ranking, S, k)
    OBVIOUS
  <2>0. j \in Nat /\ k \in Nat
    OBVIOUS
  <2>1. Rank(ranking, S, j) \in Nat /\ Rank(ranking, S, k) \in Nat
    BY <2>0, RankType
  <2>2. j < k \/ k < j
    BY <1>1
  <2>3. Rank(ranking, S, j) < Rank(ranking, S, k) \/ Rank(ranking, S, k) < Rank(ranking, S, j)
    BY <1>1, <2>2, RankGrows
  <2>4. QED BY <2>1, <2>3
<1> HIDE DEF K
<1>3. rank \in Injection(K, 1 .. n)
  BY <1>1, <1>2 DEF Injection, IsInjective
<1>4. IsFiniteSet(1 .. n) /\ Cardinality(1 .. n) = n
  <2> HIDE DEF rank, row
  <2>1. 1 \in Int /\ n \in Int /\ (1 > n => n = 0)
    OBVIOUS
  <2>2. IsFiniteSet(1 .. n) /\ Cardinality(1 .. n) = IF 1 > n THEN 0 ELSE n - 1 + 1
    BY ONLY <2>1, FS_Interval
  <2>3. QED BY <2>1, <2>2
<1>5. IsFiniteSet(K) /\ Cardinality(K) <= n
  BY <1>3, <1>4, FS_Injection
<1>6. row \in Surjection(K, FirstOf(n, S, ranking))
  BY DEF Surjection, FirstOf, K
<1>7. /\ IsFiniteSet(FirstOf(n, S, ranking))
      /\ Cardinality(FirstOf(n, S, ranking)) <= Cardinality(K)
  BY <1>5, <1>6, FS_Surjection
<1>8. Cardinality(FirstOf(n, S, ranking)) \in Nat /\ Cardinality(K) \in Nat
  BY <1>5, <1>7, FS_CardinalityType
<1>9. QED BY <1>5, <1>7, <1>8

RowsOf(S, ranking) == {ranking[i] : i \in {k \in 1 .. Len(ranking) : ranking[k] \in S}}
Distinct(ranking) == \A j, k \in 1 .. Len(ranking) : ranking[j] = ranking[k] => j = k

(* The types.                                                              *)
Rated == Devs \cup TopApps
DeletePcs == {"sample", "reference", "games", "developer"}
AddPcs == {"fetched", "add", "highlight"}
MeasurePcs == AddPcs \cup {"app", "addApp", "pdf", "send"}
Lists == UNION {[D -> SUBSET Games] : D \in SUBSET Devs}
States == [phase : Phases \cup {"done"}, deleted : Lists]
Locals == [todo : SUBSET Rated, toGo : Nat, offset : Nat, dev : SUBSET Rated,
           found : SUBSET Items, watching : SUBSET Items, tries : 0 .. Retries]
Tables == [devs : SUBSET Devs, snaps : [Devs -> Nat], highlighted : [Rated -> Nat],
           by : [Games -> SUBSET Devs], games : SUBSET Games, watched : SUBSET Games,
           blank : [BOOLEAN -> Nat], emails : Nat]
Boards == [items : [Items -> Nat], watches : SUBSET Games, cleared : SUBSET Games]
Hists == [entered : [Phases -> Nat], removed : SUBSET Devs, sampled : SUBSET Devs,
          quota : SUBSET Nat, unsaved : BOOLEAN, unseen : BOOLEAN, kept : SUBSET Games,
          resent : Nat, faults : Nat]

Shape ==
    /\ pc \in {"begin", "aggregate", "down", "over"} \cup DeletePcs \cup MeasurePcs
    /\ local \in Locals
    /\ state \in States /\ disk \in States
    /\ db \in Tables
    /\ board \in Boards
    /\ hist \in Hists

(* Where the process is, and the phase it is in.                           *)
Phased ==
    /\ disk.phase = state.phase
    /\ state.phase = "done" <=> pc = "over"
    /\ pc = "aggregate" => state.phase = "snapshot"
    /\ pc \in DeletePcs => state.phase = "delete"
    /\ pc \in MeasurePcs => state.phase = "measure"
    /\ pc \in {"begin", "fetched"} => local.todo = {} /\ local.tries = 0

Aggregated ==
    /\ \A d \in Devs : db.snaps[d] <= Snapshots[d] + (IF d \in Partial THEN hist.entered["snapshot"] ELSE 0)
    /\ \A d \in Partial :
         (state.phase = "snapshot" /\ pc = "begin") \/ (pc = "aggregate" /\ d \in local.todo) =>
            db.snaps[d] < Snapshots[d] + hist.entered["snapshot"]
    /\ \A d \in Partial : Snapshots[d] <= db.snaps[d]
    /\ pc = "aggregate" => /\ local.todo \subseteq Partial
                           /\ \A d \in Partial \ local.todo : Snapshots[d] < db.snaps[d]
    /\ state.phase # "snapshot" => \A d \in Partial : Snapshots[d] < db.snaps[d]

(* Who is still to be highlighted by this process.                         *)
Due(i) ==
    \/ state.phase = "measure" /\ pc \in {"begin", "fetched"}
    \/ pc = "add" /\ i \in local.todo \cup TopApps
    \/ pc = "highlight" /\ i \in local.todo \cup local.dev \cup TopApps
    \/ pc \in {"app", "addApp"} /\ i \in local.todo

Highlighted ==
    /\ \A i \in Rated : db.highlighted[i] <= hist.entered["measure"] - (IF Due(i) THEN 1 ELSE 0)
    /\ pc = "add" => local.todo \subseteq Devs
    /\ pc = "highlight" => local.todo \cup local.dev \subseteq Devs /\ local.todo \cap local.dev = {}
    /\ pc \in {"app", "addApp"} => local.todo \subseteq TopApps
    /\ pc = "addApp" => local.dev \subseteq TopApps /\ local.todo \cap local.dev = {}

ToBeSent ==
    state.phase = "measure" /\ pc # "down" /\ (pc = "send" => local.tries < Retries)
Mailed == db.emails <= hist.entered["measure"] + hist.resent - (IF ToBeSent THEN 1 ELSE 0)

(* The list in memory, the one on disk, and who is deleted.                *)
Listed ==
    /\ DOMAIN disk.deleted \subseteq DOMAIN state.deleted
    /\ pc \in {"reference", "games", "developer"} => local.todo \subseteq DOMAIN state.deleted
    /\ pc \in {"games", "developer"} => local.dev \subseteq DOMAIN state.deleted
    /\ ~hist.unsaved =>
        /\ DOMAIN state.deleted \subseteq DOMAIN disk.deleted \cup Old
        /\ hist.removed \subseteq DOMAIN disk.deleted \cup Old

(* What the samples chose, and what this process is still to choose.       *)
Sampled ==
    /\ hist.quota = {} => hist.sampled = {} /\ pc # "sample"
    /\ \A q \in hist.quota : Quota <= q
    /\ ~hist.unsaved =>
        /\ hist.sampled \subseteq DOMAIN disk.deleted
        /\ \A q \in hist.quota :
             Cardinality(hist.sampled) + (IF pc = "sample" THEN local.toGo ELSE 0) <= q

Watched ==
    /\ db.watched \subseteq db.games
    /\ hist.kept \subseteq board.watches
    /\ \A g \in board.watches : board.items[g] > 0
    /\ ~hist.unseen => /\ hist.kept \subseteq db.watched
                       /\ pc \in MeasurePcs => hist.kept \subseteq local.watching

(* What this process did not find on the board is there as often as it was *)
(* added.                                                                  *)
Once(i) == IF i \in Games /\ Advocates[i] # {} THEN Cardinality(Advocates[i]) ELSE 1
Boarded ==
    /\ \A g \in Games : db.by[g] \subseteq Advocates[g]
    /\ ~hist.unseen =>
        /\ \A i \in Items : board.items[i] <= Once(i)
        /\ pc \in AddPcs => \A g \in Games \ local.found :
             board.items[g] <= Cardinality(Advocates[g] \ local.todo)
        /\ pc = "fetched" => \A i \in Items \ local.found : board.items[i] = 0
        /\ pc \in AddPcs => \A a \in TopApps \ local.found : board.items[a] = 0
        /\ pc = "app" => \A a \in local.todo \ local.found : board.items[a] = 0
        /\ pc = "addApp" => \A a \in (local.todo \cup local.dev) \ local.found : board.items[a] = 0

Inv == Shape /\ Phased /\ Aggregated /\ Highlighted /\ Mailed /\ Listed /\ Sampled /\ Watched /\ Boarded

-----------------------------------------------------------------------------
(* Facts about the constants.                                              *)

LEMMA Amounts ==
    /\ IsFiniteSet(Devs) /\ IsFiniteSet(Items) /\ IsFiniteSet(Games)
    /\ \A S \in SUBSET Devs : IsFiniteSet(S) /\ Cardinality(S) \in Nat
    /\ \A S \in SUBSET Items : IsFiniteSet(S) /\ Cardinality(S) \in Nat
    /\ Snapshots \in [Devs -> Nat]
    /\ Partial \subseteq Devs /\ Disabled \subseteq Devs /\ Old \subseteq Devs
    /\ Advocates \in [Games -> SUBSET Devs]
    /\ Len(Score) \in Nat /\ Len(Trend) \in Nat
    /\ Percent \in 0 .. 100 /\ MaxTrending \in Nat /\ Retries \in Nat \ {0} /\ MaxFaults \in Nat
    /\ Games \cap TopApps = {} /\ Devs \cap TopApps = {} /\ Games \subseteq Items
<1> USE DatabaseAssumption DEF Items
<1>1. IsFiniteSet(Games) /\ Games \in SUBSET Items
  BY FS_Subset
<1>2. \A S \in SUBSET Devs : IsFiniteSet(S) /\ Cardinality(S) \in Nat
  BY FS_Subset, FS_CardinalityType
<1>3. \A S \in SUBSET Items : IsFiniteSet(S) /\ Cardinality(S) \in Nat
  BY FS_Subset, FS_CardinalityType
<1>4. Advocates \in [Games -> SUBSET Devs] /\ Snapshots \in [Devs -> Nat]
  BY DEF Games, Devs
<1>5. Len(Score) \in Nat /\ Len(Trend) \in Nat
  OBVIOUS
<1>6. QED BY <1>1, <1>2, <1>3, <1>4, <1>5

(* A share of a smaller number is smaller.                                 *)
LEMMA Shares ==
    ASSUME NEW a \in Nat, NEW b \in Nat, a <= b
    PROVE  /\ (a * Percent) \div 100 \in Nat /\ (b * Percent) \div 100 \in Nat
           /\ (a * Percent) \div 100 <= (b * Percent) \div 100
<1>1. Percent \in Nat
  BY Amounts
<1> DEFINE x == a * Percent
           y == b * Percent
<1>2. x \in Nat /\ y \in Nat /\ x <= y
  <2>1. PICK c \in Nat : b = a + c
    <3>1. b - a \in Nat /\ b = a + (b - a)
      OBVIOUS
    <3>2. QED BY <3>1
  <2>2. c * Percent \in Nat /\ x \in Nat /\ b * Percent = a * Percent + c * Percent
    BY <1>1, <2>1
  <2>3. QED BY <2>2
<1> HIDE DEF x, y
<1>3. x \div 100 \in Nat /\ y \div 100 \in Nat /\ x \div 100 <= y \div 100
  BY <1>2
<1>4. QED
  BY <1>3 DEF x, y

LEMMA QuotaType ==
    ASSUME db.devs \subseteq Devs PROVE Quota \in Nat
<1>1. Cardinality(Disabled \cap db.devs) \in Nat
  BY Amounts
<1>2. QED
  BY <1>1, Shares DEF Quota

-----------------------------------------------------------------------------
(* The steps: what each of them needs and does, and the types after it.    *)

LocalKept(but) ==
    /\ "todo" \in but \/ local'.todo = local.todo
    /\ "toGo" \in but \/ local'.toGo = local.toGo
    /\ "dev" \in but \/ local'.dev = local.dev
    /\ "found" \in but \/ local'.found = local.found
    /\ "found" \in but \/ local'.watching = local.watching
    /\ "tries" \in but \/ local'.tries = local.tries

DbKept(but) ==
    /\ "devs" \in but \/ db'.devs = db.devs
    /\ "snaps" \in but \/ db'.snaps = db.snaps
    /\ "highlighted" \in but \/ db'.highlighted = db.highlighted
    /\ "by" \in but \/ db'.by = db.by
    /\ "games" \in but \/ db'.games = db.games
    /\ "watched" \in but \/ db'.watched = db.watched
    /\ "emails" \in but \/ db'.emails = db.emails

HistKept(but) ==
    /\ "entered" \in but \/ hist'.entered = hist.entered
    /\ "removed" \in but \/ hist'.removed = hist.removed
    /\ "sampled" \in but \/ hist'.sampled = hist.sampled
    /\ "quota" \in but \/ hist'.quota = hist.quota
    /\ "unsaved" \in but \/ hist'.unsaved = hist.unsaved
    /\ "unseen" \in but \/ hist'.unseen = hist.unseen
    /\ hist'.kept = hist.kept
    /\ "resent" \in but \/ hist'.resent = hist.resent

LEMMA Same ==
    /\ UNCHANGED local => LocalKept({})
    /\ UNCHANGED db => DbKept({})
    /\ UNCHANGED hist => HistKept({})
  BY DEF LocalKept, DbKept, HistKept

LEMMA FaultedHist ==
    ASSUME Shape, hist' = Faulted
    PROVE  hist' \in Hists /\ HistKept({})
  BY DEF Shape, Hists, Faulted, HistKept

LEMMA FailStep ==
    ASSUME Shape, Fail
    PROVE  /\ Shape' /\ HistKept({}) /\ LocalKept({})
           /\ pc' = "down" /\ disk' = state /\ UNCHANGED <<local, state, db, board>>
<1>1. hist' \in Hists /\ HistKept({})
  BY FaultedHist DEF Fail
<1>2. QED
  BY <1>1, Same DEF Fail, Shape

LEMMA PhaseAfterStep ==
    ASSUME Shape, NEW next \in {"delete", "measure", "done"}, PhaseAfter(next), UNCHANGED <<db, board>>
    PROVE  /\ Shape' /\ DbKept({}) /\ HistKept({"entered"})
           /\ state'.phase = next /\ state'.deleted = state.deleted /\ disk' = state'
           /\ pc' = (IF next = "done" THEN "over" ELSE "begin")
           /\ local' = NoLocal /\ local'.todo = {} /\ local'.tries = 0
           /\ hist'.entered["snapshot"] = hist.entered["snapshot"]
           /\ hist'.entered["measure"] = hist.entered["measure"] + (IF next = "measure" THEN 1 ELSE 0)
<1>1. /\ state' \in States /\ disk' = state'
      /\ state'.phase = next /\ state'.deleted = state.deleted
  BY DEF Shape, PhaseAfter, States, Phases
<1>2. local' \in Locals /\ local' = NoLocal /\ local'.todo = {} /\ local'.tries = 0
  BY Amounts DEF PhaseAfter, NoLocal, Locals
<1>3. /\ hist' \in Hists /\ HistKept({"entered"})
      /\ hist'.entered["snapshot"] = hist.entered["snapshot"]
      /\ hist'.entered["measure"] = hist.entered["measure"] + (IF next = "measure" THEN 1 ELSE 0)
  BY DEF Shape, PhaseAfter, Hists, HistKept, Phases
<1>4. QED
  BY <1>1, <1>2, <1>3, Same DEF PhaseAfter, Shape

LEMMA CrashStep ==
    ASSUME Shape, Crash
    PROVE  /\ Shape' /\ HistKept({}) /\ pc \notin {"down", "over"}
           /\ pc' = "down" /\ UNCHANGED <<local, state, disk, db, board>>
<1>1. hist' \in Hists /\ HistKept({})
  BY FaultedHist DEF Crash
<1>2. QED
  BY <1>1, Same DEF Crash, Shape

LEMMA RestartStep ==
    ASSUME Shape, Phased, Restart
    PROVE  /\ Shape' /\ HistKept({"entered"})
           /\ pc = "down" /\ pc' = "begin" /\ state' = disk /\ UNCHANGED <<disk, db, board>>
           /\ disk.phase \in Phases
           /\ local' = NoLocal /\ local'.todo = {} /\ local'.tries = 0
           /\ \A p \in Phases : hist'.entered[p] = hist.entered[p] + (IF p = disk.phase THEN 1 ELSE 0)
<1>1. disk.phase \in Phases
  BY DEF Phased, Restart, Shape, States
<1>2. local' \in Locals /\ local' = NoLocal /\ local'.todo = {} /\ local'.tries = 0
  BY Amounts DEF Restart, NoLocal, Locals
<1>3. /\ hist' \in Hists /\ HistKept({"entered"})
      /\ \A p \in Phases : hist'.entered[p] = hist.entered[p] + (IF p = disk.phase THEN 1 ELSE 0)
  BY <1>1 DEF Shape, Restart, Hists, HistKept
<1>4. QED
  BY <1>1, <1>2, <1>3 DEF Restart, Shape

LEMMA SnapshotBeginsStep ==
    ASSUME Shape, SnapshotBegins
    PROVE  /\ Shape' /\ LocalKept({"todo"}) /\ DbKept({}) /\ HistKept({})
           /\ state.phase = "snapshot" /\ pc = "begin" /\ pc' = "aggregate"
           /\ UNCHANGED <<state, disk, db, board, hist>>
           /\ local'.todo = Partial
<1>1. local' \in Locals /\ LocalKept({"todo"}) /\ local'.todo = Partial
  BY Amounts DEF Shape, SnapshotBegins, Locals, LocalKept, Rated
<1>2. QED
  BY <1>1, Same DEF SnapshotBegins, In, Goto, Shape

LEMMA AggregateStep ==
    ASSUME Shape, Aggregated, Aggregate
    PROVE  /\ Shape' /\ LocalKept({"todo"}) /\ DbKept({"snaps"}) /\ HistKept({})
           /\ state.phase = "snapshot" /\ pc = "aggregate" /\ pc' = pc
           /\ UNCHANGED <<state, disk, board, hist>>
           /\ \E d \in local.todo : /\ d \in Partial /\ d \in Devs
                                    /\ local'.todo = local.todo \ {d}
                                    /\ db'.snaps = [db.snaps EXCEPT ![d] = @ + 1]
<1>1. PICK d \in Current : /\ db' = [db EXCEPT !.snaps[d] = @ + 1]
                           /\ local' = [local EXCEPT !.todo = @ \ {d}]
  BY DEF Aggregate
<1>2. pc = "aggregate" /\ d \in local.todo
  BY DEF Aggregate, In, Current
<1>3. d \in Partial /\ d \in Devs
  BY <1>2, Amounts DEF Aggregated
<1>4. local' \in Locals /\ LocalKept({"todo"}) /\ local'.todo = local.todo \ {d}
  BY <1>1 DEF Shape, Locals, LocalKept
<1>5. db' \in Tables /\ DbKept({"snaps"}) /\ db'.snaps = [db.snaps EXCEPT ![d] = @ + 1]
  <2>1. db \in Tables
    BY DEF Shape
  <2>2. [db.snaps EXCEPT ![d] = @ + 1] \in [Devs -> Nat]
    BY <1>3, <2>1 DEF Tables
  <2>3. QED BY <1>1, <2>1, <2>2 DEF Tables, DbKept
<1>6. QED
  BY <1>2, <1>3, <1>4, <1>5, Same DEF Aggregate, In, Shape

LEMMA ListingType ==
    ASSUME Shape, NEW deleted \in Lists, NEW ds \in SUBSET Devs
    PROVE  /\ Listing(deleted, ds) \in Lists
           /\ DOMAIN Listing(deleted, ds) = DOMAIN deleted \cup ds
<1>1. DOMAIN Listing(deleted, ds) = DOMAIN deleted \cup ds
  BY DEF Listing
<1>2. PICK D \in SUBSET Devs : deleted \in [D -> SUBSET Games]
  BY DEF Lists
<1>3. \A d : GamesOf(d) \in SUBSET Games
  BY DEF GamesOf, Shape, Tables
<1>4. Listing(deleted, ds) \in [D \cup ds -> SUBSET Games]
  BY <1>2, <1>3 DEF Listing
<1>5. D \cup ds \in SUBSET Devs
  OBVIOUS
<1>6. QED BY <1>1, <1>4, <1>5 DEF Lists

LEMMA ListDomain ==
    ASSUME NEW deleted \in Lists
    PROVE  /\ DOMAIN deleted \in SUBSET Devs
           /\ IsFiniteSet(DOMAIN deleted) /\ Cardinality(DOMAIN deleted) \in Nat
<1>1. DOMAIN deleted \in SUBSET Devs
  BY DEF Lists
<1>2. QED BY <1>1, Amounts

LEMMA ToGoType == ASSUME Shape PROVE ToGo \in Nat
<1>1. Cardinality(DOMAIN state.deleted) \in Nat
  BY ListDomain DEF Shape, States
<1>2. Quota \in Nat
  BY QuotaType DEF Shape, Tables
<1>3. QED BY <1>1, <1>2 DEF ToGo

LEMMA StaleType == ASSUME Shape PROVE Stale \subseteq Old /\ Stale \in SUBSET Devs
  BY DEF Shape, Tables, Stale

LEMMA DeleteBeginsStep ==
    ASSUME Shape, DeleteBegins
    PROVE  /\ Shape' /\ LocalKept({"toGo"}) /\ DbKept({}) /\ HistKept({"quota"})
           /\ state.phase = "delete" /\ pc = "begin" /\ pc' = "sample"
           /\ UNCHANGED <<disk, db, board>>
           /\ local'.toGo = ToGo
           /\ hist'.quota = (IF hist.quota = {} THEN {Quota} ELSE hist.quota)
           /\ state'.phase = state.phase
           /\ \E ds \in SUBSET Old : DOMAIN state'.deleted = DOMAIN state.deleted \cup ds
<1>1. local' \in Locals /\ LocalKept({"toGo"}) /\ local'.toGo = ToGo
  BY ToGoType DEF Shape, DeleteBegins, Locals, LocalKept
<1> DEFINE q == IF hist.quota = {} THEN {Quota} ELSE hist.quota
           begun == [hist EXCEPT !.quota = q]
<1>2. begun \in Hists /\ begun.quota = q /\ [begun EXCEPT !.faults = @ + 1] \in Hists
  <2>1. hist \in Hists
    BY DEF Shape
  <2>2. q \in SUBSET Nat
    BY <2>1, QuotaType DEF Hists, Shape, Tables
  <2> HIDE DEF q
  <2>3. begun \in Hists /\ begun.quota = q
    BY <2>1, <2>2 DEF Hists
  <2> HIDE DEF begun
  <2>4. [begun EXCEPT !.faults = @ + 1] \in Hists
    BY <2>3 DEF Hists
  <2>5. QED BY <2>3, <2>4
<1>3. hist' = begun \/ hist' = [begun EXCEPT !.faults = @ + 1]
  BY DEF DeleteBegins
<1>4. hist' \in Hists /\ HistKept({"quota"}) /\ hist'.quota = q
  <2>1. hist \in Hists
    BY DEF Shape
  <2> HIDE DEF q
  <2>2. QED BY <2>1, <1>2, <1>3 DEF Hists, HistKept
<1>5. PICK ds : ds \subseteq Stale /\ state' = [state EXCEPT !.deleted = Listing(@, ds)]
  BY DEF DeleteBegins
<1>6. ds \subseteq Old /\ ds \in SUBSET Devs
  BY <1>5, StaleType
<1>7. state.deleted \in Lists
  BY DEF Shape, States
<1>8. /\ state' \in States /\ state'.phase = state.phase
      /\ DOMAIN state'.deleted = DOMAIN state.deleted \cup ds
  BY <1>5, <1>6, <1>7, ListingType DEF Shape, States
<1> HIDE DEF begun
<1>9. Shape' /\ \E e \in SUBSET Old : DOMAIN state'.deleted = DOMAIN state.deleted \cup e
  BY <1>1, <1>4, <1>6, <1>8 DEF DeleteBegins, In, Goto, Shape, DeletePcs
<1>10. QED
  BY <1>1, <1>4, <1>8, <1>9, Same DEF DeleteBegins, In, Goto

LEMMA ChosenType ==
    ASSUME Shape, NEW page \in SUBSET Page
    PROVE  /\ Chosen(page) \in SUBSET Devs
           /\ Chosen(page) \cap DOMAIN state.deleted = {}
           /\ Cardinality(Chosen(page)) \in 0 .. local.toGo
<1> DEFINE new == {d \in page \ DOMAIN state.deleted : Trained(d)}
<1>1. Page \subseteq Rows
  BY FirstSubset DEF Page
<1>2. Rows \in SUBSET Devs
  BY DEF Rows, Shape, Tables
<1>3. local.toGo \in Nat
  BY DEF Shape, Locals
<1>4. new \subseteq page /\ new \cap DOMAIN state.deleted = {}
  OBVIOUS
<1> HIDE DEF new
<1>5. FirstOf(local.toGo, new, Score) \subseteq new
  BY FirstSubset
<1>6. Cardinality(FirstOf(local.toGo, new, Score)) \in 0 .. local.toGo
  BY <1>3, Amounts, FirstBound
<1>7. Chosen(page) = FirstOf(local.toGo, new, Score)
  BY DEF Chosen, new
<1>8. QED BY <1>1, <1>2, <1>4, <1>5, <1>6, <1>7

(* A sample of the developers that were chosen.                            *)
SampleOf(chosen) ==
    /\ chosen \in SUBSET Devs /\ chosen \cap DOMAIN state.deleted = {}
    /\ Cardinality(chosen) \in 0 .. local.toGo
    /\ local'.toGo = local.toGo - Cardinality(chosen)
    /\ DOMAIN state'.deleted = DOMAIN state.deleted \cup chosen
    /\ hist'.sampled = hist.sampled \cup chosen

SampleFrame ==
    /\ Shape' /\ LocalKept({"toGo"}) /\ DbKept({})
    /\ state.phase = "delete" /\ pc = "sample" /\ pc' = pc
    /\ UNCHANGED <<db, board>> /\ state'.phase = state.phase

LEMMA SampleSavedStep ==
    ASSUME Shape, NEW saved \in BOOLEAN, NEW page \in SUBSET Page, SampleSaved(saved, page),
           hist' \in Hists, hist'.sampled = hist.sampled \cup Chosen(page)
    PROVE  /\ SampleFrame /\ disk' = IF saved THEN state' ELSE disk
           /\ \E chosen \in SUBSET Devs : SampleOf(chosen)
<1> DEFINE chosen == Chosen(page)
           n == Cardinality(chosen)
           r == [local EXCEPT !.toGo = @ - n, !.offset = @ + 2 * local.toGo]
<1>1. /\ chosen \in SUBSET Devs /\ chosen \cap DOMAIN state.deleted = {}
      /\ n \in 0 .. local.toGo
  BY ChosenType
<1>2. /\ local' = r /\ state' = [state EXCEPT !.deleted = Listing(@, chosen)]
      /\ disk' = IF saved THEN state' ELSE disk
      /\ hist'.sampled = hist.sampled \cup chosen
  BY DEF SampleSaved
<1> HIDE DEF chosen
<1>3. local \in Locals /\ state \in States /\ state.deleted \in Lists
  BY DEF Shape, States
<1>4. local' \in Locals /\ LocalKept({"toGo"}) /\ local'.toGo = local.toGo - n
  <2> HIDE DEF n
  <2>1. local.toGo \in Nat /\ local.offset \in Nat
    BY <1>3 DEF Locals
  <2>2. local.toGo - n \in Nat /\ local.offset + 2 * local.toGo \in Nat
    BY <1>1, <2>1
  <2>3. r \in Locals /\ r.toGo = local.toGo - n
    BY <1>3, <2>2 DEF Locals
  <2>4. LocalKept({"toGo"})
    BY <1>2, <1>3 DEF LocalKept, Locals
  <2>5. QED BY <1>2, <2>3, <2>4
<1>5. /\ state' \in States /\ state'.phase = state.phase
      /\ DOMAIN state'.deleted = DOMAIN state.deleted \cup chosen
  BY <1>1, <1>2, <1>3, ListingType DEF States
<1>6. SampleOf(chosen)
  BY <1>1, <1>2, <1>4, <1>5 DEF SampleOf
<1>7. SampleFrame
  BY <1>2, <1>4, <1>5, Same DEF SampleFrame, SampleSaved, In, Shape
<1>8. QED BY <1>1, <1>2, <1>6, <1>7

Sampling == Sample \/ SampleSkips

LEMMA SampleStep ==
    ASSUME Shape, Sampling
    PROVE  /\ SampleFrame /\ disk' = state' /\ HistKept({"sampled"})
           /\ \E chosen \in SUBSET Devs : SampleOf(chosen)
<1>1. PICK page \in SUBSET Page :
        /\ SampleSaved(TRUE, page)
        /\ \/ hist' = [hist EXCEPT !.sampled = @ \cup Chosen(page)]
           \/ hist' = [Faulted EXCEPT !.sampled = @ \cup Chosen(page)]
  BY DEF Sampling, Sample, SampleSkips
<1> DEFINE chosen == Chosen(page)
<1>2. chosen \in SUBSET Devs
  BY ChosenType
<1>3. /\ hist' \in Hists /\ HistKept({"sampled"})
      /\ hist'.sampled = hist.sampled \cup chosen
  <2> HIDE DEF chosen
  <2>1. hist \in Hists
    BY DEF Shape
  <2>2. CASE hist' = [hist EXCEPT !.sampled = @ \cup chosen]
    BY <1>2, <2>1, <2>2 DEF Hists, HistKept
  <2> DEFINE f == Faulted
  <2>3. CASE hist' = [f EXCEPT !.sampled = @ \cup chosen]
    <3>1. f \in Hists /\ f.sampled = hist.sampled
      BY <2>1 DEF Hists, Faulted
    <3>2. HistKept({"sampled"})
      BY <2>1, <2>3 DEF Faulted, HistKept, Hists
    <3> HIDE DEF f
    <3>3. QED BY <1>2, <2>3, <3>1, <3>2 DEF Hists
  <2>4. QED BY <1>1, <2>2, <2>3 DEF chosen
<1>4. /\ SampleFrame /\ disk' = (IF TRUE THEN state' ELSE disk)
      /\ \E c \in SUBSET Devs : SampleOf(c)
  BY <1>1, <1>3, SampleSavedStep
<1>5. QED BY <1>3, <1>4

LEMMA SaveFailsStep ==
    ASSUME Shape, SaveFails
    PROVE  /\ SampleFrame /\ disk' = disk /\ HistKept({"sampled", "unsaved"})
           /\ hist'.unsaved
           /\ \E chosen \in SUBSET Devs : SampleOf(chosen)
<1> DEFINE f == Faulted
<1>1. f \in Hists /\ f.sampled = hist.sampled /\ [hist EXCEPT !.faults = f.faults] = f
  BY DEF Shape, Hists, Faulted
<1>2. hist' = [f EXCEPT !.sampled = @ \cup Chosen(Page), !.unsaved = TRUE]
  BY DEF SaveFails
<1>3. HistKept({"sampled", "unsaved"})
  BY <1>2 DEF Faulted, HistKept, Shape, Hists
<1> HIDE DEF f
<1>4. /\ hist' \in Hists /\ hist'.unsaved
      /\ hist'.sampled = hist.sampled \cup Chosen(Page)
  BY <1>1, <1>2, ChosenType DEF Hists
<1>5. SampleSaved(FALSE, Page)
  BY DEF SaveFails
<1>6. /\ SampleFrame /\ disk' = (IF FALSE THEN state' ELSE disk)
      /\ \E chosen \in SUBSET Devs : SampleOf(chosen)
  BY <1>4, <1>5, SampleSavedStep
<1>7. QED BY <1>3, <1>4, <1>6

LEMMA SampleEndsStep ==
    ASSUME Shape, SampleEnds
    PROVE  /\ Shape' /\ LocalKept({"todo"}) /\ DbKept({}) /\ HistKept({})
           /\ state.phase = "delete" /\ pc = "sample" /\ pc' = "reference"
           /\ UNCHANGED <<state, disk, db, board, hist>>
           /\ local'.todo = DOMAIN state.deleted
<1>1. state.deleted \in Lists
  BY DEF Shape, States
<1>2. DOMAIN state.deleted \in SUBSET Rated
  BY <1>1, ListDomain DEF Rated
<1>3. local' \in Locals /\ LocalKept({"todo"}) /\ local'.todo = DOMAIN state.deleted
  BY <1>2 DEF Shape, SampleEnds, Locals, LocalKept
<1>4. QED
  BY <1>3, Same DEF SampleEnds, In, Goto, Shape, DeletePcs

LEMMA RemoveReferenceStep ==
    ASSUME Shape, RemoveReference
    PROVE  /\ Shape' /\ LocalKept({"todo", "dev"}) /\ DbKept({"by"}) /\ HistKept({})
           /\ state.phase = "delete" /\ pc = "reference" /\ pc' = "games"
           /\ UNCHANGED <<state, disk, board>>
           /\ \E d \in local.todo : local'.todo = local.todo \ {d} /\ local'.dev = {d}
           /\ \A g \in Games : db'.by[g] \subseteq db.by[g]
<1>1. PICK d \in local.todo :
         /\ local' = [local EXCEPT !.todo = @ \ {d}, !.dev = {d}]
         /\ \/ /\ db' = [db EXCEPT !.by = [g \in Games |->
                           IF g \in state.deleted[d] THEN db.by[g] \ {d} ELSE db.by[g]]]
               /\ hist' = hist
            \/ hist' = Faulted /\ db' = db
  BY DEF RemoveReference
<1>2. local' \in Locals /\ LocalKept({"todo", "dev"}) /\ local'.todo = local.todo \ {d} /\ local'.dev = {d}
  BY <1>1 DEF Shape, Locals, LocalKept
<1>3. hist' \in Hists /\ HistKept({})
  BY <1>1, FaultedHist, Same DEF Shape
<1>4. db' \in Tables /\ DbKept({"by"}) /\ \A g \in Games : db'.by[g] \subseteq db.by[g]
  <2> DEFINE by == [g \in Games |-> IF g \in state.deleted[d] THEN db.by[g] \ {d} ELSE db.by[g]]
  <2>1. db \in Tables
    BY DEF Shape
  <2>2. by \in [Games -> SUBSET Devs] /\ \A g \in Games : by[g] \subseteq db.by[g]
    BY <2>1 DEF Tables
  <2>3. db' = [db EXCEPT !.by = by] \/ db' = db
    BY <1>1
  <2> HIDE DEF by
  <2>4. QED BY <2>1, <2>2, <2>3 DEF Tables, DbKept
<1>5. QED
  BY <1>2, <1>3, <1>4 DEF RemoveReference, In, Goto, Shape, DeletePcs

LEMMA DeleteGamesStep ==
    ASSUME Shape, DeleteGames
    PROVE  /\ Shape' /\ LocalKept({}) /\ DbKept({"games", "watched"}) /\ HistKept({})
           /\ state.phase = "delete" /\ pc = "games" /\ pc' = "developer"
           /\ UNCHANGED <<local, state, disk, board>>
           /\ \E gone : /\ gone \cap db.watched = {}
                        /\ db'.games = db.games \ gone /\ db'.watched = db.watched \ gone
<1>1. hist' \in Hists /\ HistKept({})
  BY FaultedHist, Same DEF Shape, DeleteGames
<1>2. /\ db' \in Tables /\ DbKept({"games", "watched"})
      /\ \E gone : /\ gone \cap db.watched = {}
                   /\ db'.games = db.games \ gone /\ db'.watched = db.watched \ gone
  <2> DEFINE gone == Abandoned
  <2>1. gone \cap db.watched = {}
    BY DEF Abandoned
  <2>2. db' = [db EXCEPT !.games = @ \ gone, !.watched = @ \ gone] \/ db' = db
    BY DEF DeleteGames
  <2> HIDE DEF gone
  <2>3. CASE db' = [db EXCEPT !.games = @ \ gone, !.watched = @ \ gone]
    BY <2>1, <2>3 DEF Shape, Tables, DbKept
  <2>4. CASE db' = db
    <3>1. db.games = db.games \ {} /\ db.watched = db.watched \ {}
      OBVIOUS
    <3>2. QED BY <2>4, <3>1 DEF Shape, DbKept
  <2>5. QED BY <2>2, <2>3, <2>4
<1>3. QED
  BY <1>1, <1>2, Same DEF DeleteGames, In, Goto, Shape, DeletePcs

LEMMA DeleteDeveloperStep ==
    ASSUME Shape, Listed, DeleteDeveloper
    PROVE  /\ Shape' /\ LocalKept({}) /\ DbKept({"devs"}) /\ HistKept({"removed"})
           /\ state.phase = "delete" /\ pc = "developer" /\ pc' = "reference"
           /\ UNCHANGED <<local, state, disk, board>>
           /\ hist'.removed \subseteq hist.removed \cup local.dev
           /\ db'.devs \subseteq db.devs
<1>1. local.dev \in SUBSET Devs
  <2>1. state.deleted \in Lists
    BY DEF Shape, States
  <2>2. QED BY <2>1, ListDomain DEF DeleteDeveloper, In, Listed
<1>2. CASE db' = [db EXCEPT !.devs = @ \ local.dev] /\ hist' = [hist EXCEPT !.removed = @ \cup local.dev]
  <2>1. db' \in Tables /\ DbKept({"devs"}) /\ db'.devs \subseteq db.devs
    BY <1>2 DEF Shape, Tables, DbKept
  <2>2. hist' \in Hists /\ HistKept({"removed"}) /\ hist'.removed \subseteq hist.removed \cup local.dev
    BY <1>1, <1>2 DEF Shape, Hists, HistKept
  <2>3. QED
    BY <2>1, <2>2, Same DEF DeleteDeveloper, In, Goto, Shape, DeletePcs
<1>3. CASE db' = db /\ hist' = Faulted
  <2>1. hist' \in Hists /\ HistKept({})
    BY <1>3, FaultedHist
  <2>2. HistKept({"removed"}) /\ hist'.removed \subseteq hist.removed \cup local.dev
    BY <2>1 DEF HistKept
  <2>3. DbKept({"devs"}) /\ db'.devs \subseteq db.devs
    BY <1>3 DEF DbKept
  <2>4. QED
    BY <1>3, <2>1, <2>2, <2>3, Same DEF DeleteDeveloper, In, Goto, Shape, DeletePcs
<1>4. QED
  BY <1>2, <1>3 DEF DeleteDeveloper

-----------------------------------------------------------------------------
(* The steps of the Measure phase.                                         *)

LEMMA WatchingType ==
    ASSUME Shape, NEW items \in SUBSET Items
    PROVE  Watching(items) \in SUBSET Items
  BY DEF Watching

LEMMA ReadStep ==
    ASSUME Shape, NEW items \in SUBSET Items, NEW saved \in SUBSET items, Read(items, saved)
    PROVE  /\ local' \in Locals /\ LocalKept({"found"}) /\ db' \in Tables /\ DbKept({"watched"})
           /\ local'.found = items /\ local'.watching = Watching(items)
           /\ db'.watched = (db.watched \ saved) \cup (Watching(saved) \cap db.games)
<1>1. /\ local' \in Locals /\ LocalKept({"found"})
      /\ local'.found = items /\ local'.watching = Watching(items)
  <2> DEFINE seen == Watching(items)
  <2>1. seen \in SUBSET Items
    BY WatchingType
  <2>2. local' = [local EXCEPT !.found = items, !.watching = seen]
    BY DEF Read
  <2> HIDE DEF seen
  <2>3. /\ local' \in Locals /\ LocalKept({"found"})
        /\ local'.found = items /\ local'.watching = seen
    <3>1. local \in Locals
      BY DEF Shape
    <3>2. local' \in Locals /\ local'.found = items /\ local'.watching = seen
      BY <2>1, <2>2, <3>1 DEF Locals
    <3>3. /\ local'.todo = local.todo /\ local'.toGo = local.toGo
          /\ local'.dev = local.dev /\ local'.tries = local.tries
      BY <2>2, <3>1 DEF Locals
    <3>4. LocalKept({"found"})
      BY <3>3 DEF LocalKept
    <3>5. QED BY <3>2, <3>4
  <2>4. QED BY <2>3 DEF seen
<1> DEFINE watched == (db.watched \ saved) \cup (Watching(saved) \cap db.games)
           n(w) == Cardinality({i \in (saved \cap Games) \ db.games : (i \in board.watches) = w})
           blank == [w \in BOOLEAN |-> db.blank[w] + n(w)]
<1>2. db \in Tables
  BY DEF Shape
<1>3. watched \in SUBSET Games
  BY <1>2 DEF Tables
<1>4. blank \in [BOOLEAN -> Nat]
  <2> SUFFICES ASSUME NEW w \in BOOLEAN PROVE db.blank[w] + n(w) \in Nat
    OBVIOUS
  <2>1. {i \in (saved \cap Games) \ db.games : (i \in board.watches) = w} \in SUBSET Items
    OBVIOUS
  <2>2. n(w) \in Nat
    BY <2>1, Amounts
  <2>3. db.blank[w] \in Nat
    BY <1>2 DEF Tables
  <2> HIDE DEF n
  <2>4. QED BY <2>2, <2>3
<1>5. db' = [db EXCEPT !.watched = watched, !.blank = blank]
  BY DEF Read
<1>6. db' \in Tables /\ DbKept({"watched"}) /\ db'.watched = watched
  <2> HIDE DEF watched, blank
  <2>1. QED BY <1>2, <1>3, <1>4, <1>5 DEF Tables, DbKept
<1>7. QED BY <1>1, <1>6

LEMMA FetchStep ==
    ASSUME Shape, Fetch
    PROVE  /\ Shape' /\ LocalKept({"found"}) /\ DbKept({"watched"}) /\ HistKept({"unseen"})
           /\ state.phase = "measure" /\ pc = "begin" /\ pc' = "fetched"
           /\ UNCHANGED <<state, disk, board>>
           /\ local'.watching = Watching(local'.found)
           /\ \E saved \in SUBSET local'.found :
                db'.watched = (db.watched \ saved) \cup (Watching(saved) \cap db.games)
           /\ ~hist'.unseen => ~hist.unseen /\ local'.found = OnBoard
<1> DEFINE f == Faulted
           g == [f EXCEPT !.unseen = TRUE]
<1>1. /\ hist \in Hists /\ f \in Hists /\ f.unseen = hist.unseen
      /\ (hist' = f => HistKept({"unseen"})) /\ (hist' = g => HistKept({"unseen"}))
  <2>1. hist \in Hists
    BY DEF Shape
  <2>2. f \in Hists /\ f.unseen = hist.unseen
    BY <2>1 DEF Faulted, Hists
  <2>3. hist' = f => HistKept({"unseen"})
    BY <2>1 DEF Faulted, Hists, HistKept
  <2>4. hist' = g => HistKept({"unseen"})
    BY <2>1 DEF Faulted, Hists, HistKept
  <2>5. QED BY <2>1, <2>2, <2>3, <2>4
<1>2. PICK found \in SUBSET Items, saved \in SUBSET Items :
        /\ saved \subseteq found /\ Read(found, saved)
        /\ \/ found = OnBoard /\ (hist' = hist \/ hist' = f)
           \/ hist' = g
  <2>1. OnBoard \in SUBSET Items
    BY DEF OnBoard
  <2> HIDE DEF f
  <2>2. CASE Read(OnBoard, OnBoard) /\ hist' = hist
    BY <2>1, <2>2
  <2>3. CASE hist' = f /\ \E saved \in SUBSET OnBoard : Read(OnBoard, saved)
    BY <2>1, <2>3
  <2>4. CASE Read({}, {}) /\ hist' = g
    <3> HIDE DEF g
    <3>1. QED BY <2>4
  <2>5. QED BY <2>2, <2>3, <2>4 DEF Fetch, f
<1> HIDE DEF f
<1>3. hist' \in Hists /\ HistKept({"unseen"}) /\ (~hist'.unseen => ~hist.unseen /\ found = OnBoard)
  <2>1. CASE hist' = hist /\ found = OnBoard
    BY <1>1, <2>1 DEF HistKept
  <2>2. CASE hist' = f /\ found = OnBoard
    <3> HIDE DEF g
    <3>1. QED BY <1>1, <2>2
  <2>3. CASE hist' = g
    <3>1. g \in Hists /\ g.unseen
      BY <1>1 DEF Hists
    <3> HIDE DEF g
    <3>2. QED BY <1>1, <2>3, <3>1
  <2>4. QED BY <1>2, <2>1, <2>2, <2>3
<1>4. /\ local' \in Locals /\ LocalKept({"found"}) /\ db' \in Tables /\ DbKept({"watched"})
      /\ local'.found = found /\ local'.watching = Watching(found)
      /\ db'.watched = (db.watched \ saved) \cup (Watching(saved) \cap db.games)
  BY <1>2, ReadStep
<1>5. /\ state.phase = "measure" /\ pc = "begin" /\ pc' = "fetched"
      /\ UNCHANGED <<state, disk, board, sendDay>>
  BY DEF Fetch, In, Goto
<1>6. Shape'
  BY <1>3, <1>4, <1>5 DEF Shape, MeasurePcs, AddPcs
<1>7. \E rows \in SUBSET local'.found :
        db'.watched = (db.watched \ rows) \cup (Watching(rows) \cap db.games)
  BY <1>2, <1>4
<1>8. QED BY <1>3, <1>4, <1>5, <1>6, <1>7

LEMMA FindTrendsStep ==
    ASSUME Shape, FindTrends
    PROVE  /\ Shape' /\ LocalKept({"todo"}) /\ DbKept({}) /\ HistKept({})
           /\ state.phase = "measure" /\ pc = "fetched" /\ pc' = "add"
           /\ UNCHANGED <<state, disk, db, board>>
           /\ local'.todo \subseteq Devs
<1>1. \A failed : Top(failed) \subseteq Devs
  <2> SUFFICES ASSUME NEW failed PROVE Top(failed) \subseteq Devs
    OBVIOUS
  <2>1. Top(failed) \subseteq {d \in db.devs \ (Disabled \cup failed) : Trained(d)}
    BY FirstSubset DEF Top
  <2>2. QED BY <2>1 DEF Shape, Tables
<1>2. hist' \in Hists /\ HistKept({})
  BY FaultedHist, Same DEF Shape, FindTrends
<1>3. PICK failed : local' = [local EXCEPT !.todo = Top(failed)]
  BY DEF FindTrends
<1> DEFINE top == Top(failed)
<1>4. top \subseteq Devs /\ local' = [local EXCEPT !.todo = top]
  BY <1>1, <1>3
<1> HIDE DEF top
<1>5. local' \in Locals /\ LocalKept({"todo"}) /\ local'.todo \subseteq Devs
  BY <1>4 DEF Shape, Locals, LocalKept, Rated
<1>6. QED
  BY <1>2, <1>5, Same DEF FindTrends, In, Goto, Shape, MeasurePcs, AddPcs

LEMMA PutStep ==
    ASSUME Shape, NEW items, Put(items)
    PROVE  /\ board' \in Boards /\ board'.watches = board.watches
           /\ \A i \in Items : board'.items[i] = board.items[i] + (IF i \in items THEN 1 ELSE 0)
<1> DEFINE b == [i \in Items |-> IF i \in items THEN board.items[i] + 1 ELSE board.items[i]]
<1>1. board \in Boards
  BY DEF Shape
<1>2. /\ b \in [Items -> Nat]
      /\ \A i \in Items : b[i] = board.items[i] + (IF i \in items THEN 1 ELSE 0)
  BY <1>1 DEF Boards
<1>3. board' = [board EXCEPT !.items = b]
  BY DEF Put
<1> HIDE DEF b
<1>4. QED BY <1>1, <1>2, <1>3 DEF Boards

LEMMA AddGamesStep ==
    ASSUME Shape, AddGames
    PROVE  /\ Shape' /\ LocalKept({"todo", "dev"}) /\ DbKept({}) /\ HistKept({})
           /\ state.phase = "measure" /\ pc = "add" /\ pc' = "highlight"
           /\ UNCHANGED <<state, disk, db>>
           /\ board'.watches = board.watches
           /\ \E d \in local.todo :
                /\ local'.todo = local.todo \ {d} /\ local'.dev = {d}
                /\ \A i \in Items : \/ board'.items[i] = board.items[i]
                                    \/ /\ i \in GamesOf(d) \ local.found
                                       /\ board'.items[i] = board.items[i] + 1
<1>1. PICK d \in FirstOf(1, local.todo, Trend) :
         /\ \E items : /\ items \subseteq GamesOf(d) \ local.found /\ Put(items)
                       /\ hist' = hist \/ hist' = Faulted
         /\ local' = [local EXCEPT !.todo = @ \ {d}, !.dev = {d}]
  <2>1. PICK d \in FirstOf(1, local.todo, Trend) :
         /\ LET new == GamesOf(d) \ local.found
            IN  \/ Put(new) /\ hist' = hist
                \/ Fault /\ hist' = Faulted /\ \E g \in new : Put(new \ {g})
         /\ local' = [local EXCEPT !.todo = @ \ {d}, !.dev = {d}]
    BY DEF AddGames
  <2> DEFINE new == GamesOf(d) \ local.found
  <2>2. new \subseteq new /\ \A g : new \ {g} \subseteq new
    OBVIOUS
  <2> HIDE DEF new
  <2>3. \E items : /\ items \subseteq new /\ Put(items)
                   /\ hist' = hist \/ hist' = Faulted
    BY <2>1, <2>2 DEF new
  <2>4. QED BY <2>1, <2>3 DEF new
<1>2. d \in local.todo
  BY <1>1, FirstSubset
<1>3. PICK items : /\ items \subseteq GamesOf(d) \ local.found /\ Put(items)
                   /\ hist' = hist \/ hist' = Faulted
  BY <1>1
<1>4. hist' \in Hists /\ HistKept({})
  BY <1>3, FaultedHist, Same DEF Shape
<1>5. /\ local' \in Locals /\ LocalKept({"todo", "dev"})
      /\ local'.todo = local.todo \ {d} /\ local'.dev = {d}
  BY <1>1, <1>2 DEF Shape, Locals, LocalKept
<1>6. /\ board' \in Boards /\ board'.watches = board.watches
      /\ \A i \in Items : board'.items[i] = board.items[i] + (IF i \in items THEN 1 ELSE 0)
  BY <1>3, PutStep
<1>7. \A i \in Items : \/ board'.items[i] = board.items[i]
                       \/ /\ i \in GamesOf(d) \ local.found
                          /\ board'.items[i] = board.items[i] + 1
  BY <1>3, <1>6 DEF Shape, Boards
<1>8. Shape'
  BY <1>4, <1>5, <1>6 DEF AddGames, In, Goto, Shape, MeasurePcs, AddPcs
<1>9. QED
  BY <1>2, <1>4, <1>5, <1>6, <1>7, <1>8, Same DEF AddGames, In, Goto

LEMMA HighlightStep ==
    ASSUME Shape, NEW i \in Rated, Highlight(i)
    PROVE  /\ db' \in Tables /\ hist' \in Hists /\ HistKept({}) /\ DbKept({"highlighted"})
           /\ \A j \in Rated : db'.highlighted[j] <= db.highlighted[j] + (IF i = j THEN 1 ELSE 0)
<1>1. hist' \in Hists /\ HistKept({})
  BY FaultedHist, Same DEF Shape, Highlight
<1>2. db \in Tables
  BY DEF Shape
<1> DEFINE h == [db.highlighted EXCEPT ![i] = @ + 1]
<1>3. h \in [Rated -> Nat] /\ \A j \in Rated : h[j] <= db.highlighted[j] + (IF i = j THEN 1 ELSE 0)
  BY <1>2 DEF Tables
<1>4. CASE db' = [db EXCEPT !.highlighted = h]
  <2> HIDE DEF h
  <2>1. QED BY <1>1, <1>2, <1>3, <1>4 DEF Tables, DbKept
<1>5. CASE db' = db
  <2>1. \A j \in Rated : db.highlighted[j] \in Nat
    BY <1>2 DEF Tables
  <2>2. DbKept({"highlighted"})
    BY <1>5 DEF DbKept
  <2>3. QED BY <1>1, <1>2, <1>5, <2>1, <2>2
<1>6. QED
  BY <1>4, <1>5 DEF Highlight

LEMMA HighlightDeveloperStep ==
    ASSUME Shape, HighlightDeveloper
    PROVE  /\ Shape' /\ LocalKept({}) /\ DbKept({"highlighted"}) /\ HistKept({})
           /\ state.phase = "measure" /\ pc = "highlight" /\ pc' = "add"
           /\ UNCHANGED <<local, state, disk, board>>
           /\ \E i \in local.dev : \A j \in Rated :
                db'.highlighted[j] <= db.highlighted[j] + (IF i = j THEN 1 ELSE 0)
<1>1. PICK d \in local.dev : Highlight(d)
  BY DEF HighlightDeveloper
<1>2. d \in Rated
  BY DEF Shape, Locals
<1>3. QED
  BY <1>1, <1>2, HighlightStep, Same DEF HighlightDeveloper, In, Goto, Shape, MeasurePcs, AddPcs

LEMMA FindAppsStep ==
    ASSUME Shape, FindApps
    PROVE  /\ Shape' /\ LocalKept({"todo"}) /\ DbKept({}) /\ HistKept({})
           /\ state.phase = "measure" /\ pc = "add" /\ local.todo = {} /\ pc' = "app"
           /\ UNCHANGED <<state, disk, db, board, hist>>
           /\ local'.todo = TopApps
<1>1. local' \in Locals /\ LocalKept({"todo"}) /\ local'.todo = TopApps
  BY DEF Shape, FindApps, Locals, LocalKept, Rated
<1>2. QED
  BY <1>1, Same DEF FindApps, In, Goto, Shape, MeasurePcs

LEMMA HighlightAppStep ==
    ASSUME Shape, HighlightApp
    PROVE  /\ Shape' /\ LocalKept({"todo", "dev"}) /\ DbKept({"highlighted"}) /\ HistKept({})
           /\ state.phase = "measure" /\ pc = "app" /\ pc' = "addApp"
           /\ UNCHANGED <<state, disk, board>>
           /\ \E i \in local.todo :
                /\ local'.dev = {i} /\ local'.todo = local.todo \ {i}
                /\ \A j \in Rated :
                     db'.highlighted[j] <= db.highlighted[j] + (IF i = j THEN 1 ELSE 0)
<1>1. PICK a \in local.todo : Highlight(a) /\ local' = [local EXCEPT !.dev = {a}, !.todo = @ \ {a}]
  BY DEF HighlightApp
<1>2. a \in Rated
  BY DEF Shape, Locals
<1>3. /\ local' \in Locals /\ LocalKept({"todo", "dev"})
      /\ local'.dev = {a} /\ local'.todo = local.todo \ {a}
  BY <1>1 DEF Shape, Locals, LocalKept
<1>4. QED
  BY <1>1, <1>2, <1>3, HighlightStep DEF HighlightApp, In, Goto, Shape, MeasurePcs

LEMMA AddAppStep ==
    ASSUME Shape, AddApp
    PROVE  /\ Shape' /\ LocalKept({}) /\ DbKept({}) /\ HistKept({})
           /\ state.phase = "measure" /\ pc = "addApp" /\ pc' = "app"
           /\ UNCHANGED <<local, state, disk, db>>
           /\ board'.watches = board.watches
           /\ \A i \in Items : \/ board'.items[i] = board.items[i]
                               \/ /\ i \in local.dev \ local.found
                                  /\ board'.items[i] = board.items[i] + 1
<1> DEFINE new == local.dev \ local.found
<1>1. hist' \in Hists /\ HistKept({})
  BY FaultedHist, Same DEF Shape, AddApp
<1>2. /\ board' \in Boards /\ board'.watches = board.watches
      /\ \A i \in Items : \/ board'.items[i] = board.items[i]
                          \/ i \in new /\ board'.items[i] = board.items[i] + 1
  <2>1. board \in Boards
    BY DEF Shape
  <2>2. CASE Put(new)
    <3>1. \A i \in Items : board'.items[i] = board.items[i] + (IF i \in new THEN 1 ELSE 0)
      BY <2>2, PutStep
    <3>2. board' \in Boards /\ board'.watches = board.watches
      BY <2>2, PutStep
    <3> HIDE DEF new
    <3>3. QED BY <2>1, <3>1, <3>2 DEF Boards
  <2>3. CASE board' = board
    BY <2>1, <2>3
  <2>4. QED BY <2>2, <2>3 DEF AddApp
<1>3. QED
  BY <1>1, <1>2, Same DEF AddApp, In, Goto, Shape, MeasurePcs

LEMMA UnwatchStep ==
    ASSUME Shape, Unwatch
    PROVE  /\ Shape' /\ LocalKept({}) /\ DbKept({"games", "watched"}) /\ HistKept({})
           /\ state.phase = "measure" /\ pc = "app" /\ pc' = "pdf"
           /\ UNCHANGED <<local, state, disk, board>>
           /\ db'.watched \subseteq db.watched
           /\ db.watched \cap local.watching \subseteq db'.watched
           /\ db'.watched \cap db.games \subseteq db'.games
<1>1. db \in Tables
  BY DEF Shape
<1>2. PICK gone \in SUBSET (db.watched \ local.watching), n \in {0, db.blank[TRUE]} :
        Unwatched(gone, n) /\ (hist' = hist \/ hist' = Faulted)
  BY DEF Unwatch
<1> DEFINE games == {g \in db.games : g \in gone => db.by[g] # {}}
           blank == [db.blank EXCEPT ![TRUE] = n]
<1>3. /\ games \in SUBSET Games
      /\ (db.watched \ gone) \cap db.games \subseteq games
  BY <1>1 DEF Tables
<1>4. blank \in [BOOLEAN -> Nat]
  <2>1. db.blank \in [BOOLEAN -> Nat]
    BY <1>1 DEF Tables
  <2>2. \A w \in BOOLEAN : db.blank[w] \in Nat
    BY <2>1
  <2>3. db.blank[TRUE] \in Nat
    BY <2>2, Zenon
  <2>4. 0 \in Nat
    OBVIOUS
  <2>5. n \in Nat
    BY <2>3, <2>4, Zenon
  <2>6. QED BY <2>1, <2>5
<1>5. db' = [db EXCEPT !.watched = @ \ gone, !.games = games, !.blank = blank]
  BY <1>2 DEF Unwatched
<1>6. /\ db' \in Tables /\ DbKept({"games", "watched"})
      /\ db'.watched = db.watched \ gone /\ db'.games = games
  <2> HIDE DEF games, blank
  <2>1. QED BY <1>1, <1>3, <1>4, <1>5 DEF Tables, DbKept
<1>7. hist' \in Hists /\ HistKept({})
  BY <1>2, Same, FaultedHist DEF Shape
<1>8. /\ state.phase = "measure" /\ pc = "app" /\ pc' = "pdf"
      /\ UNCHANGED <<local, state, disk, board, sendDay>>
  BY DEF Unwatch, In, Goto
<1>9. Shape' /\ LocalKept({})
  BY <1>6, <1>7, <1>8, Same DEF Shape, MeasurePcs, AddPcs
<1>10. QED BY <1>2, <1>3, <1>6, <1>7, <1>8, <1>9

LEMMA ConstructStep ==
    ASSUME Shape, Construct
    PROVE  /\ Shape' /\ LocalKept({}) /\ DbKept({}) /\ HistKept({})
           /\ state.phase = "measure" /\ pc = "pdf" /\ pc' = "send"
           /\ UNCHANGED <<local, state, disk, db, board, hist>>
  BY Same DEF Construct, In, Goto, Shape, MeasurePcs

LEMMA SendStep ==
    ASSUME Shape, Send
    PROVE  /\ Shape' /\ LocalKept({"tries"}) /\ DbKept({"emails"}) /\ HistKept({})
           /\ state.phase = "measure" /\ pc = "send" /\ pc' = pc
           /\ UNCHANGED <<state, disk, board, hist>>
           /\ local.tries < Retries /\ local'.tries = Retries
           /\ db'.emails = db.emails + 1
<1>1. local' \in Locals /\ LocalKept({"tries"}) /\ local'.tries = Retries
  <2>1. local \in Locals /\ local' = [local EXCEPT !.tries = Retries]
    BY DEF Shape, Send
  <2>2. local.tries \in Nat /\ local.tries < Retries
    BY <2>1 DEF Locals, Send
  <2>3. Retries \in 0 .. Retries
    BY <2>2, Amounts
  <2>4. QED BY <2>1, <2>3 DEF Locals, LocalKept
<1>2. db' \in Tables /\ DbKept({"emails"}) /\ db'.emails = db.emails + 1
  BY DEF Shape, Send, Tables, DbKept
<1>3. QED
  BY <1>1, <1>2, Same DEF Send, In, Shape

LEMMA SendFailsStep ==
    ASSUME Shape, SendFails
    PROVE  /\ Shape' /\ LocalKept({"tries"}) /\ DbKept({"emails"}) /\ HistKept({"resent"})
           /\ state.phase = "measure" /\ pc = "send" /\ pc' = pc
           /\ UNCHANGED <<state, disk, board>>
           /\ local.tries < Retries /\ local'.tries = local.tries + 1
           /\ \E n \in {0, 1} : /\ db'.emails = db.emails + n
                                /\ hist'.resent = hist.resent + n
<1>1. local' \in Locals /\ LocalKept({"tries"}) /\ local'.tries = local.tries + 1
  <2>1. local \in Locals /\ local' = [local EXCEPT !.tries = local.tries + 1]
    BY DEF Shape, SendFails
  <2>2. local.tries \in Nat /\ local.tries < Retries
    BY <2>1 DEF Locals, SendFails
  <2>3. local.tries + 1 \in 0 .. Retries
    BY <2>2, Amounts
  <2>4. QED BY <2>1, <2>3 DEF Locals, LocalKept
<1>2. PICK n \in {0, 1} : /\ db' = [db EXCEPT !.emails = @ + n]
                          /\ hist' = [Faulted EXCEPT !.resent = @ + n]
  BY DEF SendFails
<1>3. db' \in Tables /\ DbKept({"emails"}) /\ db'.emails = db.emails + n
  BY <1>2 DEF Shape, Tables, DbKept
<1>4. hist' \in Hists /\ HistKept({"resent"}) /\ hist'.resent = hist.resent + n
  <2> DEFINE f == Faulted
  <2>1. f \in Hists /\ HistKept({"resent"}) /\ f.resent = hist.resent
    BY <1>2 DEF Shape, Hists, Faulted, HistKept
  <2>2. hist' = [f EXCEPT !.resent = @ + n]
    BY <1>2
  <2> HIDE DEF f
  <2>3. hist' \in Hists /\ hist'.resent = f.resent + n
    BY <2>1, <2>2 DEF Hists
  <2>4. QED BY <2>1, <2>3
<1>5. QED
  BY <1>1, <1>3, <1>4, Same DEF SendFails, In, Shape

-----------------------------------------------------------------------------
(* The ends of the phases, and all steps.                                  *)

Failing == Fail /\ state.phase \in Phases

LEMMA Steps ==
    ASSUME Next
    PROVE  \/ Failing \/ Crash \/ Restart \/ SnapshotBegins \/ Aggregate \/ SnapshotEnds
           \/ DeleteSkipped \/ DeleteBegins \/ Sampling \/ SaveFails \/ SampleEnds
           \/ RemoveReference \/ DeleteGames \/ DeleteDeveloper \/ DeleteEnds
           \/ Fetch \/ MeasureSkipped \/ FindTrends \/ AddGames \/ HighlightDeveloper
           \/ FindApps \/ HighlightApp \/ AddApp \/ Unwatch \/ Construct \/ Send \/ SendFails
           \/ MeasureEnds
<1>1. AggregateFails \/ DeleteFails \/ SampleFails \/ MeasureFails \/ AppsFail \/ ConstructFails => Failing
  BY DEF AggregateFails, DeleteFails, SampleFails, MeasureFails, AppsFail, ConstructFails, In, Failing, Phases
<1>2. QED
  BY <1>1 DEF Next, SnapshotPhase, DeletePhase, MeasurePhase, Sampling

LEMMA FailingStep ==
    ASSUME Shape, Failing
    PROVE  /\ Shape' /\ HistKept({}) /\ LocalKept({}) /\ DbKept({}) /\ state.phase \in Phases
           /\ pc' = "down" /\ disk' = state /\ UNCHANGED <<local, state, db, board>>
  BY FailStep, Same DEF Failing, Fail

(* What the end of a phase does, but for the phase that follows it.        *)
Ended ==
    /\ Shape' /\ DbKept({}) /\ HistKept({"entered"})
    /\ state'.deleted = state.deleted /\ disk' = state' /\ UNCHANGED <<db, board>>
    /\ local'.todo = {} /\ local'.tries = 0
    /\ hist'.entered["snapshot"] = hist.entered["snapshot"]

Moved(p, next) ==
    /\ state.phase = p /\ state'.phase = next
    /\ pc' = (IF next = "done" THEN "over" ELSE "begin")
    /\ hist'.entered["measure"] = hist.entered["measure"] + (IF next = "measure" THEN 1 ELSE 0)

LEMMA SnapshotEndsStep ==
    ASSUME Shape, SnapshotEnds
    PROVE  Ended /\ Moved("snapshot", "delete") /\ pc = "aggregate" /\ local.todo = {}
  BY PhaseAfterStep DEF SnapshotEnds, In, Ended, Moved

LEMMA DeleteSkippedStep ==
    ASSUME Shape, DeleteSkipped PROVE Ended /\ Moved("delete", "measure")
  BY PhaseAfterStep DEF DeleteSkipped, In, Ended, Moved

LEMMA DeleteEndsStep ==
    ASSUME Shape, DeleteEnds PROVE Ended /\ Moved("delete", "measure")
  BY PhaseAfterStep DEF DeleteEnds, In, Ended, Moved

LEMMA MeasureSkippedStep ==
    ASSUME Shape, MeasureSkipped PROVE Ended /\ Moved("measure", "done")
  BY PhaseAfterStep DEF MeasureSkipped, In, Ended, Moved

LEMMA MeasureEndsStep ==
    ASSUME Shape, MeasureEnds PROVE Ended /\ Moved("measure", "done")
  BY PhaseAfterStep DEF MeasureEnds, In, Ended, Moved

-----------------------------------------------------------------------------
(* Each part of the invariant is kept by every step.                       *)

LEMMA NextShape ==
    ASSUME Shape, Phased, Aggregated, Listed, Next PROVE Shape'
<1>1. CASE Failing
  BY <1>1, FailingStep DEF Ended
<1>2. CASE Crash
  BY <1>2, CrashStep DEF Ended
<1>3. CASE Restart
  BY <1>3, RestartStep DEF Ended
<1>4. CASE SnapshotBegins
  BY <1>4, SnapshotBeginsStep DEF Ended
<1>5. CASE Aggregate
  BY <1>5, AggregateStep DEF Ended
<1>6. CASE SnapshotEnds
  BY <1>6, SnapshotEndsStep DEF Ended
<1>7. CASE DeleteSkipped
  BY <1>7, DeleteSkippedStep DEF Ended
<1>8. CASE DeleteBegins
  BY <1>8, DeleteBeginsStep DEF Ended
<1>9. CASE Sampling
  BY <1>9, SampleStep DEF SampleFrame, Ended
<1>10. CASE SaveFails
  BY <1>10, SaveFailsStep DEF SampleFrame, Ended
<1>11. CASE SampleEnds
  BY <1>11, SampleEndsStep DEF Ended
<1>12. CASE RemoveReference
  BY <1>12, RemoveReferenceStep DEF Ended
<1>13. CASE DeleteGames
  BY <1>13, DeleteGamesStep DEF Ended
<1>14. CASE DeleteDeveloper
  BY <1>14, DeleteDeveloperStep DEF Ended
<1>15. CASE DeleteEnds
  BY <1>15, DeleteEndsStep DEF Ended
<1>16. CASE Fetch
  BY <1>16, FetchStep DEF Ended
<1>17. CASE MeasureSkipped
  BY <1>17, MeasureSkippedStep DEF Ended
<1>18. CASE FindTrends
  BY <1>18, FindTrendsStep DEF Ended
<1>19. CASE AddGames
  BY <1>19, AddGamesStep DEF Ended
<1>20. CASE HighlightDeveloper
  BY <1>20, HighlightDeveloperStep DEF Ended
<1>21. CASE FindApps
  BY <1>21, FindAppsStep DEF Ended
<1>22. CASE HighlightApp
  BY <1>22, HighlightAppStep DEF Ended
<1>23. CASE AddApp
  BY <1>23, AddAppStep DEF Ended
<1>24. CASE Unwatch
  BY <1>24, UnwatchStep DEF Ended
<1>25. CASE Construct
  BY <1>25, ConstructStep DEF Ended
<1>26. CASE Send
  BY <1>26, SendStep DEF Ended
<1>27. CASE SendFails
  BY <1>27, SendFailsStep DEF Ended
<1>28. CASE MeasureEnds
  BY <1>28, MeasureEndsStep DEF Ended
<1> QED
  BY <1>1, <1>2, <1>3, <1>4, <1>5, <1>6, <1>7, <1>8, <1>9, <1>10, <1>11, <1>12, <1>13, <1>14, <1>15, <1>16, <1>17, <1>18, <1>19, <1>20, <1>21, <1>22, <1>23, <1>24, <1>25, <1>26, <1>27, <1>28, Steps

LEMMA NextPhased ==
    ASSUME Shape, Phased, Aggregated, Listed, Next PROVE Phased'
<1> USE DEF Phased, DeletePcs, MeasurePcs, AddPcs, Phases
<1>1. CASE Failing
  BY <1>1, FailingStep DEF LocalKept, Ended, Moved
<1>2. CASE Crash
  BY <1>2, CrashStep
<1>3. CASE Restart
  BY <1>3, RestartStep DEF LocalKept, Ended, Moved
<1>4. CASE SnapshotBegins
  BY <1>4, SnapshotBeginsStep DEF LocalKept, Ended, Moved
<1>5. CASE Aggregate
  BY <1>5, AggregateStep DEF LocalKept, Ended, Moved
<1>6. CASE SnapshotEnds
  BY <1>6, SnapshotEndsStep DEF LocalKept, Ended, Moved
<1>7. CASE DeleteSkipped
  BY <1>7, DeleteSkippedStep DEF LocalKept, Ended, Moved
<1>8. CASE DeleteBegins
  BY <1>8, DeleteBeginsStep DEF LocalKept, Ended, Moved
<1>9. CASE Sampling
  BY <1>9, SampleStep DEF SampleFrame, LocalKept, Ended, Moved
<1>10. CASE SaveFails
  BY <1>10, SaveFailsStep DEF SampleFrame, LocalKept, Ended, Moved
<1>11. CASE SampleEnds
  BY <1>11, SampleEndsStep DEF LocalKept, Ended, Moved
<1>12. CASE RemoveReference
  BY <1>12, RemoveReferenceStep DEF LocalKept, Ended, Moved
<1>13. CASE DeleteGames
  BY <1>13, DeleteGamesStep DEF LocalKept, Ended, Moved
<1>14. CASE DeleteDeveloper
  BY <1>14, DeleteDeveloperStep DEF LocalKept, Ended, Moved
<1>15. CASE DeleteEnds
  BY <1>15, DeleteEndsStep DEF LocalKept, Ended, Moved
<1>16. CASE Fetch
  BY <1>16, FetchStep DEF LocalKept, Ended, Moved
<1>17. CASE MeasureSkipped
  BY <1>17, MeasureSkippedStep DEF LocalKept, Ended, Moved
<1>18. CASE FindTrends
  BY <1>18, FindTrendsStep DEF LocalKept, Ended, Moved
<1>19. CASE AddGames
  BY <1>19, AddGamesStep DEF LocalKept, Ended, Moved
<1>20. CASE HighlightDeveloper
  BY <1>20, HighlightDeveloperStep DEF LocalKept, Ended, Moved
<1>21. CASE FindApps
  BY <1>21, FindAppsStep DEF LocalKept, Ended, Moved
<1>22. CASE HighlightApp
  BY <1>22, HighlightAppStep DEF LocalKept, Ended, Moved
<1>23. CASE AddApp
  BY <1>23, AddAppStep DEF LocalKept, Ended, Moved
<1>24. CASE Unwatch
  BY <1>24, UnwatchStep DEF LocalKept, Ended, Moved
<1>25. CASE Construct
  BY <1>25, ConstructStep DEF LocalKept, Ended, Moved
<1>26. CASE Send
  BY <1>26, SendStep DEF LocalKept, Ended, Moved
<1>27. CASE SendFails
  BY <1>27, SendFailsStep DEF LocalKept, Ended, Moved
<1>28. CASE MeasureEnds
  BY <1>28, MeasureEndsStep DEF LocalKept, Ended, Moved
<1> QED
  BY <1>1, <1>2, <1>3, <1>4, <1>5, <1>6, <1>7, <1>8, <1>9, <1>10, <1>11, <1>12, <1>13, <1>14, <1>15, <1>16, <1>17, <1>18, <1>19, <1>20, <1>21, <1>22, <1>23, <1>24, <1>25, <1>26, <1>27, <1>28, Steps

LEMMA NextAggregated ==
    ASSUME Shape, Phased, Aggregated, Listed, Next PROVE Aggregated'
<1>q. ASSUME db'.snaps = db.snaps, hist'.entered["snapshot"] = hist.entered["snapshot"],
             state'.phase # "snapshot" => state.phase # "snapshot",
             pc' # "aggregate", ~(state'.phase = "snapshot" /\ pc' = "begin")
      PROVE  Aggregated'
  BY <1>q DEF Aggregated
<1>1. CASE Failing
  BY <1>1, <1>q, FailingStep DEF DbKept, HistKept, Ended, Moved
<1>2. CASE Crash
  BY <1>2, <1>q, CrashStep DEF DbKept, HistKept, Ended, Moved
<1>3. CASE Restart
  <2>1. /\ db' = db /\ state'.phase = state.phase /\ state.phase \in Phases /\ pc' = "begin"
        /\ hist'.entered["snapshot"] = hist.entered["snapshot"] + (IF state.phase = "snapshot" THEN 1 ELSE 0)
    BY <1>3, RestartStep DEF Phased, Phases
  <2>2. /\ db.snaps \in [Devs -> Nat] /\ Snapshots \in [Devs -> Nat] /\ Partial \subseteq Devs
        /\ hist.entered["snapshot"] \in Nat
    BY Amounts DEF Shape, Tables, Hists, Phases
  <2>3. \A d \in Devs : db.snaps[d] <= Snapshots[d] + (IF d \in Partial THEN hist.entered["snapshot"] ELSE 0)
    BY DEF Aggregated
  <2>4. \A d \in Devs : db.snaps[d] <= Snapshots[d] + (IF d \in Partial THEN hist'.entered["snapshot"] ELSE 0)
    BY <2>1, <2>2, <2>3
  <2>5. state.phase = "snapshot" => \A d \in Partial : db.snaps[d] < Snapshots[d] + hist'.entered["snapshot"]
    BY <2>1, <2>2, <2>3
  <2>6. QED BY <2>1, <2>4, <2>5 DEF Aggregated
<1>4. CASE SnapshotBegins
  <2>1. \A d \in Partial : db.snaps[d] < Snapshots[d] + hist.entered["snapshot"]
    BY <1>4, SnapshotBeginsStep DEF Aggregated
  <2>2. QED BY <1>4, <2>1, SnapshotBeginsStep DEF Aggregated
<1>5. CASE Aggregate
  <2>1. PICK d \in local.todo : /\ d \in Partial /\ d \in Devs
                                /\ local'.todo = local.todo \ {d}
                                /\ db'.snaps = [db.snaps EXCEPT ![d] = @ + 1]
    BY <1>5, AggregateStep
  <2>2. /\ pc = "aggregate" /\ pc' = pc /\ state.phase = "snapshot"
        /\ UNCHANGED <<state, hist>>
    BY <1>5, AggregateStep
  <2>3. /\ db.snaps \in [Devs -> Nat] /\ Snapshots \in [Devs -> Nat] /\ Partial \subseteq Devs
        /\ hist.entered["snapshot"] \in Nat
    BY Amounts DEF Shape, Tables, Hists, Phases
  <2>4. db.snaps[d] < Snapshots[d] + hist.entered["snapshot"] /\ Snapshots[d] <= db.snaps[d]
    BY <2>1, <2>2 DEF Aggregated
  <2>5. /\ db'.snaps[d] = db.snaps[d] + 1
        /\ \A e \in Devs \ {d} : db'.snaps[e] = db.snaps[e]
    BY <2>1, <2>3
  <2>6. \A e \in Devs : db'.snaps[e] <= Snapshots[e] + (IF e \in Partial THEN hist.entered["snapshot"] ELSE 0)
    BY <2>1, <2>3, <2>4, <2>5 DEF Aggregated
  <2>7. \A e \in Partial : Snapshots[e] <= db'.snaps[e]
    BY <2>1, <2>3, <2>4, <2>5 DEF Aggregated
  <2>8. \A e \in Partial \ local'.todo : Snapshots[e] < db'.snaps[e]
    BY <2>1, <2>2, <2>3, <2>4, <2>5 DEF Aggregated
  <2>9. \A e \in local'.todo : e \in Partial /\ e # d /\ db'.snaps[e] < Snapshots[e] + hist.entered["snapshot"]
    BY <2>1, <2>2, <2>3, <2>5 DEF Aggregated
  <2>10. QED BY <2>2, <2>6, <2>7, <2>8, <2>9 DEF Aggregated
<1>6. CASE SnapshotEnds
  BY <1>6, SnapshotEndsStep DEF Aggregated, Ended, Moved
<1>7. CASE DeleteSkipped
  BY <1>7, <1>q, DeleteSkippedStep DEF DbKept, HistKept, Ended, Moved
<1>8. CASE DeleteBegins
  BY <1>8, <1>q, DeleteBeginsStep DEF DbKept, HistKept, Ended, Moved
<1>9. CASE Sampling
  BY <1>9, <1>q, SampleStep DEF SampleFrame, DbKept, HistKept, Ended, Moved
<1>10. CASE SaveFails
  BY <1>10, <1>q, SaveFailsStep DEF SampleFrame, DbKept, HistKept, Ended, Moved
<1>11. CASE SampleEnds
  BY <1>11, <1>q, SampleEndsStep DEF DbKept, HistKept, Ended, Moved
<1>12. CASE RemoveReference
  BY <1>12, <1>q, RemoveReferenceStep DEF DbKept, HistKept, Ended, Moved
<1>13. CASE DeleteGames
  BY <1>13, <1>q, DeleteGamesStep DEF DbKept, HistKept, Ended, Moved
<1>14. CASE DeleteDeveloper
  BY <1>14, <1>q, DeleteDeveloperStep DEF DbKept, HistKept, Ended, Moved
<1>15. CASE DeleteEnds
  BY <1>15, <1>q, DeleteEndsStep DEF DbKept, HistKept, Ended, Moved
<1>16. CASE Fetch
  BY <1>16, <1>q, FetchStep DEF DbKept, HistKept, Ended, Moved
<1>17. CASE MeasureSkipped
  BY <1>17, <1>q, MeasureSkippedStep DEF DbKept, HistKept, Ended, Moved
<1>18. CASE FindTrends
  BY <1>18, <1>q, FindTrendsStep DEF DbKept, HistKept, Ended, Moved
<1>19. CASE AddGames
  BY <1>19, <1>q, AddGamesStep DEF DbKept, HistKept, Ended, Moved
<1>20. CASE HighlightDeveloper
  BY <1>20, <1>q, HighlightDeveloperStep DEF DbKept, HistKept, Ended, Moved
<1>21. CASE FindApps
  BY <1>21, <1>q, FindAppsStep DEF DbKept, HistKept, Ended, Moved
<1>22. CASE HighlightApp
  BY <1>22, <1>q, HighlightAppStep DEF DbKept, HistKept, Ended, Moved
<1>23. CASE AddApp
  BY <1>23, <1>q, AddAppStep DEF DbKept, HistKept, Ended, Moved
<1>24. CASE Unwatch
  BY <1>24, <1>q, UnwatchStep DEF DbKept, HistKept, Ended, Moved
<1>25. CASE Construct
  BY <1>25, <1>q, ConstructStep DEF DbKept, HistKept, Ended, Moved
<1>26. CASE Send
  BY <1>26, <1>q, SendStep DEF DbKept, HistKept, Ended, Moved
<1>27. CASE SendFails
  BY <1>27, <1>q, SendFailsStep DEF DbKept, HistKept, Ended, Moved
<1>28. CASE MeasureEnds
  BY <1>28, <1>q, MeasureEndsStep DEF DbKept, HistKept, Ended, Moved
<1> QED
  BY <1>1, <1>2, <1>3, <1>4, <1>5, <1>6, <1>7, <1>8, <1>9, <1>10, <1>11, <1>12, <1>13, <1>14, <1>15, <1>16, <1>17, <1>18, <1>19, <1>20, <1>21, <1>22, <1>23, <1>24, <1>25, <1>26, <1>27, <1>28, Steps

LEMMA NextHighlighted ==
    ASSUME Shape, Phased, Aggregated, Listed, Highlighted, Next PROVE Highlighted'
<1>0. hist.entered["measure"] \in Nat /\ \A j \in Rated : db.highlighted[j] \in Nat
  BY DEF Shape, Tables, Hists, Phases
<1>q. ASSUME db'.highlighted = db.highlighted, hist'.entered["measure"] = hist.entered["measure"],
             \A i \in Rated : Due(i)' => Due(i),
             pc' \notin {"add", "highlight", "app", "addApp"}
      PROVE  Highlighted'
  <2>1. \A i \in Rated : db.highlighted[i] <= hist.entered["measure"] - (IF Due(i)' THEN 1 ELSE 0)
    BY <1>0, <1>q DEF Highlighted
  <2>2. QED BY <1>q, <2>1 DEF Highlighted
<1>e. ASSUME db'.highlighted = db.highlighted,
             hist'.entered["measure"] = hist.entered["measure"] + 1,
             pc' \notin {"add", "highlight", "app", "addApp"}
      PROVE  Highlighted'
  <2>1. \A i \in Rated : db.highlighted[i] <= hist'.entered["measure"] - (IF Due(i)' THEN 1 ELSE 0)
    BY <1>0, <1>e DEF Highlighted
  <2>2. QED BY <1>e, <2>1 DEF Highlighted
<1>1. CASE Failing
  BY <1>1, <1>q, FailingStep DEF DbKept, HistKept, Ended, Moved, Due
<1>2. CASE Crash
  BY <1>2, <1>q, CrashStep DEF DbKept, HistKept, Ended, Moved, Due
<1>3. CASE Restart
  <2>1. /\ db' = db /\ state'.phase = state.phase /\ state.phase \in Phases /\ pc' = "begin"
        /\ hist'.entered["measure"] = hist.entered["measure"] + (IF state.phase = "measure" THEN 1 ELSE 0)
    BY <1>3, RestartStep DEF Phased, Phases
  <2>2. CASE state.phase = "measure"
    BY <1>0, <1>e, <2>1, <2>2
  <2>3. CASE state.phase # "measure"
    BY <1>0, <1>q, <2>1, <2>3 DEF Due
  <2>4. QED BY <2>2, <2>3
<1>4. CASE SnapshotBegins
  BY <1>4, <1>q, SnapshotBeginsStep DEF DbKept, HistKept, Ended, Moved, Due
<1>5. CASE Aggregate
  BY <1>5, <1>q, AggregateStep DEF DbKept, HistKept, Ended, Moved, Due
<1>6. CASE SnapshotEnds
  BY <1>0, <1>6, <1>q, SnapshotEndsStep DEF DbKept, HistKept, Ended, Moved, Due
<1>7. CASE DeleteSkipped
  BY <1>0, <1>e, <1>7, DeleteSkippedStep DEF DbKept, Ended, Moved
<1>8. CASE DeleteBegins
  BY <1>8, <1>q, DeleteBeginsStep DEF DbKept, HistKept, Ended, Moved, Due
<1>9. CASE Sampling
  BY <1>9, <1>q, SampleStep DEF SampleFrame, DbKept, HistKept, Ended, Moved, Due
<1>10. CASE SaveFails
  BY <1>10, <1>q, SaveFailsStep DEF SampleFrame, DbKept, HistKept, Ended, Moved, Due
<1>11. CASE SampleEnds
  BY <1>11, <1>q, SampleEndsStep DEF DbKept, HistKept, Ended, Moved, Due
<1>12. CASE RemoveReference
  BY <1>12, <1>q, RemoveReferenceStep DEF DbKept, HistKept, Ended, Moved, Due
<1>13. CASE DeleteGames
  BY <1>13, <1>q, DeleteGamesStep DEF DbKept, HistKept, Ended, Moved, Due
<1>14. CASE DeleteDeveloper
  BY <1>14, <1>q, DeleteDeveloperStep DEF DbKept, HistKept, Ended, Moved, Due
<1>15. CASE DeleteEnds
  BY <1>0, <1>e, <1>15, DeleteEndsStep DEF DbKept, Ended, Moved
<1>16. CASE Fetch
  BY <1>16, <1>q, FetchStep DEF DbKept, HistKept, Ended, Moved, Due
<1>17. CASE MeasureSkipped
  BY <1>0, <1>17, <1>q, MeasureSkippedStep DEF DbKept, HistKept, Ended, Moved, Due
<1>18. CASE FindTrends
  <2>1. /\ state.phase = "measure" /\ pc = "fetched" /\ pc' = "add"
        /\ db' = db /\ local'.todo \subseteq Devs
        /\ hist'.entered["measure"] = hist.entered["measure"]
    BY <1>18, FindTrendsStep DEF HistKept
  <2>2. \A i \in Rated : db.highlighted[i] <= hist.entered["measure"] - 1
    BY <2>1 DEF Highlighted, Due
  <2>3. \A i \in Rated : db.highlighted[i] <= hist.entered["measure"] - (IF Due(i)' THEN 1 ELSE 0)
    BY <1>0, <2>2
  <2>4. QED BY <2>1, <2>3 DEF Highlighted
<1>19. CASE AddGames
  <2>1. PICK d \in local.todo : local'.todo = local.todo \ {d} /\ local'.dev = {d}
    BY <1>19, AddGamesStep
  <2>2. /\ pc = "add" /\ pc' = "highlight" /\ UNCHANGED <<state, db>>
        /\ hist'.entered["measure"] = hist.entered["measure"]
    BY <1>19, AddGamesStep DEF HistKept
  <2>3. local.todo \subseteq Devs
    BY <2>2 DEF Highlighted
  <2>4. \A i \in Rated : Due(i)' => Due(i)
    BY <2>1, <2>2 DEF Due
  <2>5. \A i \in Rated : db.highlighted[i] <= hist.entered["measure"] - (IF Due(i)' THEN 1 ELSE 0)
    BY <1>0, <2>4 DEF Highlighted
  <2>6. QED BY <2>1, <2>2, <2>3, <2>5 DEF Highlighted
<1>20. CASE HighlightDeveloper
  <2>1. PICK i \in local.dev : \A j \in Rated :
                db'.highlighted[j] <= db.highlighted[j] + (IF i = j THEN 1 ELSE 0)
    BY <1>20, HighlightDeveloperStep
  <2>2. /\ state.phase = "measure" /\ pc = "highlight" /\ pc' = "add" /\ UNCHANGED <<state, local>>
        /\ hist'.entered["measure"] = hist.entered["measure"]
    BY <1>20, HighlightDeveloperStep DEF HistKept
  <2>3. local.todo \cup local.dev \subseteq Devs /\ local.todo \cap local.dev = {} /\ Devs \cap TopApps = {}
    BY <2>2, Amounts DEF Highlighted
  <2>4. \A j \in Rated : db'.highlighted[j] \in Nat
    BY <1>20, HighlightDeveloperStep DEF Shape, Tables
  <2>5. \A j \in Rated : Due(j)' <=> j \in local.todo \cup TopApps
    BY <2>2 DEF Due
  <2>6. \A j \in Rated : Due(j) <=> j \in local.todo \cup local.dev \cup TopApps
    BY <2>2 DEF Due
  <2>7. \A j \in Rated : db'.highlighted[j] <= hist.entered["measure"] - (IF Due(j)' THEN 1 ELSE 0)
    <3> SUFFICES ASSUME NEW j \in Rated
                 PROVE  db'.highlighted[j] <= hist.entered["measure"] - (IF Due(j)' THEN 1 ELSE 0)
      OBVIOUS
    <3>1. db.highlighted[j] <= hist.entered["measure"] - (IF Due(j) THEN 1 ELSE 0)
      BY DEF Highlighted
    <3>2. CASE i = j
      <4>1. Due(j) /\ ~Due(j)'
        BY <2>3, <2>5, <2>6, <3>2
      <4>2. QED BY <1>0, <2>1, <2>4, <3>1, <3>2, <4>1
    <3>3. CASE i # j
      <4>1. Due(j)' => Due(j)
        BY <2>5, <2>6
      <4>2. QED BY <1>0, <2>1, <2>4, <3>1, <3>3, <4>1
    <3>4. QED BY <3>2, <3>3
  <2>8. QED BY <2>2, <2>3, <2>7 DEF Highlighted
<1>21. CASE FindApps
  <2>1. /\ pc = "add" /\ pc' = "app" /\ UNCHANGED <<state, db, hist>> /\ local'.todo = TopApps
    BY <1>21, FindAppsStep
  <2>2. \A i \in Rated : Due(i)' => Due(i)
    BY <2>1 DEF Due
  <2>3. \A i \in Rated : db.highlighted[i] <= hist.entered["measure"] - (IF Due(i)' THEN 1 ELSE 0)
    BY <1>0, <2>2 DEF Highlighted
  <2>4. QED BY <2>1, <2>3 DEF Highlighted
<1>22. CASE HighlightApp
  <2>1. PICK i \in local.todo :
                /\ local'.dev = {i} /\ local'.todo = local.todo \ {i}
                /\ \A j \in Rated :
                     db'.highlighted[j] <= db.highlighted[j] + (IF i = j THEN 1 ELSE 0)
    BY <1>22, HighlightAppStep
  <2>2. /\ pc = "app" /\ pc' = "addApp" /\ UNCHANGED state /\ state.phase = "measure"
        /\ hist'.entered["measure"] = hist.entered["measure"]
    BY <1>22, HighlightAppStep DEF HistKept
  <2>3. local.todo \subseteq TopApps
    BY <2>2 DEF Highlighted
  <2>4. \A j \in Rated : db'.highlighted[j] \in Nat
    BY <1>22, HighlightAppStep DEF Shape, Tables
  <2>5. \A j \in Rated : Due(j)' <=> j \in local.todo \ {i}
    BY <2>1, <2>2 DEF Due
  <2>6. \A j \in Rated : Due(j) <=> j \in local.todo
    BY <2>2 DEF Due
  <2>7. \A j \in Rated : db'.highlighted[j] <= hist.entered["measure"] - (IF Due(j)' THEN 1 ELSE 0)
    <3> SUFFICES ASSUME NEW j \in Rated
                 PROVE  db'.highlighted[j] <= hist.entered["measure"] - (IF Due(j)' THEN 1 ELSE 0)
      OBVIOUS
    <3>1. db.highlighted[j] <= hist.entered["measure"] - (IF Due(j) THEN 1 ELSE 0)
      BY DEF Highlighted
    <3>2. CASE i = j
      <4>1. Due(j) /\ ~Due(j)'
        BY <2>5, <2>6, <3>2
      <4>2. QED BY <1>0, <2>1, <2>4, <3>1, <3>2, <4>1
    <3>3. CASE i # j
      <4>1. Due(j)' => Due(j)
        BY <2>5, <2>6
      <4>2. QED BY <1>0, <2>1, <2>4, <3>1, <3>3, <4>1
    <3>4. QED BY <3>2, <3>3
  <2>8. QED BY <2>1, <2>2, <2>3, <2>7 DEF Highlighted
<1>23. CASE AddApp
  <2>1. /\ pc = "addApp" /\ pc' = "app" /\ UNCHANGED <<local, state, db>>
        /\ hist'.entered["measure"] = hist.entered["measure"]
    BY <1>23, AddAppStep DEF HistKept
  <2>2. \A i \in Rated : Due(i)' => Due(i)
    BY <2>1 DEF Due
  <2>3. \A i \in Rated : db.highlighted[i] <= hist.entered["measure"] - (IF Due(i)' THEN 1 ELSE 0)
    BY <1>0, <2>2 DEF Highlighted
  <2>4. QED BY <2>1, <2>3 DEF Highlighted
<1>24. CASE Unwatch
  BY <1>24, <1>q, UnwatchStep DEF DbKept, HistKept, Ended, Moved, Due
<1>25. CASE Construct
  BY <1>25, <1>q, ConstructStep DEF DbKept, HistKept, Ended, Moved, Due
<1>26. CASE Send
  BY <1>26, <1>q, SendStep DEF DbKept, HistKept, Ended, Moved, Due
<1>27. CASE SendFails
  BY <1>27, <1>q, SendFailsStep DEF DbKept, HistKept, Ended, Moved, Due
<1>28. CASE MeasureEnds
  BY <1>0, <1>28, <1>q, MeasureEndsStep DEF DbKept, HistKept, Ended, Moved, Due
<1> QED
  BY <1>1, <1>2, <1>3, <1>4, <1>5, <1>6, <1>7, <1>8, <1>9, <1>10, <1>11, <1>12, <1>13, <1>14, <1>15, <1>16, <1>17, <1>18, <1>19, <1>20, <1>21, <1>22, <1>23, <1>24, <1>25, <1>26, <1>27, <1>28, Steps

LEMMA NextMailed ==
    ASSUME Shape, Phased, Aggregated, Listed, Mailed, Next PROVE Mailed'
<1>0. hist.entered["measure"] \in Nat /\ db.emails \in Nat /\ hist.resent \in Nat /\ local.tries \in Nat /\ Retries \in Nat
  BY Amounts DEF Shape, Tables, Hists, Phases, Locals
<1>q. ASSUME db'.emails = db.emails, hist'.entered["measure"] = hist.entered["measure"],
             hist'.resent = hist.resent, ToBeSent' => ToBeSent
      PROVE  Mailed'
  BY <1>0, <1>q DEF Mailed
<1>e. ASSUME db'.emails = db.emails, hist'.entered["measure"] = hist.entered["measure"] + 1,
             hist'.resent = hist.resent
      PROVE  Mailed'
  BY <1>0, <1>e DEF Mailed
<1>1. CASE Failing
  BY <1>1, <1>q, FailingStep DEF DbKept, HistKept, Ended, Moved, ToBeSent
<1>2. CASE Crash
  BY <1>2, <1>q, CrashStep DEF DbKept, HistKept, Ended, Moved, ToBeSent
<1>3. CASE Restart
  <2>1. /\ db' = db /\ state'.phase = state.phase /\ state.phase \in Phases /\ pc' = "begin"
        /\ hist'.resent = hist.resent
        /\ hist'.entered["measure"] = hist.entered["measure"] + (IF state.phase = "measure" THEN 1 ELSE 0)
    BY <1>3, RestartStep DEF Phased, Phases, HistKept
  <2>2. CASE state.phase = "measure"
    BY <1>0, <1>e, <2>1, <2>2
  <2>3. CASE state.phase # "measure"
    BY <1>0, <1>q, <2>1, <2>3 DEF ToBeSent
  <2>4. QED BY <2>2, <2>3
<1>4. CASE SnapshotBegins
  BY <1>4, <1>q, SnapshotBeginsStep DEF DbKept, HistKept, Ended, Moved, ToBeSent
<1>5. CASE Aggregate
  BY <1>5, <1>q, AggregateStep DEF DbKept, HistKept, Ended, Moved, ToBeSent
<1>6. CASE SnapshotEnds
  BY <1>0, <1>6, <1>q, SnapshotEndsStep DEF DbKept, HistKept, Ended, Moved, ToBeSent
<1>7. CASE DeleteSkipped
  BY <1>0, <1>e, <1>7, DeleteSkippedStep DEF DbKept, HistKept, Ended, Moved
<1>8. CASE DeleteBegins
  BY <1>8, <1>q, DeleteBeginsStep DEF DbKept, HistKept, Ended, Moved, ToBeSent
<1>9. CASE Sampling
  BY <1>9, <1>q, SampleStep DEF SampleFrame, DbKept, HistKept, Ended, Moved, ToBeSent
<1>10. CASE SaveFails
  BY <1>10, <1>q, SaveFailsStep DEF SampleFrame, DbKept, HistKept, Ended, Moved, ToBeSent
<1>11. CASE SampleEnds
  BY <1>11, <1>q, SampleEndsStep DEF DbKept, HistKept, Ended, Moved, ToBeSent
<1>12. CASE RemoveReference
  BY <1>12, <1>q, RemoveReferenceStep DEF DbKept, HistKept, Ended, Moved, ToBeSent
<1>13. CASE DeleteGames
  BY <1>13, <1>q, DeleteGamesStep DEF DbKept, HistKept, Ended, Moved, ToBeSent
<1>14. CASE DeleteDeveloper
  BY <1>14, <1>q, DeleteDeveloperStep DEF DbKept, HistKept, Ended, Moved, ToBeSent
<1>15. CASE DeleteEnds
  BY <1>0, <1>e, <1>15, DeleteEndsStep DEF DbKept, HistKept, Ended, Moved
<1>16. CASE Fetch
  BY <1>16, <1>q, FetchStep DEF DbKept, HistKept, Ended, Moved, ToBeSent
<1>17. CASE MeasureSkipped
  BY <1>0, <1>17, <1>q, MeasureSkippedStep DEF DbKept, HistKept, Ended, Moved, ToBeSent
<1>18. CASE FindTrends
  BY <1>18, <1>q, FindTrendsStep DEF DbKept, HistKept, Ended, Moved, ToBeSent
<1>19. CASE AddGames
  BY <1>19, <1>q, AddGamesStep DEF DbKept, HistKept, Ended, Moved, ToBeSent
<1>20. CASE HighlightDeveloper
  BY <1>20, <1>q, HighlightDeveloperStep DEF DbKept, HistKept, Ended, Moved, ToBeSent
<1>21. CASE FindApps
  BY <1>21, <1>q, FindAppsStep DEF DbKept, HistKept, Ended, Moved, ToBeSent
<1>22. CASE HighlightApp
  BY <1>22, <1>q, HighlightAppStep DEF DbKept, HistKept, Ended, Moved, ToBeSent
<1>23. CASE AddApp
  BY <1>23, <1>q, AddAppStep DEF DbKept, HistKept, Ended, Moved, ToBeSent
<1>24. CASE Unwatch
  BY <1>24, <1>q, UnwatchStep DEF DbKept, HistKept, Ended, Moved, ToBeSent
<1>25. CASE Construct
  BY <1>25, <1>q, ConstructStep DEF DbKept, HistKept, Ended, Moved, ToBeSent
<1>26. CASE Send
  <2>1. ToBeSent /\ ~ToBeSent'
    BY <1>0, <1>26, SendStep DEF ToBeSent
  <2>2. db'.emails = db.emails + 1 /\ hist' = hist
    BY <1>26, SendStep
  <2>3. QED BY <1>0, <2>1, <2>2 DEF Mailed
<1>27. CASE SendFails
  <2>1. ToBeSent
    BY <1>27, SendFailsStep DEF ToBeSent
  <2>2. PICK n \in {0, 1} : db'.emails = db.emails + n /\ hist'.resent = hist.resent + n
    BY <1>27, SendFailsStep
  <2>3. hist'.entered = hist.entered
    BY <1>27, SendFailsStep DEF HistKept
  <2>4. QED BY <1>0, <2>1, <2>2, <2>3 DEF Mailed
<1>28. CASE MeasureEnds
  BY <1>0, <1>28, <1>q, MeasureEndsStep DEF DbKept, HistKept, Ended, Moved, ToBeSent
<1> QED
  BY <1>1, <1>2, <1>3, <1>4, <1>5, <1>6, <1>7, <1>8, <1>9, <1>10, <1>11, <1>12, <1>13, <1>14, <1>15, <1>16, <1>17, <1>18, <1>19, <1>20, <1>21, <1>22, <1>23, <1>24, <1>25, <1>26, <1>27, <1>28, Steps

LEMMA NextListed ==
    ASSUME Shape, Phased, Aggregated, Listed, Next PROVE Listed'
<1>q. ASSUME DOMAIN disk'.deleted = DOMAIN disk.deleted, DOMAIN state'.deleted = DOMAIN state.deleted,
             hist'.removed = hist.removed, hist'.unsaved = hist.unsaved,
             pc' \notin {"reference", "games", "developer"}
      PROVE  Listed'
  BY <1>q DEF Listed
<1>s. ASSUME DOMAIN disk'.deleted = DOMAIN state.deleted, DOMAIN state'.deleted = DOMAIN state.deleted,
             hist'.removed = hist.removed, hist'.unsaved = hist.unsaved,
             pc' \notin {"reference", "games", "developer"}
      PROVE  Listed'
  <2>1. ~hist.unsaved => hist.removed \subseteq DOMAIN state.deleted \cup Old
    BY DEF Listed
  <2>2. QED BY <1>s, <2>1 DEF Listed
<1>1. CASE Failing
  BY <1>s, <1>1, FailingStep DEF HistKept
<1>2. CASE Crash
  BY <1>2, <1>q, CrashStep DEF HistKept
<1>3. CASE Restart
  <2>1. /\ state' = disk /\ disk' = disk /\ pc' = "begin"
        /\ hist'.removed = hist.removed /\ hist'.unsaved = hist.unsaved
    BY <1>3, RestartStep DEF HistKept
  <2>2. QED BY <2>1 DEF Listed
<1>4. CASE SnapshotBegins
  BY <1>4, <1>q, SnapshotBeginsStep DEF HistKept
<1>5. CASE Aggregate
  BY <1>5, <1>q, AggregateStep DEF HistKept
<1>6. CASE SnapshotEnds
  BY <1>s, <1>6, SnapshotEndsStep DEF HistKept, Ended, Moved
<1>7. CASE DeleteSkipped
  BY <1>s, <1>7, DeleteSkippedStep DEF HistKept, Ended, Moved
<1>8. CASE DeleteBegins
  <2>1. PICK ds \in SUBSET Old : DOMAIN state'.deleted = DOMAIN state.deleted \cup ds
    BY <1>8, DeleteBeginsStep
  <2>2. /\ disk' = disk /\ pc' = "sample" /\ hist'.removed = hist.removed /\ hist'.unsaved = hist.unsaved
    BY <1>8, DeleteBeginsStep DEF HistKept
  <2>3. QED BY <2>1, <2>2 DEF Listed
<1>9. CASE Sampling
  <2>1. /\ DOMAIN state.deleted \subseteq DOMAIN state'.deleted /\ disk' = state'
        /\ pc' = "sample" /\ hist'.removed = hist.removed /\ hist'.unsaved = hist.unsaved
    BY <1>9, SampleStep DEF SampleFrame, SampleOf, HistKept
  <2>2. ~hist.unsaved => hist.removed \subseteq DOMAIN state.deleted \cup Old
    BY DEF Listed
  <2>3. QED BY <2>1, <2>2 DEF Listed
<1>10. CASE SaveFails
  <2>1. /\ DOMAIN state.deleted \subseteq DOMAIN state'.deleted /\ disk' = disk
        /\ pc' = "sample" /\ hist'.unsaved
    BY <1>10, SaveFailsStep DEF SampleFrame, SampleOf
  <2>2. QED BY <2>1 DEF Listed
<1>11. CASE SampleEnds
  BY <1>11, SampleEndsStep DEF Listed
<1>12. CASE RemoveReference
  <2>1. PICK d \in local.todo : local'.todo = local.todo \ {d} /\ local'.dev = {d}
    BY <1>12, RemoveReferenceStep
  <2>2. /\ UNCHANGED <<state, disk>> /\ pc = "reference" /\ pc' = "games"
        /\ hist'.removed = hist.removed /\ hist'.unsaved = hist.unsaved
    BY <1>12, RemoveReferenceStep DEF HistKept
  <2>3. QED BY <2>1, <2>2 DEF Listed
<1>13. CASE DeleteGames
  BY <1>13, DeleteGamesStep DEF Listed, HistKept
<1>14. CASE DeleteDeveloper
  <2>1. /\ UNCHANGED <<local, state, disk>> /\ pc = "developer" /\ pc' = "reference"
        /\ hist'.removed \subseteq hist.removed \cup local.dev /\ hist'.unsaved = hist.unsaved
    BY <1>14, DeleteDeveloperStep DEF HistKept
  <2>2. local.dev \subseteq DOMAIN state.deleted
    BY <2>1 DEF Listed
  <2>3. QED BY <2>1, <2>2 DEF Listed
<1>15. CASE DeleteEnds
  BY <1>s, <1>15, DeleteEndsStep DEF HistKept, Ended, Moved
<1>16. CASE Fetch
  BY <1>16, <1>q, FetchStep DEF HistKept
<1>17. CASE MeasureSkipped
  BY <1>s, <1>17, MeasureSkippedStep DEF HistKept, Ended, Moved
<1>18. CASE FindTrends
  BY <1>18, <1>q, FindTrendsStep DEF HistKept
<1>19. CASE AddGames
  BY <1>19, <1>q, AddGamesStep DEF HistKept
<1>20. CASE HighlightDeveloper
  BY <1>20, <1>q, HighlightDeveloperStep DEF HistKept
<1>21. CASE FindApps
  BY <1>21, <1>q, FindAppsStep DEF HistKept
<1>22. CASE HighlightApp
  BY <1>22, <1>q, HighlightAppStep DEF HistKept
<1>23. CASE AddApp
  BY <1>23, <1>q, AddAppStep DEF HistKept
<1>24. CASE Unwatch
  BY <1>24, <1>q, UnwatchStep DEF HistKept
<1>25. CASE Construct
  BY <1>25, <1>q, ConstructStep DEF HistKept
<1>26. CASE Send
  BY <1>26, <1>q, SendStep DEF HistKept
<1>27. CASE SendFails
  BY <1>27, <1>q, SendFailsStep DEF HistKept
<1>28. CASE MeasureEnds
  BY <1>s, <1>28, MeasureEndsStep DEF HistKept, Ended, Moved
<1> QED
  BY <1>1, <1>2, <1>3, <1>4, <1>5, <1>6, <1>7, <1>8, <1>9, <1>10, <1>11, <1>12, <1>13, <1>14, <1>15, <1>16, <1>17, <1>18, <1>19, <1>20, <1>21, <1>22, <1>23, <1>24, <1>25, <1>26, <1>27, <1>28, Steps

LEMMA QuotaShrinks ==
    ASSUME Shape, Shape', db'.devs \subseteq db.devs PROVE Quota' <= Quota /\ Quota' \in Nat
<1>1. Disabled \cap db.devs \in SUBSET Devs /\ Disabled \cap db'.devs \in SUBSET (Disabled \cap db.devs)
  BY Amounts
<1>2. /\ IsFiniteSet(Disabled \cap db.devs) /\ Cardinality(Disabled \cap db.devs) \in Nat
      /\ Cardinality(Disabled \cap db'.devs) \in Nat
  BY <1>1, Amounts
<1>3. Cardinality(Disabled \cap db'.devs) <= Cardinality(Disabled \cap db.devs)
  BY <1>1, <1>2, FS_Subset
<1>4. QED
  BY <1>2, <1>3, Shares DEF Quota

(* The list of the deleted developers is where the samples are recorded.   *)
LEMMA SampledListed ==
    ASSUME Shape, Listed, Sampled, ~hist.unsaved
    PROVE  /\ IsFiniteSet(hist.sampled) /\ Cardinality(hist.sampled) \in Nat
           /\ hist.sampled \subseteq DOMAIN state.deleted
           /\ Cardinality(DOMAIN state.deleted) \in Nat
           /\ Cardinality(hist.sampled) <= Cardinality(DOMAIN state.deleted)
<1>1. hist.sampled \in SUBSET DOMAIN state.deleted
  BY DEF Listed, Sampled
<1>2. state.deleted \in Lists /\ hist.sampled \in SUBSET Devs
  BY DEF Shape, States, Hists
<1>3. IsFiniteSet(DOMAIN state.deleted) /\ Cardinality(DOMAIN state.deleted) \in Nat
  BY <1>2, ListDomain
<1>4. IsFiniteSet(hist.sampled) /\ Cardinality(hist.sampled) \in Nat
  BY <1>2, Amounts
<1>5. Cardinality(hist.sampled) <= Cardinality(DOMAIN state.deleted)
  BY <1>1, <1>3, FS_Subset
<1>6. QED BY <1>1, <1>3, <1>4, <1>5

LEMMA NextSampled ==
    ASSUME Shape, Phased, Aggregated, Listed, Sampled, Next PROVE Sampled'
<1>0. /\ hist.quota \in SUBSET Nat /\ local.toGo \in Nat /\ Quota \in Nat
      /\ Cardinality(hist.sampled) \in Nat
  BY Amounts, QuotaType DEF Shape, Tables, Hists, Locals
<1>q. ASSUME Shape', db'.devs \subseteq db.devs, hist'.quota = hist.quota, hist'.sampled = hist.sampled,
             hist'.unsaved = hist.unsaved, DOMAIN disk.deleted \subseteq DOMAIN disk'.deleted,
             pc' # "sample"
      PROVE  Sampled'
  <2>1. Quota' <= Quota /\ Quota' \in Nat
    BY <1>q, QuotaShrinks
  <2>2. \A n \in hist.quota : Quota <= n
    BY DEF Sampled
  <2>3. \A n \in hist.quota : Quota' <= n
    BY <1>0, <2>1, <2>2
  <2>4. ~hist.unsaved => \A n \in hist.quota : Cardinality(hist.sampled) <= n
    <3>1. ~hist.unsaved => \A n \in hist.quota :
             Cardinality(hist.sampled) + (IF pc = "sample" THEN local.toGo ELSE 0) <= n
      BY DEF Sampled
    <3>2. SUFFICES ASSUME ~hist.unsaved, NEW n \in hist.quota PROVE Cardinality(hist.sampled) <= n
      OBVIOUS
    <3> DEFINE left == IF pc = "sample" THEN local.toGo ELSE 0
    <3>3. left \in Nat /\ n \in Nat
      BY <1>0
    <3>4. Cardinality(hist.sampled) + left <= n
      BY <3>1, <3>2
    <3> HIDE DEF left
    <3>5. QED BY <1>0, <3>3, <3>4
  <2>5. hist.quota = {} => hist.sampled = {}
    BY DEF Sampled
  <2>6. ~hist.unsaved => hist.sampled \subseteq DOMAIN disk'.deleted
    BY <1>q DEF Sampled
  <2>7. Cardinality(hist.sampled) + 0 = Cardinality(hist.sampled)
    BY <1>0
  <2>8. QED BY <1>q, <2>3, <2>4, <2>5, <2>6, <2>7 DEF Sampled
<1>1. CASE Failing
  BY <1>q, <1>1, FailingStep DEF DbKept, HistKept, Listed
<1>2. CASE Crash
  BY <1>2, <1>q, CrashStep DEF DbKept, HistKept
<1>3. CASE Restart
  BY <1>3, <1>q, RestartStep DEF DbKept, HistKept
<1>4. CASE SnapshotBegins
  BY <1>4, <1>q, SnapshotBeginsStep DEF DbKept, HistKept
<1>5. CASE Aggregate
  BY <1>5, <1>q, AggregateStep DEF DbKept, HistKept
<1>6. CASE SnapshotEnds
  <2>1. disk'.deleted = state.deleted
    BY <1>6, SnapshotEndsStep DEF Ended
  <2>2. DOMAIN disk.deleted \subseteq DOMAIN disk'.deleted
    BY <2>1 DEF Listed
  <2>3. QED BY <1>q, <1>6, <2>2, SnapshotEndsStep DEF DbKept, HistKept, Ended, Moved
<1>7. CASE DeleteSkipped
  <2>1. disk'.deleted = state.deleted
    BY <1>7, DeleteSkippedStep DEF Ended
  <2>2. DOMAIN disk.deleted \subseteq DOMAIN disk'.deleted
    BY <2>1 DEF Listed
  <2>3. QED BY <1>q, <1>7, <2>2, DeleteSkippedStep DEF DbKept, HistKept, Ended, Moved
<1>8. CASE DeleteBegins
  <2>1. /\ pc = "begin" /\ pc' = "sample" /\ UNCHANGED <<disk, db>>
        /\ local'.toGo = ToGo
        /\ hist'.quota = (IF hist.quota = {} THEN {Quota} ELSE hist.quota)
        /\ hist'.sampled = hist.sampled /\ hist'.unsaved = hist.unsaved
    BY <1>8, DeleteBeginsStep DEF HistKept
  <2>2. Quota' = Quota
    BY <2>1 DEF Quota
  <2>3. hist'.quota # {} /\ \A n \in hist'.quota : n \in Nat /\ Quota <= n
    BY <1>0, <2>1 DEF Sampled
  <2>4. ASSUME ~hist.unsaved, NEW n \in hist'.quota
        PROVE  Cardinality(hist.sampled) + ToGo <= n
    <3>1. /\ Cardinality(DOMAIN state.deleted) \in Nat
          /\ Cardinality(hist.sampled) <= Cardinality(DOMAIN state.deleted)
      BY <2>4, SampledListed
    <3>2. CASE Cardinality(DOMAIN state.deleted) < Quota
      BY <1>0, <2>3, <3>1, <3>2 DEF ToGo
    <3>3. CASE ~(Cardinality(DOMAIN state.deleted) < Quota)
      <4>1. ToGo = 0
        BY <3>3 DEF ToGo
      <4>2. CASE hist.quota = {}
        <5>1. hist.sampled = {}
          BY <4>2 DEF Sampled
        <5>2. Cardinality(hist.sampled) = 0
          BY <5>1, FS_EmptySet
        <5>3. QED BY <2>3, <4>1, <5>2
      <4>3. CASE hist.quota # {}
        <5>1. Cardinality(hist.sampled) + 0 <= n
          BY <2>1, <2>4, <4>3 DEF Sampled
        <5>2. QED BY <1>0, <4>1, <5>1
      <4>4. QED BY <4>2, <4>3
    <3>4. QED BY <3>2, <3>3
  <2>5. ~hist.unsaved => hist.sampled \subseteq DOMAIN disk.deleted
    BY DEF Sampled
  <2>6. QED BY <2>1, <2>2, <2>3, <2>4, <2>5 DEF Sampled
<1>9. CASE Sampling
  <2>1. /\ pc = "sample" /\ pc' = pc /\ db' = db /\ disk' = state'
        /\ hist'.quota = hist.quota /\ hist'.unsaved = hist.unsaved
    BY <1>9, SampleStep DEF SampleFrame, HistKept
  <2>2. Quota' = Quota
    BY <2>1 DEF Quota
  <2>3. PICK chosen \in SUBSET Devs : SampleOf(chosen)
    BY <1>9, SampleStep
  <2>4. /\ chosen \cap DOMAIN state.deleted = {} /\ Cardinality(chosen) \in 0 .. local.toGo
        /\ local'.toGo = local.toGo - Cardinality(chosen) /\ hist'.sampled = hist.sampled \cup chosen
        /\ DOMAIN disk'.deleted = DOMAIN state.deleted \cup chosen
    BY <2>1, <2>3 DEF SampleOf
  <2>5. ASSUME ~hist.unsaved
        PROVE  /\ hist'.sampled \subseteq DOMAIN disk'.deleted
               /\ Cardinality(hist'.sampled) + local'.toGo = Cardinality(hist.sampled) + local.toGo
    <3>1. hist.sampled \subseteq DOMAIN state.deleted /\ IsFiniteSet(hist.sampled)
      BY <2>5, SampledListed
    <3>2. IsFiniteSet(chosen) /\ hist.sampled \cap chosen = {}
      BY <2>4, <3>1, Amounts
    <3>3. Cardinality(hist.sampled \cup chosen) = Cardinality(hist.sampled) + Cardinality(chosen) - Cardinality(hist.sampled \cap chosen)
      BY <3>1, <3>2, FS_Union
    <3>4. Cardinality(hist.sampled \cup chosen) = Cardinality(hist.sampled) + Cardinality(chosen)
      <4>1. Cardinality(hist.sampled \cap chosen) = 0
        BY <3>2, FS_EmptySet
      <4>2. Cardinality(chosen) \in Nat
        BY Amounts
      <4>3. QED BY <1>0, <3>3, <4>1, <4>2
    <3>5. QED BY <1>0, <2>4, <3>1, <3>4
  <2>6. hist.quota # {}
    BY <2>1 DEF Sampled
  <2>7. \A n \in hist.quota : Quota <= n /\ (~hist.unsaved => Cardinality(hist.sampled) + local.toGo <= n)
    BY <2>1 DEF Sampled
  <2>8. QED BY <2>1, <2>2, <2>5, <2>6, <2>7 DEF Sampled
<1>10. CASE SaveFails
  <2>1. /\ pc = "sample" /\ pc' = pc /\ db' = db /\ hist'.quota = hist.quota /\ hist'.unsaved
    BY <1>10, SaveFailsStep DEF SampleFrame, HistKept
  <2>2. Quota' = Quota
    BY <2>1 DEF Quota
  <2>3. QED BY <2>1, <2>2 DEF Sampled
<1>11. CASE SampleEnds
  BY <1>11, <1>q, SampleEndsStep DEF DbKept, HistKept
<1>12. CASE RemoveReference
  BY <1>12, <1>q, RemoveReferenceStep DEF DbKept, HistKept
<1>13. CASE DeleteGames
  BY <1>13, <1>q, DeleteGamesStep DEF DbKept, HistKept
<1>14. CASE DeleteDeveloper
  BY <1>14, <1>q, DeleteDeveloperStep DEF DbKept, HistKept
<1>15. CASE DeleteEnds
  <2>1. disk'.deleted = state.deleted
    BY <1>15, DeleteEndsStep DEF Ended
  <2>2. DOMAIN disk.deleted \subseteq DOMAIN disk'.deleted
    BY <2>1 DEF Listed
  <2>3. QED BY <1>q, <1>15, <2>2, DeleteEndsStep DEF DbKept, HistKept, Ended, Moved
<1>16. CASE Fetch
  BY <1>16, <1>q, FetchStep DEF DbKept, HistKept
<1>17. CASE MeasureSkipped
  <2>1. disk'.deleted = state.deleted
    BY <1>17, MeasureSkippedStep DEF Ended
  <2>2. DOMAIN disk.deleted \subseteq DOMAIN disk'.deleted
    BY <2>1 DEF Listed
  <2>3. QED BY <1>q, <1>17, <2>2, MeasureSkippedStep DEF DbKept, HistKept, Ended, Moved
<1>18. CASE FindTrends
  BY <1>18, <1>q, FindTrendsStep DEF DbKept, HistKept
<1>19. CASE AddGames
  BY <1>19, <1>q, AddGamesStep DEF DbKept, HistKept
<1>20. CASE HighlightDeveloper
  BY <1>20, <1>q, HighlightDeveloperStep DEF DbKept, HistKept
<1>21. CASE FindApps
  BY <1>21, <1>q, FindAppsStep DEF DbKept, HistKept
<1>22. CASE HighlightApp
  BY <1>22, <1>q, HighlightAppStep DEF DbKept, HistKept
<1>23. CASE AddApp
  BY <1>23, <1>q, AddAppStep DEF DbKept, HistKept
<1>24. CASE Unwatch
  BY <1>24, <1>q, UnwatchStep DEF DbKept, HistKept
<1>25. CASE Construct
  BY <1>25, <1>q, ConstructStep DEF DbKept, HistKept
<1>26. CASE Send
  BY <1>26, <1>q, SendStep DEF DbKept, HistKept
<1>27. CASE SendFails
  BY <1>27, <1>q, SendFailsStep DEF DbKept, HistKept
<1>28. CASE MeasureEnds
  <2>1. disk'.deleted = state.deleted
    BY <1>28, MeasureEndsStep DEF Ended
  <2>2. DOMAIN disk.deleted \subseteq DOMAIN disk'.deleted
    BY <2>1 DEF Listed
  <2>3. QED BY <1>q, <1>28, <2>2, MeasureEndsStep DEF DbKept, HistKept, Ended, Moved
<1> QED
  BY <1>1, <1>2, <1>3, <1>4, <1>5, <1>6, <1>7, <1>8, <1>9, <1>10, <1>11, <1>12, <1>13, <1>14, <1>15, <1>16, <1>17, <1>18, <1>19, <1>20, <1>21, <1>22, <1>23, <1>24, <1>25, <1>26, <1>27, <1>28, Steps

LEMMA NextWatched ==
    ASSUME Shape, Phased, Aggregated, Listed, Watched, Next PROVE Watched'
<1>0. /\ db.games \subseteq Games /\ board.watches \subseteq Games /\ Games \subseteq Items
      /\ \A i \in Items : board.items[i] \in Nat
  BY Amounts DEF Shape, Tables, Boards
<1>q. ASSUME db'.watched = db.watched, db'.games = db.games, hist'.kept = hist.kept, hist'.unseen = hist.unseen,
             board'.watches = board.watches, \A i \in Items : board'.items[i] >= board.items[i],
             \A i \in Items : board'.items[i] \in Nat,
             pc' \in MeasurePcs => pc \in MeasurePcs /\ local'.watching = local.watching
      PROVE  Watched'
  <2>1. \A g \in board'.watches : board'.items[g] > 0
    BY <1>0, <1>q DEF Watched
  <2>2. QED BY <1>q, <2>1 DEF Watched
<1>u. ASSUME db'.watched = db.watched, db'.games = db.games, hist'.kept = hist.kept, hist'.unseen = hist.unseen,
             UNCHANGED board,
             pc' \in MeasurePcs => pc \in MeasurePcs /\ local'.watching = local.watching
      PROVE  Watched'
  BY <1>u DEF Watched
<1>1. CASE Failing
  BY <1>1, <1>u, FailingStep DEF DbKept, HistKept, LocalKept, Ended, Moved, MeasurePcs, AddPcs, DeletePcs
<1>2. CASE Crash
  BY <1>2, <1>u, CrashStep DEF DbKept, HistKept, LocalKept, Ended, Moved, MeasurePcs, AddPcs, DeletePcs
<1>3. CASE Restart
  BY <1>3, <1>u, RestartStep DEF DbKept, HistKept, LocalKept, Ended, Moved, MeasurePcs, AddPcs, DeletePcs
<1>4. CASE SnapshotBegins
  BY <1>4, <1>u, SnapshotBeginsStep DEF DbKept, HistKept, LocalKept, Ended, Moved, MeasurePcs, AddPcs, DeletePcs
<1>5. CASE Aggregate
  BY <1>5, <1>u, AggregateStep DEF DbKept, HistKept, LocalKept, Ended, Moved, MeasurePcs, AddPcs, DeletePcs
<1>6. CASE SnapshotEnds
  BY <1>6, <1>u, SnapshotEndsStep DEF DbKept, HistKept, LocalKept, Ended, Moved, MeasurePcs, AddPcs, DeletePcs
<1>7. CASE DeleteSkipped
  BY <1>7, <1>u, DeleteSkippedStep DEF DbKept, HistKept, LocalKept, Ended, Moved, MeasurePcs, AddPcs, DeletePcs
<1>8. CASE DeleteBegins
  BY <1>8, <1>u, DeleteBeginsStep DEF DbKept, HistKept, LocalKept, Ended, Moved, MeasurePcs, AddPcs, DeletePcs
<1>9. CASE Sampling
  BY <1>9, <1>u, SampleStep DEF SampleFrame, DbKept, HistKept, LocalKept, Ended, Moved, MeasurePcs, AddPcs, DeletePcs
<1>10. CASE SaveFails
  BY <1>10, <1>u, SaveFailsStep DEF SampleFrame, DbKept, HistKept, LocalKept, Ended, Moved, MeasurePcs, AddPcs, DeletePcs
<1>11. CASE SampleEnds
  BY <1>11, <1>u, SampleEndsStep DEF DbKept, HistKept, LocalKept, Ended, Moved, MeasurePcs, AddPcs, DeletePcs
<1>12. CASE RemoveReference
  BY <1>12, <1>u, RemoveReferenceStep DEF DbKept, HistKept, LocalKept, Ended, Moved, MeasurePcs, AddPcs, DeletePcs
<1>13. CASE DeleteGames
  <2>1. PICK gone : /\ gone \cap db.watched = {}
                    /\ db'.games = db.games \ gone /\ db'.watched = db.watched \ gone
    BY <1>13, DeleteGamesStep
  <2>2. UNCHANGED board /\ pc' = "developer" /\ hist'.kept = hist.kept /\ hist'.unseen = hist.unseen
    BY <1>13, DeleteGamesStep DEF HistKept
  <2>3. db'.watched = db.watched
    BY <2>1
  <2>4. db.watched \subseteq db'.games
    BY <2>1 DEF Watched
  <2>5. QED BY <2>2, <2>3, <2>4 DEF Watched, MeasurePcs, AddPcs
<1>14. CASE DeleteDeveloper
  BY <1>14, <1>u, DeleteDeveloperStep DEF DbKept, HistKept, LocalKept, Ended, Moved, MeasurePcs, AddPcs, DeletePcs
<1>15. CASE DeleteEnds
  BY <1>15, <1>u, DeleteEndsStep DEF DbKept, HistKept, LocalKept, Ended, Moved, MeasurePcs, AddPcs, DeletePcs
<1>16. CASE Fetch
  <2>1. /\ UNCHANGED board /\ pc = "begin" /\ pc' = "fetched"
        /\ hist'.kept = hist.kept /\ db'.games = db.games
        /\ local'.watching = Watching(local'.found)
        /\ ~hist'.unseen => ~hist.unseen /\ local'.found = OnBoard
    BY <1>16, FetchStep DEF HistKept, DbKept
  <2>0. PICK saved \in SUBSET local'.found :
          db'.watched = (db.watched \ saved) \cup (Watching(saved) \cap db.games)
    BY <1>16, FetchStep
  <2>2. db.watched \subseteq db.games
    BY DEF Watched
  <2>3. db'.watched \subseteq db'.games
    BY <2>0, <2>1, <2>2
  <2>4. hist.kept \subseteq board.watches /\ \A g \in board.watches : board.items[g] > 0
    BY DEF Watched
  <2>5. ASSUME ~hist'.unseen
        PROVE  hist'.kept \subseteq db'.watched /\ hist'.kept \subseteq local'.watching
    <3>1. local'.found = OnBoard /\ hist.kept \subseteq db.watched
      BY <2>1, <2>5 DEF Watched
    <3>2. hist.kept \subseteq OnBoard
      BY <1>0, <2>4 DEF OnBoard
    <3>3. hist.kept \subseteq Watching(local'.found)
      BY <2>4, <3>1, <3>2 DEF Watching
    <3>4. hist.kept \cap saved \subseteq Watching(saved)
      BY <2>4 DEF Watching
    <3>5. QED BY <2>0, <2>1, <2>2, <3>1, <3>3, <3>4
  <2>6. QED BY <2>1, <2>3, <2>4, <2>5 DEF Watched
<1>17. CASE MeasureSkipped
  BY <1>17, <1>u, MeasureSkippedStep DEF DbKept, HistKept, LocalKept, Ended, Moved, MeasurePcs, AddPcs, DeletePcs
<1>18. CASE FindTrends
  BY <1>18, <1>u, FindTrendsStep DEF DbKept, HistKept, LocalKept, Ended, Moved, MeasurePcs, AddPcs, DeletePcs
<1>19. CASE AddGames
  <2>1. /\ hist'.kept = hist.kept /\ hist'.unseen = hist.unseen /\ UNCHANGED db
        /\ board'.watches = board.watches /\ pc = "add"
        /\ local'.watching = local.watching
        /\ \A i \in Items : board'.items[i] = board.items[i] \/ board'.items[i] = board.items[i] + 1
    BY <1>19, AddGamesStep DEF HistKept, LocalKept
  <2>2. \A i \in Items : board'.items[i] >= board.items[i] /\ board'.items[i] \in Nat
    BY <1>0, <2>1
  <2>3. QED BY <1>q, <2>1, <2>2 DEF MeasurePcs, AddPcs
<1>20. CASE HighlightDeveloper
  BY <1>20, <1>u, HighlightDeveloperStep DEF DbKept, HistKept, LocalKept, Ended, Moved, MeasurePcs, AddPcs, DeletePcs
<1>21. CASE FindApps
  BY <1>21, <1>u, FindAppsStep DEF DbKept, HistKept, LocalKept, Ended, Moved, MeasurePcs, AddPcs, DeletePcs
<1>22. CASE HighlightApp
  BY <1>22, <1>u, HighlightAppStep DEF DbKept, HistKept, LocalKept, Ended, Moved, MeasurePcs, AddPcs, DeletePcs
<1>23. CASE AddApp
  <2>1. /\ hist'.kept = hist.kept /\ hist'.unseen = hist.unseen /\ UNCHANGED db
        /\ board'.watches = board.watches /\ pc = "addApp"
        /\ local'.watching = local.watching
        /\ \A i \in Items : board'.items[i] = board.items[i] \/ board'.items[i] = board.items[i] + 1
    BY <1>23, AddAppStep DEF HistKept, LocalKept
  <2>2. \A i \in Items : board'.items[i] >= board.items[i] /\ board'.items[i] \in Nat
    BY <1>0, <2>1
  <2>3. QED BY <1>q, <2>1, <2>2 DEF MeasurePcs
<1>24. CASE Unwatch
  <2>1. /\ UNCHANGED <<local, board>> /\ pc = "app"
        /\ hist'.kept = hist.kept /\ hist'.unseen = hist.unseen
        /\ db'.watched \subseteq db.watched /\ db.watched \cap local.watching \subseteq db'.watched
        /\ db'.watched \cap db.games \subseteq db'.games
    BY <1>24, UnwatchStep DEF HistKept
  <2>2. db'.watched \subseteq db'.games
    BY <2>1 DEF Watched
  <2>3. ~hist.unseen => hist.kept \subseteq local.watching /\ hist.kept \subseteq db.watched
    BY <2>1 DEF Watched, MeasurePcs
  <2>4. QED BY <2>1, <2>2, <2>3 DEF Watched
<1>25. CASE Construct
  BY <1>25, <1>u, ConstructStep DEF DbKept, HistKept, LocalKept, Ended, Moved, MeasurePcs, AddPcs, DeletePcs
<1>26. CASE Send
  BY <1>26, <1>u, SendStep DEF DbKept, HistKept, LocalKept, Ended, Moved, MeasurePcs, AddPcs, DeletePcs
<1>27. CASE SendFails
  BY <1>27, <1>u, SendFailsStep DEF DbKept, HistKept, LocalKept, Ended, Moved, MeasurePcs, AddPcs, DeletePcs
<1>28. CASE MeasureEnds
  BY <1>28, <1>u, MeasureEndsStep DEF DbKept, HistKept, LocalKept, Ended, Moved, MeasurePcs, AddPcs, DeletePcs
<1> QED
  BY <1>1, <1>2, <1>3, <1>4, <1>5, <1>6, <1>7, <1>8, <1>9, <1>10, <1>11, <1>12, <1>13, <1>14, <1>15, <1>16, <1>17, <1>18, <1>19, <1>20, <1>21, <1>22, <1>23, <1>24, <1>25, <1>26, <1>27, <1>28, Steps

LEMMA OnceType ==
    ASSUME NEW g \in Games, NEW S
    PROVE  /\ Cardinality(Advocates[g] \ S) \in Nat
           /\ Cardinality(Advocates[g] \ S) <= Cardinality(Advocates[g])
           /\ \A d \in Advocates[g] \cap S :
                /\ Cardinality(Advocates[g] \ (S \ {d})) = Cardinality(Advocates[g] \ S) + 1
                /\ Once(g) = Cardinality(Advocates[g])
           /\ Cardinality(Advocates[g] \ S) <= Once(g)
           /\ Once(g) \in Nat
<1>1. Advocates[g] \in SUBSET Devs
  BY Amounts
<1>2. IsFiniteSet(Advocates[g]) /\ Cardinality(Advocates[g]) \in Nat
  BY <1>1, Amounts
<1>3. Advocates[g] \ S \in SUBSET Devs /\ Advocates[g] \ S \in SUBSET Advocates[g]
  BY <1>1
<1>4. IsFiniteSet(Advocates[g] \ S) /\ Cardinality(Advocates[g] \ S) \in Nat
  BY <1>3, Amounts
<1>5. Cardinality(Advocates[g] \ S) <= Cardinality(Advocates[g])
  BY <1>2, <1>3, FS_Subset
<1>6. ASSUME NEW d \in Advocates[g] \cap S
      PROVE  /\ Cardinality(Advocates[g] \ (S \ {d})) = Cardinality(Advocates[g] \ S) + 1
             /\ Once(g) = Cardinality(Advocates[g])
  <2>1. Advocates[g] \ (S \ {d}) = (Advocates[g] \ S) \cup {d} /\ d \notin Advocates[g] \ S
    OBVIOUS
  <2>2. Cardinality((Advocates[g] \ S) \cup {d}) = Cardinality(Advocates[g] \ S) + 1
    BY <1>4, <2>1, FS_AddElement
  <2>3. Once(g) = Cardinality(Advocates[g])
    BY DEF Once
  <2>4. QED BY <2>1, <2>2, <2>3
<1>7. Cardinality(Advocates[g] \ S) <= Once(g)
  <2>1. CASE Advocates[g] = {}
    <3>1. Advocates[g] \ S = {}
      BY <2>1
    <3>2. Cardinality(Advocates[g] \ S) = 0
      BY <3>1, FS_EmptySet
    <3>3. QED BY <2>1, <3>2 DEF Once
  <2>2. CASE Advocates[g] # {}
    BY <1>5, <2>2 DEF Once
  <2>3. QED BY <2>1, <2>2
<1>8. Once(g) \in Nat
  BY <1>2 DEF Once
<1>9. QED BY <1>4, <1>5, <1>6, <1>7, <1>8

LEMMA NextBoarded ==
    ASSUME Shape, Phased, Aggregated, Highlighted, Listed, Boarded, Next PROVE Boarded'
<1>0. /\ \A i \in Items : board.items[i] \in Nat
      /\ Games \subseteq Items /\ TopApps \subseteq Items /\ Games \cap TopApps = {}
      /\ \A a \in TopApps : Once(a) = 1
  BY Amounts DEF Shape, Boards, Items, Once
<1>q. ASSUME \A g \in Games : db'.by[g] \subseteq db.by[g], hist'.unseen = hist.unseen,
             UNCHANGED board, pc' \notin AddPcs \cup {"app", "addApp"}
      PROVE  Boarded'
  <2>1. \A g \in Games : db'.by[g] \subseteq Advocates[g]
    BY <1>q DEF Boarded
  <2>2. ~hist.unseen => \A i \in Items : board.items[i] <= Once(i)
    BY DEF Boarded
  <2>3. QED BY <1>q, <2>1, <2>2 DEF Boarded, AddPcs
<1>1. CASE Failing
  BY <1>1, <1>q, FailingStep DEF DbKept, HistKept, Ended, Moved, AddPcs, DeletePcs
<1>2. CASE Crash
  BY <1>2, <1>q, CrashStep DEF DbKept, HistKept, Ended, Moved, AddPcs, DeletePcs
<1>3. CASE Restart
  BY <1>3, <1>q, RestartStep DEF DbKept, HistKept, Ended, Moved, AddPcs, DeletePcs
<1>4. CASE SnapshotBegins
  BY <1>4, <1>q, SnapshotBeginsStep DEF DbKept, HistKept, Ended, Moved, AddPcs, DeletePcs
<1>5. CASE Aggregate
  BY <1>5, <1>q, AggregateStep DEF DbKept, HistKept, Ended, Moved, AddPcs, DeletePcs
<1>6. CASE SnapshotEnds
  BY <1>6, <1>q, SnapshotEndsStep DEF DbKept, HistKept, Ended, Moved, AddPcs, DeletePcs
<1>7. CASE DeleteSkipped
  BY <1>7, <1>q, DeleteSkippedStep DEF DbKept, HistKept, Ended, Moved, AddPcs, DeletePcs
<1>8. CASE DeleteBegins
  BY <1>8, <1>q, DeleteBeginsStep DEF DbKept, HistKept, Ended, Moved, AddPcs, DeletePcs
<1>9. CASE Sampling
  BY <1>9, <1>q, SampleStep DEF SampleFrame, DbKept, HistKept, Ended, Moved, AddPcs, DeletePcs
<1>10. CASE SaveFails
  BY <1>10, <1>q, SaveFailsStep DEF SampleFrame, DbKept, HistKept, Ended, Moved, AddPcs, DeletePcs
<1>11. CASE SampleEnds
  BY <1>11, <1>q, SampleEndsStep DEF DbKept, HistKept, Ended, Moved, AddPcs, DeletePcs
<1>12. CASE RemoveReference
  BY <1>12, <1>q, RemoveReferenceStep DEF DbKept, HistKept, Ended, Moved, AddPcs, DeletePcs
<1>13. CASE DeleteGames
  BY <1>13, <1>q, DeleteGamesStep DEF DbKept, HistKept, Ended, Moved, AddPcs, DeletePcs
<1>14. CASE DeleteDeveloper
  BY <1>14, <1>q, DeleteDeveloperStep DEF DbKept, HistKept, Ended, Moved, AddPcs, DeletePcs
<1>15. CASE DeleteEnds
  BY <1>15, <1>q, DeleteEndsStep DEF DbKept, HistKept, Ended, Moved, AddPcs, DeletePcs
<1>16. CASE Fetch
  <2>1. /\ UNCHANGED board /\ pc' = "fetched" /\ db'.by = db.by
        /\ ~hist'.unseen => ~hist.unseen /\ local'.found = OnBoard
    BY <1>16, FetchStep DEF HistKept, DbKept
  <2>2. \A g \in Games : db'.by[g] \subseteq Advocates[g]
    BY <2>1 DEF Boarded
  <2>3. \A i \in Items \ OnBoard : board.items[i] = 0
    BY <1>0 DEF OnBoard
  <2>4. \A g \in Games \ OnBoard : board.items[g] <= Cardinality(Advocates[g] \ local'.todo)
    <3> SUFFICES ASSUME NEW g \in Games \ OnBoard
                 PROVE  board.items[g] <= Cardinality(Advocates[g] \ local'.todo)
      OBVIOUS
    <3>1. Cardinality(Advocates[g] \ local'.todo) \in Nat
      BY OnceType
    <3>2. board.items[g] = 0
      BY <1>0, <2>3
    <3>3. QED BY <3>1, <3>2
  <2>5. ~hist.unseen => \A i \in Items : board.items[i] <= Once(i)
    BY DEF Boarded
  <2>6. \A a \in TopApps \ OnBoard : board.items[a] = 0
    BY <1>0, <2>3
  <2>7. QED BY <2>1, <2>2, <2>3, <2>4, <2>5, <2>6 DEF Boarded
<1>17. CASE MeasureSkipped
  BY <1>17, <1>q, MeasureSkippedStep DEF DbKept, HistKept, Ended, Moved, AddPcs, DeletePcs
<1>18. CASE FindTrends
  <2>1. /\ pc = "fetched" /\ pc' = "add" /\ UNCHANGED <<db, board>>
        /\ local'.found = local.found /\ hist'.unseen = hist.unseen
    BY <1>18, FindTrendsStep DEF HistKept, LocalKept
  <2>2. ASSUME ~hist.unseen, NEW g \in Games \ local.found
        PROVE  board.items[g] <= Cardinality(Advocates[g] \ local'.todo)
    <3>1. board.items[g] = 0
      BY <1>0, <2>1, <2>2 DEF Boarded
    <3>2. Cardinality(Advocates[g] \ local'.todo) \in Nat
      BY OnceType
    <3>3. QED BY <3>1, <3>2
  <2>3. ~hist.unseen => \A a \in TopApps \ local.found : board.items[a] = 0
    BY <2>1 DEF Boarded, AddPcs
  <2>4. QED BY <2>1, <2>2, <2>3 DEF Boarded
<1>19. CASE AddGames
  <2>1. /\ pc = "add" /\ pc' = "highlight" /\ UNCHANGED db
        /\ local'.found = local.found /\ hist'.unseen = hist.unseen
    BY <1>19, AddGamesStep DEF HistKept, LocalKept
  <2>2. PICK d \in local.todo :
                /\ local'.todo = local.todo \ {d}
                /\ \A i \in Items : \/ board'.items[i] = board.items[i]
                                    \/ /\ i \in GamesOf(d) \ local.found
                                       /\ board'.items[i] = board.items[i] + 1
    BY <1>19, AddGamesStep
  <2>3. GamesOf(d) \subseteq Games /\ \A g \in GamesOf(d) : d \in Advocates[g]
    BY DEF GamesOf, Shape, Tables, Boarded
  <2>4. \A i \in Items \ Games : board'.items[i] = board.items[i]
    BY <2>2, <2>3
  <2>5. ASSUME ~hist.unseen, NEW g \in Games \ local.found
        PROVE  /\ board'.items[g] <= Cardinality(Advocates[g] \ local'.todo)
               /\ board'.items[g] <= Once(g)
    <3>1. board.items[g] \in Nat /\ board.items[g] <= Cardinality(Advocates[g] \ local.todo)
      BY <1>0, <2>1, <2>5 DEF Boarded, AddPcs
    <3>2. /\ Cardinality(Advocates[g] \ local.todo) \in Nat
          /\ Cardinality(Advocates[g] \ local'.todo) \in Nat
          /\ Cardinality(Advocates[g] \ local'.todo) <= Once(g) /\ Once(g) \in Nat
      BY OnceType
    <3>3. CASE d \in Advocates[g]
      <4>1. Cardinality(Advocates[g] \ local'.todo) = Cardinality(Advocates[g] \ local.todo) + 1
        BY <2>2, <3>3, OnceType
      <4>2. board'.items[g] = board.items[g] \/ board'.items[g] = board.items[g] + 1
        BY <1>0, <2>2
      <4>3. QED BY <3>1, <3>2, <4>1, <4>2
    <3>4. CASE d \notin Advocates[g]
      <4>1. Advocates[g] \ local'.todo = Advocates[g] \ local.todo
        BY <2>2, <3>4
      <4>2. board'.items[g] = board.items[g]
        BY <1>0, <2>2, <2>3, <3>4
      <4>3. QED BY <3>1, <3>2, <4>1, <4>2
    <3>5. QED BY <3>3, <3>4
  <2>6. ASSUME ~hist.unseen, NEW i \in Items PROVE board'.items[i] <= Once(i)
    <3>1. board.items[i] <= Once(i)
      BY <2>6 DEF Boarded
    <3>2. CASE i \in Games \ local.found
      BY <2>5, <2>6, <3>2
    <3>3. CASE i \notin Games \ local.found
      BY <2>2, <2>3, <3>1, <3>3
    <3>4. QED BY <3>2, <3>3
  <2>7. ~hist.unseen => \A a \in TopApps \ local.found : board'.items[a] = 0
    <3>1. ~hist.unseen => \A a \in TopApps \ local.found : board.items[a] = 0
      BY <2>1 DEF Boarded, AddPcs
    <3>2. QED BY <1>0, <2>4, <3>1
  <2>8. QED BY <2>1, <2>5, <2>6, <2>7 DEF Boarded
<1>20. CASE HighlightDeveloper
  BY <1>20, HighlightDeveloperStep DEF Boarded, DbKept, HistKept, AddPcs
<1>21. CASE FindApps
  <2>1. /\ pc = "add" /\ pc' = "app" /\ UNCHANGED <<db, board, hist>>
        /\ local'.found = local.found /\ local'.todo = TopApps
    BY <1>21, FindAppsStep DEF LocalKept
  <2>2. ~hist.unseen => \A a \in TopApps \ local.found : board.items[a] = 0
    BY <2>1 DEF Boarded, AddPcs
  <2>3. QED BY <2>1, <2>2 DEF Boarded, AddPcs
<1>22. CASE HighlightApp
  <2>1. /\ pc = "app" /\ pc' = "addApp" /\ UNCHANGED board /\ db'.by = db.by
        /\ local'.found = local.found /\ hist'.unseen = hist.unseen
    BY <1>22, HighlightAppStep DEF LocalKept, DbKept, HistKept
  <2>2. local'.todo \cup local'.dev \subseteq local.todo
    BY <1>22, HighlightAppStep
  <2>3. QED BY <2>1, <2>2 DEF Boarded, AddPcs
<1>23. CASE AddApp
  <2>1. /\ pc = "addApp" /\ pc' = "app" /\ UNCHANGED <<local, db>> /\ hist'.unseen = hist.unseen
        /\ \A i \in Items : \/ board'.items[i] = board.items[i]
                            \/ /\ i \in local.dev \ local.found
                               /\ board'.items[i] = board.items[i] + 1
    BY <1>23, AddAppStep DEF HistKept
  <2>2. local.dev \subseteq TopApps /\ local.todo \cap local.dev = {} /\ local.todo \subseteq TopApps
    BY <2>1 DEF Highlighted
  <2>3. ~hist.unseen => \A a \in (local.todo \cup local.dev) \ local.found : board.items[a] = 0
    BY <2>1 DEF Boarded
  <2>4. ASSUME ~hist.unseen, NEW i \in Items PROVE board'.items[i] <= Once(i)
    <3>1. board.items[i] <= Once(i)
      BY <2>4 DEF Boarded
    <3>2. CASE i \in local.dev \ local.found
      BY <1>0, <2>1, <2>2, <2>3, <2>4, <3>1, <3>2
    <3>3. CASE i \notin local.dev \ local.found
      BY <2>1, <3>1, <3>3
    <3>4. QED BY <3>2, <3>3
  <2>5. ~hist.unseen => \A a \in local.todo \ local.found : board'.items[a] = 0
    BY <1>0, <2>1, <2>2, <2>3
  <2>6. QED BY <2>1, <2>4, <2>5 DEF Boarded, AddPcs
<1>24. CASE Unwatch
  BY <1>24, <1>q, UnwatchStep DEF DbKept, HistKept, Ended, Moved, AddPcs, DeletePcs
<1>25. CASE Construct
  BY <1>25, <1>q, ConstructStep DEF DbKept, HistKept, Ended, Moved, AddPcs, DeletePcs
<1>26. CASE Send
  BY <1>26, <1>q, SendStep DEF DbKept, HistKept, Ended, Moved, AddPcs, DeletePcs
<1>27. CASE SendFails
  BY <1>27, <1>q, SendFailsStep DEF DbKept, HistKept, Ended, Moved, AddPcs, DeletePcs
<1>28. CASE MeasureEnds
  BY <1>28, <1>q, MeasureEndsStep DEF DbKept, HistKept, Ended, Moved, AddPcs, DeletePcs
<1> QED
  BY <1>1, <1>2, <1>3, <1>4, <1>5, <1>6, <1>7, <1>8, <1>9, <1>10, <1>11, <1>12, <1>13, <1>14, <1>15, <1>16, <1>17, <1>18, <1>19, <1>20, <1>21, <1>22, <1>23, <1>24, <1>25, <1>26, <1>27, <1>28, Steps

-----------------------------------------------------------------------------
(* The invariant holds of every behaviour.                                 *)

LEMMA EmptyList == <<>> \in Lists /\ DOMAIN <<>> = {}
<1>1. <<>> \in [{} -> SUBSET Games] /\ DOMAIN <<>> = {}
  OBVIOUS
<1>2. QED BY <1>1 DEF Lists

LEMMA InitShape ==
    ASSUME Init
    PROVE  /\ Shape
           /\ state.phase = "snapshot" /\ state.deleted = <<>> /\ disk = state
           /\ db.snaps = Snapshots /\ \A i \in Rated : db.highlighted[i] = 0
           /\ db.emails = 0 /\ db.by = Advocates /\ db.games = Games /\ db.watched \subseteq Games
           /\ \A i \in Items : board.items[i] \in {0, 1}
           /\ \A g \in board.watches : board.items[g] = 1
           /\ hist.entered["snapshot"] = 1 /\ hist.entered["measure"] = 0
           /\ hist.resent = 0 /\ hist.removed = {} /\ hist.sampled = {} /\ hist.quota = {}
           /\ hist.kept = db.watched \cap board.watches
<1>1. /\ state \in States /\ disk = state /\ disk \in States
      /\ state.phase = "snapshot" /\ state.deleted = <<>>
  BY EmptyList DEF Init, States, Phases
<1>2. PICK watched, watches, cleared, listed \in SUBSET Games :
         /\ watches \cup cleared \subseteq listed /\ watches \cap cleared = {}
         /\ board = [items |-> [i \in Items |-> IF i \in listed THEN 1 ELSE 0], watches |-> watches, cleared |-> cleared]
         /\ db = [devs |-> Devs, snaps |-> Snapshots, highlighted |-> [i \in Devs \cup TopApps |-> 0],
                  by |-> Advocates, games |-> Games, watched |-> watched, blank |-> [w \in BOOLEAN |-> 0], emails |-> 0]
  BY Zenon DEF Init
<1>3. /\ board \in Boards /\ \A i \in Items : board.items[i] \in {0, 1}
      /\ \A g \in board.watches : board.items[g] = 1
  BY <1>2, Amounts DEF Boards
<1>4. /\ db \in Tables /\ db.snaps = Snapshots /\ \A i \in Rated : db.highlighted[i] = 0
      /\ db.emails = 0 /\ db.by = Advocates /\ db.games = Games /\ db.watched \subseteq Games
  BY <1>2, Amounts DEF Tables, Rated
<1>5. local \in Locals
  BY Amounts DEF Init, NoLocal, Locals
<1>6. /\ hist \in Hists
      /\ hist.entered["snapshot"] = 1 /\ hist.entered["measure"] = 0
      /\ hist.resent = 0 /\ hist.removed = {} /\ hist.sampled = {} /\ hist.quota = {}
      /\ hist.kept = db.watched \cap board.watches
  <2>1. db.watched \cap board.watches \in SUBSET Games
    BY <1>2
  <2>2. hist = InitHist
    BY DEF Init
  <2>3. QED BY <2>1, <2>2 DEF InitHist, Hists, Phases
<1>7. pc = "begin"
  BY DEF Init
<1>8. QED
  BY <1>1, <1>3, <1>4, <1>5, <1>6, <1>7 DEF Shape

LEMMA InitInv == Init => Inv
<1> SUFFICES ASSUME Init PROVE Inv
  OBVIOUS
<1>0. pc = "begin" /\ local = NoLocal
  BY DEF Init
<1>1. Phased
  BY <1>0, InitShape DEF Phased, NoLocal, DeletePcs, MeasurePcs, AddPcs
<1>2. Aggregated
  <2>1. Snapshots \in [Devs -> Nat] /\ Partial \subseteq Devs
    BY Amounts
  <2>2. QED BY <1>0, <2>1, InitShape DEF Aggregated
<1>3. Highlighted
  BY <1>0, InitShape DEF Highlighted, Due
<1>4. Mailed
  BY <1>0, InitShape DEF Mailed, ToBeSent
<1>5. Listed
  BY <1>0, InitShape, EmptyList DEF Listed
<1>6. Sampled
  BY <1>0, InitShape, FS_EmptySet DEF Sampled
<1>7. Watched
  <2>1. \A g \in board.watches : board.items[g] > 0
    BY InitShape
  <2>2. QED BY <1>0, <2>1, InitShape DEF Watched, MeasurePcs, AddPcs
<1>8. Boarded
  <2>1. \A i \in Items : board.items[i] <= Once(i)
    <3> SUFFICES ASSUME NEW i \in Items PROVE board.items[i] <= Once(i)
      OBVIOUS
    <3>1. board.items[i] \in {0, 1}
      BY InitShape
    <3>2. CASE i \in Games /\ Advocates[i] # {}
      <4>1. PICK d : d \in Advocates[i]
        BY <3>2
      <4>2. Advocates[i] \in SUBSET Devs
        BY <3>2, Amounts
      <4>3. IsFiniteSet(Advocates[i]) /\ Cardinality(Advocates[i]) \in Nat /\ Cardinality(Advocates[i]) # 0
        BY <3>2, <4>2, Amounts, FS_EmptySet
      <4>4. QED BY <3>1, <3>2, <4>3 DEF Once
    <3>3. CASE ~(i \in Games /\ Advocates[i] # {})
      <4>1. Once(i) = 1
        BY <3>3 DEF Once
      <4>2. QED BY <3>1, <4>1
    <3>4. QED BY <3>2, <3>3
  <2>2. QED BY <1>0, <2>1, InitShape DEF Boarded, AddPcs
<1>9. QED
  BY <1>1, <1>2, <1>3, <1>4, <1>5, <1>6, <1>7, <1>8, InitShape DEF Inv

LEMMA NextInv == Inv /\ [Next]_vars => Inv'
<1> SUFFICES ASSUME Inv, [Next]_vars PROVE Inv'
  OBVIOUS
<1>1. CASE Next
  <2>1. /\ Shape /\ Phased /\ Aggregated /\ Highlighted /\ Mailed /\ Listed /\ Sampled
        /\ Watched /\ Boarded
    BY DEF Inv
  <2>2. Shape' /\ Phased' /\ Aggregated'
    BY <1>1, <2>1, NextShape, NextPhased, NextAggregated
  <2>3. Highlighted' /\ Mailed' /\ Listed'
    BY <1>1, <2>1, NextHighlighted, NextMailed, NextListed
  <2>4. Sampled' /\ Watched' /\ Boarded'
    BY <1>1, <2>1, NextSampled, NextWatched, NextBoarded
  <2>5. QED BY <2>2, <2>3, <2>4 DEF Inv
<1>2. CASE UNCHANGED vars
  <2> USE <1>2 DEF vars
  <2>1. Shape' /\ Phased' /\ Aggregated'
    BY DEF Inv, Shape, Phased, Aggregated
  <2>2. Highlighted' /\ Mailed' /\ Listed'
    BY DEF Inv, Highlighted, Due, Mailed, ToBeSent, Listed
  <2>3. Sampled' /\ Watched' /\ Boarded'
    BY DEF Inv, Sampled, Quota, Watched, Boarded
  <2>4. QED BY <2>1, <2>2, <2>3 DEF Inv
<1>3. QED BY <1>1, <1>2

LEMMA InvHolds == Spec => []Inv
  BY InitInv, NextInv, PTL DEF Spec

(* The state and the tables keep their types, and what a phase changes in  *)
(* them is changed once by each process that began the phase: aggregates,  *)
(* highlights and emails, but for the emails of a delivery that ended with *)
(* an error (snapshot.go, measure.go).                                     *)
THEOREM TypeCorrect == Spec => []TypeOK
<1>1. Inv => TypeOK
  <2> SUFFICES ASSUME Inv PROVE TypeOK
    OBVIOUS
  <2>1. /\ state.phase \in Phases \cup {"done"} /\ disk.phase \in Phases \cup {"done"}
        /\ state.deleted \in Lists /\ disk.deleted \in Lists
    BY DEF Inv, Shape, States
  <2>2. DOMAIN state.deleted \subseteq Devs /\ DOMAIN disk.deleted \subseteq Devs
    BY <2>1, ListDomain
  <2>3. /\ hist.entered["measure"] \in Nat /\ hist.resent \in Nat /\ db.emails \in Nat
        /\ \A i \in Rated : db.highlighted[i] \in Nat
        /\ db.devs \subseteq Devs /\ db.games \subseteq Games
    BY DEF Inv, Shape, Tables, Hists, Phases
  <2>4. \A i \in Rated : db.highlighted[i] \in 0 .. hist.entered["measure"]
    <3> SUFFICES ASSUME NEW i \in Rated PROVE db.highlighted[i] <= hist.entered["measure"]
      BY <2>3
    <3>1. db.highlighted[i] <= hist.entered["measure"] - (IF Due(i) THEN 1 ELSE 0)
      BY DEF Inv, Highlighted
    <3>2. QED BY <2>3, <3>1
  <2>5. db.emails \in 0 .. hist.entered["measure"] + hist.resent
    BY <2>3 DEF Inv, Mailed
  <2>6. /\ \A d \in Devs : db.snaps[d] <= Snapshots[d] + (IF d \in Partial THEN hist.entered["snapshot"] ELSE 0)
        /\ state.phase # "snapshot" => \A d \in Partial : Snapshots[d] < db.snaps[d]
    BY DEF Inv, Aggregated
  <2>7. state.phase # "snapshot" => \A d \in Partial : db.snaps[d] > Snapshots[d]
    BY <2>6
  <2>8. db.watched \subseteq db.games
    BY DEF Inv, Watched
  <2>9. QED BY <2>1, <2>2, <2>3, <2>4, <2>5, <2>6, <2>7, <2>8 DEF TypeOK, Rated
<1>2. QED BY <1>1, InvHolds, PTL

(* Whoever is deleted is in the list that the Measure phase mentions, but  *)
(* for stale developers and after a failed save (delete.go).               *)
THEOREM DeletedAreListed == Spec => []DeletedRemembered
<1>1. Inv => DeletedRemembered
  BY DEF Inv, Listed, DeletedRemembered
<1>2. QED BY <1>1, InvHolds, PTL

(* The samples of all processes together choose no more developers than    *)
(* the percentage of those disabled when the first of them began           *)
(* (delete.go:60-80).                                                      *)
THEOREM QuotaHolds == Spec => []QuotaKept
<1>1. Inv => QuotaKept
  <2> SUFFICES ASSUME Inv, ~hist.unsaved, NEW q \in hist.quota
               PROVE  Cardinality(hist.sampled) <= q
    BY DEF QuotaKept
  <2> DEFINE left == IF pc = "sample" THEN local.toGo ELSE 0
  <2>1. hist.quota \in SUBSET Nat /\ hist.sampled \in SUBSET Devs /\ left \in Nat
    BY DEF Inv, Shape, Hists, Locals
  <2>2. q \in Nat /\ Cardinality(hist.sampled) \in Nat
    BY <2>1, Amounts
  <2>3. Cardinality(hist.sampled) + left <= q
    BY DEF Inv, Sampled
  <2> HIDE DEF left
  <2>4. QED BY <2>1, <2>2, <2>3
<1>2. QED BY <1>1, InvHolds, PTL

(* A game that the database and the board agree on being watched stays in  *)
(* the database and watched, while the board can be read (measure.go:95).  *)
THEOREM WatchedStay == Spec => []WatchedKept
<1>1. Inv => WatchedKept
  BY DEF Inv, Watched, WatchedKept
<1>2. QED BY <1>1, InvHolds, PTL

(* No item is put on the board again by a process that repeats the phase:  *)
(* a game is there once for each of its developers at most, an app once    *)
(* (measure.go:287).                                                       *)
THEOREM NoItemTwice == Spec => []BoardOnce
<1>1. Inv => BoardOnce
  BY DEF Inv, Boarded, BoardOnce, Once
<1>2. QED BY <1>1, InvHolds, PTL
==================================================================================
