--------------------------- MODULE DisableEnable_proofs ---------------------------
(***************************************************************************)
(* Proofs about the Disable and Enable phases, for any developers and any  *)
(* ranking of them, and any number of crashes and errors.                  *)
(*                                                                         *)
(* The ORDER BY and LIMIT of their queries are a rank; the first lemmas    *)
(* say what the first n rows are.  That nobody disabled is enabled again   *)
(* needs that neither the memory nor any copy of it on disk or on its way  *)
(* there has such a developer among the enabled (Apart).  That no more are *)
(* enabled than planned is a sum that each step of a worker keeps: those   *)
(* enabled, those found and the number to go, in memory and in what is     *)
(* saved (Looking, Quota, Filled).  Bounded and Saved relate the database  *)
(* to what a resumed process reads, as long as no older save has come to   *)
(* be the last; Swept follows a worker's offset through the rows.          *)
(***************************************************************************)
EXTENDS DisableEnable, FiniteSetTheorems, WellFoundedInduction, Integers, TLAPS

-----------------------------------------------------------------------------
(* What FirstOf returns: rows of the set it is asked for, no more than the *)
(* limit, more of them for a greater limit, and all of them when a greater *)
(* limit adds none.                                                        *)

LEMMA RankType ==
    ASSUME NEW ranking, NEW S, NEW i \in Nat
    PROVE  /\ IsFiniteSet({j \in 1 .. i : ranking[j] \in S})
           /\ Rank(ranking, S, i) \in Nat
<1>1. IsFiniteSet(1 .. i)
  BY FS_Interval
<1>2. {j \in 1 .. i : ranking[j] \in S} \in SUBSET (1 .. i)
  OBVIOUS
<1>3. IsFiniteSet({j \in 1 .. i : ranking[j] \in S})
  BY <1>1, <1>2, FS_Subset
<1>4. QED
  BY <1>3, FS_CardinalityType DEF Rank

LEMMA RankGrows ==
    ASSUME NEW ranking, NEW S, NEW i \in Nat, NEW k \in Nat, i < k, ranking[k] \in S
    PROVE  Rank(ranking, S, i) < Rank(ranking, S, k)
<1> DEFINE I == {j \in 1 .. i : ranking[j] \in S}
           K == {j \in 1 .. k : ranking[j] \in S}
<1>1. IsFiniteSet(I) /\ IsFiniteSet(K) /\ Cardinality(I) \in Nat /\ Cardinality(K) \in Nat
  BY RankType DEF Rank
<1>2. I \in SUBSET K /\ k \in K /\ k \notin I
  OBVIOUS
<1> HIDE DEF I, K
<1>3. Cardinality(I) <= Cardinality(K) /\ Cardinality(K) # Cardinality(I)
  BY <1>1, <1>2, FS_Subset
<1>4. Cardinality(I) < Cardinality(K)
  BY <1>1, <1>3
<1>5. QED
  BY <1>4 DEF Rank, I, K

LEMMA RankStep ==
    ASSUME NEW ranking, NEW S, NEW i \in Nat
    PROVE  Rank(ranking, S, i + 1) <= Rank(ranking, S, i) + 1
<1> DEFINE I == {j \in 1 .. i : ranking[j] \in S}
           K == {j \in 1 .. (i + 1) : ranking[j] \in S}
<1>1. IsFiniteSet(I) /\ Cardinality(I) \in Nat
  BY RankType DEF Rank
<1>2. i + 1 \in Nat /\ K \in SUBSET (I \cup {i + 1})
  OBVIOUS
<1>3. IsFiniteSet(I \cup {i + 1}) /\ Cardinality(I \cup {i + 1}) \in Nat /\ Cardinality(I \cup {i + 1}) <= Cardinality(I) + 1
  <2> HIDE DEF I, K
  <2>1. QED BY <1>1, FS_AddElement
<1>4. Cardinality(K) <= Cardinality(I \cup {i + 1}) /\ Cardinality(K) \in Nat
  <2>1. Cardinality(K) \in Nat
    BY <1>2, RankType DEF Rank
  <2> HIDE DEF I, K
  <2>2. QED BY <1>2, <1>3, <2>1, FS_Subset
<1>5. Cardinality(K) <= Cardinality(I) + 1
  <2> HIDE DEF I, K
  <2>1. QED BY <1>1, <1>3, <1>4
<1>6. QED
  BY <1>5 DEF Rank, I, K

LEMMA RankStill ==
    ASSUME NEW ranking, NEW S, NEW i \in Nat, ranking[i + 1] \notin S
    PROVE  Rank(ranking, S, i + 1) = Rank(ranking, S, i)
<1>1. {j \in 1 .. (i + 1) : ranking[j] \in S} = {j \in 1 .. i : ranking[j] \in S}
  OBVIOUS
<1>2. QED BY <1>1 DEF Rank

LEMMA RankZero ==
    ASSUME NEW ranking, NEW S PROVE Rank(ranking, S, 0) = 0
<1>1. {j \in 1 .. 0 : ranking[j] \in S} = {}
  OBVIOUS
<1>2. QED BY <1>1, FS_EmptySet DEF Rank

(* The ranks of the rows leave no number out.                              *)
LEMMA RankHit ==
    ASSUME NEW ranking, NEW S, NEW m \in Nat, m # 0, NEW k \in Nat, m <= Rank(ranking, S, k)
    PROVE  \E i \in 1 .. k : ranking[i] \in S /\ Rank(ranking, S, i) = m
<1> DEFINE A == {i \in Nat : m <= Rank(ranking, S, i)}
<1>1. PICK i \in A : \A j \in A : ~(<<j, i>> \in OpToRel(<, Nat))
  <2>1. A \subseteq Nat /\ k \in A
    OBVIOUS
  <2> HIDE DEF A
  <2>2. QED BY <2>1, NatLessThanWellFounded, WFMin
<1>0. \A j \in A : ~(j < i)
  BY <1>1 DEF OpToRel
<1>2. \A j \in Nat : j < i => Rank(ranking, S, j) < m
  <2> SUFFICES ASSUME NEW j \in Nat, j < i PROVE Rank(ranking, S, j) < m
    OBVIOUS
  <2>1. j \notin A
    BY <1>0
  <2>2. Rank(ranking, S, j) \in Nat
    BY RankType
  <2>3. QED BY <2>1, <2>2
<1>3. i \in Nat /\ m <= Rank(ranking, S, i) /\ i # 0
  <2>1. i \in A
    BY <1>1
  <2>2. i \in Nat /\ m <= Rank(ranking, S, i)
    BY <2>1
  <2>3. QED BY <2>2, RankZero
<1> HIDE DEF A
<1>4. i - 1 \in Nat /\ i = (i - 1) + 1 /\ i - 1 < i
  BY <1>3
<1> DEFINE h == i - 1
<1>5. h \in Nat /\ i = h + 1 /\ h < i
  BY <1>4
<1> HIDE DEF h
<1>6. /\ Rank(ranking, S, h) \in Nat /\ Rank(ranking, S, i) \in Nat
      /\ Rank(ranking, S, h) < m /\ Rank(ranking, S, i) <= Rank(ranking, S, h) + 1
  BY <1>2, <1>3, <1>5, RankType, RankStep
<1>7. Rank(ranking, S, i) = m
  BY <1>3, <1>6
<1>8. ranking[i] \in S
  BY <1>5, <1>6, <1>7, RankStill
<1>9. ~(k < i)
  <2>1. Rank(ranking, S, k) \in Nat
    BY RankType
  <2>2. QED BY <1>2, <2>1
<1>10. i \in 1 .. k
  BY <1>3, <1>9
<1>11. QED BY <1>7, <1>8, <1>10

LEMMA FirstSubset ==
    ASSUME NEW n, NEW S, NEW ranking
    PROVE  FirstOf(n, S, ranking) \subseteq S
  BY DEF FirstOf

LEMMA FirstGrows ==
    ASSUME NEW n \in Nat, NEW m \in Nat, n <= m, NEW S, NEW ranking, Len(ranking) \in Nat
    PROVE  FirstOf(n, S, ranking) \subseteq FirstOf(m, S, ranking)
<1> SUFFICES ASSUME NEW k \in 1 .. Len(ranking), ranking[k] \in S, Rank(ranking, S, k) <= n
             PROVE  Rank(ranking, S, k) <= m
  BY DEF FirstOf
<1>1. k \in Nat
  OBVIOUS
<1>2. Rank(ranking, S, k) \in Nat
  BY <1>1, RankType
<1>3. QED BY <1>2

(* The rows of a limit are no more than the limit: their ranks differ.     *)
LEMMA FirstBound ==
    ASSUME NEW n \in Nat, NEW S, NEW ranking, Len(ranking) \in Nat
    PROVE  /\ IsFiniteSet(FirstOf(n, S, ranking))
           /\ Cardinality(FirstOf(n, S, ranking)) \in 0 .. n
<1> DEFINE K == {k \in 1 .. Len(ranking) : ranking[k] \in S /\ Rank(ranking, S, k) <= n}
           rank == [k \in K |-> Rank(ranking, S, k)]
           row == [k \in K |-> ranking[k]]
<1>1. \A k \in K : k \in Nat /\ k # 0 /\ ranking[k] \in S /\ Rank(ranking, S, k) \in 1 .. n
  <2> SUFFICES ASSUME NEW k \in K PROVE Rank(ranking, S, k) \in 1 .. n
    OBVIOUS
  <2>0. k \in Nat /\ 0 \in Nat
    OBVIOUS
  <2>1. Rank(ranking, S, k) \in Nat /\ Rank(ranking, S, 0) \in Nat
    BY <2>0, RankType
  <2>2. Rank(ranking, S, 0) < Rank(ranking, S, k)
    BY RankGrows
  <2>3. QED BY <2>1, <2>2
<1>2. \A j, k \in K : Rank(ranking, S, j) = Rank(ranking, S, k) => j = k
  <2> SUFFICES ASSUME NEW j \in K, NEW k \in K, j # k PROVE Rank(ranking, S, j) # Rank(ranking, S, k)
    OBVIOUS
  <2>0. j \in Nat /\ k \in Nat
    OBVIOUS
  <2>1. Rank(ranking, S, j) \in Nat /\ Rank(ranking, S, k) \in Nat
    BY <2>0, RankType
  <2>2. j < k \/ k < j
    BY <1>1
  <2>3. Rank(ranking, S, j) < Rank(ranking, S, k) \/ Rank(ranking, S, k) < Rank(ranking, S, j)
    BY <1>1, <2>2, RankGrows
  <2>4. QED BY <2>1, <2>3
<1> HIDE DEF K
<1>3. rank \in Injection(K, 1 .. n)
  BY <1>1, <1>2 DEF Injection, IsInjective
<1>4. IsFiniteSet(1 .. n) /\ Cardinality(1 .. n) = n
  <2>1. 1 \in Int /\ n \in Int
    OBVIOUS
  <2>2. IsFiniteSet(1 .. n) /\ Cardinality(1 .. n) = (IF 1 > n THEN 0 ELSE n - 1 + 1)
    BY <2>1, FS_Interval
  <2>3. QED BY <2>2
<1>5. IsFiniteSet(K) /\ Cardinality(K) <= n
  <2> HIDE DEF rank
  <2>1. IsFiniteSet(K) /\ Cardinality(K) <= Cardinality(1 .. n)
    BY <1>3, <1>4, FS_Injection
  <2>2. QED BY <1>4, <2>1
<1>6. row \in Surjection(K, FirstOf(n, S, ranking))
  <2>1. FirstOf(n, S, ranking) = {ranking[k] : k \in K}
    BY DEF FirstOf, K
  <2>2. \A d \in {ranking[k] : k \in K} : \E k \in K : row[k] = d
    OBVIOUS
  <2>3. row \in [K -> {ranking[k] : k \in K}]
    OBVIOUS
  <2>4. QED BY <2>1, <2>2, <2>3 DEF Surjection
<1>7. /\ IsFiniteSet(FirstOf(n, S, ranking))
      /\ Cardinality(FirstOf(n, S, ranking)) <= Cardinality(K)
  BY <1>5, <1>6, FS_Surjection
<1>8. Cardinality(FirstOf(n, S, ranking)) \in Nat /\ Cardinality(K) \in Nat
  BY <1>5, <1>7, FS_CardinalityType
<1>9. QED BY <1>5, <1>7, <1>8

RowsOf(S, ranking) == {ranking[i] : i \in {k \in 1 .. Len(ranking) : ranking[k] \in S}}
Distinct(ranking) == \A j, k \in 1 .. Len(ranking) : ranking[j] = ranking[k] => j = k

(* Fewer rows than the limit are all of them.                              *)
LEMMA FirstFull ==
    ASSUME NEW n \in Nat, NEW S, NEW ranking, Len(ranking) \in Nat, Distinct(ranking)
    PROVE  Cardinality(FirstOf(n, S, ranking)) = n \/ FirstOf(n, S, ranking) = RowsOf(S, ranking)
<1>1. CASE \A k \in 1 .. Len(ranking) : ranking[k] \in S => Rank(ranking, S, k) <= n
  BY <1>1 DEF FirstOf, RowsOf
<1>2. CASE \E k \in 1 .. Len(ranking) : ranking[k] \in S /\ ~(Rank(ranking, S, k) <= n)
  <2> DEFINE K == {k \in 1 .. Len(ranking) : ranking[k] \in S /\ Rank(ranking, S, k) <= n}
             rank == [k \in K |-> Rank(ranking, S, k)]
             row == [k \in K |-> ranking[k]]
  <2>1. PICK last \in 1 .. Len(ranking) : ranking[last] \in S /\ ~(Rank(ranking, S, last) <= n)
    BY <1>2
  <2>2. last \in Nat /\ Rank(ranking, S, last) \in Nat /\ n < Rank(ranking, S, last)
    <3>1. last \in Nat
      OBVIOUS
    <3>2. Rank(ranking, S, last) \in Nat
      BY <3>1, RankType
    <3>3. QED BY <2>1, <3>1, <3>2
  <2>3. \A m \in 1 .. n : \E k \in K : Rank(ranking, S, k) = m
    <3> SUFFICES ASSUME NEW m \in 1 .. n PROVE \E k \in K : Rank(ranking, S, k) = m
      OBVIOUS
    <3>1. m \in Nat /\ m # 0 /\ m <= n /\ m <= Rank(ranking, S, last)
      BY <2>2
    <3>2. PICK k \in 1 .. last : ranking[k] \in S /\ Rank(ranking, S, k) = m
      BY <2>2, <3>1, RankHit
    <3>3. k \in 1 .. Len(ranking)
      BY <2>1, <2>2
    <3>4. QED BY <3>1, <3>2, <3>3
  <2>4. \A k \in K : Rank(ranking, S, k) \in 1 .. n
    <3> SUFFICES ASSUME NEW k \in K PROVE Rank(ranking, S, k) \in 1 .. n
      OBVIOUS
    <3>1. k \in Nat /\ 0 \in Nat /\ 0 < k
      OBVIOUS
    <3>2. Rank(ranking, S, k) \in Nat /\ Rank(ranking, S, 0) = 0 /\ Rank(ranking, S, 0) < Rank(ranking, S, k)
      BY <3>1, RankType, RankZero, RankGrows
    <3>3. QED BY <3>2
  <2>5. IsFiniteSet(K) /\ Cardinality(K) \in Nat
    <3>1. IsFiniteSet(1 .. Len(ranking)) /\ K \in SUBSET (1 .. Len(ranking))
      BY FS_Interval
    <3> HIDE DEF K
    <3>2. QED BY <3>1, FS_Subset, FS_CardinalityType
  <2>6. \A j, k \in K : ranking[j] = ranking[k] => j = k
    BY DEF Distinct
  <2>7. \A k \in K : ranking[k] \in FirstOf(n, S, ranking)
    BY DEF FirstOf
  <2> HIDE DEF K
  <2>8. rank \in Surjection(K, 1 .. n)
    BY <2>3, <2>4 DEF Surjection
  <2>9. Cardinality(1 .. n) = n
    BY FS_Interval
  <2>10. n <= Cardinality(K)
    BY <2>5, <2>8, <2>9, FS_Surjection
  <2>11. row \in Injection(K, FirstOf(n, S, ranking))
    BY <2>6, <2>7 DEF Injection, IsInjective
  <2>12. IsFiniteSet(FirstOf(n, S, ranking)) /\ Cardinality(FirstOf(n, S, ranking)) \in 0 .. n
    BY FirstBound
  <2>13. Cardinality(K) <= Cardinality(FirstOf(n, S, ranking))
    BY <2>11, <2>12, FS_Injection
  <2>14. QED BY <2>5, <2>10, <2>12, <2>13
<1>3. QED BY <1>1, <1>2

(* A greater limit that adds no row shows that there are no more.          *)
LEMMA FirstAll ==
    ASSUME NEW n \in Nat, NEW m \in Nat, n < m, NEW S, NEW ranking, Len(ranking) \in Nat, Distinct(ranking),
           FirstOf(m, S, ranking) \subseteq FirstOf(n, S, ranking)
    PROVE  FirstOf(n, S, ranking) = RowsOf(S, ranking)
<1>1. CASE \A k \in 1 .. Len(ranking) : ranking[k] \in S => Rank(ranking, S, k) <= n
  BY <1>1 DEF FirstOf, RowsOf
<1>2. CASE \E k \in 1 .. Len(ranking) : ranking[k] \in S /\ ~(Rank(ranking, S, k) <= n)
  <2>1. PICK last \in 1 .. Len(ranking) : ranking[last] \in S /\ ~(Rank(ranking, S, last) <= n)
    BY <1>2
  <2>2. last \in Nat /\ Rank(ranking, S, last) \in Nat /\ n + 1 <= Rank(ranking, S, last)
    <3>1. last \in Nat
      OBVIOUS
    <3>2. Rank(ranking, S, last) \in Nat
      BY <3>1, RankType
    <3>3. QED BY <2>1, <3>1, <3>2
  <2>3. n + 1 \in Nat /\ n + 1 # 0
    OBVIOUS
  <2>4. PICK k \in 1 .. last : ranking[k] \in S /\ Rank(ranking, S, k) = n + 1
    BY <2>2, <2>3, RankHit
  <2>5. k \in 1 .. Len(ranking) /\ Rank(ranking, S, k) <= m /\ ~(Rank(ranking, S, k) <= n)
    BY <2>1, <2>2, <2>4
  <2>6. ranking[k] \in FirstOf(m, S, ranking)
    BY <2>4, <2>5 DEF FirstOf
  <2>7. ranking[k] \notin FirstOf(n, S, ranking)
    BY <2>5 DEF FirstOf, Distinct
  <2>8. QED BY <2>6, <2>7
<1>3. QED BY <1>1, <1>2

(* The fields' types.                                                      *)
Record == [stage : {"read", "write"}, copy : State]

Shape ==
    /\ disabled \subseteq AllDevs
    /\ mem \in State
    /\ disk \in State \cup {NoSave}
    /\ saving \in [Savers -> Record \cup {NoSave}]
    /\ main \in [pc : {"disable", "record", "saveDisable", "start", "wait", "update", "advance",
                       "saveEnable", "saveError", "over", "gone"},
                 types : {<<>>, <<"R">>, <<"T", "R">>}, rows : SUBSET AllDevs]
    /\ worker \in [{"T", "R"} -> [pc : {"idle", "begin", "sample", "reduce", "add", "save", "sending",
                                        "failing", "ended"},
                                  toGo : 0 .. ToEnable, offset : Nat, found : SUBSET AllDevs]]
    /\ faults \in 0 .. MaxFaults
    /\ hist \in [down : SUBSET AllDevs, up : SUBSET AllDevs, lost : SUBSET AllDevs,
                 skipped : SUBSET {"T", "R"}, short : SUBSET {"T", "R"},
                 trendless : SUBSET AllDevs, stale : BOOLEAN]

(* Which phase is which place of the main goroutine's.                     *)
Placed ==
    /\ main.pc \in {"disable", "record"} => mem.phase = "Disable"
    /\ main.pc \in {"saveDisable", "start", "wait", "update", "advance"} => mem.phase = "Enable"
    /\ main.pc \in {"saveEnable", "over"} => mem.phase = "Delete"
    /\ mem.phase = "Delete" => /\ main.pc \in {"saveEnable", "saveError", "over", "gone"}
                               /\ \A t \in {"T", "R"} : worker[t].pc = "ended"
    /\ main.pc \notin {"record", "gone"} => main.rows = {}
    /\ main.pc = "record" => main.types # <<>>
    /\ mem.phase = "Disable" => mem.enabled = {}
    /\ mem.phase = "Disable" \/ main.pc \in {"saveDisable", "start"} =>
         \A t \in {"T", "R"} : worker[t] = NoWorker
    /\ main.pc = "saveDisable" => mem.enabled = {}
    /\ main.pc \in {"update", "advance", "saveEnable", "over"} =>
         \A t \in {"T", "R"} : worker[t].pc = "ended"

(* What is on disk, or on its way there.                                   *)
Kept ==
    /\ disk # NoSave =>
         /\ disk.phase = "Disable" => disk.enabled = {}
         /\ mem.phase = "Disable" => disk.phase = "Disable"
         /\ main.pc # "over" => disk.phase # "Delete"
    /\ \A s \in Savers : saving[s] # NoSave =>
         /\ saving[s].copy.phase = "Disable" => saving[s].copy.enabled = {}
         /\ mem.phase = "Disable" => saving[s].copy.phase = "Disable"
         /\ saving[s].copy.phase = "Delete" => s = "main" /\ mem.phase = "Delete"
         /\ saving[s].copy.enabled \subseteq mem.enabled
         /\ Saves(s) \/ (s = "main" /\ main.pc = "gone")

(* A worker's own number and the state's, and what it has found.           *)
Looking ==
    \A t \in {"T", "R"} :
        /\ worker[t].pc \notin {"idle", "begin"} => mem.toGo[t] = worker[t].toGo
        /\ worker[t].pc \notin {"reduce", "add"} => worker[t].found = {}
        /\ worker[t].found \subseteq Devs[t]
        /\ worker[t].found \cap mem.enabled = {}
        /\ worker[t].pc = "reduce" => Cardinality(worker[t].found) <= worker[t].toGo

Planned(t) == Cardinality(EnabledOf(mem, t)) + mem.toGo[t]
                + (IF worker[t].pc = "add" THEN Cardinality(worker[t].found) ELSE 0)

Quota ==
    \A t \in {"T", "R"} :
        /\ Planned(t) <= ToEnable
        /\ disk # NoSave => Cardinality(EnabledOf(disk, t)) + disk.toGo[t] <= ToEnable
        /\ \A s \in Savers : saving[s] # NoSave =>
             Cardinality(EnabledOf(saving[s].copy, t)) + saving[s].copy.toGo[t] <= ToEnable

Down == hist.down \ hist.lost
Apart ==
    /\ Down \subseteq disabled
    /\ main.pc # "gone" => Down \subseteq mem.disabled \cup main.rows
    /\ mem.enabled \cap Down = {}
    /\ disk # NoSave => disk.enabled \cap Down = {}
    /\ \A s \in Savers : saving[s] # NoSave => saving[s].copy.enabled \cap Down = {}
    /\ \A t \in {"T", "R"} : worker[t].found \cap Down = {}

(* Disable leaves as many of a type enabled as it is to, or those that     *)
(* have no snapshot if these are more; Enable adds to these.               *)
Allowed(down, t) == LET unranked == Cardinality((Devs[t] \ down) \ Range(Ranking))
                    IN  IF unranked > KeepEnabled THEN unranked ELSE KeepEnabled
Few(down, enabled, t) == Cardinality((Devs[t] \ down) \ enabled) <= Allowed(down, t)
ToCount == IF main.pc = "record" THEN Tail(main.types) ELSE main.types
Bounded ==
    ~hist.stale => \A t \in {"T", "R"} \ hist.skipped :
        /\ mem.phase = "Disable" /\ main.pc \in {"disable", "record"} /\ t \notin Range(ToCount) => Few(disabled, {}, t)
        /\ mem.phase # "Disable" => Few(disabled, mem.enabled, t)
        /\ disk # NoSave /\ disk.phase # "Disable" => Few(disabled, disk.enabled, t)
        /\ \A s \in Savers : saving[s] # NoSave /\ saving[s].copy.phase # "Disable" => Few(disabled, saving[s].copy.enabled, t)

Saved ==
    ~hist.stale =>
        /\ disk # NoSave => \A t \in {"T", "R"} :
             worker[t].pc \notin {"add", "save"} => EnabledOf(mem, t) \subseteq disk.enabled
        /\ \A s \in Savers : saving[s] # NoSave =>
             /\ disk = NoSave
             /\ \A o \in Savers \ {s} : saving[o] = NoSave
             /\ \A t \in {"T", "R"} :
                  worker[t].pc \notin {"add", "save"} \/ t = s => EnabledOf(mem, t) \subseteq saving[s].copy.enabled

(* A worker plans for as many as are to be enabled, but if it began with   *)
(* too few to go.                                                          *)
Filled ==
    \A t \in {"T", "R"} \ hist.short :
        worker[t].pc \notin {"idle", "begin"} => ToEnable <= Planned(t)

(* While a worker has any to go, all before its offset have been seen, and *)
(* when it has come to an end all have.                                    *)
Heeded == main.pc \notin {"saveError", "gone"} \/ mem.phase = "Delete"
Seen(t) == mem.enabled \cup worker[t].found \cup hist.trendless
SweptOf(t) ==
    /\ worker[t].pc \in {"sample", "reduce", "add", "save"} =>
         \/ worker[t].toGo = 0
         \/ worker[t].pc = "reduce" /\ Cardinality(worker[t].found) = worker[t].toGo
         \/ FirstOf(worker[t].offset, Candidates(t), Best) \subseteq Seen(t)
    /\ worker[t].pc \in {"sending", "ended"} /\ Heeded =>
         worker[t].toGo = 0 \/ Candidates(t) \subseteq Seen(t)
Swept == \A t \in {"T", "R"} : SweptOf(t)

Emptied == main.pc \in {"advance", "saveEnable", "over"} \/ mem.phase = "Delete" => mem.enabled \cap disabled = {}

Inv == Shape /\ Placed /\ Kept /\ Looking /\ Quota /\ Apart /\ Bounded /\ Saved /\ Filled /\ Swept /\ Emptied

-----------------------------------------------------------------------------
(* Facts about the constants.                                              *)

LEMMA Amounts ==
    /\ IsFiniteSet(AllDevs)
    /\ \A S \in SUBSET AllDevs : IsFiniteSet(S) /\ Cardinality(S) \in Nat
    /\ \A t \in {"T", "R"} : Devs[t] \subseteq AllDevs
    /\ \A t, o \in {"T", "R"} : t # o => Devs[t] \cap Devs[o] = {}
    /\ Tried \subseteq Range(Ranking)
    /\ KeepEnabled \in Nat /\ ToEnable \in Nat /\ ToEnable # 0 /\ MaxFaults \in Nat
    /\ NoSave \notin State /\ NoSave \notin Record
<1> USE DisableEnableAssumption
<1>1. IsFiniteSet(AllDevs)
  BY FS_Union DEF AllDevs
<1>2. \A S \in SUBSET AllDevs : IsFiniteSet(S) /\ Cardinality(S) \in Nat
  BY <1>1, FS_Subset, FS_CardinalityType
<1>3. \A t \in {"T", "R"} : Devs[t] \subseteq AllDevs
  BY DEF Devs, AllDevs
<1>4. \A t, o \in {"T", "R"} : t # o => Devs[t] \cap Devs[o] = {}
  BY DEF Devs
<1>5. QED
  BY <1>1, <1>2, <1>3, <1>4 DEF Record

LEMMA Rankings ==
    /\ Len(Ranking) \in Nat /\ Distinct(Ranking)
    /\ Len(Best) \in Nat /\ Distinct(Best)
    /\ \A S : RowsOf(S, Ranking) = S \cap Range(Ranking)
    /\ \A S : RowsOf(S, Best) = S \cap Range(Ranking)
<1>1. Ranking \in Seq(AllDevs) /\ Len(Ranking) \in Nat /\ DOMAIN Ranking = 1 .. Len(Ranking)
  BY DisableEnableAssumption
<1>2. Distinct(Ranking)
  BY <1>1, DisableEnableAssumption DEF Distinct, IsInjective
<1>3. Best = [i \in 1 .. Len(Ranking) |-> Ranking[(Len(Ranking) - i) + 1]]
  BY DEF Best, Reverse
<1>4. Len(Best) = Len(Ranking)
  <2>1. Best \in [1 .. Len(Ranking) -> AllDevs]
    BY <1>1, <1>3
  <2>2. QED BY <1>1, <2>1
<1>5. \A i \in 1 .. Len(Ranking) : (Len(Ranking) - i) + 1 \in 1 .. Len(Ranking) /\ Best[i] = Ranking[(Len(Ranking) - i) + 1]
  BY <1>1, <1>3
<1>6. Distinct(Best)
  <2> SUFFICES ASSUME NEW j \in 1 .. Len(Ranking), NEW k \in 1 .. Len(Ranking), Best[j] = Best[k] PROVE j = k
    BY <1>4 DEF Distinct
  <2>1. (Len(Ranking) - j) + 1 = (Len(Ranking) - k) + 1
    BY <1>2, <1>5 DEF Distinct
  <2>2. QED BY <1>1, <2>1
<1>7. Range(Ranking) = {Ranking[i] : i \in 1 .. Len(Ranking)}
  BY <1>1 DEF Range
<1>8. \A S : RowsOf(S, Ranking) = S \cap Range(Ranking)
  BY <1>7 DEF RowsOf
<1>9. ASSUME NEW S PROVE RowsOf(S, Best) = S \cap Range(Ranking)
  <2>1. ASSUME NEW d \in RowsOf(S, Best) PROVE d \in S \cap Range(Ranking)
    BY <1>4, <1>5, <1>7 DEF RowsOf
  <2>2. ASSUME NEW d \in S \cap Range(Ranking) PROVE d \in RowsOf(S, Best)
    <3>1. PICK i \in 1 .. Len(Ranking) : d = Ranking[i]
      BY <1>7
    <3>2. (Len(Ranking) - i) + 1 \in 1 .. Len(Ranking) /\ (Len(Ranking) - ((Len(Ranking) - i) + 1)) + 1 = i
      BY <1>1
    <3>3. Best[(Len(Ranking) - i) + 1] = d
      BY <1>5, <3>1, <3>2
    <3>4. QED BY <1>4, <3>2, <3>3 DEF RowsOf
  <2>3. QED BY <2>1, <2>2
<1>10. QED BY <1>1, <1>2, <1>4, <1>6, <1>8, <1>9

(* The types still to be dealt with.                                       *)
LEMMA TypesLeft ==
    ASSUME NEW ts \in {<<>>, <<"R">>, <<"T", "R">>}, ts # <<>>
    PROVE  /\ Head(ts) \in {"T", "R"} /\ Tail(ts) \in {<<>>, <<"R">>}
           /\ \A t : t \notin Range(Tail(ts)) => t = Head(ts) \/ t \notin Range(ts)
<1>1. CASE ts = <<"R">>
  BY <1>1 DEF Range
<1>2. CASE ts = <<"T", "R">>
  BY <1>2 DEF Range
<1>3. QED BY <1>1, <1>2

LEMMA TypesAll == \A t \in {"T", "R"} : t \in Range(Types) /\ t \notin Range(<<>>)
  BY DEF Types, Range

-----------------------------------------------------------------------------
(* The steps: what each of them needs and does, and the types after it.    *)

MainPcs == {"disable", "record", "saveDisable", "start", "wait", "update", "advance",
            "saveEnable", "saveError", "over", "gone"}
WorkerPcs == {"idle", "begin", "sample", "reduce", "add", "save", "sending", "failing", "ended"}
Mains == [pc : MainPcs, types : {<<>>, <<"R">>, <<"T", "R">>}, rows : SUBSET AllDevs]
Workers == [pc : WorkerPcs, toGo : 0 .. ToEnable, offset : Nat, found : SUBSET AllDevs]
Hists == [down : SUBSET AllDevs, up : SUBSET AllDevs, lost : SUBSET AllDevs,
          skipped : SUBSET {"T", "R"}, short : SUBSET {"T", "R"},
          trendless : SUBSET AllDevs, stale : BOOLEAN]

MainIs(pc, types, rows) ==
    main' \in Mains /\ main'.pc = pc /\ main'.types = types /\ main'.rows = rows

MemIs(phase, down, enabled) ==
    /\ mem' \in State
    /\ mem'.phase = phase /\ mem'.disabled = down /\ mem'.enabled = enabled

ToGoIs(t, n) == /\ mem'.toGo[t] = n
                /\ \A o \in {"T", "R"} \ {t} : mem'.toGo[o] = mem.toGo[o]

WorkerIs(t, pc, toGo, offset, found) ==
    /\ worker' \in [{"T", "R"} -> Workers]
    /\ worker'[t].pc = pc /\ worker'[t].toGo = toGo
    /\ worker'[t].offset = offset /\ worker'[t].found = found
    /\ \A o \in {"T", "R"} \ {t} : worker'[o] = worker[o]

HistKept(but) ==
    /\ hist' \in Hists
    /\ "down" \in but \/ hist'.down = hist.down
    /\ "lost" \in but \/ hist'.lost = hist.lost
    /\ "skipped" \in but \/ hist'.skipped = hist.skipped
    /\ "short" \in but \/ hist'.short = hist.short
    /\ "trendless" \in but \/ hist'.trendless = hist.trendless
    /\ "stale" \in but \/ hist'.stale = hist.stale

LEMMA Same ==
    ASSUME Shape
    PROVE  /\ UNCHANGED hist => HistKept({})
           /\ UNCHANGED main => MainIs(main.pc, main.types, main.rows)
           /\ UNCHANGED mem => MemIs(mem.phase, mem.disabled, mem.enabled)
           /\ Fault => faults' \in 0 .. MaxFaults
  BY Amounts DEF Shape, HistKept, Hists, MainIs, MemIs, Fault, Mains, MainPcs

LEMMA Typed ==
    ASSUME Shape
    PROVE  /\ main \in Mains /\ hist \in Hists /\ worker \in [{"T", "R"} -> Workers]
           /\ mem.enabled \subseteq AllDevs /\ mem.disabled \subseteq AllDevs
           /\ \A t \in {"T", "R"} : mem.toGo[t] \in 0 .. ToEnable
  BY DEF Shape, Mains, MainPcs, Hists, Workers, WorkerPcs, State

LEMMA ShapeNext ==
    ASSUME disabled' \subseteq AllDevs, mem' \in State, disk' \in State \cup {NoSave},
           saving' \in [Savers -> Record \cup {NoSave}], main' \in Mains,
           worker' \in [{"T", "R"} -> Workers], faults' \in 0 .. MaxFaults, hist' \in Hists
    PROVE  Shape'
  BY DEF Shape, Mains, MainPcs, Workers, WorkerPcs, Hists

LEMMA WorstRows ==
    ASSUME NEW t \in {"T", "R"}
    PROVE  Worst(t) \subseteq EnabledInDb(t) /\ Worst(t) \subseteq Devs[t] /\ Worst(t) \subseteq AllDevs
  BY FirstSubset, Amounts DEF Worst, EnabledInDb

LEMMA DisableStep ==
    ASSUME Shape, NEW t \in {"T", "R"}, Disable(t)
    PROVE  /\ Shape' /\ MainIs("record", main.types, Worst(t)) /\ HistKept({"down"})
           /\ disabled' = disabled \cup Worst(t) /\ hist'.down = hist.down \cup Worst(t)
           /\ Cardinality(EnabledInDb(t)) > KeepEnabled
           /\ UNCHANGED <<mem, disk, saving, worker>>
<1>1. MainIs("record", main.types, Worst(t))
  BY Typed, WorstRows DEF Disable, MainIs, Mains, MainPcs
<1>2. HistKept({"down"}) /\ hist'.down = hist.down \cup Worst(t)
  BY Typed, WorstRows DEF Disable, HistKept, Hists
<1>3. Shape'
  BY <1>1, <1>2, Typed, WorstRows, ShapeNext DEF Disable, Shape, MainIs, HistKept
<1>4. QED
  BY <1>1, <1>2, <1>3 DEF Disable

LEMMA RecordDisabledStep ==
    ASSUME Shape, main.types # <<>>, RecordDisabled
    PROVE  /\ Shape' /\ MainIs("disable", Tail(main.types), {})
           /\ MemIs(mem.phase, mem.disabled \cup main.rows, mem.enabled) /\ mem'.toGo = mem.toGo
           /\ UNCHANGED <<disabled, disk, saving, worker, hist>>
<1>1. MainIs("disable", Tail(main.types), {})
  BY Typed, TypesLeft DEF RecordDisabled, MainIs, Mains, MainPcs
<1>2. MemIs(mem.phase, mem.disabled \cup main.rows, mem.enabled) /\ mem'.toGo = mem.toGo
  BY Typed DEF RecordDisabled, MemIs, State, Shape, Mains
<1>3. Shape'
  BY <1>1, <1>2, Typed, ShapeNext DEF RecordDisabled, Shape, MainIs, MemIs
<1>4. QED
  BY <1>1, <1>2, <1>3 DEF RecordDisabled

LEMMA NoneToDisableStep ==
    ASSUME Shape, main.types # <<>>, NEW t, NoneToDisable(t)
    PROVE  /\ Shape' /\ MainIs(main.pc, Tail(main.types), main.rows)
           /\ Cardinality(EnabledInDb(t)) <= KeepEnabled
           /\ UNCHANGED <<disabled, mem, disk, saving, worker, hist>>
<1>1. MainIs(main.pc, Tail(main.types), main.rows)
  BY Typed, TypesLeft DEF NoneToDisable, MainIs, Mains
<1>2. Shape'
  BY <1>1, Typed, ShapeNext DEF NoneToDisable, Shape, MainIs
<1>3. QED
  BY <1>1, <1>2 DEF NoneToDisable

LEMMA CountFailsStep ==
    ASSUME Shape, main.types # <<>>, NEW t \in {"T", "R"}, CountFails(t)
    PROVE  /\ Shape' /\ MainIs(main.pc, Tail(main.types), main.rows)
           /\ HistKept({"skipped"}) /\ hist'.skipped = hist.skipped \cup {t}
           /\ UNCHANGED <<disabled, mem, disk, saving, worker>>
<1>1. MainIs(main.pc, Tail(main.types), main.rows)
  BY Typed, TypesLeft DEF CountFails, MainIs, Mains
<1>2. HistKept({"skipped"}) /\ hist'.skipped = hist.skipped \cup {t}
  BY Typed DEF CountFails, HistKept, Hists
<1>3. Shape'
  BY <1>1, <1>2, Typed, Same, ShapeNext DEF CountFails, Shape, MainIs, HistKept
<1>4. QED
  BY <1>1, <1>2, <1>3 DEF CountFails

LEMMA DisableFailsStep ==
    ASSUME Shape, NEW t, DisableFails(t)
    PROVE  /\ Shape' /\ MainIs("saveError", main.types, main.rows)
           /\ UNCHANGED <<disabled, mem, disk, saving, worker, hist>>
<1>1. MainIs("saveError", main.types, main.rows)
  BY Typed DEF DisableFails, MainIs, Mains, MainPcs
<1>2. Shape'
  BY <1>1, Typed, Same, ShapeNext DEF DisableFails, Shape, MainIs
<1>3. QED
  BY <1>1, <1>2 DEF DisableFails

LEMMA FinishDisableStep ==
    ASSUME Shape, FinishDisable
    PROVE  /\ Shape' /\ MainIs("saveDisable", main.types, main.rows)
           /\ main.pc = "disable" /\ main.types = <<>>
           /\ MemIs("Enable", mem.disabled, mem.enabled) /\ mem'.toGo = mem.toGo
           /\ UNCHANGED <<disabled, disk, saving, worker, hist>>
<1>1. MainIs("saveDisable", main.types, main.rows)
  BY Typed DEF FinishDisable, MainIs, Mains, MainPcs
<1>2. MemIs("Enable", mem.disabled, mem.enabled) /\ mem'.toGo = mem.toGo
  BY DEF FinishDisable, MemIs, State, Shape
<1>3. Shape'
  BY <1>1, <1>2, Typed, ShapeNext DEF FinishDisable, Shape, MainIs, MemIs
<1>4. QED
  BY <1>1, <1>2, <1>3 DEF FinishDisable

LEMMA WorkerBeginsStep ==
    ASSUME Shape, NEW t \in {"T", "R"}, WorkerBegins(t)
    PROVE  /\ Shape' /\ worker[t].pc = "begin" /\ HistKept({"short"}) /\ hist.short \subseteq hist'.short
           /\ UNCHANGED <<disabled, disk, saving, main>>
           /\ MemIs(mem.phase, mem.disabled, mem.enabled)
           /\ \E n \in 0 .. ToEnable :
                /\ WorkerIs(t, "sample", n, 0, {}) /\ ToGoIs(t, n)
                /\ n = mem.toGo[t] \/ (mem.enabled = {} /\ n = ToEnable)
                /\ t \notin hist'.short => ToEnable <= n + Cardinality(EnabledOf(mem, t))
<1> DEFINE fresh == mem.enabled = {} /\ mem.toGo[t] = 0
           n == IF fresh THEN ToEnable ELSE mem.toGo[t]
           few == n + Cardinality(EnabledOf(mem, t)) < ToEnable
<1>1. n \in 0 .. ToEnable /\ (n = mem.toGo[t] \/ (mem.enabled = {} /\ n = ToEnable))
  BY Typed, Amounts
<1>2. /\ worker[t].pc = "begin"
      /\ mem' = [mem EXCEPT !.toGo[t] = n]
      /\ worker' = [worker EXCEPT ![t] = [NoWorker EXCEPT !.pc = "sample", !.toGo = n]]
      /\ hist' = [hist EXCEPT !.short = IF few THEN @ \cup {t} ELSE @]
      /\ UNCHANGED <<disabled, disk, saving, main, faults>>
  BY DEF WorkerBegins
<1>3. Cardinality(EnabledOf(mem, t)) \in Nat
  BY Amounts DEF EnabledOf, Devs, AllDevs
<1>4. t \notin hist'.short => ToEnable <= n + Cardinality(EnabledOf(mem, t))
  <2>1. t \notin hist'.short => ~few
    BY <1>2, Typed DEF Hists
  <2> HIDE DEF n
  <2>2. QED BY <1>1, <1>3, <2>1, Amounts
<1>5. HistKept({"short"}) /\ hist.short \subseteq hist'.short
  <2> HIDE DEF few
  <2>1. QED BY <1>2, Typed DEF Hists, HistKept
<1> HIDE DEF n
<1>6. MemIs(mem.phase, mem.disabled, mem.enabled) /\ ToGoIs(t, n)
  BY <1>1, <1>2 DEF Shape, State, MemIs, ToGoIs
<1>7. WorkerIs(t, "sample", n, 0, {})
  BY <1>1, <1>2, Typed DEF NoWorker, WorkerIs, Workers, WorkerPcs
<1>8. Shape'
  BY <1>2, <1>5, <1>6, <1>7, Typed, ShapeNext DEF Shape, WorkerIs, MemIs, HistKept
<1>9. QED
  BY <1>1, <1>2, <1>4, <1>5, <1>6, <1>7, <1>8

LEMMA CandidateRows ==
    ASSUME NEW t \in {"T", "R"}
    PROVE  /\ Candidates(t) \subseteq Devs[t] /\ Candidates(t) \subseteq disabled
           /\ Candidates(t) \subseteq Tried /\ Candidates(t) \cap mem.disabled = {}
           /\ Page(t) \subseteq Candidates(t) /\ Page(t) \subseteq AllDevs
<1>1. /\ Candidates(t) \subseteq Devs[t] /\ Candidates(t) \subseteq disabled
      /\ Candidates(t) \subseteq Tried /\ Candidates(t) \cap mem.disabled = {}
  BY DEF Candidates
<1>2. Page(t) \subseteq Candidates(t)
  BY FirstSubset DEF Page, Rows
<1>3. QED BY <1>1, <1>2, Amounts

LEMMA SampleStep ==
    ASSUME Shape, NEW t \in {"T", "R"}, Sample(t)
    PROVE  /\ Shape' /\ worker[t].pc = "sample" /\ worker[t].toGo > 0
           /\ UNCHANGED <<disabled, mem, disk, saving, main>>
           /\ HistKept({"trendless"})
           /\ \E bad \in SUBSET (Page(t) \ mem.enabled) : \E found \in SUBSET (Page(t) \ mem.enabled) :
                /\ found = FirstOf(worker[t].toGo, (Page(t) \ mem.enabled) \ bad, Best)
                /\ WorkerIs(t, "reduce", worker[t].toGo, worker[t].offset + 2 * worker[t].toGo, found)
                /\ hist'.trendless = hist.trendless \cup bad
<1> DEFINE new == Page(t) \ mem.enabled
<1>1. PICK bad \in SUBSET new :
             /\ worker' = [worker EXCEPT ![t].pc = "reduce", ![t].offset = @ + 2 * worker[t].toGo,
                             ![t].found = FirstOf(worker[t].toGo, new \ bad, Best)]
             /\ hist' = [hist EXCEPT !.trendless = @ \cup bad]
  BY DEF Sample
<1>2. /\ worker[t].pc = "sample" /\ worker[t].toGo > 0
      /\ UNCHANGED <<disabled, mem, disk, saving, main, faults>>
  BY DEF Sample
<1> DEFINE found == FirstOf(worker[t].toGo, new \ bad, Best)
<1>3. found \in SUBSET new /\ new \subseteq AllDevs
  BY FirstSubset, CandidateRows
<1> HIDE DEF found, new
<1>4. worker[t] \in Workers
  BY Typed
<1>5. worker[t].offset + 2 * worker[t].toGo \in Nat
  BY <1>4, Amounts DEF Workers
<1> DEFINE next == worker[t].offset + 2 * worker[t].toGo
<1>6. worker' = [worker EXCEPT ![t].pc = "reduce", ![t].offset = next, ![t].found = found]
  BY <1>1, <1>4, Typed DEF found, Workers
<1> HIDE DEF next
<1>7. next \in Nat
  BY <1>5 DEF next
<1>8. WorkerIs(t, "reduce", worker[t].toGo, next, found)
  BY <1>3, <1>4, <1>6, <1>7, Typed DEF WorkerIs, Workers, WorkerPcs
<1>9. HistKept({"trendless"}) /\ hist'.trendless = hist.trendless \cup bad
  BY <1>1, <1>3, Typed DEF Hists, HistKept
<1>10. Shape'
  BY <1>2, <1>8, <1>9, Typed, ShapeNext DEF Shape, WorkerIs, HistKept
<1>11. QED
  BY <1>2, <1>3, <1>8, <1>9, <1>10 DEF found, new, next

(* What looking at a sample leaves alone.                                  *)
LEMMA SampleKeeps ==
    ASSUME Shape, NEW t \in {"T", "R"}, Sample(t)
    PROVE  /\ worker[t].pc = "sample" /\ worker'[t].pc = "reduce"
           /\ \A o \in {"T", "R"} \ {t} : worker'[o] = worker[o]
           /\ UNCHANGED <<disabled, mem, disk, saving, main>>
           /\ hist.trendless \subseteq hist'.trendless
<1>1. PICK bad : \E found :
        /\ WorkerIs(t, "reduce", worker[t].toGo, worker[t].offset + 2 * worker[t].toGo, found)
        /\ hist'.trendless = hist.trendless \cup bad
  BY SampleStep
<1>2. QED BY <1>1, SampleStep DEF WorkerIs

LEMMA ReduceStep ==
    ASSUME Shape, Looking, NEW t \in {"T", "R"}, Reduce(t)
    PROVE  /\ Shape' /\ worker[t].pc = "reduce"
           /\ UNCHANGED <<disabled, disk, saving, main, hist>>
           /\ MemIs(mem.phase, mem.disabled, mem.enabled)
           /\ \E n \in 0 .. ToEnable :
                /\ n + Cardinality(worker[t].found) = worker[t].toGo
                /\ WorkerIs(t, "add", n, worker[t].offset, worker[t].found) /\ ToGoIs(t, n)
<1> DEFINE n == worker[t].toGo - Cardinality(worker[t].found)
<1>1. worker[t] \in Workers /\ worker[t].pc = "reduce"
  BY Typed DEF Reduce
<1>2. worker[t].toGo \in 0 .. ToEnable /\ worker[t].found \in SUBSET AllDevs
  BY <1>1 DEF Workers
<1>3. Cardinality(worker[t].found) \in Nat /\ Cardinality(worker[t].found) <= worker[t].toGo
  BY <1>1, <1>2, Amounts DEF Looking
<1>4. n \in 0 .. ToEnable /\ n + Cardinality(worker[t].found) = worker[t].toGo
  BY <1>2, <1>3, Amounts
<1>5. /\ worker' = [worker EXCEPT ![t].pc = "add", ![t].toGo = n]
      /\ mem' = [mem EXCEPT !.toGo[t] = n]
      /\ UNCHANGED <<disabled, disk, saving, main, faults, hist>>
  BY DEF Reduce
<1> HIDE DEF n
<1>6. MemIs(mem.phase, mem.disabled, mem.enabled) /\ ToGoIs(t, n)
  BY <1>4, <1>5 DEF Shape, State, MemIs, ToGoIs
<1>7. WorkerIs(t, "add", n, worker[t].offset, worker[t].found)
  BY <1>1, <1>4, <1>5, Typed DEF WorkerIs, Workers, WorkerPcs
<1>8. Shape'
  BY <1>5, <1>6, <1>7, Typed, ShapeNext DEF Shape, WorkerIs, MemIs
<1>9. QED
  BY <1>1, <1>4, <1>5, <1>6, <1>7, <1>8

LEMMA AddStep ==
    ASSUME Shape, NEW t \in {"T", "R"}, Add(t)
    PROVE  /\ Shape' /\ worker[t].pc = "add"
           /\ UNCHANGED <<disabled, disk, saving, main, hist>>
           /\ mem'.toGo = mem.toGo
           /\ \E d \in worker[t].found :
                /\ MemIs(mem.phase, mem.disabled, mem.enabled \cup {d})
                /\ WorkerIs(t, "add", worker[t].toGo, worker[t].offset, worker[t].found \ {d})
<1>1. PICK d \in worker[t].found : /\ mem' = [mem EXCEPT !.enabled = @ \cup {d}]
                                   /\ worker' = [worker EXCEPT ![t].found = @ \ {d}]
  BY DEF Add
<1>2. worker[t] \in Workers /\ worker[t].pc = "add" /\ d \in AllDevs
  <2>1. worker[t] \in Workers
    BY Typed
  <2>2. QED BY <2>1, <1>1 DEF Add, Workers
<1>3. MemIs(mem.phase, mem.disabled, mem.enabled \cup {d}) /\ mem'.toGo = mem.toGo
  BY <1>1, <1>2 DEF Shape, State, MemIs
<1>4. WorkerIs(t, "add", worker[t].toGo, worker[t].offset, worker[t].found \ {d})
  BY <1>1, <1>2, Typed DEF WorkerIs, Workers
<1>5. Shape'
  BY <1>3, <1>4, Typed, ShapeNext DEF Add, Shape, WorkerIs, MemIs
<1>6. QED
  BY <1>2, <1>3, <1>4, <1>5 DEF Add

(* The steps of a worker that change no more than where it is.             *)
LEMMA WorkerGoes ==
    ASSUME Shape, NEW t \in {"T", "R"}, NEW pc \in WorkerPcs, worker' = [worker EXCEPT ![t].pc = pc]
    PROVE  WorkerIs(t, pc, worker[t].toGo, worker[t].offset, worker[t].found)
<1>1. worker[t] \in Workers
  BY Typed
<1>2. QED BY <1>1, Typed DEF WorkerIs, Workers

LEMMA AddedStep ==
    ASSUME Shape, NEW t \in {"T", "R"}, Added(t)
    PROVE  /\ Shape' /\ worker[t].pc = "add" /\ worker[t].found = {}
           /\ WorkerIs(t, "save", worker[t].toGo, worker[t].offset, worker[t].found)
           /\ UNCHANGED <<disabled, mem, disk, saving, main, hist>>
<1>1. WorkerIs(t, "save", worker[t].toGo, worker[t].offset, worker[t].found)
  BY WorkerGoes DEF Added, WorkerPcs
<1>2. Shape'
  BY <1>1, Typed, ShapeNext DEF Added, Shape, WorkerIs
<1>3. QED BY <1>1, <1>2 DEF Added

LEMMA WorkerEndsStep ==
    ASSUME Shape, NEW t \in {"T", "R"}, WorkerEnds(t)
    PROVE  /\ Shape' /\ worker[t].pc = "sample" /\ (worker[t].toGo = 0 \/ Page(t) = {})
           /\ WorkerIs(t, "sending", worker[t].toGo, worker[t].offset, worker[t].found)
           /\ UNCHANGED <<disabled, mem, disk, saving, main, hist>>
<1>1. WorkerIs(t, "sending", worker[t].toGo, worker[t].offset, worker[t].found)
  BY WorkerGoes DEF WorkerEnds, WorkerPcs
<1>2. Shape'
  BY <1>1, Typed, ShapeNext DEF WorkerEnds, Shape, WorkerIs
<1>3. QED BY <1>1, <1>2 DEF WorkerEnds

LEMMA SampleFailsStep ==
    ASSUME Shape, NEW t \in {"T", "R"}, SampleFails(t)
    PROVE  /\ Shape' /\ worker[t].pc = "sample"
           /\ WorkerIs(t, "failing", worker[t].toGo, worker[t].offset, worker[t].found)
           /\ UNCHANGED <<disabled, mem, disk, saving, main, hist>>
<1>1. WorkerIs(t, "failing", worker[t].toGo, worker[t].offset, worker[t].found)
  BY WorkerGoes DEF SampleFails, WorkerPcs
<1>2. Shape'
  BY <1>1, Typed, Same, ShapeNext DEF SampleFails, Shape, WorkerIs
<1>3. QED BY <1>1, <1>2 DEF SampleFails

LEMMA StartWorkersStep ==
    ASSUME Shape, StartWorkers
    PROVE  /\ Shape' /\ main.pc = "start" /\ MainIs("wait", main.types, main.rows)
           /\ UNCHANGED <<disabled, mem, disk, saving, hist>>
           /\ \A t \in {"T", "R"} : worker'[t].pc = "begin" /\ worker'[t].found = {}
<1>1. MainIs("wait", main.types, main.rows)
  BY Typed DEF StartWorkers, MainIs, Mains, MainPcs
<1>2. [NoWorker EXCEPT !.pc = "begin"] = [pc |-> "begin", toGo |-> 0, offset |-> 0, found |-> {}]
  BY DEF NoWorker
<1>3. worker' = [t \in {"T", "R"} |-> [pc |-> "begin", toGo |-> 0, offset |-> 0, found |-> {}]]
  BY <1>2 DEF StartWorkers
<1>4. worker' \in [{"T", "R"} -> Workers] /\ \A t \in {"T", "R"} : worker'[t].pc = "begin" /\ worker'[t].found = {}
  BY <1>3, Amounts DEF Workers, WorkerPcs
<1>5. Shape'
  BY <1>1, <1>4, Typed, ShapeNext DEF StartWorkers, Shape, MainIs
<1>6. QED BY <1>1, <1>4, <1>5 DEF StartWorkers

LEMMA ReceiveStep ==
    ASSUME Shape, NEW t \in {"T", "R"}, Receive(t)
    PROVE  /\ Shape' /\ main.pc = "wait"
           /\ UNCHANGED <<disabled, mem, disk, saving, hist>>
           /\ \/ /\ worker[t].pc = "sending"
                 /\ WorkerIs(t, "ended", worker[t].toGo, worker[t].offset, worker[t].found)
                 /\ \/ MainIs("wait", main.types, main.rows)
                    \/ /\ MainIs("update", main.types, main.rows)
                       /\ \A o \in {"T", "R"} \ {t} : worker[o].pc = "ended"
              \/ /\ worker[t].pc = "failing"
                 /\ WorkerIs(t, "sending", worker[t].toGo, worker[t].offset, worker[t].found)
                 /\ MainIs("saveError", main.types, main.rows)
<1>1. CASE /\ worker[t].pc = "sending"
           /\ worker' = [worker EXCEPT ![t].pc = "ended"]
           /\ main' = [main EXCEPT !.pc = IF \A o \in {"T", "R"} \ {t} : worker[o].pc = "ended"
                                          THEN "update" ELSE "wait"]
  <2>1. WorkerIs(t, "ended", worker[t].toGo, worker[t].offset, worker[t].found)
    BY <1>1, WorkerGoes DEF WorkerPcs
  <2>2. \/ MainIs("wait", main.types, main.rows)
        \/ /\ MainIs("update", main.types, main.rows)
           /\ \A o \in {"T", "R"} \ {t} : worker[o].pc = "ended"
    <3>1. CASE \A o \in {"T", "R"} \ {t} : worker[o].pc = "ended"
      <4>1. main' = [main EXCEPT !.pc = "update"]
        BY <1>1, <3>1
      <4>2. QED BY <3>1, <4>1, Typed DEF MainIs, Mains, MainPcs
    <3>2. CASE ~(\A o \in {"T", "R"} \ {t} : worker[o].pc = "ended")
      <4>1. main' = [main EXCEPT !.pc = "wait"]
        BY <1>1, <3>2
      <4>2. QED BY <4>1, Typed DEF MainIs, Mains, MainPcs
    <3>3. QED BY <3>1, <3>2
  <2>3. main' \in Mains
    BY <2>2 DEF MainIs
  <2>4. Shape'
    BY <2>1, <2>3, Typed, ShapeNext DEF Receive, Shape, WorkerIs
  <2>5. QED BY <1>1, <2>1, <2>2, <2>4 DEF Receive
<1>2. CASE /\ worker[t].pc = "failing"
           /\ worker' = [worker EXCEPT ![t].pc = "sending"]
           /\ main' = [main EXCEPT !.pc = "saveError"]
  <2>1. WorkerIs(t, "sending", worker[t].toGo, worker[t].offset, worker[t].found)
    BY <1>2, WorkerGoes DEF WorkerPcs
  <2>2. MainIs("saveError", main.types, main.rows)
    BY <1>2, Typed DEF MainIs, Mains, MainPcs
  <2>3. Shape'
    BY <2>1, <2>2, Typed, ShapeNext DEF Receive, Shape, WorkerIs, MainIs
  <2>4. QED BY <1>2, <2>1, <2>2, <2>3 DEF Receive
<1>3. QED BY <1>1, <1>2 DEF Receive

LEMMA EnableInDbStep ==
    ASSUME Shape, EnableInDb
    PROVE  /\ Shape' /\ main.pc = "update" /\ MainIs("advance", main.types, main.rows)
           /\ disabled' = disabled \ mem.enabled /\ HistKept({})
           /\ UNCHANGED <<mem, disk, saving, worker>>
<1>1. MainIs("advance", main.types, main.rows)
  BY Typed DEF EnableInDb, MainIs, Mains, MainPcs
<1>2. HistKept({})
  BY Typed DEF EnableInDb, HistKept, Hists
<1>3. Shape'
  BY <1>1, <1>2, Typed, ShapeNext DEF EnableInDb, Shape, MainIs, HistKept
<1>4. QED BY <1>1, <1>2, <1>3 DEF EnableInDb

LEMMA EnableFailsStep ==
    ASSUME Shape, EnableFails
    PROVE  /\ Shape' /\ main.pc = "update" /\ MainIs("saveError", main.types, main.rows)
           /\ UNCHANGED <<disabled, mem, disk, saving, worker, hist>>
<1>1. MainIs("saveError", main.types, main.rows)
  BY Typed DEF EnableFails, MainIs, Mains, MainPcs
<1>2. Shape'
  BY <1>1, Typed, Same, ShapeNext DEF EnableFails, Shape, MainIs
<1>3. QED BY <1>1, <1>2 DEF EnableFails

LEMMA FinishEnableStep ==
    ASSUME Shape, FinishEnable
    PROVE  /\ Shape' /\ main.pc = "advance" /\ MainIs("saveEnable", main.types, main.rows)
           /\ MemIs("Delete", mem.disabled, mem.enabled) /\ mem'.toGo = mem.toGo
           /\ UNCHANGED <<disabled, disk, saving, worker, hist>>
<1>1. MainIs("saveEnable", main.types, main.rows)
  BY Typed DEF FinishEnable, MainIs, Mains, MainPcs
<1>2. MemIs("Delete", mem.disabled, mem.enabled) /\ mem'.toGo = mem.toGo
  BY DEF FinishEnable, MemIs, State, Shape
<1>3. Shape'
  BY <1>1, <1>2, Typed, ShapeNext DEF FinishEnable, Shape, MainIs, MemIs
<1>4. QED BY <1>1, <1>2, <1>3 DEF FinishEnable

SavingIs(s, v) == /\ saving' \in [Savers -> Record \cup {NoSave}] /\ saving'[s] = v
                  /\ \A o \in Savers \ {s} : saving'[o] = saving[o]

(* What is being saved is a copy.                                          *)
LEMMA Copies ==
    ASSUME Shape, NEW s \in Savers, saving[s] # NoSave
    PROVE  /\ saving[s] \in Record /\ saving[s].copy \in State /\ saving[s].copy # NoSave
           /\ saving[s].copy.enabled \subseteq AllDevs
           /\ \A t \in {"T", "R"} : saving[s].copy.toGo[t] \in 0 .. ToEnable
<1>1. saving[s] \in Record
  BY DEF Shape
<1>2. saving[s].copy \in State
  BY <1>1 DEF Record
<1>3. QED BY <1>1, <1>2, Amounts DEF State

LEMMA StartSaveStep ==
    ASSUME Shape, NEW s \in Savers, StartSave(s)
    PROVE  /\ Shape' /\ Saves(s) /\ saving[s] = NoSave /\ disk' = NoSave
           /\ UNCHANGED <<disabled, mem, main, worker>>
           /\ HistKept({"stale"})
           /\ ~hist'.stale => ~hist.stale /\ \A o \in Savers \ {s} : saving[o] = NoSave
           /\ \E r \in Record : r.copy = mem /\ SavingIs(s, r)
<1> DEFINE r == [stage |-> "read", copy |-> mem]
           overlap == \E o \in Savers \ {s} : saving[o] # NoSave
<1>1. r \in Record /\ r.copy = mem
  BY DEF Shape, Record
<1>2. /\ Saves(s) /\ saving[s] = NoSave /\ disk' = NoSave
      /\ saving' = [saving EXCEPT ![s] = r]
      /\ hist' = [hist EXCEPT !.stale = @ \/ overlap]
      /\ UNCHANGED <<disabled, mem, main, worker, faults>>
  BY DEF StartSave
<1> HIDE DEF r
<1>3. SavingIs(s, r)
  BY <1>1, <1>2 DEF Shape, SavingIs
<1>4. HistKept({"stale"}) /\ (~hist'.stale => ~hist.stale /\ ~overlap)
  <2> HIDE DEF overlap
  <2>1. hist' = [hist EXCEPT !.stale = hist.stale \/ overlap]
    BY <1>2, Typed DEF Hists
  <2>2. HistKept({"stale"})
    BY <2>1, Typed DEF Hists, HistKept
  <2>3. hist'.stale = (hist.stale \/ overlap)
    BY <2>1, Typed DEF Hists
  <2>4. QED BY <2>2, <2>3
<1>5. Shape'
  BY <1>2, <1>3, <1>4, Typed, ShapeNext DEF Shape, SavingIs, HistKept
<1>6. QED BY <1>1, <1>2, <1>3, <1>4, <1>5

LEMMA ReadToGoStep ==
    ASSUME Shape, NEW s \in Savers, ReadToGo(s)
    PROVE  /\ Shape' /\ saving[s] # NoSave
           /\ UNCHANGED <<disabled, mem, disk, main, worker, hist>>
           /\ \E r \in Record : /\ SavingIs(s, r) /\ r.copy.toGo = mem.toGo
                                /\ r.copy.phase = saving[s].copy.phase
                                /\ r.copy.enabled = saving[s].copy.enabled
<1> DEFINE old == saving[s].copy
           new == [saving[s].copy EXCEPT !.toGo = mem.toGo]
           r == [saving[s] EXCEPT !.stage = "write", !.copy = new]
<1>1. saving[s] \in Record /\ old \in State
  BY Copies DEF ReadToGo
<1>2. new \in State /\ new.toGo = mem.toGo /\ new.phase = old.phase /\ new.enabled = old.enabled
  BY <1>1 DEF Shape, State
<1>3. saving' = [saving EXCEPT ![s] = r]
  BY <1>1 DEF ReadToGo, Shape, Record
<1> HIDE DEF new
<1>4. r \in Record /\ r.copy = new
  BY <1>1, <1>2 DEF Record
<1> HIDE DEF r
<1>5. SavingIs(s, r)
  BY <1>3, <1>4 DEF Shape, SavingIs
<1>6. Shape'
  BY <1>5, Typed, ShapeNext DEF ReadToGo, Shape, SavingIs
<1>7. QED BY <1>2, <1>4, <1>5, <1>6 DEF ReadToGo

AfterPc == IF main.pc = "saveDisable" THEN "start"
           ELSE IF main.pc = "saveEnable" \/ mem.phase = "Delete" THEN "over" ELSE "gone"
WentOn(s) ==
    \/ /\ s = "main" /\ UNCHANGED worker /\ main.pc \in {"saveDisable", "saveEnable", "saveError"}
       /\ MainIs(AfterPc, main.types, main.rows)
    \/ /\ s \in {"T", "R"} /\ UNCHANGED main /\ worker[s].pc = "save"
       /\ WorkerIs(s, "sample", worker[s].toGo, worker[s].offset, worker[s].found)

LEMMA AfterSaveStep ==
    ASSUME Shape, NEW s \in Savers, Saves(s), AfterSave(s)
    PROVE  WentOn(s) /\ main' \in Mains /\ worker' \in [{"T", "R"} -> Workers]
<1>1. CASE s = "main"
  <2>1. main.pc \in {"saveDisable", "saveEnable", "saveError"} /\ UNCHANGED worker
    BY <1>1 DEF Saves, AfterSave
  <2>2. main' = [main EXCEPT !.pc = AfterPc]
    BY <1>1, <2>1 DEF AfterSave, AfterPc
  <2>3. AfterPc \in MainPcs
    BY DEF AfterPc, MainPcs
  <2>4. MainIs(AfterPc, main.types, main.rows)
    BY <2>2, <2>3, Typed DEF MainIs, Mains
  <2>5. QED BY <1>1, <2>1, <2>4, Typed DEF WentOn, MainIs
<1>2. CASE s \in {"T", "R"}
  <2>1. worker[s].pc = "save" /\ UNCHANGED main /\ worker' = [worker EXCEPT ![s].pc = "sample"]
    BY <1>2 DEF Saves, AfterSave
  <2>2. WorkerIs(s, "sample", worker[s].toGo, worker[s].offset, worker[s].found)
    BY <1>2, <2>1, WorkerGoes DEF WorkerPcs
  <2>3. QED BY <1>2, <2>1, <2>2, Typed DEF WentOn, WorkerIs
<1>3. QED BY <1>1, <1>2 DEF Savers

ErrorPc == IF main.pc = "saveError" THEN "gone" ELSE "saveError"
GaveUp(s) ==
    \/ /\ s = "main" /\ UNCHANGED worker /\ main.pc \in {"saveDisable", "saveEnable", "saveError"}
       /\ MainIs(ErrorPc, main.types, main.rows)
    \/ /\ s \in {"T", "R"} /\ UNCHANGED main /\ worker[s].pc = "save"
       /\ WorkerIs(s, "sample", worker[s].toGo, worker[s].offset, worker[s].found)

LEMMA AfterErrorStep ==
    ASSUME Shape, NEW s \in Savers, Saves(s), AfterError(s)
    PROVE  GaveUp(s) /\ main' \in Mains /\ worker' \in [{"T", "R"} -> Workers]
<1>1. CASE s = "main"
  <2>1. main.pc \in {"saveDisable", "saveEnable", "saveError"} /\ UNCHANGED worker
    BY <1>1 DEF Saves, AfterError
  <2>2. main' = [main EXCEPT !.pc = ErrorPc]
    BY <1>1, <2>1 DEF AfterError, ErrorPc
  <2>3. ErrorPc \in MainPcs
    BY DEF ErrorPc, MainPcs
  <2>4. MainIs(ErrorPc, main.types, main.rows)
    BY <2>2, <2>3, Typed DEF MainIs, Mains
  <2>5. QED BY <1>1, <2>1, <2>4, Typed DEF GaveUp, MainIs
<1>2. CASE s \in {"T", "R"}
  <2>1. worker[s].pc = "save" /\ UNCHANGED main /\ worker' = [worker EXCEPT ![s].pc = "sample"]
    BY <1>2 DEF Saves, AfterError
  <2>2. WorkerIs(s, "sample", worker[s].toGo, worker[s].offset, worker[s].found)
    BY <1>2, <2>1, WorkerGoes DEF WorkerPcs
  <2>3. QED BY <1>2, <2>1, <2>2, Typed DEF GaveUp, WorkerIs
<1>3. QED BY <1>1, <1>2 DEF Savers

LEMMA WriteStep ==
    ASSUME Shape, Kept, NEW s \in Savers, Write(s), main.pc # "gone"
    PROVE  /\ Shape' /\ saving[s] # NoSave /\ disk' = saving[s].copy
           /\ SavingIs(s, NoSave) /\ WentOn(s)
           /\ UNCHANGED <<disabled, mem, hist>>
<1>1. saving[s] # NoSave /\ Saves(s) /\ saving[s].copy \in State
  BY Copies DEF Write, Kept
<1>2. WentOn(s) /\ main' \in Mains /\ worker' \in [{"T", "R"} -> Workers]
  BY <1>1, AfterSaveStep DEF Write
<1>3. SavingIs(s, NoSave)
  BY DEF Write, Shape, SavingIs
<1>4. Shape'
  BY <1>1, <1>2, <1>3, Typed, ShapeNext DEF Write, Shape, SavingIs
<1>5. QED BY <1>1, <1>2, <1>3, <1>4 DEF Write

LEMMA SaveFailsStep ==
    ASSUME Shape, NEW s \in Savers, SaveFails(s)
    PROVE  /\ Shape' /\ Saves(s) /\ SavingIs(s, NoSave) /\ GaveUp(s)
           /\ UNCHANGED <<disabled, mem, disk>>
           /\ HistKept({"stale"})
           /\ ~hist'.stale => ~hist.stale /\ disk = NoSave /\ \A o \in Savers \ {s} : saving[o] = NoSave
<1> DEFINE left == disk # NoSave \/ \E o \in Savers \ {s} : saving[o] # NoSave
<1>1. GaveUp(s) /\ main' \in Mains /\ worker' \in [{"T", "R"} -> Workers]
  BY AfterErrorStep DEF SaveFails
<1>2. SavingIs(s, NoSave)
  BY DEF SaveFails, Shape, SavingIs
<1>3. HistKept({"stale"}) /\ (~hist'.stale => ~hist.stale /\ ~left)
  <2>1. hist' = [hist EXCEPT !.stale = hist.stale \/ left]
    BY Typed DEF SaveFails, Hists
  <2> HIDE DEF left
  <2>2. HistKept({"stale"})
    BY <2>1, Typed DEF Hists, HistKept
  <2>3. hist'.stale = (hist.stale \/ left)
    BY <2>1, Typed DEF Hists
  <2>4. QED BY <2>2, <2>3
<1>4. Shape'
  BY <1>1, <1>2, <1>3, Typed, Same, ShapeNext DEF SaveFails, Shape, SavingIs, HistKept
<1>5. QED BY <1>1, <1>2, <1>3, <1>4 DEF SaveFails

LEMMA CrashStep ==
    ASSUME Shape, Crash
    PROVE  /\ Shape' /\ MainIs("gone", main.types, main.rows)
           /\ UNCHANGED <<disabled, mem, disk, saving, worker, hist>>
<1>1. MainIs("gone", main.types, main.rows)
  BY Typed DEF Crash, MainIs, Mains, MainPcs
<1>2. Shape'
  BY <1>1, Typed, Same, ShapeNext DEF Crash, Shape, MainIs
<1>3. QED BY <1>1, <1>2 DEF Crash

LEMMA RestartStep ==
    ASSUME Shape, Restart
    PROVE  /\ Shape' /\ main.pc = "gone" /\ UNCHANGED <<disabled, disk>>
           /\ \A t \in {"T", "R"} : worker'[t] = NoWorker
           /\ \A s \in Savers : saving'[s] = NoSave
           /\ MainIs(IF mem'.phase = "Disable" THEN "disable" ELSE IF mem'.phase = "Enable" THEN "start" ELSE "over",
                     Types, {})
           /\ IF disk = NoSave THEN mem' = Blank /\ hist' = InitHist
              ELSE /\ mem' = disk /\ HistKept({"lost"})
                   /\ hist'.lost = hist.lost \cup (hist.down \ disk.disabled)
<1> DEFINE loaded == IF disk = NoSave THEN Blank ELSE disk
           pc == IF loaded.phase = "Disable" THEN "disable" ELSE IF loaded.phase = "Enable" THEN "start" ELSE "over"
<1>1. Blank \in State
  BY Amounts DEF Blank, State
<1>2. loaded \in State
  BY <1>1 DEF Shape
<1>3. loaded.phase \in {"Disable", "Enable", "Delete"} /\ pc \in MainPcs
  <2> HIDE DEF loaded
  <2>1. QED BY <1>2 DEF State, MainPcs
<1>4. /\ main.pc = "gone" /\ mem' = loaded /\ UNCHANGED <<disabled, disk, faults>>
      /\ worker' = [t \in {"T", "R"} |-> NoWorker]
      /\ saving' = [s \in Savers |-> NoSave]
      /\ hist' = IF disk = NoSave THEN InitHist
                 ELSE [hist EXCEPT !.lost = @ \cup (hist.down \ disk.disabled)]
  BY DEF Restart
<1>5. main' = [pc |-> pc, types |-> Types, rows |-> {}]
  <2> HIDE DEF loaded
  <2>1. main' = [pc |-> CASE loaded.phase = "Disable" -> "disable"
                             [] loaded.phase = "Enable" -> "start"
                             [] loaded.phase = "Delete" -> "over",
                    types |-> Types, rows |-> {}]
    BY DEF Restart, loaded
  <2>2. QED BY <1>3, <2>1
<1> HIDE DEF loaded
<1>6. MainIs(pc, Types, {})
  BY <1>3, <1>5 DEF MainIs, Mains, Types
<1>7. NoWorker \in Workers
  BY Amounts DEF NoWorker, Workers, WorkerPcs
<1>8. worker' \in [{"T", "R"} -> Workers] /\ \A t \in {"T", "R"} : worker'[t] = NoWorker
  BY <1>4, <1>7
<1>9. saving' \in [Savers -> Record \cup {NoSave}] /\ \A s \in Savers : saving'[s] = NoSave
  BY <1>4
<1>10. /\ hist' \in Hists
       /\ disk = NoSave => mem' = Blank /\ hist' = InitHist
       /\ disk # NoSave => /\ mem' = disk /\ HistKept({"lost"})
                           /\ hist'.lost = hist.lost \cup (hist.down \ disk.disabled)
  <2>1. CASE disk = NoSave
    BY <1>4, <2>1 DEF InitHist, Hists, loaded
  <2>2. CASE disk # NoSave
    <3>1. hist' = [hist EXCEPT !.lost = @ \cup (hist.down \ disk.disabled)]
      BY <1>4, <2>2
    <3>2. HistKept({"lost"}) /\ hist'.lost = hist.lost \cup (hist.down \ disk.disabled)
      BY <3>1, Typed DEF Hists, HistKept
    <3>3. QED BY <1>4, <2>2, <3>2 DEF loaded, HistKept
  <2>3. QED BY <2>1, <2>2
<1>11. Shape'
  BY <1>2, <1>4, <1>6, <1>8, <1>9, <1>10, ShapeNext DEF Shape, MainIs
<1>12. QED BY <1>4, <1>6, <1>8, <1>9, <1>10, <1>11

LEMMA Steps ==
    ASSUME Shape, Next
    PROVE  \/ Restart
           \/ /\ main.pc \notin {"gone", "over"}
              /\ \/ main.types # <<>> /\ main.pc = "record" /\ RecordDisabled
                 \/ /\ main.types # <<>> /\ main.pc = "disable"
                    /\ \E t \in {"T", "R"} : /\ t = Head(main.types)
                                             /\ Disable(t) \/ NoneToDisable(t) \/ CountFails(t) \/ DisableFails(t)
                 \/ FinishDisable \/ StartWorkers \/ EnableInDb \/ EnableFails \/ FinishEnable \/ Crash
                 \/ \E t \in {"T", "R"} : WorkerBegins(t) \/ Sample(t) \/ Reduce(t) \/ Add(t) \/ Added(t)
                                          \/ WorkerEnds(t) \/ SampleFails(t) \/ Receive(t)
                 \/ \E s \in Savers : StartSave(s) \/ ReadToGo(s) \/ Write(s) \/ SaveFails(s)
<1>1. main.types # <<>> => Head(main.types) \in {"T", "R"}
  BY Typed, TypesLeft DEF Mains
<1>2. ASSUME DisablePhase
      PROVE \/ main.types # <<>> /\ main.pc = "record" /\ RecordDisabled
            \/ /\ main.types # <<>> /\ main.pc = "disable"
               /\ \E t \in {"T", "R"} : /\ t = Head(main.types)
                                        /\ Disable(t) \/ NoneToDisable(t) \/ CountFails(t) \/ DisableFails(t)
            \/ FinishDisable
  BY <1>1, <1>2 DEF DisablePhase
<1>3. QED
  BY <1>2 DEF Next, EnablePhase, Worker, Save, Faulty

LEMMA PlacedNext ==
    ASSUME Inv, Next PROVE Placed'
<1>q. Shape /\ Placed /\ Kept /\ Looking
  BY DEF Inv
<1>1. ASSUME Restart PROVE Placed'
  <2>1. mem'.phase = "Disable" => mem'.enabled = {}
    BY <1>1, <1>q, RestartStep DEF Kept, Blank
  <2>2. mem'.phase \in {"Disable", "Enable"}
    <3>1. CASE disk = NoSave
      BY <1>1, <1>q, <3>1, RestartStep DEF Blank
    <3>2. CASE disk # NoSave
      <4>1. disk \in State /\ disk.phase # "Delete"
        BY <1>1, <1>q, <3>2, RestartStep DEF Kept, Shape
      <4>2. QED BY <1>1, <1>q, <3>2, <4>1, RestartStep DEF State
    <3>3. QED BY <3>1, <3>2
  <2>3. QED BY <1>1, <1>q, <2>1, <2>2, RestartStep DEF Placed, MainIs
<1>2. ASSUME main.pc \notin {"gone", "over"}, main.types # <<>>, main.pc = "record", RecordDisabled PROVE Placed'
  BY <1>2, <1>q, RecordDisabledStep DEF Placed, MainIs, MemIs, WorkerIs, NoWorker
<1>3. ASSUME NEW t \in {"T", "R"}, 
             main.pc \notin {"gone", "over"}, main.types # <<>>, main.pc = "disable", t = Head(main.types), Disable(t) PROVE Placed'
  BY <1>3, <1>q, DisableStep DEF Placed, MainIs, MemIs, WorkerIs, NoWorker
<1>4. ASSUME NEW t \in {"T", "R"}, 
             main.pc \notin {"gone", "over"}, main.types # <<>>, main.pc = "disable", t = Head(main.types), NoneToDisable(t) PROVE Placed'
  BY <1>4, <1>q, NoneToDisableStep DEF Placed, MainIs, MemIs, WorkerIs, NoWorker
<1>5. ASSUME NEW t \in {"T", "R"}, 
             main.pc \notin {"gone", "over"}, main.types # <<>>, main.pc = "disable", t = Head(main.types), CountFails(t) PROVE Placed'
  BY <1>5, <1>q, CountFailsStep DEF Placed, MainIs, MemIs, WorkerIs, NoWorker
<1>6. ASSUME NEW t \in {"T", "R"}, 
             main.pc \notin {"gone", "over"}, main.types # <<>>, main.pc = "disable", t = Head(main.types), DisableFails(t) PROVE Placed'
  BY <1>6, <1>q, DisableFailsStep DEF Placed, MainIs, MemIs, WorkerIs, NoWorker
<1>7. ASSUME main.pc \notin {"gone", "over"}, FinishDisable PROVE Placed'
  BY <1>7, <1>q, FinishDisableStep DEF Placed, MainIs, MemIs, WorkerIs, NoWorker
<1>8. ASSUME main.pc \notin {"gone", "over"}, StartWorkers PROVE Placed'
  BY <1>8, <1>q, StartWorkersStep DEF Placed, MainIs, MemIs, WorkerIs, NoWorker
<1>9. ASSUME main.pc \notin {"gone", "over"}, EnableInDb PROVE Placed'
  BY <1>9, <1>q, EnableInDbStep DEF Placed, MainIs, MemIs, WorkerIs, NoWorker
<1>10. ASSUME main.pc \notin {"gone", "over"}, EnableFails PROVE Placed'
  BY <1>10, <1>q, EnableFailsStep DEF Placed, MainIs, MemIs, WorkerIs, NoWorker
<1>11. ASSUME main.pc \notin {"gone", "over"}, FinishEnable PROVE Placed'
  BY <1>11, <1>q, FinishEnableStep DEF Placed, MainIs, MemIs, WorkerIs, NoWorker
<1>12. ASSUME main.pc \notin {"gone", "over"}, Crash PROVE Placed'
  BY <1>12, <1>q, CrashStep DEF Placed, MainIs, MemIs, WorkerIs, NoWorker
<1>13. ASSUME NEW t \in {"T", "R"}, main.pc \notin {"gone", "over"}, WorkerBegins(t) PROVE Placed'
  BY <1>13, <1>q, WorkerBeginsStep DEF Placed, MainIs, MemIs, WorkerIs, NoWorker
<1>14. ASSUME NEW t \in {"T", "R"}, main.pc \notin {"gone", "over"}, Sample(t) PROVE Placed'
  BY <1>14, <1>q, SampleStep DEF Placed, MainIs, MemIs, WorkerIs, NoWorker
<1>15. ASSUME NEW t \in {"T", "R"}, main.pc \notin {"gone", "over"}, Reduce(t) PROVE Placed'
  BY <1>15, <1>q, ReduceStep DEF Placed, MainIs, MemIs, WorkerIs, NoWorker
<1>16. ASSUME NEW t \in {"T", "R"}, main.pc \notin {"gone", "over"}, Add(t) PROVE Placed'
  BY <1>16, <1>q, AddStep DEF Placed, MainIs, MemIs, WorkerIs, NoWorker
<1>17. ASSUME NEW t \in {"T", "R"}, main.pc \notin {"gone", "over"}, Added(t) PROVE Placed'
  BY <1>17, <1>q, AddedStep DEF Placed, MainIs, MemIs, WorkerIs, NoWorker
<1>18. ASSUME NEW t \in {"T", "R"}, main.pc \notin {"gone", "over"}, WorkerEnds(t) PROVE Placed'
  BY <1>18, <1>q, WorkerEndsStep DEF Placed, MainIs, MemIs, WorkerIs, NoWorker
<1>19. ASSUME NEW t \in {"T", "R"}, main.pc \notin {"gone", "over"}, SampleFails(t) PROVE Placed'
  BY <1>19, <1>q, SampleFailsStep DEF Placed, MainIs, MemIs, WorkerIs, NoWorker
<1>20. ASSUME NEW t \in {"T", "R"}, main.pc \notin {"gone", "over"}, Receive(t) PROVE Placed'
  BY <1>20, <1>q, ReceiveStep DEF Placed, MainIs, MemIs, WorkerIs, NoWorker
<1>21. ASSUME NEW s \in Savers, main.pc \notin {"gone", "over"}, StartSave(s) PROVE Placed'
  BY <1>21, <1>q, StartSaveStep DEF Placed, MainIs, MemIs, WorkerIs, NoWorker, WentOn, AfterPc, SavingIs
<1>22. ASSUME NEW s \in Savers, main.pc \notin {"gone", "over"}, ReadToGo(s) PROVE Placed'
  BY <1>22, <1>q, ReadToGoStep DEF Placed, MainIs, MemIs, WorkerIs, NoWorker, WentOn, AfterPc, SavingIs
<1>23. ASSUME NEW s \in Savers, main.pc \notin {"gone", "over"}, Write(s) PROVE Placed'
  BY <1>23, <1>q, WriteStep DEF Placed, MainIs, MemIs, WorkerIs, NoWorker, WentOn, AfterPc, SavingIs
<1>24. ASSUME NEW s \in Savers, main.pc \notin {"gone", "over"}, SaveFails(s) PROVE Placed'
  BY <1>24, <1>q, SaveFailsStep DEF Placed, MainIs, MemIs, WorkerIs, NoWorker, GaveUp, ErrorPc, SavingIs
<1>25. QED
  BY <1>q, <1>1, <1>2, <1>3, <1>4, <1>5, <1>6, <1>7, <1>8, <1>9, <1>10, <1>11, <1>12, <1>13, <1>14, <1>15, <1>16, <1>17, <1>18, <1>19, <1>20, <1>21, <1>22, <1>23, <1>24, Steps


LEMMA KeptNext ==
    ASSUME Inv, Next PROVE Kept'
<1>q. Shape /\ Placed /\ Kept /\ Looking
  BY DEF Inv
<1>1. ASSUME Restart PROVE Kept'
  BY <1>1, <1>q, RestartStep DEF Placed, Kept, Saves, Savers, MainIs, MemIs, WorkerIs, NoWorker
<1>2. ASSUME main.pc \notin {"gone", "over"}, main.types # <<>>, main.pc = "record", RecordDisabled PROVE Kept'
  BY <1>2, <1>q, RecordDisabledStep DEF Placed, Kept, Saves, Savers, MainIs, MemIs, WorkerIs, NoWorker
<1>3. ASSUME NEW t \in {"T", "R"}, 
             main.pc \notin {"gone", "over"}, main.types # <<>>, main.pc = "disable", t = Head(main.types), Disable(t) PROVE Kept'
  BY <1>3, <1>q, DisableStep DEF Placed, Kept, Saves, Savers, MainIs, MemIs, WorkerIs, NoWorker
<1>4. ASSUME NEW t \in {"T", "R"}, 
             main.pc \notin {"gone", "over"}, main.types # <<>>, main.pc = "disable", t = Head(main.types), NoneToDisable(t) PROVE Kept'
  BY <1>4, <1>q, NoneToDisableStep DEF Placed, Kept, Saves, Savers, MainIs, MemIs, WorkerIs, NoWorker
<1>5. ASSUME NEW t \in {"T", "R"}, 
             main.pc \notin {"gone", "over"}, main.types # <<>>, main.pc = "disable", t = Head(main.types), CountFails(t) PROVE Kept'
  BY <1>5, <1>q, CountFailsStep DEF Placed, Kept, Saves, Savers, MainIs, MemIs, WorkerIs, NoWorker
<1>6. ASSUME NEW t \in {"T", "R"}, 
             main.pc \notin {"gone", "over"}, main.types # <<>>, main.pc = "disable", t = Head(main.types), DisableFails(t) PROVE Kept'
  BY <1>6, <1>q, DisableFailsStep DEF Placed, Kept, Saves, Savers, MainIs, MemIs, WorkerIs, NoWorker
<1>7. ASSUME main.pc \notin {"gone", "over"}, FinishDisable PROVE Kept'
  <2>1. /\ main.pc = "disable" /\ main'.pc = "saveDisable" /\ mem'.phase = "Enable" /\ mem'.enabled = mem.enabled
        /\ UNCHANGED <<disk, saving, worker>>
    BY <1>7, <1>q, FinishDisableStep DEF MainIs, MemIs
  <2>2. QED BY <1>q, <2>1 DEF Placed, Kept, Saves
<1>8. ASSUME main.pc \notin {"gone", "over"}, StartWorkers PROVE Kept'
  BY <1>8, <1>q, StartWorkersStep DEF Placed, Kept, Saves, Savers, MainIs, MemIs, WorkerIs, NoWorker
<1>9. ASSUME main.pc \notin {"gone", "over"}, EnableInDb PROVE Kept'
  BY <1>9, <1>q, EnableInDbStep DEF Placed, Kept, Saves, Savers, MainIs, MemIs, WorkerIs, NoWorker
<1>10. ASSUME main.pc \notin {"gone", "over"}, EnableFails PROVE Kept'
  BY <1>10, <1>q, EnableFailsStep DEF Placed, Kept, Saves, Savers, MainIs, MemIs, WorkerIs, NoWorker
<1>11. ASSUME main.pc \notin {"gone", "over"}, FinishEnable PROVE Kept'
  BY <1>11, <1>q, FinishEnableStep DEF Placed, Kept, Saves, Savers, MainIs, MemIs, WorkerIs, NoWorker
<1>12. ASSUME main.pc \notin {"gone", "over"}, Crash PROVE Kept'
  BY <1>12, <1>q, CrashStep DEF Placed, Kept, Saves, Savers, MainIs, MemIs, WorkerIs, NoWorker
<1>13. ASSUME NEW t \in {"T", "R"}, main.pc \notin {"gone", "over"}, WorkerBegins(t) PROVE Kept'
  BY <1>13, <1>q, WorkerBeginsStep DEF Placed, Kept, Saves, Savers, MainIs, MemIs, WorkerIs, NoWorker
<1>14. ASSUME NEW t \in {"T", "R"}, main.pc \notin {"gone", "over"}, Sample(t) PROVE Kept'
  <2>1. /\ worker[t].pc = "sample" /\ worker'[t].pc = "reduce"
        /\ \A o \in {"T", "R"} \ {t} : worker'[o] = worker[o]
        /\ UNCHANGED <<disk, mem, saving, main>>
    BY <1>14, <1>q, SampleKeeps
  <2>2. QED BY <2>1, <1>q DEF Kept, Saves, Savers
<1>15. ASSUME NEW t \in {"T", "R"}, main.pc \notin {"gone", "over"}, Reduce(t) PROVE Kept'
  BY <1>15, <1>q, ReduceStep DEF Placed, Kept, Saves, Savers, MainIs, MemIs, WorkerIs, NoWorker
<1>16. ASSUME NEW t \in {"T", "R"}, main.pc \notin {"gone", "over"}, Add(t) PROVE Kept'
  BY <1>16, <1>q, AddStep DEF Placed, Kept, Saves, Savers, MainIs, MemIs, WorkerIs, NoWorker
<1>17. ASSUME NEW t \in {"T", "R"}, main.pc \notin {"gone", "over"}, Added(t) PROVE Kept'
  BY <1>17, <1>q, AddedStep DEF Placed, Kept, Saves, Savers, MainIs, MemIs, WorkerIs, NoWorker
<1>18. ASSUME NEW t \in {"T", "R"}, main.pc \notin {"gone", "over"}, WorkerEnds(t) PROVE Kept'
  BY <1>18, <1>q, WorkerEndsStep DEF Placed, Kept, Saves, Savers, MainIs, MemIs, WorkerIs, NoWorker
<1>19. ASSUME NEW t \in {"T", "R"}, main.pc \notin {"gone", "over"}, SampleFails(t) PROVE Kept'
  BY <1>19, <1>q, SampleFailsStep DEF Placed, Kept, Saves, Savers, MainIs, MemIs, WorkerIs, NoWorker
<1>20. ASSUME NEW t \in {"T", "R"}, main.pc \notin {"gone", "over"}, Receive(t) PROVE Kept'
  BY <1>20, <1>q, ReceiveStep DEF Placed, Kept, Saves, Savers, MainIs, MemIs, WorkerIs, NoWorker
<1>21. ASSUME NEW s \in Savers, main.pc \notin {"gone", "over"}, StartSave(s) PROVE Kept'
  <2>1. PICK r \in Record : r.copy = mem /\ SavingIs(s, r)
    BY <1>21, <1>q, StartSaveStep
  <2>2. Saves(s) /\ UNCHANGED <<mem, main, worker>> /\ disk' = NoSave
    BY <1>21, <1>q, StartSaveStep
  <2>3. /\ mem.phase = "Disable" => mem.enabled = {}
        /\ mem.phase = "Delete" => s = "main"
    BY <1>21, <1>q, <2>2 DEF Placed, Saves, Savers, Shape, State
  <2>4. ASSUME NEW o \in Savers, saving'[o] # NoSave
        PROVE  /\ saving'[o].copy.phase = "Disable" => saving'[o].copy.enabled = {}
               /\ mem.phase = "Disable" => saving'[o].copy.phase = "Disable"
               /\ saving'[o].copy.phase = "Delete" => o = "main" /\ mem.phase = "Delete"
               /\ saving'[o].copy.enabled \subseteq mem.enabled
               /\ Saves(o) \/ (o = "main" /\ main.pc = "gone")
    <3>1. CASE o = s
      BY <2>1, <2>2, <2>3, <3>1 DEF SavingIs
    <3>2. CASE o # s
      <4>1. saving'[o] = saving[o]
        BY <2>1, <3>2 DEF SavingIs
      <4>2. QED BY <1>q, <2>4, <4>1 DEF Kept
    <3>3. QED BY <3>1, <3>2
  <2>5. QED BY <2>2, <2>4 DEF Kept, Saves
<1>22. ASSUME NEW s \in Savers, main.pc \notin {"gone", "over"}, ReadToGo(s) PROVE Kept'
  <2>1. PICK r \in Record : SavingIs(s, r) /\ r.copy.phase = saving[s].copy.phase /\ r.copy.enabled = saving[s].copy.enabled
    BY <1>22, <1>q, ReadToGoStep
  <2>2. saving[s] # NoSave /\ UNCHANGED <<disk, mem, main, worker>>
    BY <1>22, <1>q, ReadToGoStep
  <2>3. /\ \A o \in Savers : saving'[o] # NoSave => saving[o] # NoSave
        /\ \A o \in Savers : /\ saving'[o].copy.phase = saving[o].copy.phase
                            /\ saving'[o].copy.enabled = saving[o].copy.enabled
    BY <2>1, <2>2 DEF SavingIs
  <2>4. QED BY <1>q, <2>2, <2>3 DEF Kept, Saves
<1>23. ASSUME NEW s \in Savers, main.pc \notin {"gone", "over"}, Write(s) PROVE Kept'
  BY <1>23, <1>q, WriteStep DEF Placed, Kept, Saves, Savers, MainIs, MemIs, WorkerIs, NoWorker, WentOn, AfterPc, SavingIs
<1>24. ASSUME NEW s \in Savers, main.pc \notin {"gone", "over"}, SaveFails(s) PROVE Kept'
  BY <1>24, <1>q, SaveFailsStep DEF Placed, Kept, Saves, Savers, MainIs, MemIs, WorkerIs, NoWorker, GaveUp, ErrorPc, SavingIs
<1>25. QED
  BY <1>q, <1>1, <1>2, <1>3, <1>4, <1>5, <1>6, <1>7, <1>8, <1>9, <1>10, <1>11, <1>12, <1>13, <1>14, <1>15, <1>16, <1>17, <1>18, <1>19, <1>20, <1>21, <1>22, <1>23, <1>24, Steps

LEMMA LookingNext ==
    ASSUME Inv, Next PROVE Looking'
<1>q. Shape /\ Placed /\ Kept /\ Looking
  BY DEF Inv
<1>1. ASSUME Restart PROVE Looking'
  BY <1>1, <1>q, RestartStep DEF Placed, Looking, MainIs, MemIs, WorkerIs, ToGoIs, NoWorker
<1>2. ASSUME main.pc \notin {"gone", "over"}, main.types # <<>>, main.pc = "record", RecordDisabled PROVE Looking'
  BY <1>2, <1>q, RecordDisabledStep DEF Placed, Looking, MainIs, MemIs, WorkerIs, ToGoIs, NoWorker
<1>3. ASSUME NEW t \in {"T", "R"}, 
             main.pc \notin {"gone", "over"}, main.types # <<>>, main.pc = "disable", t = Head(main.types), Disable(t) PROVE Looking'
  BY <1>3, <1>q, DisableStep DEF Placed, Looking, MainIs, MemIs, WorkerIs, ToGoIs, NoWorker
<1>4. ASSUME NEW t \in {"T", "R"}, 
             main.pc \notin {"gone", "over"}, main.types # <<>>, main.pc = "disable", t = Head(main.types), NoneToDisable(t) PROVE Looking'
  BY <1>4, <1>q, NoneToDisableStep DEF Placed, Looking, MainIs, MemIs, WorkerIs, ToGoIs, NoWorker
<1>5. ASSUME NEW t \in {"T", "R"}, 
             main.pc \notin {"gone", "over"}, main.types # <<>>, main.pc = "disable", t = Head(main.types), CountFails(t) PROVE Looking'
  BY <1>5, <1>q, CountFailsStep DEF Placed, Looking, MainIs, MemIs, WorkerIs, ToGoIs, NoWorker
<1>6. ASSUME NEW t \in {"T", "R"}, 
             main.pc \notin {"gone", "over"}, main.types # <<>>, main.pc = "disable", t = Head(main.types), DisableFails(t) PROVE Looking'
  BY <1>6, <1>q, DisableFailsStep DEF Placed, Looking, MainIs, MemIs, WorkerIs, ToGoIs, NoWorker
<1>7. ASSUME main.pc \notin {"gone", "over"}, FinishDisable PROVE Looking'
  BY <1>7, <1>q, FinishDisableStep DEF Placed, Looking, MainIs, MemIs, WorkerIs, ToGoIs, NoWorker
<1>8. ASSUME main.pc \notin {"gone", "over"}, StartWorkers PROVE Looking'
  BY <1>8, <1>q, StartWorkersStep DEF Placed, Looking, MainIs, MemIs, WorkerIs, ToGoIs, NoWorker
<1>9. ASSUME main.pc \notin {"gone", "over"}, EnableInDb PROVE Looking'
  BY <1>9, <1>q, EnableInDbStep DEF Placed, Looking, MainIs, MemIs, WorkerIs, ToGoIs, NoWorker
<1>10. ASSUME main.pc \notin {"gone", "over"}, EnableFails PROVE Looking'
  BY <1>10, <1>q, EnableFailsStep DEF Placed, Looking, MainIs, MemIs, WorkerIs, ToGoIs, NoWorker
<1>11. ASSUME main.pc \notin {"gone", "over"}, FinishEnable PROVE Looking'
  BY <1>11, <1>q, FinishEnableStep DEF Placed, Looking, MainIs, MemIs, WorkerIs, ToGoIs, NoWorker
<1>12. ASSUME main.pc \notin {"gone", "over"}, Crash PROVE Looking'
  BY <1>12, <1>q, CrashStep DEF Placed, Looking, MainIs, MemIs, WorkerIs, ToGoIs, NoWorker
<1>13. ASSUME NEW t \in {"T", "R"}, main.pc \notin {"gone", "over"}, WorkerBegins(t) PROVE Looking'
  BY <1>13, <1>q, WorkerBeginsStep DEF Placed, Looking, MainIs, MemIs, WorkerIs, ToGoIs, NoWorker
<1>14. ASSUME NEW t \in {"T", "R"}, main.pc \notin {"gone", "over"}, Sample(t) PROVE Looking'
  <2>1. PICK found \in SUBSET (Page(t) \ mem.enabled) :
             /\ \E bad : found = FirstOf(worker[t].toGo, (Page(t) \ mem.enabled) \ bad, Best)
             /\ WorkerIs(t, "reduce", worker[t].toGo, worker[t].offset + 2 * worker[t].toGo, found)
    BY <1>14, <1>q, SampleStep
  <2>2. worker[t].toGo \in Nat
    BY <1>q, Typed, Amounts DEF Workers
  <2>3. Cardinality(found) <= worker[t].toGo
    <3>1. PICK bad : found = FirstOf(worker[t].toGo, (Page(t) \ mem.enabled) \ bad, Best)
      BY <2>1
    <3>2. Len(Best) \in Nat
      BY Rankings
    <3>3. Cardinality(found) \in 0 .. worker[t].toGo
      BY <2>2, <3>1, <3>2, FirstBound
    <3>4. QED BY <2>2, <3>3
  <2>4. found \subseteq Devs[t] /\ found \cap mem.enabled = {}
    BY <2>1, CandidateRows
  <2>5. UNCHANGED mem /\ worker[t].pc = "sample" /\ \A o \in {"T", "R"} \ {t} : worker'[o] = worker[o]
    BY <1>14, <1>q, SampleKeeps
  <2>6. worker'[t].pc = "reduce" /\ worker'[t].toGo = worker[t].toGo /\ worker'[t].found = found
    BY <2>1 DEF WorkerIs
  <2>7. QED BY <1>q, <2>3, <2>4, <2>5, <2>6 DEF Looking
<1>15. ASSUME NEW t \in {"T", "R"}, main.pc \notin {"gone", "over"}, Reduce(t) PROVE Looking'
  BY <1>15, <1>q, ReduceStep DEF Placed, Looking, MainIs, MemIs, WorkerIs, ToGoIs, NoWorker
<1>16. ASSUME NEW t \in {"T", "R"}, main.pc \notin {"gone", "over"}, Add(t) PROVE Looking'
  <2>1. PICK d \in worker[t].found :
             /\ MemIs(mem.phase, mem.disabled, mem.enabled \cup {d})
             /\ WorkerIs(t, "add", worker[t].toGo, worker[t].offset, worker[t].found \ {d})
    BY <1>16, <1>q, AddStep
  <2>2. mem'.toGo = mem.toGo /\ worker[t].pc = "add"
    BY <1>16, <1>q, AddStep
  <2>3. \A o \in {"T", "R"} \ {t} : d \notin worker[o].found
    BY <1>q, <2>1, Amounts DEF Looking
  <2>4. QED BY <1>q, <2>1, <2>2, <2>3 DEF Looking, WorkerIs, MemIs
<1>17. ASSUME NEW t \in {"T", "R"}, main.pc \notin {"gone", "over"}, Added(t) PROVE Looking'
  BY <1>17, <1>q, AddedStep DEF Placed, Looking, MainIs, MemIs, WorkerIs, ToGoIs, NoWorker
<1>18. ASSUME NEW t \in {"T", "R"}, main.pc \notin {"gone", "over"}, WorkerEnds(t) PROVE Looking'
  BY <1>18, <1>q, WorkerEndsStep DEF Placed, Looking, MainIs, MemIs, WorkerIs, ToGoIs, NoWorker
<1>19. ASSUME NEW t \in {"T", "R"}, main.pc \notin {"gone", "over"}, SampleFails(t) PROVE Looking'
  BY <1>19, <1>q, SampleFailsStep DEF Placed, Looking, MainIs, MemIs, WorkerIs, ToGoIs, NoWorker
<1>20. ASSUME NEW t \in {"T", "R"}, main.pc \notin {"gone", "over"}, Receive(t) PROVE Looking'
  BY <1>20, <1>q, ReceiveStep DEF Placed, Looking, MainIs, MemIs, WorkerIs, ToGoIs, NoWorker
<1>21. ASSUME NEW s \in Savers, main.pc \notin {"gone", "over"}, StartSave(s) PROVE Looking'
  BY <1>21, <1>q, StartSaveStep DEF Placed, Looking, MainIs, MemIs, WorkerIs, ToGoIs, NoWorker, WentOn, AfterPc, SavingIs
<1>22. ASSUME NEW s \in Savers, main.pc \notin {"gone", "over"}, ReadToGo(s) PROVE Looking'
  BY <1>22, <1>q, ReadToGoStep DEF Placed, Looking, MainIs, MemIs, WorkerIs, ToGoIs, NoWorker, WentOn, AfterPc, SavingIs
<1>23. ASSUME NEW s \in Savers, main.pc \notin {"gone", "over"}, Write(s) PROVE Looking'
  BY <1>23, <1>q, WriteStep DEF Placed, Looking, MainIs, MemIs, WorkerIs, ToGoIs, NoWorker, WentOn, AfterPc, SavingIs
<1>24. ASSUME NEW s \in Savers, main.pc \notin {"gone", "over"}, SaveFails(s) PROVE Looking'
  BY <1>24, <1>q, SaveFailsStep DEF Placed, Looking, MainIs, MemIs, WorkerIs, ToGoIs, NoWorker, GaveUp, ErrorPc, SavingIs
<1>25. QED
  BY <1>q, <1>1, <1>2, <1>3, <1>4, <1>5, <1>6, <1>7, <1>8, <1>9, <1>10, <1>11, <1>12, <1>13, <1>14, <1>15, <1>16, <1>17, <1>18, <1>19, <1>20, <1>21, <1>22, <1>23, <1>24, Steps


(* A developer that is listed is one less to list.                         *)
LEMMA Moves ==
    ASSUME NEW E \in SUBSET AllDevs, NEW F \in SUBSET AllDevs, NEW D, NEW d \in F, d \in D, d \notin E
    PROVE  Cardinality((E \cup {d}) \cap D) + Cardinality(F \ {d}) = Cardinality(E \cap D) + Cardinality(F)
<1>1. (E \cup {d}) \cap D = (E \cap D) \cup {d} /\ d \notin E \cap D
  OBVIOUS
<1>2. IsFiniteSet(E \cap D) /\ IsFiniteSet(F) /\ Cardinality(E \cap D) \in Nat /\ Cardinality(F) \in Nat
  BY Amounts
<1>3. Cardinality((E \cap D) \cup {d}) = Cardinality(E \cap D) + 1
  BY <1>1, <1>2, FS_AddElement
<1>4. Cardinality((E \cup {d}) \cap D) = Cardinality(E \cap D) + 1
  BY <1>1, <1>3, Zenon
<1>5. Cardinality(F \ {d}) = Cardinality(F) - 1
  BY <1>2, FS_RemoveElement
<1> DEFINE c == Cardinality(E \cap D)
           f == Cardinality(F)
           c2 == Cardinality((E \cup {d}) \cap D)
           f2 == Cardinality(F \ {d})
<1>6. c \in Nat /\ f \in Nat /\ c2 = c + 1 /\ f2 = f - 1
  BY <1>2, <1>4, <1>5
<1> HIDE DEF c, f, c2, f2
<1>7. c2 + f2 = c + f
  BY <1>6
<1>8. QED BY <1>7 DEF c, f, c2, f2

LEMMA Counts ==
    ASSUME Shape, NEW t \in {"T", "R"}
    PROVE  /\ Cardinality(EnabledOf(mem, t)) \in Nat /\ mem.toGo[t] \in Nat
           /\ worker[t].toGo \in Nat /\ Cardinality(worker[t].found) \in Nat
           /\ Planned(t) \in Nat /\ Cardinality(EnabledOf(mem, t)) + mem.toGo[t] <= Planned(t)
<1>1. /\ EnabledOf(mem, t) \in SUBSET AllDevs /\ worker[t].found \in SUBSET AllDevs
      /\ mem.toGo[t] \in Nat /\ worker[t].toGo \in Nat
  BY Typed, Amounts DEF EnabledOf, Workers
<1> DEFINE c == Cardinality(EnabledOf(mem, t))
           f == Cardinality(worker[t].found)
           x == IF worker[t].pc = "add" THEN f ELSE 0
<1>2. c \in Nat /\ f \in Nat
  BY <1>1, Amounts
<1>3. x \in Nat /\ Planned(t) = c + mem.toGo[t] + x
  BY <1>2 DEF Planned
<1> HIDE DEF c, f, x
<1>4. Planned(t) \in Nat /\ c + mem.toGo[t] <= Planned(t)
  BY <1>1, <1>2, <1>3
<1>5. QED BY <1>1, <1>2, <1>4 DEF c, f

(* What is planned after a step that neither begins nor lists.             *)
LEMMA PlannedSame ==
    ASSUME NEW t \in {"T", "R"}, mem'.enabled = mem.enabled, mem'.toGo[t] = mem.toGo[t],
           worker'[t].pc = "add" <=> worker[t].pc = "add",
           worker[t].pc = "add" => worker'[t].found = worker[t].found
    PROVE  Planned(t)' = Planned(t)
  BY DEF Planned, EnabledOf

(* What is planned for a type is changed when its worker begins, and not   *)
(* by reducing the number to go or by listing a developer.                 *)
LEMMA PlannedBegins ==
    ASSUME Shape, NEW t \in {"T", "R"}, WorkerBegins(t)
    PROVE  /\ Planned(t)' = Planned(t) \/ Planned(t)' = ToEnable
           /\ t \notin hist'.short => ToEnable <= Planned(t)'
<1>1. PICK n \in 0 .. ToEnable :
           /\ WorkerIs(t, "sample", n, 0, {}) /\ ToGoIs(t, n)
           /\ n = mem.toGo[t] \/ (mem.enabled = {} /\ n = ToEnable)
           /\ t \notin hist'.short => ToEnable <= n + Cardinality(EnabledOf(mem, t))
  BY WorkerBeginsStep
<1>2. worker[t].pc = "begin" /\ mem'.enabled = mem.enabled
  BY WorkerBeginsStep DEF MemIs
<1> DEFINE c == Cardinality(EnabledOf(mem, t))
<1>3. Planned(t)' = c + n /\ Planned(t) = c + mem.toGo[t]
  <2>1. worker'[t].pc = "sample" /\ mem'.toGo[t] = n /\ c \in Nat /\ mem.toGo[t] \in Nat
    BY <1>1, Counts DEF WorkerIs, ToGoIs
  <2>2. EnabledOf(mem, t)' = EnabledOf(mem, t)
    BY <1>2 DEF EnabledOf
  <2>3. Planned(t)' = c + n + 0 /\ Planned(t) = c + mem.toGo[t] + 0
    BY <1>2, <2>1, <2>2 DEF Planned
  <2> HIDE DEF c
  <2>4. QED BY <2>1, <2>3, Amounts
<1>4. mem.enabled = {} => c = 0
  BY FS_EmptySet DEF EnabledOf
<1>5. c \in Nat
  BY Counts
<1> HIDE DEF c
<1>6. Planned(t)' = Planned(t) \/ Planned(t)' = ToEnable
  BY <1>1, <1>3, <1>4, <1>5, Amounts
<1>7. t \notin hist'.short => ToEnable <= Planned(t)'
  <2>1. t \notin hist'.short => ToEnable <= n + c
    BY <1>1 DEF c
  <2>2. QED BY <1>3, <1>5, <2>1
<1>8. QED BY <1>6, <1>7

LEMMA PlannedReduces ==
    ASSUME Shape, Looking, NEW t \in {"T", "R"}, Reduce(t)
    PROVE  Planned(t)' = Planned(t)
<1>1. PICK n \in 0 .. ToEnable :
           /\ n + Cardinality(worker[t].found) = worker[t].toGo
           /\ WorkerIs(t, "add", n, worker[t].offset, worker[t].found) /\ ToGoIs(t, n)
  BY ReduceStep
<1>2. worker[t].pc = "reduce" /\ mem'.enabled = mem.enabled /\ mem.toGo[t] = worker[t].toGo
  BY ReduceStep DEF MemIs, Looking
<1> DEFINE c == Cardinality(EnabledOf(mem, t))
           f == Cardinality(worker[t].found)
<1>3. c \in Nat /\ f \in Nat /\ worker[t].toGo \in Nat
  BY Counts
<1>4. EnabledOf(mem, t)' = EnabledOf(mem, t) /\ worker'[t].pc = "add" /\ worker'[t].found = worker[t].found
  BY <1>1, <1>2 DEF EnabledOf, WorkerIs
<1>5. Planned(t)' = c + n + f /\ Planned(t) = c + worker[t].toGo + 0 /\ n + f = worker[t].toGo
  BY <1>1, <1>2, <1>4 DEF Planned, ToGoIs
<1> HIDE DEF c, f
<1>6. QED BY <1>3, <1>5

LEMMA PlannedAdds ==
    ASSUME Shape, Looking, NEW t \in {"T", "R"}, Add(t)
    PROVE  \A o \in {"T", "R"} : Planned(o)' = Planned(o)
<1>1. PICK d \in worker[t].found :
           /\ MemIs(mem.phase, mem.disabled, mem.enabled \cup {d})
           /\ WorkerIs(t, "add", worker[t].toGo, worker[t].offset, worker[t].found \ {d})
  BY AddStep
<1>2. mem'.toGo = mem.toGo /\ worker[t].pc = "add"
  BY AddStep
<1>3. d \in Devs[t] /\ d \notin mem.enabled /\ worker[t].found \in SUBSET AllDevs /\ mem.enabled \in SUBSET AllDevs
  BY Typed DEF Looking, Workers
<1>4. Planned(t)' = Planned(t)
  <2> DEFINE c == Cardinality(EnabledOf(mem, t))
             f == Cardinality(worker[t].found)
             c2 == Cardinality((mem.enabled \cup {d}) \cap Devs[t])
             f2 == Cardinality(worker[t].found \ {d})
  <2>1. c2 + f2 = c + f
    BY <1>3, Moves DEF EnabledOf
  <2>2. c \in Nat /\ f \in Nat /\ mem.toGo[t] \in Nat
    BY Counts
  <2>3. c2 \in Nat /\ f2 \in Nat
    BY <1>3, Amounts
  <2>4. EnabledOf(mem, t)' = (mem.enabled \cup {d}) \cap Devs[t]
    BY <1>1 DEF MemIs, EnabledOf
  <2>5. Planned(t)' = c2 + mem.toGo[t] + f2 /\ Planned(t) = c + mem.toGo[t] + f
    BY <1>1, <1>2, <2>4 DEF Planned, WorkerIs
  <2> HIDE DEF c, f, c2, f2
  <2>6. QED BY <2>1, <2>2, <2>3, <2>5
<1>5. ASSUME NEW o \in {"T", "R"} \ {t} PROVE Planned(o)' = Planned(o)
  <2>1. EnabledOf(mem, o)' = EnabledOf(mem, o)
    BY <1>1, <1>3, Amounts DEF EnabledOf, MemIs
  <2>2. worker'[o] = worker[o]
    BY <1>1 DEF WorkerIs
  <2>3. QED BY <1>2, <2>1, <2>2 DEF Planned
<1>6. QED BY <1>4, <1>5

LEMMA PlannedAdded ==
    ASSUME Shape, NEW t \in {"T", "R"}, Added(t)
    PROVE  Planned(t)' = Planned(t)
<1>1. /\ worker[t].pc = "add" /\ worker[t].found = {} /\ UNCHANGED mem
      /\ worker'[t].pc = "save"
  BY AddedStep DEF WorkerIs
<1>2. Cardinality(worker[t].found) = 0
  BY <1>1, FS_EmptySet
<1> DEFINE c == Cardinality(EnabledOf(mem, t))
<1>3. c \in Nat /\ mem.toGo[t] \in Nat
  BY Counts
<1>4. Planned(t)' = c + mem.toGo[t] + 0 /\ Planned(t) = c + mem.toGo[t] + 0
  BY <1>1, <1>2 DEF Planned, EnabledOf
<1>5. QED BY <1>4

(* What is planned for a type changes when its worker begins, or in the    *)
(* next process.                                                           *)
PlansKept == Restart \/ \A o \in {"T", "R"} : Planned(o)' = Planned(o) \/ WorkerBegins(o)

LEMMA PlannedKept ==
    ASSUME Inv, Next PROVE PlansKept
<1>q. Shape /\ Placed /\ Kept /\ Looking
  BY DEF Inv
<1>1. ASSUME Restart PROVE PlansKept
  BY <1>1 DEF PlansKept
<1>2. ASSUME main.pc \notin {"gone", "over"}, main.types # <<>>, main.pc = "record", RecordDisabled PROVE PlansKept
  BY <1>2, <1>q, RecordDisabledStep, PlannedSame DEF PlansKept, Placed, MainIs, MemIs, WorkerIs, WentOn
<1>3. ASSUME NEW t \in {"T", "R"}, 
             main.pc \notin {"gone", "over"}, main.types # <<>>, main.pc = "disable", t = Head(main.types), Disable(t) PROVE PlansKept
  BY <1>3, <1>q, DisableStep, PlannedSame DEF PlansKept, Placed, MainIs, MemIs, WorkerIs, WentOn
<1>4. ASSUME NEW t \in {"T", "R"}, 
             main.pc \notin {"gone", "over"}, main.types # <<>>, main.pc = "disable", t = Head(main.types), NoneToDisable(t) PROVE PlansKept
  BY <1>4, <1>q, NoneToDisableStep, PlannedSame DEF PlansKept, Placed, MainIs, MemIs, WorkerIs, WentOn
<1>5. ASSUME NEW t \in {"T", "R"}, 
             main.pc \notin {"gone", "over"}, main.types # <<>>, main.pc = "disable", t = Head(main.types), CountFails(t) PROVE PlansKept
  BY <1>5, <1>q, CountFailsStep, PlannedSame DEF PlansKept, Placed, MainIs, MemIs, WorkerIs, WentOn
<1>6. ASSUME NEW t \in {"T", "R"}, 
             main.pc \notin {"gone", "over"}, main.types # <<>>, main.pc = "disable", t = Head(main.types), DisableFails(t) PROVE PlansKept
  BY <1>6, <1>q, DisableFailsStep, PlannedSame DEF PlansKept, Placed, MainIs, MemIs, WorkerIs, WentOn
<1>7. ASSUME main.pc \notin {"gone", "over"}, FinishDisable PROVE PlansKept
  BY <1>7, <1>q, FinishDisableStep, PlannedSame DEF PlansKept, Placed, MainIs, MemIs, WorkerIs, WentOn
<1>8. ASSUME main.pc \notin {"gone", "over"}, StartWorkers PROVE PlansKept
  <2> SUFFICES ASSUME NEW t \in {"T", "R"} PROVE Planned(t)' = Planned(t)
    BY DEF PlansKept
  <2>1. worker[t] = NoWorker /\ worker'[t].pc = "begin" /\ UNCHANGED mem
    BY <1>8, <1>q, StartWorkersStep DEF Placed
  <2>2. QED BY <2>1, PlannedSame DEF NoWorker
<1>9. ASSUME main.pc \notin {"gone", "over"}, EnableInDb PROVE PlansKept
  BY <1>9, <1>q, EnableInDbStep, PlannedSame DEF PlansKept, Placed, MainIs, MemIs, WorkerIs, WentOn
<1>10. ASSUME main.pc \notin {"gone", "over"}, EnableFails PROVE PlansKept
  BY <1>10, <1>q, EnableFailsStep, PlannedSame DEF PlansKept, Placed, MainIs, MemIs, WorkerIs, WentOn
<1>11. ASSUME main.pc \notin {"gone", "over"}, FinishEnable PROVE PlansKept
  BY <1>11, <1>q, FinishEnableStep, PlannedSame DEF PlansKept, Placed, MainIs, MemIs, WorkerIs, WentOn
<1>12. ASSUME main.pc \notin {"gone", "over"}, Crash PROVE PlansKept
  BY <1>12, <1>q, CrashStep, PlannedSame DEF PlansKept, Placed, MainIs, MemIs, WorkerIs, WentOn
<1>13. ASSUME NEW t \in {"T", "R"}, main.pc \notin {"gone", "over"}, WorkerBegins(t) PROVE PlansKept
  <2>1. \A o \in {"T", "R"} \ {t} : Planned(o)' = Planned(o)
    BY <1>13, <1>q, WorkerBeginsStep, PlannedSame DEF MemIs, WorkerIs, ToGoIs
  <2>2. QED BY <1>13, <2>1 DEF PlansKept
<1>14. ASSUME NEW t \in {"T", "R"}, main.pc \notin {"gone", "over"}, Sample(t) PROVE PlansKept
  <2>1. /\ worker[t].pc = "sample" /\ worker'[t].pc = "reduce" /\ UNCHANGED mem
        /\ \A o \in {"T", "R"} \ {t} : worker'[o] = worker[o]
    BY <1>14, <1>q, SampleKeeps
  <2>2. \A o \in {"T", "R"} : Planned(o)' = Planned(o)
    BY <2>1 DEF Planned, EnabledOf
  <2>3. QED BY <2>2 DEF PlansKept
<1>15. ASSUME NEW t \in {"T", "R"}, main.pc \notin {"gone", "over"}, Reduce(t) PROVE PlansKept
  <2>1. \A o \in {"T", "R"} \ {t} : Planned(o)' = Planned(o)
    BY <1>15, <1>q, ReduceStep, PlannedSame DEF MemIs, WorkerIs, ToGoIs
  <2>2. Planned(t)' = Planned(t)
    BY <1>15, <1>q, PlannedReduces
  <2>3. QED BY <2>1, <2>2 DEF PlansKept
<1>16. ASSUME NEW t \in {"T", "R"}, main.pc \notin {"gone", "over"}, Add(t) PROVE PlansKept
  BY <1>16, <1>q, PlannedAdds DEF PlansKept
<1>17. ASSUME NEW t \in {"T", "R"}, main.pc \notin {"gone", "over"}, Added(t) PROVE PlansKept
  <2>1. \A o \in {"T", "R"} \ {t} : Planned(o)' = Planned(o)
    BY <1>17, <1>q, AddedStep, PlannedSame DEF WorkerIs
  <2>2. Planned(t)' = Planned(t)
    BY <1>17, <1>q, PlannedAdded
  <2>3. QED BY <2>1, <2>2 DEF PlansKept
<1>18. ASSUME NEW t \in {"T", "R"}, main.pc \notin {"gone", "over"}, WorkerEnds(t) PROVE PlansKept
  BY <1>18, <1>q, WorkerEndsStep, PlannedSame DEF PlansKept, Placed, MainIs, MemIs, WorkerIs, WentOn
<1>19. ASSUME NEW t \in {"T", "R"}, main.pc \notin {"gone", "over"}, SampleFails(t) PROVE PlansKept
  BY <1>19, <1>q, SampleFailsStep, PlannedSame DEF PlansKept, Placed, MainIs, MemIs, WorkerIs, WentOn
<1>20. ASSUME NEW t \in {"T", "R"}, main.pc \notin {"gone", "over"}, Receive(t) PROVE PlansKept
  BY <1>20, <1>q, ReceiveStep, PlannedSame DEF PlansKept, Placed, MainIs, MemIs, WorkerIs, WentOn
<1>21. ASSUME NEW s \in Savers, main.pc \notin {"gone", "over"}, StartSave(s) PROVE PlansKept
  BY <1>21, <1>q, StartSaveStep, PlannedSame DEF PlansKept, Placed, MainIs, MemIs, WorkerIs, WentOn
<1>22. ASSUME NEW s \in Savers, main.pc \notin {"gone", "over"}, ReadToGo(s) PROVE PlansKept
  BY <1>22, <1>q, ReadToGoStep, PlannedSame DEF PlansKept, Placed, MainIs, MemIs, WorkerIs, WentOn
<1>23. ASSUME NEW s \in Savers, main.pc \notin {"gone", "over"}, Write(s) PROVE PlansKept
  BY <1>23, <1>q, WriteStep, PlannedSame DEF PlansKept, Placed, MainIs, MemIs, WorkerIs, WentOn
<1>24. ASSUME NEW s \in Savers, main.pc \notin {"gone", "over"}, SaveFails(s) PROVE PlansKept
  BY <1>24, <1>q, SaveFailsStep, PlannedSame DEF PlansKept, Placed, MainIs, MemIs, WorkerIs, GaveUp
<1>25. QED
  BY <1>q, <1>1, <1>2, <1>3, <1>4, <1>5, <1>6, <1>7, <1>8, <1>9, <1>10, <1>11, <1>12, <1>13, <1>14, <1>15, <1>16, <1>17, <1>18, <1>19, <1>20, <1>21, <1>22, <1>23, <1>24, Steps

LEMMA PlannedNext ==
    ASSUME Inv, Next PROVE \A t \in {"T", "R"} : Planned(t)' <= ToEnable
<1>q. Shape /\ Placed /\ Kept /\ Looking /\ Quota
  BY DEF Inv
<1>1. ASSUME Restart PROVE \A t \in {"T", "R"} : Planned(t)' <= ToEnable
  <2> SUFFICES ASSUME NEW t \in {"T", "R"} PROVE Planned(t)' <= ToEnable
    OBVIOUS
  <2>1. worker'[t].pc # "add"
    BY <1>1, <1>q, RestartStep DEF NoWorker
  <2>2. CASE disk = NoSave
    <3>1. mem' = Blank
      BY <1>1, <1>q, <2>2, RestartStep
    <3>2. EnabledOf(mem, t)' = {} /\ mem'.toGo[t] = 0
      BY <3>1 DEF Blank, EnabledOf
    <3>3. QED BY <2>1, <3>2, FS_EmptySet, Amounts DEF Planned
  <2>3. CASE disk # NoSave
    <3>1. mem' = disk
      BY <1>1, <1>q, <2>3, RestartStep
    <3>2. EnabledOf(mem, t)' = EnabledOf(disk, t) /\ mem'.toGo[t] = disk.toGo[t]
      BY <3>1 DEF EnabledOf
    <3>3. Cardinality(EnabledOf(disk, t)) \in Nat /\ disk.toGo[t] \in Nat
      <4>1. disk \in State /\ EnabledOf(disk, t) \in SUBSET AllDevs
        BY <1>q, <2>3, Amounts DEF Shape, EnabledOf
      <4>2. QED BY <4>1, Amounts DEF State
    <3>4. Planned(t)' = Cardinality(EnabledOf(disk, t)) + disk.toGo[t] + 0
      BY <2>1, <3>2 DEF Planned
    <3>5. QED BY <1>q, <2>3, <3>3, <3>4 DEF Quota
  <2>4. QED BY <2>2, <2>3
<1>2. ASSUME NEW t \in {"T", "R"}, WorkerBegins(t) PROVE Planned(t)' <= ToEnable
  <2>1. Planned(t)' = Planned(t) \/ Planned(t)' = ToEnable
    BY <1>2, <1>q, PlannedBegins
  <2>2. QED BY <1>q, <2>1, Amounts DEF Quota
<1>3. ASSUME NEW t \in {"T", "R"}, Planned(t)' = Planned(t) PROVE Planned(t)' <= ToEnable
  BY <1>3, <1>q DEF Quota
<1>4. QED BY <1>1, <1>2, <1>3, PlannedKept DEF PlansKept

(* What is saved is planned for no more than the quota either.             *)
LEMMA QuotaNext ==
    ASSUME Inv, Next PROVE Quota'
<1>q. Shape /\ Placed /\ Kept /\ Looking /\ Quota
  BY DEF Inv
<1>p. \A o \in {"T", "R"} : Planned(o)' <= ToEnable
  BY PlannedNext
<1>1. ASSUME Restart PROVE Quota'
  BY <1>1, <1>q, <1>p, RestartStep DEF Quota, EnabledOf
<1>2. ASSUME main.pc \notin {"gone", "over"}, main.types # <<>>, main.pc = "record", RecordDisabled PROVE Quota'
  BY <1>2, <1>q, <1>p, RecordDisabledStep DEF Quota, EnabledOf, SavingIs
<1>3. ASSUME NEW t \in {"T", "R"}, 
             main.pc \notin {"gone", "over"}, main.types # <<>>, main.pc = "disable", t = Head(main.types), Disable(t) PROVE Quota'
  BY <1>3, <1>q, <1>p, DisableStep DEF Quota, EnabledOf, SavingIs
<1>4. ASSUME NEW t \in {"T", "R"}, 
             main.pc \notin {"gone", "over"}, main.types # <<>>, main.pc = "disable", t = Head(main.types), NoneToDisable(t) PROVE Quota'
  BY <1>4, <1>q, <1>p, NoneToDisableStep DEF Quota, EnabledOf, SavingIs
<1>5. ASSUME NEW t \in {"T", "R"}, 
             main.pc \notin {"gone", "over"}, main.types # <<>>, main.pc = "disable", t = Head(main.types), CountFails(t) PROVE Quota'
  BY <1>5, <1>q, <1>p, CountFailsStep DEF Quota, EnabledOf, SavingIs
<1>6. ASSUME NEW t \in {"T", "R"}, 
             main.pc \notin {"gone", "over"}, main.types # <<>>, main.pc = "disable", t = Head(main.types), DisableFails(t) PROVE Quota'
  BY <1>6, <1>q, <1>p, DisableFailsStep DEF Quota, EnabledOf, SavingIs
<1>7. ASSUME main.pc \notin {"gone", "over"}, FinishDisable PROVE Quota'
  BY <1>7, <1>q, <1>p, FinishDisableStep DEF Quota, EnabledOf, SavingIs
<1>8. ASSUME main.pc \notin {"gone", "over"}, StartWorkers PROVE Quota'
  BY <1>8, <1>q, <1>p, StartWorkersStep DEF Quota, EnabledOf, SavingIs
<1>9. ASSUME main.pc \notin {"gone", "over"}, EnableInDb PROVE Quota'
  BY <1>9, <1>q, <1>p, EnableInDbStep DEF Quota, EnabledOf, SavingIs
<1>10. ASSUME main.pc \notin {"gone", "over"}, EnableFails PROVE Quota'
  BY <1>10, <1>q, <1>p, EnableFailsStep DEF Quota, EnabledOf, SavingIs
<1>11. ASSUME main.pc \notin {"gone", "over"}, FinishEnable PROVE Quota'
  BY <1>11, <1>q, <1>p, FinishEnableStep DEF Quota, EnabledOf, SavingIs
<1>12. ASSUME main.pc \notin {"gone", "over"}, Crash PROVE Quota'
  BY <1>12, <1>q, <1>p, CrashStep DEF Quota, EnabledOf, SavingIs
<1>13. ASSUME NEW t \in {"T", "R"}, main.pc \notin {"gone", "over"}, WorkerBegins(t) PROVE Quota'
  BY <1>13, <1>q, <1>p, WorkerBeginsStep DEF Quota, EnabledOf, SavingIs
<1>14. ASSUME NEW t \in {"T", "R"}, main.pc \notin {"gone", "over"}, Sample(t) PROVE Quota'
  BY <1>14, <1>q, <1>p, SampleStep DEF Quota, EnabledOf, SavingIs
<1>15. ASSUME NEW t \in {"T", "R"}, main.pc \notin {"gone", "over"}, Reduce(t) PROVE Quota'
  BY <1>15, <1>q, <1>p, ReduceStep DEF Quota, EnabledOf, SavingIs
<1>16. ASSUME NEW t \in {"T", "R"}, main.pc \notin {"gone", "over"}, Add(t) PROVE Quota'
  BY <1>16, <1>q, <1>p, AddStep DEF Quota, EnabledOf, SavingIs
<1>17. ASSUME NEW t \in {"T", "R"}, main.pc \notin {"gone", "over"}, Added(t) PROVE Quota'
  BY <1>17, <1>q, <1>p, AddedStep DEF Quota, EnabledOf, SavingIs
<1>18. ASSUME NEW t \in {"T", "R"}, main.pc \notin {"gone", "over"}, WorkerEnds(t) PROVE Quota'
  BY <1>18, <1>q, <1>p, WorkerEndsStep DEF Quota, EnabledOf, SavingIs
<1>19. ASSUME NEW t \in {"T", "R"}, main.pc \notin {"gone", "over"}, SampleFails(t) PROVE Quota'
  BY <1>19, <1>q, <1>p, SampleFailsStep DEF Quota, EnabledOf, SavingIs
<1>20. ASSUME NEW t \in {"T", "R"}, main.pc \notin {"gone", "over"}, Receive(t) PROVE Quota'
  BY <1>20, <1>q, <1>p, ReceiveStep DEF Quota, EnabledOf, SavingIs
<1>21. ASSUME NEW s \in Savers, main.pc \notin {"gone", "over"}, StartSave(s) PROVE Quota'
  <2>1. PICK r \in Record : r.copy = mem /\ SavingIs(s, r)
    BY <1>21, <1>q, StartSaveStep
  <2>2. \A t \in {"T", "R"} : Cardinality(EnabledOf(r.copy, t)) + r.copy.toGo[t] <= ToEnable
    <3> SUFFICES ASSUME NEW t \in {"T", "R"} PROVE Cardinality(EnabledOf(mem, t)) + mem.toGo[t] <= ToEnable
      BY <2>1
    <3>1. Planned(t) <= ToEnable
      BY <1>q DEF Quota
    <3>2. QED BY <1>q, <3>1, Counts, Amounts
  <2>3. disk' = NoSave
    BY <1>21, <1>q, StartSaveStep
  <2>4. QED BY <1>q, <1>p, <2>1, <2>2, <2>3 DEF Quota, EnabledOf, SavingIs
<1>22. ASSUME NEW s \in Savers, main.pc \notin {"gone", "over"}, ReadToGo(s) PROVE Quota'
  <2>1. PICK r \in Record : SavingIs(s, r) /\ r.copy.toGo = mem.toGo /\ r.copy.enabled = saving[s].copy.enabled
    BY <1>22, <1>q, ReadToGoStep
  <2>2. \A t \in {"T", "R"} : Cardinality(EnabledOf(r.copy, t)) + r.copy.toGo[t] <= ToEnable
    <3> SUFFICES ASSUME NEW t \in {"T", "R"} PROVE Cardinality(EnabledOf(r.copy, t)) + mem.toGo[t] <= ToEnable
      BY <2>1
    <3>1. saving[s].copy.enabled \subseteq mem.enabled /\ mem.enabled \subseteq AllDevs
      BY <1>22, <1>q, ReadToGoStep, Typed DEF Kept
    <3>2. /\ EnabledOf(mem, t) \in SUBSET AllDevs /\ EnabledOf(r.copy, t) \in SUBSET AllDevs
          /\ EnabledOf(r.copy, t) \subseteq EnabledOf(mem, t)
      BY <2>1, <3>1 DEF EnabledOf
    <3>3. Cardinality(EnabledOf(r.copy, t)) <= Cardinality(EnabledOf(mem, t))
      BY <3>2, Amounts, FS_Subset
    <3>4. Cardinality(EnabledOf(r.copy, t)) \in Nat
      BY <3>2, Amounts
    <3>5. Planned(t) <= ToEnable
      BY <1>q DEF Quota
    <3>6. QED BY <1>q, <3>3, <3>4, <3>5, Counts, Amounts
  <2>3. UNCHANGED disk
    BY <1>22, <1>q, ReadToGoStep
  <2>4. QED BY <1>q, <1>p, <2>1, <2>2, <2>3 DEF Quota, EnabledOf, SavingIs
<1>23. ASSUME NEW s \in Savers, main.pc \notin {"gone", "over"}, Write(s) PROVE Quota'
  BY <1>23, <1>q, <1>p, WriteStep DEF Quota, EnabledOf, SavingIs, WentOn, AfterPc, SavingIs
<1>24. ASSUME NEW s \in Savers, main.pc \notin {"gone", "over"}, SaveFails(s) PROVE Quota'
  BY <1>24, <1>q, <1>p, SaveFailsStep DEF Quota, EnabledOf, SavingIs, GaveUp, ErrorPc, SavingIs
<1>25. QED
  BY <1>q, <1>1, <1>2, <1>3, <1>4, <1>5, <1>6, <1>7, <1>8, <1>9, <1>10, <1>11, <1>12, <1>13, <1>14, <1>15, <1>16, <1>17, <1>18, <1>19, <1>20, <1>21, <1>22, <1>23, <1>24, Steps

LEMMA ApartNext ==
    ASSUME Inv, Next PROVE Apart'
<1>q. Shape /\ Placed /\ Kept /\ Looking /\ Apart
  BY DEF Inv
<1>1. ASSUME Restart PROVE Apart'
  <2>1. CASE disk = NoSave
    <3>1. Down' = {} /\ UNCHANGED <<disabled, disk>>
      BY <1>1, <1>q, <2>1, RestartStep DEF InitHist, Down
    <3>2. QED BY <1>1, <1>q, <3>1, <2>1, RestartStep DEF Apart
  <2>2. CASE disk # NoSave
    <3>1. /\ UNCHANGED <<disabled, disk>> /\ mem' = disk /\ hist'.down = hist.down
          /\ hist'.lost = hist.lost \cup (hist.down \ disk.disabled)
      BY <1>1, <1>q, <2>2, RestartStep DEF HistKept
    <3>2. Down' \subseteq Down /\ Down' \subseteq disk.disabled
      BY <3>1 DEF Down
    <3>3. /\ \A s \in Savers : saving'[s] = NoSave
          /\ \A t \in {"T", "R"} : worker'[t].found = {}
      BY <1>1, <1>q, RestartStep DEF NoWorker
    <3> HIDE DEF Down
    <3>4. QED BY <1>q, <2>2, <3>1, <3>2, <3>3 DEF Apart
  <2>3. QED BY <2>1, <2>2
<1>2. ASSUME main.pc \notin {"gone", "over"}, main.types # <<>>, main.pc = "record", RecordDisabled PROVE Apart'
  BY <1>2, <1>q, RecordDisabledStep DEF Placed, Apart, Down, MainIs, MemIs, WorkerIs, HistKept
<1>3. ASSUME NEW t \in {"T", "R"}, 
             main.pc \notin {"gone", "over"}, main.types # <<>>, main.pc = "disable", t = Head(main.types), Disable(t) PROVE Apart'
  <2>1. /\ UNCHANGED <<mem, disk, saving, worker>> /\ MainIs("record", main.types, Worst(t))
        /\ disabled' = disabled \cup Worst(t) /\ hist'.down = hist.down \cup Worst(t) /\ hist'.lost = hist.lost
    BY <1>3, <1>q, DisableStep DEF HistKept
  <2>2. Down' \subseteq Down \cup Worst(t)
    BY <2>1 DEF Down
  <2>3. mem.phase = "Disable" /\ mem.enabled = {} /\ \A o \in {"T", "R"} : worker[o].found = {}
    BY <1>3, <1>q DEF Placed, NoWorker
  <2>4. /\ disk # NoSave => disk.enabled = {}
        /\ \A s \in Savers : saving[s] # NoSave => saving[s].copy.enabled = {}
    BY <1>q, <2>3 DEF Kept
  <2>5. main.rows = {}
    BY <1>3, <1>q DEF Placed
  <2> HIDE DEF Down
  <2>6. QED BY <1>3, <1>q, <2>1, <2>2, <2>3, <2>4, <2>5 DEF Apart, MainIs
<1>4. ASSUME NEW t \in {"T", "R"}, 
             main.pc \notin {"gone", "over"}, main.types # <<>>, main.pc = "disable", t = Head(main.types), NoneToDisable(t) PROVE Apart'
  BY <1>4, <1>q, NoneToDisableStep DEF Placed, Apart, Down, MainIs, MemIs, WorkerIs, HistKept
<1>5. ASSUME NEW t \in {"T", "R"}, 
             main.pc \notin {"gone", "over"}, main.types # <<>>, main.pc = "disable", t = Head(main.types), CountFails(t) PROVE Apart'
  BY <1>5, <1>q, CountFailsStep DEF Placed, Apart, Down, MainIs, MemIs, WorkerIs, HistKept
<1>6. ASSUME NEW t \in {"T", "R"}, 
             main.pc \notin {"gone", "over"}, main.types # <<>>, main.pc = "disable", t = Head(main.types), DisableFails(t) PROVE Apart'
  BY <1>6, <1>q, DisableFailsStep DEF Placed, Apart, Down, MainIs, MemIs, WorkerIs, HistKept
<1>7. ASSUME main.pc \notin {"gone", "over"}, FinishDisable PROVE Apart'
  BY <1>7, <1>q, FinishDisableStep DEF Placed, Apart, Down, MainIs, MemIs, WorkerIs, HistKept
<1>8. ASSUME main.pc \notin {"gone", "over"}, StartWorkers PROVE Apart'
  BY <1>8, <1>q, StartWorkersStep DEF Placed, Apart, Down, MainIs, MemIs, WorkerIs, HistKept, NoWorker
<1>9. ASSUME main.pc \notin {"gone", "over"}, EnableInDb PROVE Apart'
  BY <1>9, <1>q, EnableInDbStep DEF Placed, Apart, Down, MainIs, MemIs, WorkerIs, HistKept
<1>10. ASSUME main.pc \notin {"gone", "over"}, EnableFails PROVE Apart'
  BY <1>10, <1>q, EnableFailsStep DEF Placed, Apart, Down, MainIs, MemIs, WorkerIs, HistKept
<1>11. ASSUME main.pc \notin {"gone", "over"}, FinishEnable PROVE Apart'
  BY <1>11, <1>q, FinishEnableStep DEF Placed, Apart, Down, MainIs, MemIs, WorkerIs, HistKept
<1>12. ASSUME main.pc \notin {"gone", "over"}, Crash PROVE Apart'
  BY <1>12, <1>q, CrashStep DEF Placed, Apart, Down, MainIs, MemIs, WorkerIs, HistKept
<1>13. ASSUME NEW t \in {"T", "R"}, main.pc \notin {"gone", "over"}, WorkerBegins(t) PROVE Apart'
  BY <1>13, <1>q, WorkerBeginsStep DEF Placed, Apart, Down, MainIs, MemIs, WorkerIs, HistKept
<1>14. ASSUME NEW t \in {"T", "R"}, main.pc \notin {"gone", "over"}, Sample(t) PROVE Apart'
  <2>1. PICK found \in SUBSET (Page(t) \ mem.enabled) :
             WorkerIs(t, "reduce", worker[t].toGo, worker[t].offset + 2 * worker[t].toGo, found)
    BY <1>14, <1>q, SampleStep
  <2>2. /\ UNCHANGED <<disabled, mem, disk, saving, main>> /\ Down' = Down /\ worker[t].pc = "sample"
    BY <1>14, <1>q, SampleStep DEF HistKept, Down
  <2>3. main.rows = {}
    BY <1>14, <1>q, <2>2 DEF Placed, NoWorker
  <2>4. found \cap mem.disabled = {}
    BY <2>1, CandidateRows
  <2>5. found \cap Down = {}
    BY <1>14, <1>q, <2>3, <2>4 DEF Apart
  <2> HIDE DEF Down
  <2>6. QED BY <1>q, <2>1, <2>2, <2>5 DEF Apart, WorkerIs
<1>15. ASSUME NEW t \in {"T", "R"}, main.pc \notin {"gone", "over"}, Reduce(t) PROVE Apart'
  BY <1>15, <1>q, ReduceStep DEF Placed, Apart, Down, MainIs, MemIs, WorkerIs, HistKept
<1>16. ASSUME NEW t \in {"T", "R"}, main.pc \notin {"gone", "over"}, Add(t) PROVE Apart'
  BY <1>16, <1>q, AddStep DEF Placed, Apart, Down, MainIs, MemIs, WorkerIs, HistKept
<1>17. ASSUME NEW t \in {"T", "R"}, main.pc \notin {"gone", "over"}, Added(t) PROVE Apart'
  BY <1>17, <1>q, AddedStep DEF Placed, Apart, Down, MainIs, MemIs, WorkerIs, HistKept
<1>18. ASSUME NEW t \in {"T", "R"}, main.pc \notin {"gone", "over"}, WorkerEnds(t) PROVE Apart'
  BY <1>18, <1>q, WorkerEndsStep DEF Placed, Apart, Down, MainIs, MemIs, WorkerIs, HistKept
<1>19. ASSUME NEW t \in {"T", "R"}, main.pc \notin {"gone", "over"}, SampleFails(t) PROVE Apart'
  BY <1>19, <1>q, SampleFailsStep DEF Placed, Apart, Down, MainIs, MemIs, WorkerIs, HistKept
<1>20. ASSUME NEW t \in {"T", "R"}, main.pc \notin {"gone", "over"}, Receive(t) PROVE Apart'
  BY <1>20, <1>q, ReceiveStep DEF Placed, Apart, Down, MainIs, MemIs, WorkerIs, HistKept
<1>21. ASSUME NEW s \in Savers, main.pc \notin {"gone", "over"}, StartSave(s) PROVE Apart'
  BY <1>21, <1>q, StartSaveStep DEF Placed, Apart, Down, MainIs, MemIs, WorkerIs, HistKept, WentOn, AfterPc, SavingIs
<1>22. ASSUME NEW s \in Savers, main.pc \notin {"gone", "over"}, ReadToGo(s) PROVE Apart'
  BY <1>22, <1>q, ReadToGoStep DEF Placed, Apart, Down, MainIs, MemIs, WorkerIs, HistKept, WentOn, AfterPc, SavingIs
<1>23. ASSUME NEW s \in Savers, main.pc \notin {"gone", "over"}, Write(s) PROVE Apart'
  BY <1>23, <1>q, WriteStep DEF Placed, Apart, Down, MainIs, MemIs, WorkerIs, HistKept, WentOn, AfterPc, SavingIs
<1>24. ASSUME NEW s \in Savers, main.pc \notin {"gone", "over"}, SaveFails(s) PROVE Apart'
  BY <1>24, <1>q, SaveFailsStep DEF Placed, Apart, Down, MainIs, MemIs, WorkerIs, HistKept, GaveUp, ErrorPc, SavingIs
<1>25. QED
  BY <1>q, <1>1, <1>2, <1>3, <1>4, <1>5, <1>6, <1>7, <1>8, <1>9, <1>10, <1>11, <1>12, <1>13, <1>14, <1>15, <1>16, <1>17, <1>18, <1>19, <1>20, <1>21, <1>22, <1>23, <1>24, Steps

LEMMA SavedNext ==
    ASSUME Inv, Next PROVE Saved'
<1>q. Shape /\ Placed /\ Kept /\ Looking /\ Saved
  BY DEF Inv
<1>1. ASSUME Restart PROVE Saved'
  BY <1>1, <1>q, RestartStep DEF Saved, EnabledOf, MainIs, MemIs, WorkerIs, HistKept
<1>2. ASSUME main.pc \notin {"gone", "over"}, main.types # <<>>, main.pc = "record", RecordDisabled PROVE Saved'
  BY <1>2, <1>q, RecordDisabledStep DEF Saved, EnabledOf, MainIs, MemIs, WorkerIs, HistKept
<1>3. ASSUME NEW t \in {"T", "R"}, 
             main.pc \notin {"gone", "over"}, main.types # <<>>, main.pc = "disable", t = Head(main.types), Disable(t) PROVE Saved'
  BY <1>3, <1>q, DisableStep DEF Saved, EnabledOf, MainIs, MemIs, WorkerIs, HistKept
<1>4. ASSUME NEW t \in {"T", "R"}, 
             main.pc \notin {"gone", "over"}, main.types # <<>>, main.pc = "disable", t = Head(main.types), NoneToDisable(t) PROVE Saved'
  BY <1>4, <1>q, NoneToDisableStep DEF Saved, EnabledOf, MainIs, MemIs, WorkerIs, HistKept
<1>5. ASSUME NEW t \in {"T", "R"}, 
             main.pc \notin {"gone", "over"}, main.types # <<>>, main.pc = "disable", t = Head(main.types), CountFails(t) PROVE Saved'
  BY <1>5, <1>q, CountFailsStep DEF Saved, EnabledOf, MainIs, MemIs, WorkerIs, HistKept
<1>6. ASSUME NEW t \in {"T", "R"}, 
             main.pc \notin {"gone", "over"}, main.types # <<>>, main.pc = "disable", t = Head(main.types), DisableFails(t) PROVE Saved'
  BY <1>6, <1>q, DisableFailsStep DEF Saved, EnabledOf, MainIs, MemIs, WorkerIs, HistKept
<1>7. ASSUME main.pc \notin {"gone", "over"}, FinishDisable PROVE Saved'
  BY <1>7, <1>q, FinishDisableStep DEF Saved, EnabledOf, MainIs, MemIs, WorkerIs, HistKept
<1>8. ASSUME main.pc \notin {"gone", "over"}, StartWorkers PROVE Saved'
  BY <1>8, <1>q, StartWorkersStep DEF Saved, EnabledOf, MainIs, MemIs, WorkerIs, HistKept, NoWorker, Placed
<1>9. ASSUME main.pc \notin {"gone", "over"}, EnableInDb PROVE Saved'
  BY <1>9, <1>q, EnableInDbStep DEF Saved, EnabledOf, MainIs, MemIs, WorkerIs, HistKept
<1>10. ASSUME main.pc \notin {"gone", "over"}, EnableFails PROVE Saved'
  BY <1>10, <1>q, EnableFailsStep DEF Saved, EnabledOf, MainIs, MemIs, WorkerIs, HistKept
<1>11. ASSUME main.pc \notin {"gone", "over"}, FinishEnable PROVE Saved'
  BY <1>11, <1>q, FinishEnableStep DEF Saved, EnabledOf, MainIs, MemIs, WorkerIs, HistKept
<1>12. ASSUME main.pc \notin {"gone", "over"}, Crash PROVE Saved'
  BY <1>12, <1>q, CrashStep DEF Saved, EnabledOf, MainIs, MemIs, WorkerIs, HistKept
<1>13. ASSUME NEW t \in {"T", "R"}, main.pc \notin {"gone", "over"}, WorkerBegins(t) PROVE Saved'
  BY <1>13, <1>q, WorkerBeginsStep DEF Saved, EnabledOf, MainIs, MemIs, WorkerIs, HistKept
<1>14. ASSUME NEW t \in {"T", "R"}, main.pc \notin {"gone", "over"}, Sample(t) PROVE Saved'
  <2>1. /\ worker[t].pc = "sample" /\ worker'[t].pc = "reduce"
        /\ \A o \in {"T", "R"} \ {t} : worker'[o] = worker[o]
        /\ UNCHANGED <<disk, mem, saving, main>> /\ hist'.stale = hist.stale
    BY <1>14, <1>q, SampleStep DEF WorkerIs, HistKept
  <2>2. QED BY <2>1, <1>q DEF Saved, EnabledOf
<1>15. ASSUME NEW t \in {"T", "R"}, main.pc \notin {"gone", "over"}, Reduce(t) PROVE Saved'
  BY <1>15, <1>q, ReduceStep DEF Saved, EnabledOf, MainIs, MemIs, WorkerIs, HistKept
<1>16. ASSUME NEW t \in {"T", "R"}, main.pc \notin {"gone", "over"}, Add(t) PROVE Saved'
  <2>1. PICK d \in worker[t].found :
             /\ MemIs(mem.phase, mem.disabled, mem.enabled \cup {d})
             /\ WorkerIs(t, "add", worker[t].toGo, worker[t].offset, worker[t].found \ {d})
    BY <1>16, <1>q, AddStep
  <2>2. UNCHANGED <<disk, saving, main, hist>> /\ worker[t].pc = "add"
    BY <1>16, <1>q, AddStep
  <2>3. \A o \in {"T", "R"} \ {t} : EnabledOf(mem, o)' = EnabledOf(mem, o)
    <3>1. d \in Devs[t]
      BY <1>q, <2>1 DEF Looking
    <3>2. QED BY <2>1, <3>1, Amounts DEF EnabledOf, MemIs
  <2>4. saving[t] = NoSave
    BY <1>q, <2>2 DEF Kept, Saves, Savers
  <2> HIDE DEF EnabledOf
  <2>5. ~hist'.stale => /\ disk' # NoSave => \A o \in {"T", "R"} :
                             worker'[o].pc \notin {"add", "save"} => EnabledOf(mem, o)' \subseteq disk.enabled
    BY <1>q, <2>1, <2>2, <2>3 DEF Saved, WorkerIs
  <2>6. ASSUME ~hist'.stale, NEW s \in Savers, saving'[s] # NoSave
        PROVE  /\ disk' = NoSave
               /\ \A o \in Savers \ {s} : saving'[o] = NoSave
               /\ \A o \in {"T", "R"} :
                    worker'[o].pc \notin {"add", "save"} \/ o = s => EnabledOf(mem, o)' \subseteq saving[s].copy.enabled
    BY <1>q, <2>1, <2>2, <2>3, <2>4, <2>6 DEF Saved, WorkerIs
  <2>7. QED BY <2>2, <2>5, <2>6 DEF Saved, EnabledOf
<1>17. ASSUME NEW t \in {"T", "R"}, main.pc \notin {"gone", "over"}, Added(t) PROVE Saved'
  BY <1>17, <1>q, AddedStep DEF Saved, EnabledOf, MainIs, MemIs, WorkerIs, HistKept
<1>18. ASSUME NEW t \in {"T", "R"}, main.pc \notin {"gone", "over"}, WorkerEnds(t) PROVE Saved'
  BY <1>18, <1>q, WorkerEndsStep DEF Saved, EnabledOf, MainIs, MemIs, WorkerIs, HistKept
<1>19. ASSUME NEW t \in {"T", "R"}, main.pc \notin {"gone", "over"}, SampleFails(t) PROVE Saved'
  BY <1>19, <1>q, SampleFailsStep DEF Saved, EnabledOf, MainIs, MemIs, WorkerIs, HistKept
<1>20. ASSUME NEW t \in {"T", "R"}, main.pc \notin {"gone", "over"}, Receive(t) PROVE Saved'
  BY <1>20, <1>q, ReceiveStep DEF Saved, EnabledOf, MainIs, MemIs, WorkerIs, HistKept
<1>21. ASSUME NEW s \in Savers, main.pc \notin {"gone", "over"}, StartSave(s) PROVE Saved'
  <2>1. PICK r \in Record : r.copy = mem /\ SavingIs(s, r)
    BY <1>21, <1>q, StartSaveStep
  <2>2. /\ UNCHANGED <<mem, worker>> /\ disk' = NoSave
        /\ ~hist'.stale => ~hist.stale /\ \A o \in Savers \ {s} : saving[o] = NoSave
    BY <1>21, <1>q, StartSaveStep
  <2>3. QED BY <2>1, <2>2 DEF Saved, SavingIs, EnabledOf
<1>22. ASSUME NEW s \in Savers, main.pc \notin {"gone", "over"}, ReadToGo(s) PROVE Saved'
  <2>1. PICK r \in Record : SavingIs(s, r) /\ r.copy.enabled = saving[s].copy.enabled
    BY <1>22, <1>q, ReadToGoStep
  <2>2. /\ UNCHANGED <<mem, disk, worker, hist>> /\ saving[s] # NoSave
    BY <1>22, <1>q, ReadToGoStep
  <2>3. QED BY <1>q, <2>1, <2>2 DEF Saved, SavingIs, EnabledOf
<1>23. ASSUME NEW s \in Savers, main.pc \notin {"gone", "over"}, Write(s) PROVE Saved'
  <2>1. saving[s] # NoSave /\ disk' = saving[s].copy /\ SavingIs(s, NoSave) /\ WentOn(s) /\ UNCHANGED <<mem, hist>>
    BY <1>23, <1>q, WriteStep
  <2>2. \A o \in {"T", "R"} \ {s} : worker'[o].pc = worker[o].pc
    BY <2>1 DEF WentOn, WorkerIs
  <2>3. ~hist.stale => /\ \A o \in Savers : saving'[o] = NoSave
                       /\ \A o \in {"T", "R"} : worker'[o].pc \notin {"add", "save"} =>
                            EnabledOf(mem, o) \subseteq saving[s].copy.enabled
    BY <1>q, <2>1, <2>2 DEF Saved, SavingIs
  <2>4. QED BY <2>1, <2>3 DEF Saved, EnabledOf
<1>24. ASSUME NEW s \in Savers, main.pc \notin {"gone", "over"}, SaveFails(s) PROVE Saved'
  <2>1. /\ SavingIs(s, NoSave) /\ UNCHANGED <<mem, disk>>
        /\ ~hist'.stale => ~hist.stale /\ disk = NoSave /\ \A o \in Savers \ {s} : saving[o] = NoSave
    BY <1>24, <1>q, SaveFailsStep
  <2>2. QED BY <2>1 DEF Saved, SavingIs
<1>25. QED
  BY <1>q, <1>1, <1>2, <1>3, <1>4, <1>5, <1>6, <1>7, <1>8, <1>9, <1>10, <1>11, <1>12, <1>13, <1>14, <1>15, <1>16, <1>17, <1>18, <1>19, <1>20, <1>21, <1>22, <1>23, <1>24, Steps

LEMMA AllowedType ==
    ASSUME NEW down, NEW t \in {"T", "R"}
    PROVE  /\ Allowed(down, t) \in Nat /\ KeepEnabled <= Allowed(down, t)
           /\ Cardinality((Devs[t] \ down) \ Range(Ranking)) <= Allowed(down, t)
           /\ Cardinality((Devs[t] \ down) \ Range(Ranking)) \in Nat
<1> DEFINE u == Cardinality((Devs[t] \ down) \ Range(Ranking))
<1>1. u \in Nat /\ KeepEnabled \in Nat
  <2>1. (Devs[t] \ down) \ Range(Ranking) \in SUBSET AllDevs
    BY Amounts
  <2>2. QED BY <2>1, Amounts
<1>2. Allowed(down, t) = IF u > KeepEnabled THEN u ELSE KeepEnabled
  BY DEF Allowed
<1> HIDE DEF u
<1>3. Allowed(down, t) \in Nat /\ KeepEnabled <= Allowed(down, t) /\ u <= Allowed(down, t)
  BY <1>1, <1>2
<1>4. QED BY <1>1, <1>3 DEF u

(* The UPDATE of Disable leaves as many enabled as it is to, or those it   *)
(* cannot rank.                                                            *)
LEMMA FewDisables ==
    ASSUME NEW t \in {"T", "R"}, Cardinality(EnabledInDb(t)) > KeepEnabled
    PROVE  Few(disabled \cup Worst(t), {}, t)
<1> DEFINE E == EnabledInDb(t)
           W == Worst(t)
           n == Cardinality(E) - KeepEnabled
<1>1. E \in SUBSET AllDevs /\ W \in SUBSET E
  BY WorstRows, Amounts DEF EnabledInDb
<1>2. IsFiniteSet(E) /\ Cardinality(E) \in Nat /\ IsFiniteSet(W) /\ Cardinality(W) \in Nat /\ E \ W \in SUBSET AllDevs
  <2> HIDE DEF E, W
  <2>1. W \in SUBSET AllDevs
    BY <1>1
  <2>2. QED BY <1>1, <2>1, Amounts
<1>3. n \in Nat /\ n + KeepEnabled = Cardinality(E)
  <2>1. Cardinality(E) > KeepEnabled /\ KeepEnabled \in Nat
    BY Amounts
  <2> HIDE DEF E
  <2>2. QED BY <1>2, <2>1
<1>4. W = FirstOf(n, E, Ranking)
  BY DEF Worst
<1>5. Cardinality(W) = n \/ W = E \cap Range(Ranking)
  <2> HIDE DEF E, W, n
  <2>1. QED BY <1>3, <1>4, FirstFull, Rankings
<1>6. (Devs[t] \ (disabled \cup W)) \ {} = E \ W
  BY DEF EnabledInDb
<1>7. CASE Cardinality(W) = n
  <2> HIDE DEF E, W, n
  <2>1. Cardinality(E \ W) = Cardinality(E) - Cardinality(E \cap W)
    BY <1>2, FS_Difference
  <2>2. E \cap W = W
    BY <1>1
  <2>3. Cardinality(E \ W) = Cardinality(E) - Cardinality(W)
    BY <2>1, <2>2, Zenon
  <2>4. Cardinality(E \ W) = KeepEnabled
    BY <1>2, <1>3, <1>7, <2>3, Amounts
  <2>5. Cardinality((Devs[t] \ (disabled \cup W)) \ {}) = KeepEnabled
    BY <1>6, <2>4, Zenon
  <2>6. QED BY <2>5, AllowedType DEF Few, W
<1>8. CASE W = E \cap Range(Ranking)
  <2>1. (Devs[t] \ (disabled \cup W)) \ {} = (Devs[t] \ (disabled \cup W)) \ Range(Ranking)
    <3>1. E \ W = E \ Range(Ranking)
      BY <1>8
    <3>2. (Devs[t] \ (disabled \cup W)) \ Range(Ranking) = (E \ W) \ Range(Ranking)
      BY DEF EnabledInDb
    <3> HIDE DEF E, W
    <3>3. (E \ W) \ Range(Ranking) = E \ W
      BY <3>1
    <3>4. QED BY <1>6, <3>2, <3>3, Zenon
  <2>2. Cardinality((Devs[t] \ (disabled \cup W)) \ Range(Ranking)) <= Allowed(disabled \cup W, t)
    BY AllowedType
  <2> HIDE DEF W
  <2>3. Cardinality((Devs[t] \ (disabled \cup W)) \ {}) <= Allowed(disabled \cup W, t)
    BY <2>1, <2>2, Zenon
  <2>4. QED BY <2>3 DEF Few, W
<1>9. QED BY <1>5, <1>7, <1>8

LEMMA FewOther ==
    ASSUME NEW t \in {"T", "R"}, NEW down, NEW more, NEW enabled, more \cap Devs[t] = {}, Few(down, enabled, t)
    PROVE  Few(down \cup more, enabled, t)
<1>1. Devs[t] \ (down \cup more) = Devs[t] \ down
  OBVIOUS
<1>2. QED BY <1>1, Zenon DEF Few, Allowed

LEMMA FewSmaller ==
    ASSUME NEW t \in {"T", "R"}, NEW down, NEW a, NEW b, a \subseteq b, Few(down, a, t)
    PROVE  Few(down, b, t)
<1> DEFINE A == (Devs[t] \ down) \ a
           B == (Devs[t] \ down) \ b
<1>1. A \in SUBSET AllDevs /\ B \in SUBSET AllDevs /\ B \subseteq A
  BY Amounts
<1>2. Cardinality(A) <= Allowed(down, t)
  BY DEF Few
<1> HIDE DEF A, B
<1>3. Cardinality(B) <= Cardinality(A) /\ Cardinality(A) \in Nat /\ Cardinality(B) \in Nat
  BY <1>1, Amounts, FS_Subset
<1>4. Cardinality(B) <= Allowed(down, t)
  <2>1. Allowed(down, t) \in Nat
    BY AllowedType
  <2>2. QED BY <1>2, <1>3, <2>1
<1>5. QED BY <1>4 DEF Few, B

(* Enabling those that are listed changes nothing but what is allowed.     *)
LEMMA FewEnabled ==
    ASSUME NEW t \in {"T", "R"}, NEW down, NEW listed, NEW enabled, listed \cap Devs[t] \subseteq enabled,
           Few(down, enabled, t)
    PROVE  Few(down \ listed, enabled, t)
<1>1. (Devs[t] \ (down \ listed)) \ enabled = (Devs[t] \ down) \ enabled
  OBVIOUS
<1>2. Cardinality((Devs[t] \ down) \ enabled) <= Allowed(down, t)
  BY DEF Few
<1> DEFINE A == (Devs[t] \ down) \ Range(Ranking)
           B == (Devs[t] \ (down \ listed)) \ Range(Ranking)
<1>3. A \in SUBSET AllDevs /\ B \in SUBSET AllDevs /\ A \subseteq B
  BY Amounts
<1>4. /\ Allowed(down, t) = IF Cardinality(A) > KeepEnabled THEN Cardinality(A) ELSE KeepEnabled
      /\ Allowed(down \ listed, t) = IF Cardinality(B) > KeepEnabled THEN Cardinality(B) ELSE KeepEnabled
  BY DEF Allowed
<1> HIDE DEF A, B
<1>5. Cardinality(A) <= Cardinality(B) /\ Cardinality(A) \in Nat /\ Cardinality(B) \in Nat
  BY <1>3, Amounts, FS_Subset
<1>6. Allowed(down, t) <= Allowed(down \ listed, t)
  BY <1>4, <1>5, Amounts
<1> DEFINE c == Cardinality((Devs[t] \ down) \ enabled)
<1>7. c \in Nat
  <2>1. (Devs[t] \ down) \ enabled \in SUBSET AllDevs
    BY Amounts
  <2>2. QED BY <2>1, Amounts
<1>8. c <= Allowed(down \ listed, t)
  <2>1. Allowed(down, t) \in Nat /\ Allowed(down \ listed, t) \in Nat /\ c <= Allowed(down, t)
    BY <1>2, AllowedType
  <2> HIDE DEF c
  <2>2. QED BY <1>6, <1>7, <2>1
<1>9. Cardinality((Devs[t] \ (down \ listed)) \ enabled) <= Allowed(down \ listed, t)
  BY <1>1, <1>8, Zenon
<1>10. QED BY <1>9 DEF Few


LEMMA BoundedNext ==
    ASSUME Inv, Next PROVE Bounded'
<1>q. Shape /\ Placed /\ Kept /\ Looking /\ Saved /\ Bounded
  BY DEF Inv
<1>1. ASSUME Restart PROVE Bounded'
  <2>1. /\ UNCHANGED <<disabled, disk>> /\ main'.types = Types /\ main'.pc # "record"
        /\ \A s \in Savers : saving'[s] = NoSave
    BY <1>1, <1>q, RestartStep DEF MainIs
  <2>2. \A o \in {"T", "R"} : o \in Range(ToCount')
    BY <2>1, TypesAll DEF ToCount
  <2>3. CASE disk = NoSave
    <3>1. mem'.phase = "Disable"
      BY <1>1, <1>q, <2>3, RestartStep DEF Blank
    <3> HIDE DEF ToCount
    <3>2. QED BY <2>1, <2>2, <2>3, <3>1 DEF Bounded
  <2>4. CASE disk # NoSave
    <3>1. mem' = disk /\ hist'.skipped = hist.skipped /\ hist'.stale = hist.stale
      BY <1>1, <1>q, <2>4, RestartStep DEF HistKept
    <3> HIDE DEF ToCount
    <3>2. QED BY <1>q, <2>1, <2>2, <2>4, <3>1 DEF Bounded
  <2>5. QED BY <2>3, <2>4
<1>2. ASSUME main.pc \notin {"gone", "over"}, main.types # <<>>, main.pc = "record", RecordDisabled PROVE Bounded'
  <2>1. /\ MainIs("disable", Tail(main.types), {}) /\ UNCHANGED <<disabled, disk, saving, hist>>
        /\ mem'.phase = mem.phase /\ mem'.enabled = mem.enabled
    BY <1>2, <1>q, RecordDisabledStep DEF MemIs
  <2>2. ToCount' = ToCount
    BY <1>2, <2>1 DEF ToCount, MainIs
  <2> HIDE DEF ToCount
  <2>3. QED BY <1>2, <1>q, <2>1, <2>2 DEF Bounded, MainIs
<1>3. ASSUME NEW t \in {"T", "R"}, 
             main.pc \notin {"gone", "over"}, main.types # <<>>, main.pc = "disable", t = Head(main.types), Disable(t) PROVE Bounded'
  <2>1. /\ UNCHANGED <<mem, disk, saving>> /\ MainIs("record", main.types, Worst(t))
        /\ disabled' = disabled \cup Worst(t) /\ hist'.skipped = hist.skipped /\ hist'.stale = hist.stale
        /\ Cardinality(EnabledInDb(t)) > KeepEnabled
    BY <1>3, <1>q, DisableStep DEF HistKept
  <2>2. /\ mem.phase = "Disable" /\ main.types \in {<<>>, <<"R">>, <<"T", "R">>}
        /\ disk # NoSave => disk.phase = "Disable"
        /\ \A s \in Savers : saving[s] # NoSave => saving[s].copy.phase = "Disable"
    BY <1>3, <1>q, Typed DEF Placed, Kept, Mains
  <2>3. ASSUME ~hist.stale, NEW o \in {"T", "R"} \ hist.skipped, o \notin Range(Tail(main.types))
        PROVE  Few(disabled', {}, o)
    <3>1. CASE o = t
      BY <2>1, <3>1, FewDisables
    <3>2. CASE o # t
      <4>1. o \notin Range(main.types)
        BY <1>3, <2>2, <2>3, <3>2, TypesLeft
      <4>2. Few(disabled, {}, o)
        BY <1>3, <1>q, <2>2, <2>3, <4>1 DEF Bounded, ToCount
      <4>3. Worst(t) \cap Devs[o] = {}
        BY <3>2, WorstRows, Amounts
      <4>4. QED BY <2>1, <4>2, <4>3, FewOther
    <3>3. QED BY <3>1, <3>2
  <2>4. QED BY <2>1, <2>2, <2>3 DEF Bounded, ToCount, MainIs
<1>4. ASSUME NEW t \in {"T", "R"}, 
             main.pc \notin {"gone", "over"}, main.types # <<>>, main.pc = "disable", t = Head(main.types), NoneToDisable(t) PROVE Bounded'
  <2>1. /\ UNCHANGED <<disabled, mem, disk, saving>> /\ MainIs(main.pc, Tail(main.types), main.rows)
        /\ hist'.stale = hist.stale /\ hist.skipped \subseteq hist'.skipped
    BY <1>4, <1>q, NoneToDisableStep DEF HistKept
  <2>2. mem.phase = "Disable" /\ main.types \in {<<>>, <<"R">>, <<"T", "R">>}
    BY <1>4, <1>q, Typed DEF Placed, Mains
  <2>3. ASSUME ~hist.stale, NEW o \in {"T", "R"} \ hist'.skipped, o \notin Range(Tail(main.types))
        PROVE  Few(disabled, {}, o)
    <3>1. CASE o = t
      <4>1. Cardinality(EnabledInDb(t)) <= KeepEnabled
        BY <1>4, <1>q, NoneToDisableStep
      <4>2. Cardinality(EnabledInDb(t)) \in Nat /\ (Devs[t] \ disabled) \ {} = EnabledInDb(t)
        BY Amounts DEF EnabledInDb
      <4>3. Cardinality(EnabledInDb(t)) <= Allowed(disabled, t)
        <5>1. Allowed(disabled, t) \in Nat /\ KeepEnabled <= Allowed(disabled, t) /\ KeepEnabled \in Nat
          BY AllowedType, Amounts
        <5>2. QED BY <4>1, <4>2, <5>1
      <4>4. Cardinality((Devs[t] \ disabled) \ {}) <= Allowed(disabled, t)
        BY <4>2, <4>3, Zenon
      <4>5. QED BY <3>1, <4>4 DEF Few
    <3>2. CASE o # t
      <4>1. o \notin Range(main.types)
        BY <1>4, <2>2, <2>3, <3>2, TypesLeft
      <4>2. QED BY <1>4, <1>q, <2>1, <2>2, <2>3, <4>1 DEF Bounded, ToCount
    <3>3. QED BY <3>1, <3>2
  <2>4. QED BY <1>4, <1>q, <2>1, <2>2, <2>3 DEF Bounded, ToCount, MainIs
<1>5. ASSUME NEW t \in {"T", "R"}, 
             main.pc \notin {"gone", "over"}, main.types # <<>>, main.pc = "disable", t = Head(main.types), CountFails(t) PROVE Bounded'
  <2>1. /\ UNCHANGED <<disabled, mem, disk, saving>> /\ MainIs(main.pc, Tail(main.types), main.rows)
        /\ hist'.stale = hist.stale /\ hist.skipped \subseteq hist'.skipped
    BY <1>5, <1>q, CountFailsStep DEF HistKept
  <2>2. mem.phase = "Disable" /\ main.types \in {<<>>, <<"R">>, <<"T", "R">>}
    BY <1>5, <1>q, Typed DEF Placed, Mains
  <2>3. ASSUME ~hist.stale, NEW o \in {"T", "R"} \ hist'.skipped, o \notin Range(Tail(main.types))
        PROVE  Few(disabled, {}, o)
    <3>1. CASE o = t
      BY <1>5, <1>q, <2>3, <3>1, CountFailsStep
    <3>2. CASE o # t
      <4>1. o \notin Range(main.types)
        BY <1>5, <2>2, <2>3, <3>2, TypesLeft
      <4>2. QED BY <1>5, <1>q, <2>1, <2>2, <2>3, <4>1 DEF Bounded, ToCount
    <3>3. QED BY <3>1, <3>2
  <2>4. QED BY <1>5, <1>q, <2>1, <2>2, <2>3 DEF Bounded, ToCount, MainIs
<1>6. ASSUME NEW t \in {"T", "R"}, 
             main.pc \notin {"gone", "over"}, main.types # <<>>, main.pc = "disable", t = Head(main.types), DisableFails(t) PROVE Bounded'
  BY <1>6, <1>q, DisableFailsStep DEF Bounded, Placed, ToCount, MainIs, MemIs, WorkerIs, HistKept
<1>7. ASSUME main.pc \notin {"gone", "over"}, FinishDisable PROVE Bounded'
  <2>1. /\ UNCHANGED <<disabled, disk, saving, hist>> /\ MemIs("Enable", mem.disabled, mem.enabled)
        /\ main.pc = "disable" /\ main.types = <<>>
    BY <1>7, <1>q, FinishDisableStep
  <2>2. /\ mem.phase = "Disable" /\ mem.enabled = {}
        /\ disk # NoSave => disk.phase = "Disable"
        /\ \A s \in Savers : saving[s] # NoSave => saving[s].copy.phase = "Disable"
    BY <1>q, <2>1 DEF Placed, Kept
  <2>3. ~hist.stale => \A o \in {"T", "R"} \ hist.skipped : Few(disabled, {}, o)
    BY <1>q, <2>1, <2>2, TypesAll DEF Bounded, ToCount
  <2>4. QED BY <2>1, <2>2, <2>3 DEF Bounded, MemIs
<1>8. ASSUME main.pc \notin {"gone", "over"}, StartWorkers PROVE Bounded'
  BY <1>8, <1>q, StartWorkersStep DEF Bounded, Placed, ToCount, MainIs, MemIs, WorkerIs, HistKept
<1>9. ASSUME main.pc \notin {"gone", "over"}, EnableInDb PROVE Bounded'
  <2>1. /\ UNCHANGED <<mem, disk, saving>> /\ HistKept({}) /\ disabled' = disabled \ mem.enabled
        /\ MainIs("advance", main.types, main.rows) /\ main.pc = "update"
    BY <1>9, <1>q, EnableInDbStep
  <2>2. mem.phase = "Enable" /\ \A o \in {"T", "R"} : worker[o].pc = "ended"
    BY <1>q, <2>1 DEF Placed
  <2>3. \A s \in Savers : saving[s] = NoSave
    BY <1>q, <2>1, <2>2 DEF Kept, Saves, Savers
  <2>4. ASSUME ~hist.stale, NEW o \in {"T", "R"} \ hist.skipped
        PROVE  /\ Few(disabled', mem.enabled, o)
               /\ disk # NoSave /\ disk.phase # "Disable" => Few(disabled', disk.enabled, o)
    <3>1. Few(disabled, mem.enabled, o)
      BY <1>q, <2>2, <2>4 DEF Bounded
    <3>2. Few(disabled', mem.enabled, o)
      BY <2>1, <3>1, FewEnabled
    <3>3. ASSUME disk # NoSave, disk.phase # "Disable" PROVE Few(disabled', disk.enabled, o)
      <4>1. mem.enabled \cap Devs[o] \subseteq disk.enabled
        BY <1>q, <2>2, <2>4, <3>3 DEF Saved, EnabledOf
      <4>2. Few(disabled, disk.enabled, o)
        BY <1>q, <2>4, <3>3 DEF Bounded
      <4>3. QED BY <2>1, <4>1, <4>2, FewEnabled
    <3>4. QED BY <3>2, <3>3
  <2>5. QED BY <2>1, <2>2, <2>3, <2>4 DEF Bounded, MainIs, HistKept
<1>10. ASSUME main.pc \notin {"gone", "over"}, EnableFails PROVE Bounded'
  BY <1>10, <1>q, EnableFailsStep DEF Bounded, Placed, ToCount, MainIs, MemIs, WorkerIs, HistKept
<1>11. ASSUME main.pc \notin {"gone", "over"}, FinishEnable PROVE Bounded'
  BY <1>11, <1>q, FinishEnableStep DEF Bounded, Placed, ToCount, MainIs, MemIs, WorkerIs, HistKept
<1>12. ASSUME main.pc \notin {"gone", "over"}, Crash PROVE Bounded'
  BY <1>12, <1>q, CrashStep DEF Bounded, Placed, ToCount, MainIs, MemIs, WorkerIs, HistKept
<1>13. ASSUME NEW t \in {"T", "R"}, main.pc \notin {"gone", "over"}, WorkerBegins(t) PROVE Bounded'
  BY <1>13, <1>q, WorkerBeginsStep DEF Bounded, Placed, ToCount, MainIs, MemIs, WorkerIs, HistKept
<1>14. ASSUME NEW t \in {"T", "R"}, main.pc \notin {"gone", "over"}, Sample(t) PROVE Bounded'
  BY <1>14, <1>q, SampleStep DEF Bounded, Placed, ToCount, MainIs, MemIs, WorkerIs, HistKept
<1>15. ASSUME NEW t \in {"T", "R"}, main.pc \notin {"gone", "over"}, Reduce(t) PROVE Bounded'
  BY <1>15, <1>q, ReduceStep DEF Bounded, Placed, ToCount, MainIs, MemIs, WorkerIs, HistKept
<1>16. ASSUME NEW t \in {"T", "R"}, main.pc \notin {"gone", "over"}, Add(t) PROVE Bounded'
  <2>1. PICK d \in worker[t].found : MemIs(mem.phase, mem.disabled, mem.enabled \cup {d})
    BY <1>16, <1>q, AddStep
  <2>2. UNCHANGED <<disabled, disk, saving, main, hist>>
    BY <1>16, <1>q, AddStep
  <2>3. \A o \in {"T", "R"} : Few(disabled, mem.enabled, o) => Few(disabled, mem'.enabled, o)
    BY <2>1, FewSmaller DEF MemIs
  <2>4. QED BY <1>q, <2>1, <2>2, <2>3 DEF Bounded, MemIs, ToCount
<1>17. ASSUME NEW t \in {"T", "R"}, main.pc \notin {"gone", "over"}, Added(t) PROVE Bounded'
  BY <1>17, <1>q, AddedStep DEF Bounded, Placed, ToCount, MainIs, MemIs, WorkerIs, HistKept
<1>18. ASSUME NEW t \in {"T", "R"}, main.pc \notin {"gone", "over"}, WorkerEnds(t) PROVE Bounded'
  BY <1>18, <1>q, WorkerEndsStep DEF Bounded, Placed, ToCount, MainIs, MemIs, WorkerIs, HistKept
<1>19. ASSUME NEW t \in {"T", "R"}, main.pc \notin {"gone", "over"}, SampleFails(t) PROVE Bounded'
  BY <1>19, <1>q, SampleFailsStep DEF Bounded, Placed, ToCount, MainIs, MemIs, WorkerIs, HistKept
<1>20. ASSUME NEW t \in {"T", "R"}, main.pc \notin {"gone", "over"}, Receive(t) PROVE Bounded'
  BY <1>20, <1>q, ReceiveStep DEF Bounded, Placed, ToCount, MainIs, MemIs, WorkerIs, HistKept
<1>21. ASSUME NEW s \in Savers, main.pc \notin {"gone", "over"}, StartSave(s) PROVE Bounded'
  <2>1. PICK r \in Record : r.copy = mem /\ SavingIs(s, r)
    BY <1>21, <1>q, StartSaveStep
  <2>2. /\ UNCHANGED <<disabled, mem, main>> /\ disk' = NoSave /\ (~hist'.stale => ~hist.stale)
        /\ hist'.skipped = hist.skipped
    BY <1>21, <1>q, StartSaveStep DEF HistKept
  <2>3. QED BY <1>q, <2>1, <2>2 DEF Bounded, SavingIs, ToCount
<1>22. ASSUME NEW s \in Savers, main.pc \notin {"gone", "over"}, ReadToGo(s) PROVE Bounded'
  <2>1. PICK r \in Record : /\ SavingIs(s, r) /\ r.copy.enabled = saving[s].copy.enabled
                            /\ r.copy.phase = saving[s].copy.phase
    BY <1>22, <1>q, ReadToGoStep
  <2>2. UNCHANGED <<disabled, mem, disk, main, hist>> /\ saving[s] # NoSave
    BY <1>22, <1>q, ReadToGoStep
  <2>3. QED BY <1>q, <2>1, <2>2 DEF Bounded, SavingIs, ToCount
<1>23. ASSUME NEW s \in Savers, main.pc \notin {"gone", "over"}, Write(s) PROVE Bounded'
  <2>1. /\ UNCHANGED <<disabled, mem>> /\ saving[s] # NoSave /\ disk' = saving[s].copy /\ SavingIs(s, NoSave) /\ WentOn(s)
        /\ hist'.skipped = hist.skipped /\ (~hist'.stale => ~hist.stale)
    BY <1>23, <1>q, WriteStep DEF HistKept
  <2>2. mem.phase = "Disable" => main'.pc \notin {"disable", "record"}
    <3>1. mem.phase = "Disable" /\ s # "main" => FALSE
      BY <1>q, <2>1 DEF Placed, NoWorker, WentOn
    <3>2. s = "main" => main'.pc \notin {"disable", "record"}
      BY <2>1 DEF WentOn, MainIs, AfterPc
    <3>3. QED BY <3>1, <3>2
  <2>3. QED BY <1>23, <1>q, <2>1, <2>2 DEF Bounded, SavingIs
<1>24. ASSUME NEW s \in Savers, main.pc \notin {"gone", "over"}, SaveFails(s) PROVE Bounded'
  <2>1. /\ UNCHANGED <<disabled, mem>> /\ UNCHANGED disk /\ SavingIs(s, NoSave) /\ GaveUp(s)
        /\ hist'.skipped = hist.skipped /\ (~hist'.stale => ~hist.stale)
    BY <1>24, <1>q, SaveFailsStep DEF HistKept
  <2>2. mem.phase = "Disable" => main'.pc \notin {"disable", "record"}
    <3>1. mem.phase = "Disable" /\ s # "main" => FALSE
      BY <1>q, <2>1 DEF Placed, NoWorker, GaveUp
    <3>2. s = "main" => main'.pc \notin {"disable", "record"}
      BY <2>1 DEF GaveUp, MainIs, ErrorPc
    <3>3. QED BY <3>1, <3>2
  <2>3. QED BY <1>24, <1>q, <2>1, <2>2 DEF Bounded, SavingIs
<1>25. QED
  BY <1>q, <1>1, <1>2, <1>3, <1>4, <1>5, <1>6, <1>7, <1>8, <1>9, <1>10, <1>11, <1>12, <1>13, <1>14, <1>15, <1>16, <1>17, <1>18, <1>19, <1>20, <1>21, <1>22, <1>23, <1>24, Steps

LEMMA EmptiedNext ==
    ASSUME Inv, Next, Placed' PROVE Emptied'
<1>q. Shape /\ Placed /\ Kept /\ Looking /\ Emptied
  BY DEF Inv
<1>1. ASSUME Restart PROVE Emptied'
  <2>1. mem'.phase # "Delete"
    <3>1. CASE disk = NoSave
      BY <1>1, <1>q, <3>1, RestartStep DEF Blank
    <3>2. CASE disk # NoSave
      BY <1>1, <1>q, <3>2, RestartStep DEF Kept
    <3>3. QED BY <3>1, <3>2
  <2>2. main'.pc \in {"disable", "start", "over"} /\ (main'.pc = "over" => mem'.phase = "Delete")
    <3>1. mem'.phase \in {"Disable", "Enable", "Delete"}
      <4>1. Shape'
        BY <1>1, <1>q, RestartStep
      <4>2. QED BY <4>1 DEF Shape, State
    <3>2. QED BY <1>1, <1>q, <3>1, RestartStep DEF MainIs
  <2>3. QED BY <2>1, <2>2 DEF Emptied
<1>2. ASSUME main.pc \notin {"gone", "over"}, main.types # <<>>, main.pc = "record", RecordDisabled PROVE Emptied'
  BY <1>2, <1>q, RecordDisabledStep DEF Emptied, Placed, NoWorker, MainIs, MemIs, WorkerIs
<1>3. ASSUME NEW t \in {"T", "R"}, 
             main.pc \notin {"gone", "over"}, main.types # <<>>, main.pc = "disable", t = Head(main.types), Disable(t) PROVE Emptied'
  BY <1>3, <1>q, DisableStep DEF Emptied, Placed, NoWorker, MainIs, MemIs, WorkerIs
<1>4. ASSUME NEW t \in {"T", "R"}, 
             main.pc \notin {"gone", "over"}, main.types # <<>>, main.pc = "disable", t = Head(main.types), NoneToDisable(t) PROVE Emptied'
  BY <1>4, <1>q, NoneToDisableStep DEF Emptied, Placed, NoWorker, MainIs, MemIs, WorkerIs
<1>5. ASSUME NEW t \in {"T", "R"}, 
             main.pc \notin {"gone", "over"}, main.types # <<>>, main.pc = "disable", t = Head(main.types), CountFails(t) PROVE Emptied'
  BY <1>5, <1>q, CountFailsStep DEF Emptied, Placed, NoWorker, MainIs, MemIs, WorkerIs
<1>6. ASSUME NEW t \in {"T", "R"}, 
             main.pc \notin {"gone", "over"}, main.types # <<>>, main.pc = "disable", t = Head(main.types), DisableFails(t) PROVE Emptied'
  BY <1>6, <1>q, DisableFailsStep DEF Emptied, Placed, NoWorker, MainIs, MemIs, WorkerIs
<1>7. ASSUME main.pc \notin {"gone", "over"}, FinishDisable PROVE Emptied'
  BY <1>7, <1>q, FinishDisableStep DEF Emptied, Placed, NoWorker, MainIs, MemIs, WorkerIs
<1>8. ASSUME main.pc \notin {"gone", "over"}, StartWorkers PROVE Emptied'
  BY <1>8, <1>q, StartWorkersStep DEF Emptied, Placed, NoWorker, MainIs, MemIs, WorkerIs
<1>9. ASSUME main.pc \notin {"gone", "over"}, EnableInDb PROVE Emptied'
  BY <1>9, <1>q, EnableInDbStep DEF Emptied, Placed, NoWorker, MainIs, MemIs, WorkerIs
<1>10. ASSUME main.pc \notin {"gone", "over"}, EnableFails PROVE Emptied'
  BY <1>10, <1>q, EnableFailsStep DEF Emptied, Placed, NoWorker, MainIs, MemIs, WorkerIs
<1>11. ASSUME main.pc \notin {"gone", "over"}, FinishEnable PROVE Emptied'
  BY <1>11, <1>q, FinishEnableStep DEF Emptied, Placed, NoWorker, MainIs, MemIs, WorkerIs
<1>12. ASSUME main.pc \notin {"gone", "over"}, Crash PROVE Emptied'
  BY <1>12, <1>q, CrashStep DEF Emptied, Placed, NoWorker, MainIs, MemIs, WorkerIs
<1>13. ASSUME NEW t \in {"T", "R"}, main.pc \notin {"gone", "over"}, WorkerBegins(t) PROVE Emptied'
  BY <1>13, <1>q, WorkerBeginsStep DEF Emptied, Placed, NoWorker, MainIs, MemIs, WorkerIs
<1>14. ASSUME NEW t \in {"T", "R"}, main.pc \notin {"gone", "over"}, Sample(t) PROVE Emptied'
  BY <1>14, <1>q, SampleStep DEF Emptied, Placed, NoWorker, MainIs, MemIs, WorkerIs
<1>15. ASSUME NEW t \in {"T", "R"}, main.pc \notin {"gone", "over"}, Reduce(t) PROVE Emptied'
  BY <1>15, <1>q, ReduceStep DEF Emptied, Placed, NoWorker, MainIs, MemIs, WorkerIs
<1>16. ASSUME NEW t \in {"T", "R"}, main.pc \notin {"gone", "over"}, Add(t) PROVE Emptied'
  BY <1>16, <1>q, AddStep DEF Emptied, Placed, NoWorker, MainIs, MemIs, WorkerIs
<1>17. ASSUME NEW t \in {"T", "R"}, main.pc \notin {"gone", "over"}, Added(t) PROVE Emptied'
  BY <1>17, <1>q, AddedStep DEF Emptied, Placed, NoWorker, MainIs, MemIs, WorkerIs
<1>18. ASSUME NEW t \in {"T", "R"}, main.pc \notin {"gone", "over"}, WorkerEnds(t) PROVE Emptied'
  BY <1>18, <1>q, WorkerEndsStep DEF Emptied, Placed, NoWorker, MainIs, MemIs, WorkerIs
<1>19. ASSUME NEW t \in {"T", "R"}, main.pc \notin {"gone", "over"}, SampleFails(t) PROVE Emptied'
  BY <1>19, <1>q, SampleFailsStep DEF Emptied, Placed, NoWorker, MainIs, MemIs, WorkerIs
<1>20. ASSUME NEW t \in {"T", "R"}, main.pc \notin {"gone", "over"}, Receive(t) PROVE Emptied'
  BY <1>20, <1>q, ReceiveStep DEF Emptied, Placed, NoWorker, MainIs, MemIs, WorkerIs
<1>21. ASSUME NEW s \in Savers, main.pc \notin {"gone", "over"}, StartSave(s) PROVE Emptied'
  BY <1>21, <1>q, StartSaveStep DEF Emptied, Placed, NoWorker, MainIs, MemIs, WorkerIs, WentOn, AfterPc, SavingIs
<1>22. ASSUME NEW s \in Savers, main.pc \notin {"gone", "over"}, ReadToGo(s) PROVE Emptied'
  BY <1>22, <1>q, ReadToGoStep DEF Emptied, Placed, NoWorker, MainIs, MemIs, WorkerIs, WentOn, AfterPc, SavingIs
<1>23. ASSUME NEW s \in Savers, main.pc \notin {"gone", "over"}, Write(s) PROVE Emptied'
  BY <1>23, <1>q, WriteStep DEF Emptied, Placed, NoWorker, MainIs, MemIs, WorkerIs, WentOn, AfterPc, SavingIs
<1>24. ASSUME NEW s \in Savers, main.pc \notin {"gone", "over"}, SaveFails(s) PROVE Emptied'
  BY <1>24, <1>q, SaveFailsStep DEF Emptied, Placed, NoWorker, MainIs, MemIs, WorkerIs, GaveUp, ErrorPc, SavingIs
<1>25. QED
  BY <1>q, <1>1, <1>2, <1>3, <1>4, <1>5, <1>6, <1>7, <1>8, <1>9, <1>10, <1>11, <1>12, <1>13, <1>14, <1>15, <1>16, <1>17, <1>18, <1>19, <1>20, <1>21, <1>22, <1>23, <1>24, Steps

(* A worker that has begun began with this step or before it.              *)
Begun(o) ==
    worker'[o].pc \notin {"idle", "begin"} =>
        WorkerBegins(o) \/ (worker[o].pc \notin {"idle", "begin"} /\ hist.short \subseteq hist'.short)

LEMMA BegunStays ==
    ASSUME Inv, Next PROVE \A o \in {"T", "R"} : Begun(o)
<1>q. Shape /\ Placed /\ Kept /\ Looking
  BY DEF Inv
<1>1. ASSUME Restart PROVE \A o \in {"T", "R"} : Begun(o)
  BY <1>1, <1>q, RestartStep DEF Begun, NoWorker, MainIs, MemIs, WorkerIs, HistKept
<1>2. ASSUME main.pc \notin {"gone", "over"}, main.types # <<>>, main.pc = "record", RecordDisabled PROVE \A o \in {"T", "R"} : Begun(o)
  BY <1>2, <1>q, RecordDisabledStep DEF Begun, NoWorker, MainIs, MemIs, WorkerIs, HistKept
<1>3. ASSUME NEW t \in {"T", "R"}, 
             main.pc \notin {"gone", "over"}, main.types # <<>>, main.pc = "disable", t = Head(main.types), Disable(t) PROVE \A o \in {"T", "R"} : Begun(o)
  BY <1>3, <1>q, DisableStep DEF Begun, NoWorker, MainIs, MemIs, WorkerIs, HistKept
<1>4. ASSUME NEW t \in {"T", "R"}, 
             main.pc \notin {"gone", "over"}, main.types # <<>>, main.pc = "disable", t = Head(main.types), NoneToDisable(t) PROVE \A o \in {"T", "R"} : Begun(o)
  BY <1>4, <1>q, NoneToDisableStep DEF Begun, NoWorker, MainIs, MemIs, WorkerIs, HistKept
<1>5. ASSUME NEW t \in {"T", "R"}, 
             main.pc \notin {"gone", "over"}, main.types # <<>>, main.pc = "disable", t = Head(main.types), CountFails(t) PROVE \A o \in {"T", "R"} : Begun(o)
  BY <1>5, <1>q, CountFailsStep DEF Begun, NoWorker, MainIs, MemIs, WorkerIs, HistKept
<1>6. ASSUME NEW t \in {"T", "R"}, 
             main.pc \notin {"gone", "over"}, main.types # <<>>, main.pc = "disable", t = Head(main.types), DisableFails(t) PROVE \A o \in {"T", "R"} : Begun(o)
  BY <1>6, <1>q, DisableFailsStep DEF Begun, NoWorker, MainIs, MemIs, WorkerIs, HistKept
<1>7. ASSUME main.pc \notin {"gone", "over"}, FinishDisable PROVE \A o \in {"T", "R"} : Begun(o)
  BY <1>7, <1>q, FinishDisableStep DEF Begun, NoWorker, MainIs, MemIs, WorkerIs, HistKept
<1>8. ASSUME main.pc \notin {"gone", "over"}, StartWorkers PROVE \A o \in {"T", "R"} : Begun(o)
  BY <1>8, <1>q, StartWorkersStep DEF Begun, NoWorker, MainIs, MemIs, WorkerIs, HistKept
<1>9. ASSUME main.pc \notin {"gone", "over"}, EnableInDb PROVE \A o \in {"T", "R"} : Begun(o)
  BY <1>9, <1>q, EnableInDbStep DEF Begun, NoWorker, MainIs, MemIs, WorkerIs, HistKept
<1>10. ASSUME main.pc \notin {"gone", "over"}, EnableFails PROVE \A o \in {"T", "R"} : Begun(o)
  BY <1>10, <1>q, EnableFailsStep DEF Begun, NoWorker, MainIs, MemIs, WorkerIs, HistKept
<1>11. ASSUME main.pc \notin {"gone", "over"}, FinishEnable PROVE \A o \in {"T", "R"} : Begun(o)
  BY <1>11, <1>q, FinishEnableStep DEF Begun, NoWorker, MainIs, MemIs, WorkerIs, HistKept
<1>12. ASSUME main.pc \notin {"gone", "over"}, Crash PROVE \A o \in {"T", "R"} : Begun(o)
  BY <1>12, <1>q, CrashStep DEF Begun, NoWorker, MainIs, MemIs, WorkerIs, HistKept
<1>13. ASSUME NEW t \in {"T", "R"}, main.pc \notin {"gone", "over"}, WorkerBegins(t) PROVE \A o \in {"T", "R"} : Begun(o)
  BY <1>13, <1>q, WorkerBeginsStep DEF Begun, WorkerIs
<1>14. ASSUME NEW t \in {"T", "R"}, main.pc \notin {"gone", "over"}, Sample(t) PROVE \A o \in {"T", "R"} : Begun(o)
  BY <1>14, <1>q, SampleStep DEF Begun, NoWorker, MainIs, MemIs, WorkerIs, HistKept
<1>15. ASSUME NEW t \in {"T", "R"}, main.pc \notin {"gone", "over"}, Reduce(t) PROVE \A o \in {"T", "R"} : Begun(o)
  BY <1>15, <1>q, ReduceStep DEF Begun, NoWorker, MainIs, MemIs, WorkerIs, HistKept
<1>16. ASSUME NEW t \in {"T", "R"}, main.pc \notin {"gone", "over"}, Add(t) PROVE \A o \in {"T", "R"} : Begun(o)
  BY <1>16, <1>q, AddStep DEF Begun, NoWorker, MainIs, MemIs, WorkerIs, HistKept
<1>17. ASSUME NEW t \in {"T", "R"}, main.pc \notin {"gone", "over"}, Added(t) PROVE \A o \in {"T", "R"} : Begun(o)
  BY <1>17, <1>q, AddedStep DEF Begun, NoWorker, MainIs, MemIs, WorkerIs, HistKept
<1>18. ASSUME NEW t \in {"T", "R"}, main.pc \notin {"gone", "over"}, WorkerEnds(t) PROVE \A o \in {"T", "R"} : Begun(o)
  BY <1>18, <1>q, WorkerEndsStep DEF Begun, NoWorker, MainIs, MemIs, WorkerIs, HistKept
<1>19. ASSUME NEW t \in {"T", "R"}, main.pc \notin {"gone", "over"}, SampleFails(t) PROVE \A o \in {"T", "R"} : Begun(o)
  BY <1>19, <1>q, SampleFailsStep DEF Begun, NoWorker, MainIs, MemIs, WorkerIs, HistKept
<1>20. ASSUME NEW t \in {"T", "R"}, main.pc \notin {"gone", "over"}, Receive(t) PROVE \A o \in {"T", "R"} : Begun(o)
  BY <1>20, <1>q, ReceiveStep DEF Begun, NoWorker, MainIs, MemIs, WorkerIs, HistKept
<1>21. ASSUME NEW s \in Savers, main.pc \notin {"gone", "over"}, StartSave(s) PROVE \A o \in {"T", "R"} : Begun(o)
  BY <1>21, <1>q, StartSaveStep DEF Begun, NoWorker, MainIs, MemIs, WorkerIs, HistKept, WentOn, AfterPc, SavingIs
<1>22. ASSUME NEW s \in Savers, main.pc \notin {"gone", "over"}, ReadToGo(s) PROVE \A o \in {"T", "R"} : Begun(o)
  BY <1>22, <1>q, ReadToGoStep DEF Begun, NoWorker, MainIs, MemIs, WorkerIs, HistKept, WentOn, AfterPc, SavingIs
<1>23. ASSUME NEW s \in Savers, main.pc \notin {"gone", "over"}, Write(s) PROVE \A o \in {"T", "R"} : Begun(o)
  BY <1>23, <1>q, WriteStep DEF Begun, NoWorker, MainIs, MemIs, WorkerIs, HistKept, WentOn, AfterPc, SavingIs
<1>24. ASSUME NEW s \in Savers, main.pc \notin {"gone", "over"}, SaveFails(s) PROVE \A o \in {"T", "R"} : Begun(o)
  BY <1>24, <1>q, SaveFailsStep DEF Begun, NoWorker, MainIs, MemIs, WorkerIs, HistKept, GaveUp, ErrorPc, SavingIs
<1>25. QED
  BY <1>q, <1>1, <1>2, <1>3, <1>4, <1>5, <1>6, <1>7, <1>8, <1>9, <1>10, <1>11, <1>12, <1>13, <1>14, <1>15, <1>16, <1>17, <1>18, <1>19, <1>20, <1>21, <1>22, <1>23, <1>24, Steps

LEMMA FilledNext ==
    ASSUME Inv, Next PROVE Filled'
<1>q. Shape /\ Filled
  BY DEF Inv
<1> SUFFICES ASSUME NEW t \in {"T", "R"} \ hist'.short, worker'[t].pc \notin {"idle", "begin"}
             PROVE  ToEnable <= Planned(t)'
  BY DEF Filled
<1>1. ~Restart
  BY <1>q, RestartStep DEF NoWorker
<1>2. CASE WorkerBegins(t)
  BY <1>q, <1>2, PlannedBegins
<1>3. CASE ~WorkerBegins(t)
  <2>1. Planned(t)' = Planned(t)
    BY <1>1, <1>3, PlannedKept DEF PlansKept
  <2>2. worker[t].pc \notin {"idle", "begin"} /\ t \notin hist.short
    BY <1>3, BegunStays DEF Begun
  <2>3. QED BY <1>q, <2>1, <2>2 DEF Filled
<1>4. QED BY <1>2, <1>3

LEMMA SweptStays ==
    ASSUME NEW t \in {"T", "R"}, SweptOf(t), worker'[t] = worker[t], disabled' = disabled,
           mem'.disabled = mem.disabled, mem.enabled \subseteq mem'.enabled,
           hist.trendless \subseteq hist'.trendless,
           Heeded' => Heeded
    PROVE  SweptOf(t)'
<1>1. Candidates(t)' = Candidates(t)
  BY DEF Candidates
<1>2. Seen(t) \subseteq Seen(t)'
  BY DEF Seen
<1> HIDE DEF Candidates, Seen
<1>3. QED BY <1>1, <1>2 DEF SweptOf

(* A worker that has not begun.                                            *)
LEMMA SweptIdle ==
    ASSUME NEW t \in {"T", "R"}, worker'[t].pc \in {"idle", "begin"}
    PROVE  SweptOf(t)'
  BY DEF SweptOf

LEMMA SweptBegins ==
    ASSUME Shape, NEW t \in {"T", "R"}, WorkerBegins(t) PROVE SweptOf(t)'
<1>1. worker'[t].pc = "sample" /\ worker'[t].offset = 0
  BY WorkerBeginsStep DEF WorkerIs
<1>2. FirstOf(0, Candidates(t)', Best) = {}
  <2>1. /\ IsFiniteSet(FirstOf(0, Candidates(t)', Best))
        /\ Cardinality(FirstOf(0, Candidates(t)', Best)) \in 0 .. 0
    BY FirstBound, Rankings
  <2>2. Cardinality(FirstOf(0, Candidates(t)', Best)) = 0
    BY <2>1
  <2>3. QED BY <2>1, <2>2, FS_EmptySet
<1>3. FirstOf(worker[t].offset, Candidates(t), Best)' = {}
  <2>1. FirstOf(worker'[t].offset, Candidates(t)', Best) = {}
    BY <1>1, <1>2
  <2>2. QED BY <2>1
<1>4. QED BY <1>1, <1>3 DEF SweptOf

LEMMA SweptSample ==
    ASSUME Shape, Looking, NEW t \in {"T", "R"}, SweptOf(t), Sample(t) PROVE SweptOf(t)'
<1> DEFINE new == Page(t) \ mem.enabled
           n == worker[t].toGo
           next == worker[t].offset + 2 * n
<1>1. PICK bad \in SUBSET new, found \in SUBSET new :
           /\ found = FirstOf(n, new \ bad, Best)
           /\ WorkerIs(t, "reduce", n, next, found)
           /\ hist'.trendless = hist.trendless \cup bad
  BY SampleStep
<1>2. worker[t].pc = "sample" /\ n > 0 /\ UNCHANGED <<disabled, mem>>
  BY SampleStep
<1>3. n \in Nat /\ worker[t].found = {}
  BY <1>2, Counts DEF Looking
<1>4. FirstOf(worker[t].offset, Candidates(t), Best) \subseteq mem.enabled \cup hist.trendless
  BY <1>2, <1>3 DEF SweptOf, Seen
<1>5. FirstOf(next, Candidates(t), Best) \subseteq FirstOf(worker[t].offset, Candidates(t), Best) \cup Page(t)
  BY DEF Page, Rows
<1>6. Cardinality(found) = n \/ found = new \ bad
  <2>1. new \ bad \subseteq Range(Ranking)
    BY CandidateRows, Amounts
  <2> DEFINE rows == new \ bad
  <2>2. found = FirstOf(n, rows, Best) /\ rows \subseteq Range(Ranking)
    BY <1>1, <2>1
  <2>3. found = new \ bad <=> found = rows
    OBVIOUS
  <2> HIDE DEF new, n, rows
  <2>4. Cardinality(found) = n \/ found = RowsOf(rows, Best)
    BY <1>3, <2>2, FirstFull, Rankings
  <2>5. RowsOf(rows, Best) = rows
    BY <2>2, Rankings
  <2>6. QED BY <2>3, <2>4, <2>5
<1>7. /\ worker'[t].pc = "reduce" /\ worker'[t].toGo = n /\ worker'[t].offset = next /\ worker'[t].found = found
  BY <1>1 DEF WorkerIs
<1>8. CASE Cardinality(found) = n
  BY <1>7, <1>8 DEF SweptOf
<1>9. CASE found = new \ bad
  <2>1. Page(t) \subseteq mem.enabled \cup found \cup bad
    BY <1>9
  <2>2. FirstOf(next, Candidates(t), Best) \subseteq mem.enabled \cup found \cup (hist.trendless \cup bad)
    BY <1>4, <1>5, <2>1
  <2>3. Candidates(t)' = Candidates(t)
    BY <1>2 DEF Candidates
  <2>4. Seen(t)' = mem.enabled \cup found \cup (hist.trendless \cup bad)
    BY <1>1, <1>2, <1>7 DEF Seen
  <2> HIDE DEF next, new, n
  <2>5. FirstOf(worker'[t].offset, Candidates(t)', Best) \subseteq Seen(t)'
    BY <1>7, <2>2, <2>3, <2>4
  <2>6. QED BY <1>7, <2>5 DEF SweptOf
<1>10. QED BY <1>6, <1>8, <1>9

LEMMA SweptReduce ==
    ASSUME Shape, Looking, NEW t \in {"T", "R"}, SweptOf(t), Reduce(t) PROVE SweptOf(t)'
<1>1. PICK n \in 0 .. ToEnable :
           /\ n + Cardinality(worker[t].found) = worker[t].toGo
           /\ WorkerIs(t, "add", n, worker[t].offset, worker[t].found)
  BY ReduceStep
<1>2. worker[t].pc = "reduce" /\ UNCHANGED <<disabled, hist>> /\ MemIs(mem.phase, mem.disabled, mem.enabled)
  BY ReduceStep
<1>3. Candidates(t)' = Candidates(t) /\ Seen(t)' = Seen(t)
  BY <1>1, <1>2 DEF Candidates, Seen, MemIs, WorkerIs
<1>4. n \in Nat /\ Cardinality(worker[t].found) \in Nat /\ worker[t].toGo \in Nat
  BY Counts, Amounts
<1>5. worker[t].toGo = 0 \/ Cardinality(worker[t].found) = worker[t].toGo => n = 0
  BY <1>1, <1>4
<1>6. /\ worker'[t].pc = "add" /\ worker'[t].toGo = n /\ worker'[t].offset = worker[t].offset
  BY <1>1 DEF WorkerIs
<1> HIDE DEF Candidates, Seen
<1>7. QED BY <1>2, <1>3, <1>5, <1>6 DEF SweptOf

LEMMA SweptAdd ==
    ASSUME Shape, NEW t \in {"T", "R"}, SweptOf(t), Add(t) PROVE SweptOf(t)'
<1>1. PICK d \in worker[t].found :
           /\ MemIs(mem.phase, mem.disabled, mem.enabled \cup {d})
           /\ WorkerIs(t, "add", worker[t].toGo, worker[t].offset, worker[t].found \ {d})
  BY AddStep
<1>2. worker[t].pc = "add" /\ UNCHANGED <<disabled, hist>>
  BY AddStep
<1>3. Candidates(t)' = Candidates(t)
  BY <1>1, <1>2 DEF Candidates, MemIs
<1>4. Seen(t)' = Seen(t)
  BY <1>1, <1>2 DEF Seen, MemIs, WorkerIs
<1>5. worker'[t].pc = "add" /\ worker'[t].toGo = worker[t].toGo /\ worker'[t].offset = worker[t].offset
  BY <1>1 DEF WorkerIs
<1>6. QED BY <1>2, <1>3, <1>4, <1>5 DEF SweptOf

(* The last sample, which shows no more, is after all of the candidates.   *)
LEMMA SweptEnds ==
    ASSUME Shape, NEW t \in {"T", "R"}, SweptOf(t), WorkerEnds(t) PROVE SweptOf(t)'
<1>1. /\ WorkerIs(t, "sending", worker[t].toGo, worker[t].offset, worker[t].found)
      /\ worker[t].pc = "sample" /\ (worker[t].toGo = 0 \/ Page(t) = {}) /\ UNCHANGED <<disabled, mem, hist>>
  BY WorkerEndsStep
<1>2. Candidates(t)' = Candidates(t) /\ Seen(t)' = Seen(t)
  BY <1>1 DEF Candidates, Seen, WorkerIs
<1>3. ASSUME worker[t].toGo # 0 PROVE Candidates(t) \subseteq Seen(t)
  <2> DEFINE from == worker[t].offset
             to == worker[t].offset + 2 * worker[t].toGo
  <2>1. worker[t].toGo \in Nat /\ from \in Nat
    BY Typed, Counts DEF Workers
  <2>2. to \in Nat /\ from < to
    BY <1>3, <2>1
  <2>3. FirstOf(to, Candidates(t), Best) \subseteq FirstOf(from, Candidates(t), Best)
    BY <1>1, <1>3 DEF Page, Rows
  <2>4. FirstOf(from, Candidates(t), Best) \subseteq Seen(t)
    BY <1>1, <1>3 DEF SweptOf
  <2> HIDE DEF from, to
  <2>5. FirstOf(from, Candidates(t), Best) = RowsOf(Candidates(t), Best)
    BY <2>1, <2>2, <2>3, FirstAll, Rankings
  <2>6. RowsOf(Candidates(t), Best) = Candidates(t)
    <3>1. Candidates(t) \subseteq Range(Ranking)
      BY CandidateRows, Amounts
    <3>2. QED BY <3>1, Rankings
  <2>7. QED BY <2>4, <2>5, <2>6
<1>4. worker'[t].pc = "sending" /\ worker'[t].toGo = worker[t].toGo
  BY <1>1 DEF WorkerIs
<1>5. QED BY <1>2, <1>3, <1>4 DEF SweptOf

(* A worker that goes on with what it has.                                 *)
LEMMA SweptGoes ==
    ASSUME NEW t \in {"T", "R"}, NEW pc, SweptOf(t), WorkerIs(t, pc, worker[t].toGo, worker[t].offset, worker[t].found),
           UNCHANGED <<disabled, mem>>, hist'.trendless = hist.trendless,
           \/ worker[t].pc \in {"sample", "add", "save"} /\ pc \in {"sample", "add", "save", "failing"}
           \/ worker[t].pc = "sending" /\ pc = "ended" /\ main.pc \notin {"saveError", "gone"}
           \/ pc = "sending" /\ main'.pc = "saveError" /\ mem.phase # "Delete"
    PROVE  SweptOf(t)'
<1>1. Candidates(t)' = Candidates(t) /\ Seen(t)' = Seen(t)
  BY DEF Candidates, Seen, WorkerIs
<1>2. worker'[t].pc = pc /\ worker'[t].toGo = worker[t].toGo /\ worker'[t].offset = worker[t].offset
  BY DEF WorkerIs
<1>3. QED BY <1>1, <1>2 DEF SweptOf, Heeded

LEMMA SweptNext ==
    ASSUME Inv, Next PROVE Swept'
<1>q. Shape /\ Placed /\ Kept /\ Looking /\ Swept
  BY DEF Inv
<1>1. ASSUME Restart PROVE Swept'
  <2>1. \A o \in {"T", "R"} : worker'[o].pc = "idle"
    BY <1>1, <1>q, RestartStep DEF Placed, NoWorker
  <2>2. QED BY <2>1, SweptIdle DEF Swept
<1>2. ASSUME main.pc \notin {"gone", "over"}, main.types # <<>>, main.pc = "record", RecordDisabled PROVE Swept'
  <2>1. \A o \in {"T", "R"} : worker'[o].pc = "idle"
    BY <1>2, <1>q, RecordDisabledStep DEF Placed, NoWorker
  <2>2. QED BY <2>1, SweptIdle DEF Swept
<1>3. ASSUME NEW t \in {"T", "R"}, 
             main.pc \notin {"gone", "over"}, main.types # <<>>, main.pc = "disable", t = Head(main.types), Disable(t) PROVE Swept'
  <2>1. \A o \in {"T", "R"} : worker'[o].pc = "idle"
    BY <1>3, <1>q, DisableStep DEF Placed, NoWorker
  <2>2. QED BY <2>1, SweptIdle DEF Swept
<1>4. ASSUME NEW t \in {"T", "R"}, 
             main.pc \notin {"gone", "over"}, main.types # <<>>, main.pc = "disable", t = Head(main.types), NoneToDisable(t) PROVE Swept'
  BY <1>4, <1>q, NoneToDisableStep, SweptStays DEF Placed, Swept, Heeded, MainIs, MemIs, HistKept
<1>5. ASSUME NEW t \in {"T", "R"}, 
             main.pc \notin {"gone", "over"}, main.types # <<>>, main.pc = "disable", t = Head(main.types), CountFails(t) PROVE Swept'
  BY <1>5, <1>q, CountFailsStep, SweptStays DEF Placed, Swept, Heeded, MainIs, MemIs, HistKept
<1>6. ASSUME NEW t \in {"T", "R"}, 
             main.pc \notin {"gone", "over"}, main.types # <<>>, main.pc = "disable", t = Head(main.types), DisableFails(t) PROVE Swept'
  BY <1>6, <1>q, DisableFailsStep, SweptStays DEF Placed, Swept, Heeded, MainIs, MemIs, HistKept
<1>7. ASSUME main.pc \notin {"gone", "over"}, FinishDisable PROVE Swept'
  BY <1>7, <1>q, FinishDisableStep, SweptStays DEF Placed, Swept, Heeded, MainIs, MemIs, HistKept
<1>8. ASSUME main.pc \notin {"gone", "over"}, StartWorkers PROVE Swept'
  <2>1. \A o \in {"T", "R"} : worker'[o].pc = "begin"
    BY <1>8, <1>q, StartWorkersStep
  <2>2. QED BY <2>1, SweptIdle DEF Swept
<1>9. ASSUME main.pc \notin {"gone", "over"}, EnableInDb PROVE Swept'
  <2>1. /\ UNCHANGED <<mem, worker>> /\ HistKept({}) /\ disabled' = disabled \ mem.enabled
        /\ MainIs("advance", main.types, main.rows) /\ main.pc = "update"
    BY <1>9, <1>q, EnableInDbStep
  <2>2. \A o \in {"T", "R"} : worker[o].pc = "ended"
    BY <1>q, <2>1 DEF Placed
  <2>3. \A o \in {"T", "R"} : Candidates(o)' \subseteq Candidates(o) /\ Seen(o)' = Seen(o)
    BY <2>1 DEF Candidates, Seen, HistKept
  <2>4. QED BY <1>q, <2>1, <2>2, <2>3 DEF Swept, SweptOf, Heeded, MainIs
<1>10. ASSUME main.pc \notin {"gone", "over"}, EnableFails PROVE Swept'
  BY <1>10, <1>q, EnableFailsStep, SweptStays DEF Placed, Swept, Heeded, MainIs, MemIs, HistKept
<1>11. ASSUME main.pc \notin {"gone", "over"}, FinishEnable PROVE Swept'
  BY <1>11, <1>q, FinishEnableStep, SweptStays DEF Placed, Swept, Heeded, MainIs, MemIs, HistKept
<1>12. ASSUME main.pc \notin {"gone", "over"}, Crash PROVE Swept'
  BY <1>12, <1>q, CrashStep, SweptStays DEF Placed, Swept, Heeded, MainIs, MemIs, HistKept
<1>13. ASSUME NEW t \in {"T", "R"}, main.pc \notin {"gone", "over"}, WorkerBegins(t) PROVE Swept'
  <2>1. \A o \in {"T", "R"} \ {t} : SweptOf(o)'
    BY <1>13, <1>q, WorkerBeginsStep, SweptStays DEF Placed, Swept, Heeded, MemIs, WorkerIs, HistKept
  <2>2. SweptOf(t)'
    BY <1>13, <1>q, SweptBegins DEF Swept
  <2>3. QED BY <2>1, <2>2 DEF Swept
<1>14. ASSUME NEW t \in {"T", "R"}, main.pc \notin {"gone", "over"}, Sample(t) PROVE Swept'
  <2>1. \A o \in {"T", "R"} \ {t} : SweptOf(o)'
    BY <1>14, <1>q, SampleKeeps, SweptStays DEF Swept, Heeded
  <2>2. SweptOf(t)'
    BY <1>14, <1>q, SweptSample DEF Swept
  <2>3. QED BY <2>1, <2>2 DEF Swept
<1>15. ASSUME NEW t \in {"T", "R"}, main.pc \notin {"gone", "over"}, Reduce(t) PROVE Swept'
  <2>1. \A o \in {"T", "R"} \ {t} : SweptOf(o)'
    BY <1>15, <1>q, ReduceStep, SweptStays DEF Placed, Swept, Heeded, MemIs, WorkerIs, HistKept
  <2>2. SweptOf(t)'
    BY <1>15, <1>q, SweptReduce DEF Swept
  <2>3. QED BY <2>1, <2>2 DEF Swept
<1>16. ASSUME NEW t \in {"T", "R"}, main.pc \notin {"gone", "over"}, Add(t) PROVE Swept'
  <2>1. \A o \in {"T", "R"} \ {t} : SweptOf(o)'
    BY <1>16, <1>q, AddStep, SweptStays DEF Placed, Swept, Heeded, MemIs, WorkerIs, HistKept
  <2>2. SweptOf(t)'
    BY <1>16, <1>q, SweptAdd DEF Swept
  <2>3. QED BY <2>1, <2>2 DEF Swept
<1>17. ASSUME NEW t \in {"T", "R"}, main.pc \notin {"gone", "over"}, Added(t) PROVE Swept'
  <2>1. \A o \in {"T", "R"} \ {t} : SweptOf(o)'
    BY <1>17, <1>q, AddedStep, SweptStays DEF Placed, Swept, Heeded, MemIs, WorkerIs, HistKept
  <2>2. SweptOf(t)'
    BY <1>17, <1>q, AddedStep, SweptGoes DEF Placed, Swept, Heeded
  <2>3. QED BY <2>1, <2>2 DEF Swept
<1>18. ASSUME NEW t \in {"T", "R"}, main.pc \notin {"gone", "over"}, WorkerEnds(t) PROVE Swept'
  <2>1. \A o \in {"T", "R"} \ {t} : SweptOf(o)'
    BY <1>18, <1>q, WorkerEndsStep, SweptStays DEF Placed, Swept, Heeded, MemIs, WorkerIs, HistKept
  <2>2. SweptOf(t)'
    BY <1>18, <1>q, SweptEnds DEF Swept
  <2>3. QED BY <2>1, <2>2 DEF Swept
<1>19. ASSUME NEW t \in {"T", "R"}, main.pc \notin {"gone", "over"}, SampleFails(t) PROVE Swept'
  <2>1. \A o \in {"T", "R"} \ {t} : SweptOf(o)'
    BY <1>19, <1>q, SampleFailsStep, SweptStays DEF Placed, Swept, Heeded, MemIs, WorkerIs, HistKept
  <2>2. SweptOf(t)'
    BY <1>19, <1>q, SampleFailsStep, SweptGoes DEF Placed, Swept, Heeded
  <2>3. QED BY <2>1, <2>2 DEF Swept
<1>20. ASSUME NEW t \in {"T", "R"}, main.pc \notin {"gone", "over"}, Receive(t) PROVE Swept'
  <2>1. \A o \in {"T", "R"} \ {t} : SweptOf(o)'
    BY <1>20, <1>q, ReceiveStep, SweptStays DEF Placed, Swept, Heeded, WorkerIs, MainIs
  <2>2. SweptOf(t)'
    BY <1>20, <1>q, ReceiveStep, SweptGoes DEF Placed, Swept, Heeded, MainIs
  <2>3. QED BY <2>1, <2>2 DEF Swept
<1>21. ASSUME NEW s \in Savers, main.pc \notin {"gone", "over"}, StartSave(s) PROVE Swept'
  BY <1>21, <1>q, StartSaveStep, SweptStays DEF Placed, Swept, Heeded, MainIs, MemIs, HistKept
<1>22. ASSUME NEW s \in Savers, main.pc \notin {"gone", "over"}, ReadToGo(s) PROVE Swept'
  BY <1>22, <1>q, ReadToGoStep, SweptStays DEF Placed, Swept, Heeded, MainIs, MemIs, HistKept
<1>23. ASSUME NEW s \in Savers, main.pc \notin {"gone", "over"}, Write(s) PROVE Swept'
  <2>1. WentOn(s) /\ UNCHANGED <<disabled, mem>> /\ hist'.trendless = hist.trendless
    BY <1>23, <1>q, WriteStep DEF HistKept
  <2>2. ASSUME s = "main" PROVE Swept'
    BY <1>23, <1>q, <2>1, <2>2, SweptStays DEF Placed, Swept, Heeded, WentOn, MainIs, AfterPc
  <2>3. ASSUME s # "main" PROVE Swept'
    <3>1. /\ s \in {"T", "R"} /\ UNCHANGED main /\ worker[s].pc = "save"
          /\ WorkerIs(s, "sample", worker[s].toGo, worker[s].offset, worker[s].found)
      BY <2>1, <2>3 DEF WentOn
    <3>2. \A o \in {"T", "R"} \ {s} : SweptOf(o)'
      BY <1>q, <2>1, <3>1, SweptStays DEF Placed, Swept, Heeded, WorkerIs
    <3>3. SweptOf(s)'
      BY <1>q, <2>1, <3>1, SweptGoes DEF Placed, Swept, Heeded
    <3>4. QED BY <3>2, <3>3 DEF Swept
  <2>4. QED BY <2>2, <2>3
<1>24. ASSUME NEW s \in Savers, main.pc \notin {"gone", "over"}, SaveFails(s) PROVE Swept'
  <2>1. GaveUp(s) /\ UNCHANGED <<disabled, mem>> /\ hist'.trendless = hist.trendless
    BY <1>24, <1>q, SaveFailsStep DEF HistKept
  <2>2. ASSUME s = "main" PROVE Swept'
    BY <1>24, <1>q, <2>1, <2>2, SweptStays DEF Placed, Swept, Heeded, GaveUp, MainIs, ErrorPc
  <2>3. ASSUME s # "main" PROVE Swept'
    <3>1. /\ s \in {"T", "R"} /\ UNCHANGED main /\ worker[s].pc = "save"
          /\ WorkerIs(s, "sample", worker[s].toGo, worker[s].offset, worker[s].found)
      BY <2>1, <2>3 DEF GaveUp
    <3>2. \A o \in {"T", "R"} \ {s} : SweptOf(o)'
      BY <1>q, <2>1, <3>1, SweptStays DEF Placed, Swept, Heeded, WorkerIs
    <3>3. SweptOf(s)'
      BY <1>q, <2>1, <3>1, SweptGoes DEF Placed, Swept, Heeded
    <3>4. QED BY <3>2, <3>3 DEF Swept
  <2>4. QED BY <2>2, <2>3
<1>25. QED
  BY <1>q, <1>1, <1>2, <1>3, <1>4, <1>5, <1>6, <1>7, <1>8, <1>9, <1>10, <1>11, <1>12, <1>13, <1>14, <1>15, <1>16, <1>17, <1>18, <1>19, <1>20, <1>21, <1>22, <1>23, <1>24, Steps

-----------------------------------------------------------------------------
(* The invariant, and what it says of the system.                          *)

LEMMA InitInv ==
    ASSUME Init PROVE Inv
<1>1. /\ mem = Blank /\ disk = Blank /\ hist = InitHist /\ faults = 0 /\ disabled \subseteq AllDevs
      /\ main.pc = "disable" /\ main.types = Types /\ main.rows = {}
      /\ \A t \in {"T", "R"} : worker[t] = NoWorker
      /\ \A s \in Savers : saving[s] = NoSave
  BY DEF Init
<1>2. Blank \in State /\ Blank.phase = "Disable" /\ Blank.enabled = {} /\ \A t \in {"T", "R"} : Blank.toGo[t] = 0
  BY Amounts DEF Blank, State
<1>3. Shape
  <2>1. main \in Mains
    BY DEF Init, Mains, MainPcs, Types
  <2>2. worker \in [{"T", "R"} -> Workers]
    BY Amounts DEF Init, NoWorker, Workers, WorkerPcs
  <2>3. hist \in Hists
    BY <1>1 DEF InitHist, Hists
  <2>4. saving \in [Savers -> Record \cup {NoSave}]
    BY DEF Init
  <2>5. faults \in 0 .. MaxFaults
    BY <1>1, Amounts
  <2>6. QED BY <1>1, <1>2, <2>1, <2>2, <2>3, <2>4, <2>5 DEF Shape, Mains, MainPcs, Workers, WorkerPcs, Hists
<1>4. Placed /\ Kept /\ Emptied
  BY <1>1, <1>2 DEF Placed, Kept, Emptied
<1>5. Looking /\ Swept /\ Filled
  BY <1>1 DEF Looking, Swept, SweptOf, Filled, NoWorker
<1>6. Quota
  <2> SUFFICES ASSUME NEW t \in {"T", "R"}
               PROVE  Planned(t) <= ToEnable /\ Cardinality(EnabledOf(disk, t)) + disk.toGo[t] <= ToEnable
    BY <1>1 DEF Quota
  <2>1. EnabledOf(mem, t) = {} /\ EnabledOf(disk, t) = {} /\ mem.toGo[t] = 0 /\ disk.toGo[t] = 0
    BY <1>1, <1>2 DEF EnabledOf
  <2>2. QED BY <1>1, <2>1, FS_EmptySet, Amounts DEF Planned, NoWorker
<1>7. Apart
  BY <1>1 DEF Apart, Down, InitHist
<1>8. Bounded
  <2>1. \A t \in {"T", "R"} : t \in Range(ToCount)
    BY <1>1, TypesAll DEF ToCount
  <2> HIDE DEF ToCount
  <2>2. QED BY <1>1, <1>2, <2>1 DEF Bounded
<1>9. Saved
  BY <1>1, <1>2 DEF Saved, EnabledOf
<1>10. QED BY <1>3, <1>4, <1>5, <1>6, <1>7, <1>8, <1>9 DEF Inv

LEMMA NextShape ==
    ASSUME Inv, Next PROVE Shape'
<1>1. Shape /\ Looking /\ Kept
  BY DEF Inv
<1>2. QED
  BY <1>1, Steps, RestartStep, RecordDisabledStep, DisableStep, NoneToDisableStep, CountFailsStep,
     DisableFailsStep, FinishDisableStep, StartWorkersStep, EnableInDbStep, EnableFailsStep,
     FinishEnableStep, CrashStep, WorkerBeginsStep, SampleStep, ReduceStep, AddStep, AddedStep,
     WorkerEndsStep, SampleFailsStep, ReceiveStep, StartSaveStep, ReadToGoStep, WriteStep, SaveFailsStep

LEMMA NextInv ==
    ASSUME Inv, [Next]_vars PROVE Inv'
<1>1. CASE Next
  <2>1. Quota'
    BY <1>1, QuotaNext
  <2>2. Placed' /\ Emptied'
    BY <1>1, PlacedNext, EmptiedNext
  <2>3. Shape' /\ Kept' /\ Looking' /\ Apart' /\ Bounded' /\ Saved' /\ Filled' /\ Swept'
    BY <1>1, NextShape, KeptNext, LookingNext, ApartNext, BoundedNext, SavedNext, FilledNext, SweptNext
  <2>4. QED BY <2>1, <2>2, <2>3 DEF Inv
<1>2. CASE UNCHANGED vars
  <2> USE <1>2 DEF Inv, vars
  <2>1. Shape' /\ Placed'
    BY DEF Shape, Placed
  <2>2. Kept' /\ Looking' /\ Emptied'
    BY DEF Kept, Saves, Looking, Emptied
  <2>3. Quota' /\ Filled'
    BY DEF Quota, Filled, Planned, EnabledOf
  <2>4. Apart' /\ Saved'
    BY DEF Apart, Down, Saved, EnabledOf
  <2>5. Bounded'
    BY DEF Bounded, ToCount
  <2>6. Swept'
    <3>1. \A t \in {"T", "R"} : Candidates(t)' = Candidates(t) /\ Seen(t)' = Seen(t)
      BY DEF Candidates, Seen
    <3>2. QED BY <3>1 DEF Swept, SweptOf, Heeded
  <2>7. QED BY <2>1, <2>2, <2>3, <2>4, <2>5, <2>6
<1>3. QED BY <1>1, <1>2

LEMMA Invariant == Spec => []Inv
  BY InitInv, NextInv, PTL DEF Spec

(* The types of the two phases' state, in memory, on disk and under way    *)
(* there.                                                                  *)
THEOREM TypeCorrect == Spec => []TypeOK
<1>1. Inv => TypeOK
  <2> SUFFICES ASSUME Inv PROVE TypeOK
    OBVIOUS
  <2>1. Shape /\ Looking
    BY DEF Inv
  <2>2. \A s \in Savers : saving[s] = NoSave \/ (saving[s].stage \in {"read", "write"} /\ saving[s].copy \in State)
    BY <2>1 DEF Shape, Record
  <2>3. main \in Mains /\ worker \in [{"T", "R"} -> Workers]
    BY <2>1, Typed
  <2>4. QED BY <2>1, <2>2, <2>3 DEF TypeOK, Shape, Looking, Mains, MainPcs, Workers, WorkerPcs
<1>2. QED BY <1>1, Invariant, PTL

(* A developer that Disable disabled is not enabled by the same procedure, *)
(* but if the process ended before the save that was to list it.           *)
THEOREM DisabledAreKept == Spec => []DisabledStayDisabled
<1>1. Inv => DisabledStayDisabled
  BY DEF Inv, Apart, Down, DisabledStayDisabled
<1>2. QED BY <1>1, Invariant, PTL

LEMMA InvWithinQuota ==
    ASSUME Inv PROVE WithinQuota
<1>1. Shape /\ Quota
  BY DEF Inv
<1> SUFFICES ASSUME NEW s \in {mem} \cup ({disk} \ {NoSave}), NEW t \in {"T", "R"}
             PROVE  Cardinality(EnabledOf(s, t)) + s.toGo[t] <= ToEnable
  BY DEF WithinQuota
<1>2. CASE s = mem
  <2>1. Cardinality(EnabledOf(mem, t)) + mem.toGo[t] <= ToEnable
    <3>1. Planned(t) <= ToEnable
      BY <1>1 DEF Quota
    <3>2. QED BY <1>1, <3>1, Counts, Amounts
  <2>2. QED BY <1>2, <2>1
<1>3. CASE s = disk /\ disk # NoSave
  BY <1>1, <1>3 DEF Quota
<1>4. QED BY <1>2, <1>3

LEMMA InvBounded ==
    ASSUME Inv, main.pc = "over" PROVE EnabledBounded
<1> SUFFICES ASSUME ~hist.stale, NEW t \in {"T", "R"} \ hist.skipped
             PROVE  Cardinality(EnabledInDb(t)) <= Allowed(disabled, t) + ToEnable
  BY DEF EnabledBounded, Allowed, EnabledInDb
<1>1. Shape /\ mem.phase = "Delete"
  BY DEF Inv, Placed
<1> DEFINE A == EnabledInDb(t) \ mem.enabled
           B == EnabledOf(mem, t)
           E == EnabledInDb(t)
<1>2. Cardinality(A) <= Allowed(disabled, t)
  BY <1>1 DEF Inv, Bounded, Few, EnabledInDb
<1>3. Cardinality(B) <= ToEnable
  <2>1. Cardinality(B) + mem.toGo[t] <= ToEnable
    BY InvWithinQuota DEF WithinQuota
  <2>2. Cardinality(B) \in Nat /\ mem.toGo[t] \in Nat
    BY <1>1, Counts
  <2> HIDE DEF B
  <2>3. QED BY <2>1, <2>2, Amounts
<1>4. A \in SUBSET AllDevs /\ B \in SUBSET AllDevs /\ E \in SUBSET AllDevs /\ A \cup B \in SUBSET AllDevs /\ E \subseteq A \cup B
  BY Amounts DEF EnabledInDb, EnabledOf
<1> HIDE DEF A, B
<1>5. IsFiniteSet(A) /\ IsFiniteSet(B) /\ Cardinality(A) \in Nat /\ Cardinality(B) \in Nat /\ IsFiniteSet(A \cup B)
  BY <1>4, Amounts
<1>6. Cardinality(A \cup B) \in Nat /\ Cardinality(A \cap B) \in Nat /\ Cardinality(E) \in Nat
  <2>1. A \cap B \in SUBSET AllDevs
    BY <1>4
  <2>2. QED BY <1>4, <2>1, Amounts
<1>7. Cardinality(A \cup B) = Cardinality(A) + Cardinality(B) - Cardinality(A \cap B)
  BY <1>5, FS_Union
<1>8. Cardinality(E) <= Cardinality(A \cup B)
  BY <1>4, <1>5, FS_Subset
<1>9. Cardinality(E) <= Cardinality(A) + Cardinality(B)
  BY <1>5, <1>6, <1>7, <1>8
<1>10. Allowed(disabled, t) \in Nat /\ ToEnable \in Nat
  BY AllowedType, Amounts
<1> HIDE DEF E
<1>11. Cardinality(E) <= Allowed(disabled, t) + ToEnable
  BY <1>2, <1>3, <1>5, <1>6, <1>9, <1>10
<1>12. QED BY <1>11 DEF E

LEMMA InvAllFound ==
    ASSUME Inv, main.pc = "over" PROVE AllFoundEnabled
<1>1. /\ Shape /\ mem.enabled \cap disabled = {}
      /\ \A t \in {"T", "R"} : worker[t].pc = "ended" /\ worker[t].found = {} /\ mem.toGo[t] = worker[t].toGo
  BY DEF Inv, Placed, Emptied, Looking
<1>2. ASSUME NEW t \in {"T", "R"} \ hist.short
      PROVE  Cardinality(EnabledOf(mem, t)) = ToEnable \/ Candidates(t) \subseteq hist.trendless
  <2>1. CASE worker[t].toGo = 0
    <3>1. ToEnable <= Planned(t) /\ Planned(t) <= ToEnable
      BY <1>1 DEF Inv, Filled, Quota
    <3>2. Planned(t) = Cardinality(EnabledOf(mem, t)) + 0 + 0
      BY <1>1, <2>1 DEF Planned
    <3>3. Cardinality(EnabledOf(mem, t)) \in Nat
      BY <1>1, Counts
    <3>4. QED BY <3>1, <3>2, <3>3, Amounts
  <2>2. CASE worker[t].toGo # 0
    <3>1. Candidates(t) \subseteq Seen(t)
      BY <1>1, <2>2 DEF Inv, Swept, SweptOf, Heeded
    <3>2. Candidates(t) \subseteq disabled
      BY CandidateRows
    <3>3. QED BY <1>1, <3>1, <3>2 DEF Seen
  <2>3. QED BY <2>1, <2>2
<1>3. QED BY <1>1, <1>2 DEF AllFoundEnabled

(* Enable plans for no more than its quota in every state that a process   *)
(* may continue from, and at the end the developers that it listed are     *)
(* enabled: no more than Disable left and it may add, as many as were to   *)
(* be or all that have a trend.                                            *)
THEOREM EnabledAreAsPlanned == Spec => []EnabledAsPlanned
<1>1. Inv => EnabledAsPlanned
  BY InvWithinQuota, InvBounded, InvAllFound DEF EnabledAsPlanned
<1>2. QED BY <1>1, Invariant, PTL
===================================================================================
