----------------------------- MODULE Discovery_proofs -----------------------------
(***************************************************************************)
(* Proofs about the Discovery phase, for any tweets, subreddits, workers   *)
(* and faults: no post is counted twice, and what is counted is whole.     *)
(*                                                                         *)
(* The inductive invariant has a part for each thing that could go wrong.  *)
(* Pipeline follows each subreddit from worker to worker.  Batched says    *)
(* that the search is at the token and behind no batch of the state.       *)
(* Developers says that a state is whole (every snapshot has its time, its *)
(* developer and is counted), which merging two states keeps because sums  *)
(* add up.  Searched bounds the snapshots of a state by the tweets it has  *)
(* consumed, which is what its token says; Merged does the same for Reddit *)
(* with the subreddits that are merged.                                    *)
(***************************************************************************)
EXTENDS Discovery, FiniteSetTheorems, TLAPS

-----------------------------------------------------------------------------
(* Sums.                                                                   *)

Pairs(count, S) == UNION {{x} \X (1 .. count[x]) : x \in S}

LEMMA PairOf ==
    ASSUME NEW S, NEW count \in [S -> Nat], NEW z
    PROVE  z \in Pairs(count, S) <=> \E x \in S : \E k \in 1 .. count[x] : z = <<x, k>>
  BY DEF Pairs

(* The sum over a finite set is a natural number.                          *)
LEMMA PairsFinite ==
    ASSUME NEW S, IsFiniteSet(S), NEW count \in [S -> Nat]
    PROVE  IsFiniteSet(Pairs(count, S)) /\ Total(count, S) \in Nat
<1> DEFINE f == [x \in S |-> {x} \X (1 .. count[x])]
           T == {{x} \X (1 .. count[x]) : x \in S}
<1>1. f \in Surjection(S, T)
  BY DEF Surjection
<1>2. IsFiniteSet(T)
  BY <1>1, FS_Surjection
<1>3. \A t \in T : IsFiniteSet(t)
  <2> SUFFICES ASSUME NEW x \in S PROVE IsFiniteSet({x} \X (1 .. count[x]))
    OBVIOUS
  <2>1. IsFiniteSet({x})
    BY FS_Singleton
  <2>2. count[x] \in Int /\ 1 \in Int
    OBVIOUS
  <2>3. IsFiniteSet(1 .. count[x])
    BY <2>2, FS_Interval
  <2>4. QED BY <2>1, <2>3, FS_Product
<1>4. IsFiniteSet(UNION T)
  BY <1>2, <1>3, FS_UNION
<1>5. IsFiniteSet(Pairs(count, S))
  BY <1>4 DEF Pairs
<1>6. QED BY <1>5, FS_CardinalityType DEF Pairs, Total

LEMMA NothingTotal ==
    ASSUME NEW S
    PROVE  Total([x \in S |-> 0], S) = 0
<1> DEFINE z == [x \in S |-> 0]
<1>1. \A x \in S : 1 .. z[x] = {}
  OBVIOUS
<1>2. Pairs(z, S) = {}
  BY <1>1 DEF Pairs
<1>3. QED BY <1>2, FS_EmptySet DEF Pairs, Total

(* Sums add up.                                                            *)
LEMMA TotalAdds ==
    ASSUME NEW S, IsFiniteSet(S), NEW a \in [S -> Nat], NEW b \in [S -> Nat],
           NEW c \in [S -> Nat], \A y \in S : c[y] = a[y] + b[y]
    PROVE  Total(c, S) = Total(a, S) + Total(b, S)
<1> DEFINE A == Pairs(a, S)
           B == Pairs(b, S)
           C == Pairs(c, S)
           M == C \ A
           f == [z \in B |-> <<z[1], a[z[1]] + z[2]>>]
<1>1. IsFiniteSet(A) /\ IsFiniteSet(B) /\ IsFiniteSet(C)
  BY PairsFinite
<1>a. ASSUME NEW x \in S PROVE a[x] \in Nat /\ b[x] \in Nat /\ c[x] \in Nat /\ c[x] = a[x] + b[x]
  OBVIOUS
<1>2. A \subseteq C
  <2> SUFFICES ASSUME NEW z \in A PROVE z \in C
    OBVIOUS
  <2>p1. PICK x \in S : \E k \in 1 .. a[x] : z = <<x, k>>
    BY PairOf
  <2>1. PICK k \in 1 .. a[x] : z = <<x, k>>
    BY <2>p1
  <2>2. k \in 1 .. c[x]
    BY <1>a
  <2>3. QED BY <2>1, <2>2, PairOf
<1>3. \A z \in B : f[z] \in M
  <2> SUFFICES ASSUME NEW z \in B PROVE f[z] \in M
    OBVIOUS
  <2>p1. PICK x \in S : \E k \in 1 .. b[x] : z = <<x, k>>
    BY PairOf
  <2>1. PICK k \in 1 .. b[x] : z = <<x, k>>
    BY <2>p1
  <2>2. f[z] = <<x, a[x] + k>>
    BY <2>1
  <2>3. a[x] + k \in 1 .. c[x] /\ ~(a[x] + k \in 1 .. a[x])
    BY <1>a
  <2>4. f[z] \in C
    BY <2>2, <2>3, PairOf
  <2>5. f[z] \notin A
    <3> SUFFICES ASSUME f[z] \in A PROVE FALSE
      OBVIOUS
    <3>p1. PICK y \in S : \E j \in 1 .. a[y] : f[z] = <<y, j>>
      BY PairOf
    <3>1. PICK j \in 1 .. a[y] : f[z] = <<y, j>>
      BY <3>p1
    <3>2. y = x /\ j = a[x] + k
      BY <3>1, <2>2
    <3>3. QED BY <3>2, <2>3
  <2>6. QED BY <2>4, <2>5
<1>4. \A z, w \in B : f[z] = f[w] => z = w
  <2> SUFFICES ASSUME NEW z \in B, NEW w \in B, f[z] = f[w] PROVE z = w
    OBVIOUS
  <2>p1. PICK x \in S : \E k \in 1 .. b[x] : z = <<x, k>>
    BY PairOf
  <2>1. PICK k \in 1 .. b[x] : z = <<x, k>>
    BY <2>p1
  <2>p2. PICK y \in S : \E j \in 1 .. b[y] : w = <<y, j>>
    BY PairOf
  <2>2. PICK j \in 1 .. b[y] : w = <<y, j>>
    BY <2>p2
  <2>3. f[z] = <<x, a[x] + k>> /\ f[w] = <<y, a[y] + j>>
    BY <2>1, <2>2
  <2>4. x = y /\ a[x] + k = a[y] + j
    BY <2>3
  <2>5. k = j
    BY <2>4, <1>a
  <2>6. QED BY <2>1, <2>2, <2>4, <2>5
<1>5. \A w \in M : \E z \in B : f[z] = w
  <2> SUFFICES ASSUME NEW w \in M PROVE \E z \in B : f[z] = w
    OBVIOUS
  <2>p1. PICK x \in S : \E k \in 1 .. c[x] : w = <<x, k>>
    BY PairOf
  <2>1. PICK k \in 1 .. c[x] : w = <<x, k>>
    BY <2>p1
  <2>2. ~(k \in 1 .. a[x])
    BY <2>1, PairOf
  <2>3. k - a[x] \in 1 .. b[x]
    BY <2>2, <1>a
  <2> DEFINE z == <<x, k - a[x]>>
  <2>4. z \in B
    BY <2>3, PairOf
  <2>5. f[z] = <<x, a[x] + (k - a[x])>>
    BY <2>4
  <2>6. a[x] + (k - a[x]) = k
    BY <1>a
  <2>7. QED BY <2>1, <2>4, <2>5, <2>6
<1>6. f \in [B -> M]
  BY <1>3
<1>7. f \in Injection(B, M)
  BY <1>6, <1>4 DEF Injection, IsInjective
<1>8. f \in Surjection(B, M)
  BY <1>6, <1>5 DEF Surjection
<1>9. ExistsBijection(B, M)
  BY <1>7, <1>8 DEF ExistsBijection, Bijection
<1>10. IsFiniteSet(M) /\ Cardinality(M) = Cardinality(B)
  BY <1>1, <1>9, FS_Bijection
<1>11. A \cap M = {} /\ A \cup M = C
  BY <1>2
<1>12. Cardinality(C) = Cardinality(A) + Cardinality(M) - Cardinality(A \cap M)
  BY <1>1, <1>10, <1>11, FS_Union
<1>13. Cardinality(A \cap M) = 0
  BY <1>11, FS_EmptySet
<1>14. Cardinality(A) \in Nat /\ Cardinality(M) \in Nat
  BY <1>1, <1>10, FS_CardinalityType
<1> HIDE DEF M, f
<1>15. Cardinality(C) = Cardinality(A) + Cardinality(B)
  BY <1>10, <1>12, <1>13, <1>14
<1>16. QED BY <1>15 DEF Pairs, Total

Marked(T) == [p \in Posts |-> IF p \in T THEN 1 ELSE 0]

(* The sum of one for each of some posts is their number.                  *)
LEMMA MarkedTotal ==
    ASSUME NEW T \in SUBSET Posts
    PROVE  Marked(T) \in [Posts -> Nat] /\ Total(Marked(T), Posts) = Cardinality(T)
<1> DEFINE m == Marked(T)
           P == Pairs(m, Posts)
           f == [p \in T |-> <<p, 1>>]
<1>1. m \in [Posts -> Nat]
  BY DEF Marked
<1>2. \A z : z \in P <=> \E p \in T : z = <<p, 1>>
  <2> SUFFICES ASSUME NEW z PROVE z \in P <=> \E p \in T : z = <<p, 1>>
    OBVIOUS
  <2>1. z \in P <=> \E p \in Posts : \E k \in 1 .. m[p] : z = <<p, k>>
    BY <1>1, PairOf
  <2>2. \A p \in Posts : \A k : k \in 1 .. m[p] <=> p \in T /\ k = 1
    BY DEF Marked
  <2> HIDE DEF m
  <2>3. QED BY <2>1, <2>2
<1> HIDE DEF P
<1>3. f \in [T -> P] /\ (\A p, q \in T : f[p] = f[q] => p = q) /\ \A z \in P : \E p \in T : f[p] = z
  BY <1>2
<1>4. ExistsBijection(T, P)
  BY <1>3 DEF ExistsBijection, Bijection, Injection, Surjection, IsInjective
<1>5. IsFiniteSet(T)
  BY DiscoveryAssumption, FS_Subset
<1>6. Cardinality(P) = Cardinality(T)
  BY <1>4, <1>5, FS_Bijection
<1>7. QED BY <1>1, <1>6 DEF P, Pairs, Total

-----------------------------------------------------------------------------
(* The inductive invariant.                                                *)

AllGames == {GameOf[p] : p \in Posts}
Searchable == Tweets \cup Range(Retweeted)

ScoutStates ==
    [snaps : [Posts -> Nat], times : [Posts -> Nat], games : SUBSET AllGames, consumed : Nat,
     batch : 0 .. NumBatches, token : 0 .. Len(Pages) - 1]
Mains ==
    [pc : {"search", "batch", "scrapers", "down", "done"}, i : Nat, token : 0 .. Len(Pages) - 1,
     todo : SUBSET Tweets, games : SUBSET AllGames, err : BOOLEAN]
Stages ==
    {"queued", "scraping", "scraped", "posted", "batching", "batched", "merged", "skipped",
     "tempError", "error", "batchError"}
Reddits ==
    [pc : {"request", "on", "done", "assigned"}, forwarder : BOOLEAN, results : Nat, err : BOOLEAN]

Shape ==
    /\ mem \in ScoutStates /\ rmem \in ScoutStates /\ (disk = None \/ disk \in ScoutStates)
    /\ main \in Mains /\ reddit \in Reddits
    /\ sub \in [Subs -> Stages] /\ fetched \in [Subs -> SUBSET RedditPosts]
    /\ db \subseteq {Author[p] : p \in Posts}
    /\ hist \in [wrapped : BOOLEAN, partial : BOOLEAN, again : BOOLEAN]

(* The workers of the pipeline and what they were given.                   *)
Pipeline ==
    /\ Cardinality(In("scraping")) <= Scrapers /\ Cardinality(In("batching")) <= Batchers
    /\ reddit.results <= Cardinality(In("merged"))
    /\ \A s \in Subs : fetched[s] \subseteq Range(Top[s]) /\ 2 * Cardinality(fetched[s]) <= 3 * PerSubreddit

(* The search is behind no batch that is counted, at the state's token.    *)
Batched ==
    /\ main.pc \in {"search", "batch"} => mem.batch <= main.i /\ main.token = mem.token
    /\ main.pc = "batch" => main.i < NumBatches /\ main.todo \subseteq Pages[main.token + 1]

Whole(state, devs) ==
    /\ \A p \in Posts : state.snaps[p] > 0 => Author[p] \in devs
    /\ \A p \in Posts : state.times[p] >= state.snaps[p]
    /\ state.consumed = Total(state.times, Posts)

(* A batch of Reddit posts is merged when its developers are saved.        *)
Developers ==
    /\ Whole(mem, db) /\ Whole(rmem, db) /\ (disk # None => Whole(disk, db))
    /\ \A s \in Subs : sub[s] = "batched" => \A p \in fetched[s] : Author[p] \in db

(* The tweets of the batches that a state counts, before the first page is *)
(* searched again.                                                         *)
Consumed(state) ==
    IF state.token # 0 THEN UNION {Pages[j] : j \in 1 .. state.token}
    ELSE IF state.batch = 0 THEN {} ELSE Tweets

From(T, p) == {q \in T : TransformTweet(q) = p}
Within(state, T) == \A p \in Searchable : state.snaps[p] <= Cardinality(From(T, p))

(* No state has more snapshots than the tweets it has consumed give.       *)
Sought ==
    /\ disk # None => Within(disk, Consumed(disk))
    /\ main.pc \in {"search", "scrapers"} => Within(mem, Consumed(mem))
    /\ main.pc = "batch" =>
         /\ main.token # 0 \/ mem.batch = 0
         /\ Within(mem, Consumed(mem) \cup (Pages[main.token + 1] \ main.todo))
    /\ Within(mem, Tweets)

Searched ==
    /\ \A p \in Searchable : rmem.snaps[p] = 0
    /\ ~hist.wrapped /\ ~hist.partial => Sought

(* Reddit's posts are merged once, and into the main state at its end.     *)
Merged ==
    /\ \A s \in Subs : \A p \in Range(Top[s]) : rmem.snaps[p] <= IF sub[s] = "merged" THEN 1 ELSE 0
    /\ ~hist.again => \A p \in RedditPosts :
         /\ mem.snaps[p] <= IF main.pc \in {"search", "batch"} THEN 0 ELSE 1
         /\ disk # None => disk.snaps[p] <= 1

Inv == Shape /\ Pipeline /\ Batched /\ Developers /\ Searched /\ Merged

-----------------------------------------------------------------------------
(* The constants.                                                          *)

LEMMA PostSets ==
    /\ IsFiniteSet(Posts) /\ IsFiniteSet(Tweets) /\ IsFiniteSet(Subs)
    /\ Tweets \subseteq Searchable /\ Searchable \subseteq Posts /\ RedditPosts \subseteq Posts
    /\ Posts = Searchable \cup RedditPosts /\ Searchable \cap RedditPosts = {}
    /\ \A p \in Tweets : TransformTweet(p) \in Searchable /\ TransformTweet(p) \in Posts
    /\ \A s \in Subs : Range(Top[s]) \subseteq RedditPosts
<1>1. Posts = Searchable \cup RedditPosts /\ Tweets \subseteq Searchable
  BY DEF Posts, Searchable
<1>2. IsFiniteSet(Posts) /\ IsFiniteSet(Subs) /\ Searchable \cap RedditPosts = {}
  BY DiscoveryAssumption DEF Searchable
<1>3. IsFiniteSet(Tweets)
  BY <1>1, <1>2, FS_Subset
<1>4. \A p \in Tweets : TransformTweet(p) \in Searchable
  BY DEF TransformTweet, Searchable, Range
<1>5. \A s \in Subs : Range(Top[s]) \subseteq RedditPosts
  BY DEF RedditPosts
<1>6. QED BY <1>1, <1>2, <1>3, <1>4, <1>5

LEMMA PageSets ==
    /\ Len(Pages) \in Nat \ {0} /\ NumBatches \in Nat
    /\ \A j \in 1 .. Len(Pages) : Pages[j] \subseteq Tweets
    /\ \A i, j \in 1 .. Len(Pages) : i # j => Pages[i] \cap Pages[j] = {}
<1>1. Len(Pages) \in Nat /\ Len(Pages) > 0 /\ DOMAIN Pages = 1 .. Len(Pages) /\ NumBatches \in Nat
  BY DiscoveryAssumption
<1>2. \A j \in 1 .. Len(Pages) : Pages[j] \subseteq Tweets
  BY <1>1 DEF Tweets
<1>3. QED BY <1>1, <1>2, DiscoveryAssumption

-----------------------------------------------------------------------------
(* The states that are made of others.                                     *)

LEMMA BlankIs ==
    /\ Blank \in ScoutStates /\ Blank.batch = 0 /\ Blank.token = 0
    /\ \A p \in Posts : Blank.snaps[p] = 0
    /\ Whole(Blank, {})
<1>1. Blank \in ScoutStates /\ Blank.batch = 0 /\ Blank.token = 0
  BY PageSets DEF Blank, ScoutStates
<1>2. /\ Blank.snaps = [p \in Posts |-> 0] /\ Blank.times = [p \in Posts |-> 0] /\ Blank.consumed = 0
  BY DEF Blank
<1>3. Total([p \in Posts |-> 0], Posts) = 0
  BY NothingTotal
<1>4. QED BY <1>1, <1>2, <1>3 DEF Whole

LEMMA StateFields ==
    ASSUME NEW st \in ScoutStates
    PROVE  /\ st.snaps \in [Posts -> Nat] /\ st.times \in [Posts -> Nat] /\ st.games \in SUBSET AllGames
           /\ st.consumed \in Nat /\ st.batch \in 0 .. NumBatches /\ st.token \in 0 .. Len(Pages) - 1
           /\ st = [snaps |-> st.snaps, times |-> st.times, games |-> st.games, consumed |-> st.consumed,
                    batch |-> st.batch, token |-> st.token]
  BY DEF ScoutStates

LEMMA WithTimeIs ==
    ASSUME NEW st \in ScoutStates, NEW q \in Posts
    PROVE  /\ WithTime(st, q) \in ScoutStates
           /\ WithTime(st, q).snaps = st.snaps
           /\ \A p \in Posts : WithTime(st, q).times[p] = st.times[p] + Marked({q})[p]
           /\ WithTime(st, q).consumed = st.consumed + 1
           /\ WithTime(st, q).batch = st.batch /\ WithTime(st, q).token = st.token
<1> DEFINE t == WithTime(st, q)
           more == [st.times EXCEPT ![q] = @ + 1]
<1>1. t = [snaps |-> st.snaps, times |-> more, games |-> st.games, consumed |-> st.consumed + 1,
           batch |-> st.batch, token |-> st.token]
  <2>1. st = [snaps |-> st.snaps, times |-> st.times, games |-> st.games, consumed |-> st.consumed,
              batch |-> st.batch, token |-> st.token]
    BY StateFields
  <2>2. t = [[st EXCEPT !.times = more] EXCEPT !.consumed = st.consumed + 1]
    BY <2>1 DEF WithTime
  <2> HIDE DEF t, more
  <2>3. [st EXCEPT !.times = more] =
          [snaps |-> st.snaps, times |-> more, games |-> st.games, consumed |-> st.consumed,
           batch |-> st.batch, token |-> st.token]
    BY <2>1
  <2>4. QED BY <2>2, <2>3
<1>2. st.times \in [Posts -> Nat]
  BY StateFields
<1>3. more \in [Posts -> Nat] /\ \A p \in Posts : more[p] = st.times[p] + Marked({q})[p]
  BY <1>2 DEF Marked
<1> HIDE DEF t, more
<1>4. /\ t.snaps = st.snaps /\ t.times = more /\ t.consumed = st.consumed + 1
      /\ t.batch = st.batch /\ t.token = st.token
  BY <1>1
<1>5. t \in ScoutStates
  BY <1>1, <1>3, StateFields DEF ScoutStates
<1>6. QED BY <1>3, <1>4, <1>5 DEF t

LEMMA WithSnapshotIs ==
    ASSUME NEW st \in ScoutStates, NEW q \in Posts
    PROVE  /\ WithSnapshot(st, q) \in ScoutStates
           /\ \A p \in Posts : WithSnapshot(st, q).snaps[p] = st.snaps[p] + Marked({q})[p]
           /\ WithSnapshot(st, q).times = WithTime(st, q).times
           /\ WithSnapshot(st, q).consumed = st.consumed + 1
           /\ WithSnapshot(st, q).batch = st.batch /\ WithSnapshot(st, q).token = st.token
<1> DEFINE t == WithTime(st, q)
           u == WithSnapshot(st, q)
           more == [st.snaps EXCEPT ![q] = @ + 1]
<1>1. t \in ScoutStates /\ t.snaps = st.snaps /\ t.consumed = st.consumed + 1 /\ t.batch = st.batch /\ t.token = st.token
  BY WithTimeIs
<1>2. u = [t EXCEPT !.snaps[q] = @ + 1]
  BY DEF WithSnapshot
<1> HIDE DEF t, u
<1>3. /\ t.times \in [Posts -> Nat] /\ t.games \in SUBSET AllGames
      /\ t = [snaps |-> t.snaps, times |-> t.times, games |-> t.games, consumed |-> t.consumed,
              batch |-> t.batch, token |-> t.token]
  BY <1>1, StateFields
<1>4. u = [snaps |-> more, times |-> t.times, games |-> t.games, consumed |-> st.consumed + 1,
           batch |-> st.batch, token |-> st.token]
  BY <1>1, <1>2, <1>3
<1>5. st.snaps \in [Posts -> Nat]
  BY StateFields
<1>6. more \in [Posts -> Nat] /\ \A p \in Posts : more[p] = st.snaps[p] + Marked({q})[p]
  BY <1>5 DEF Marked
<1> HIDE DEF more
<1>7. /\ u.snaps = more /\ u.times = t.times /\ u.consumed = st.consumed + 1
      /\ u.batch = st.batch /\ u.token = st.token
  BY <1>4
<1>8. u \in ScoutStates
  BY <1>3, <1>4, <1>6, StateFields DEF ScoutStates
<1>9. QED BY <1>6, <1>7, <1>8 DEF t, u

LEMMA PlusIs ==
    ASSUME NEW a \in ScoutStates, NEW b \in ScoutStates
    PROVE  /\ Plus(a, b) \in ScoutStates
           /\ \A p \in Posts : Plus(a, b).snaps[p] = a.snaps[p] + b.snaps[p]
           /\ \A p \in Posts : Plus(a, b).times[p] = a.times[p] + b.times[p]
           /\ Plus(a, b).games = a.games \cup b.games
           /\ Plus(a, b).consumed = a.consumed + b.consumed
           /\ Plus(a, b).batch = a.batch /\ Plus(a, b).token = a.token
<1> DEFINE t == Plus(a, b)
           ss == [p \in Posts |-> a.snaps[p] + b.snaps[p]]
           ts == [p \in Posts |-> a.times[p] + b.times[p]]
<1>1. t = [snaps |-> ss, times |-> ts, games |-> a.games \cup b.games, consumed |-> a.consumed + b.consumed,
           batch |-> a.batch, token |-> a.token]
  <2>1. a = [snaps |-> a.snaps, times |-> a.times, games |-> a.games, consumed |-> a.consumed,
             batch |-> a.batch, token |-> a.token]
    BY StateFields
  <2>2. t = [a EXCEPT !.snaps = ss, !.times = ts, !.games = a.games \cup b.games,
                      !.consumed = a.consumed + b.consumed]
    BY DEF Plus
  <2> HIDE DEF t, ss, ts
  <2>3. QED BY <2>1, <2>2
<1>2. /\ a.snaps \in [Posts -> Nat] /\ b.snaps \in [Posts -> Nat]
      /\ a.times \in [Posts -> Nat] /\ b.times \in [Posts -> Nat]
  BY StateFields
<1>3. ss \in [Posts -> Nat] /\ ts \in [Posts -> Nat]
  BY <1>2
<1>4. \A p \in Posts : ss[p] = a.snaps[p] + b.snaps[p] /\ ts[p] = a.times[p] + b.times[p]
  OBVIOUS
<1> HIDE DEF t, ss, ts
<1>5. /\ t.snaps = ss /\ t.times = ts /\ t.games = a.games \cup b.games /\ t.consumed = a.consumed + b.consumed
      /\ t.batch = a.batch /\ t.token = a.token
  BY <1>1
<1>6. t \in ScoutStates
  BY <1>1, <1>3, StateFields DEF ScoutStates
<1>7. QED BY <1>4, <1>5, <1>6 DEF t

LEMMA TempStateIs ==
    ASSUME NEW s, fetched[s] \subseteq RedditPosts, NEW games \in SUBSET AllGames
    PROVE  /\ TempState(s, games) \in ScoutStates
           /\ TempState(s, games).snaps = Marked(fetched[s])
           /\ TempState(s, games).times = Marked(fetched[s])
           /\ TempState(s, games).consumed = Cardinality(fetched[s])
<1>1. Blank \in ScoutStates
  BY BlankIs
<1>2. IsFiniteSet(fetched[s])
  BY PostSets, FS_Subset
<1>3. Cardinality(fetched[s]) \in Nat
  BY <1>2, FS_CardinalityType
<1>4. Marked(fetched[s]) \in [Posts -> Nat]
  BY DEF Marked
<1>5. TempState(s, games) = [Blank EXCEPT !.snaps = Marked(fetched[s]), !.times = Marked(fetched[s]),
                                          !.games = games, !.consumed = Cardinality(fetched[s])]
  BY DEF TempState, Marked
<1>6. QED BY <1>1, <1>3, <1>4, <1>5 DEF ScoutStates

-----------------------------------------------------------------------------
(* Being whole is kept by each of them.                                    *)

LEMMA WholeGrows ==
    ASSUME NEW st, NEW devs, NEW more, devs \subseteq more, Whole(st, devs)
    PROVE  Whole(st, more)
  BY DEF Whole

LEMMA OneMore ==
    ASSUME NEW st \in ScoutStates, NEW q \in Posts, st.consumed = Total(st.times, Posts)
    PROVE  st.consumed + 1 = Total(WithTime(st, q).times, Posts)
<1> DEFINE a == st.times
           c == WithTime(st, q).times
           b == Marked({q})
<1>1. a \in [Posts -> Nat] /\ c \in [Posts -> Nat] /\ \A p \in Posts : c[p] = a[p] + b[p]
  BY WithTimeIs DEF ScoutStates
<1>2. b \in [Posts -> Nat] /\ Total(b, Posts) = Cardinality({q})
  BY MarkedTotal
<1>3. Cardinality({q}) = 1
  BY FS_Singleton
<1>4. IsFiniteSet(Posts)
  BY PostSets
<1> HIDE DEF a, b, c
<1>5. Total(c, Posts) = Total(a, Posts) + Total(b, Posts)
  BY <1>1, <1>2, <1>4, TotalAdds
<1>6. QED BY <1>2, <1>3, <1>5 DEF a, b, c

LEMMA WholeTime ==
    ASSUME NEW st \in ScoutStates, NEW q \in Posts, NEW devs, Whole(st, devs)
    PROVE  Whole(WithTime(st, q), devs)
<1> DEFINE t == WithTime(st, q)
<1>1. t.snaps = st.snaps /\ t.consumed = st.consumed + 1 /\ \A p \in Posts : t.times[p] = st.times[p] + Marked({q})[p]
  BY WithTimeIs
<1>2. t.consumed = Total(t.times, Posts)
  BY <1>1, OneMore DEF Whole
<1>3. \A p \in Posts : st.times[p] \in Nat /\ st.snaps[p] \in Nat /\ Marked({q})[p] \in Nat
  BY DEF ScoutStates, Marked
<1> HIDE DEF t
<1>4. Whole(t, devs)
  BY <1>1, <1>2, <1>3 DEF Whole
<1>5. QED BY <1>4 DEF t

LEMMA WholeSnapshot ==
    ASSUME NEW st \in ScoutStates, NEW q \in Posts, NEW devs, Whole(st, devs), Author[q] \in devs
    PROVE  Whole(WithSnapshot(st, q), devs)
<1> DEFINE t == WithSnapshot(st, q)
<1>1. /\ \A p \in Posts : t.snaps[p] = st.snaps[p] + Marked({q})[p]
      /\ t.times = WithTime(st, q).times /\ t.consumed = st.consumed + 1
  BY WithSnapshotIs
<1>2. \A p \in Posts : t.times[p] = st.times[p] + Marked({q})[p]
  BY <1>1, WithTimeIs
<1>3. t.consumed = Total(t.times, Posts)
  BY <1>1, OneMore DEF Whole
<1>4. \A p \in Posts : /\ st.times[p] \in Nat /\ st.snaps[p] \in Nat
                       /\ Marked({q})[p] = IF p = q THEN 1 ELSE 0
  BY DEF ScoutStates, Marked
<1> HIDE DEF t
<1>5. ASSUME NEW p \in Posts
      PROVE  (t.snaps[p] > 0 => Author[p] \in devs) /\ t.times[p] >= t.snaps[p]
  <2>1. (st.snaps[p] > 0 => Author[p] \in devs) /\ st.times[p] >= st.snaps[p]
    BY DEF Whole
  <2>2. CASE p = q
    BY <1>1, <1>2, <1>4, <2>1, <2>2
  <2>3. CASE p # q
    BY <1>1, <1>2, <1>4, <2>1, <2>3
  <2>4. QED BY <2>2, <2>3
<1>6. QED BY <1>3, <1>5 DEF t, Whole

LEMMA WholePlus ==
    ASSUME NEW a \in ScoutStates, NEW b \in ScoutStates, NEW devs, Whole(a, devs), Whole(b, devs)
    PROVE  Whole(Plus(a, b), devs)
<1> DEFINE t == Plus(a, b)
<1>1. /\ t \in ScoutStates
      /\ \A p \in Posts : t.snaps[p] = a.snaps[p] + b.snaps[p] /\ t.times[p] = a.times[p] + b.times[p]
      /\ t.consumed = a.consumed + b.consumed
  BY PlusIs
<1> HIDE DEF t
<1>2. /\ a.times \in [Posts -> Nat] /\ b.times \in [Posts -> Nat] /\ t.times \in [Posts -> Nat]
      /\ \A p \in Posts : a.snaps[p] \in Nat /\ b.snaps[p] \in Nat
  BY <1>1 DEF ScoutStates
<1>3. Total(t.times, Posts) = Total(a.times, Posts) + Total(b.times, Posts)
  BY <1>1, <1>2, PostSets, TotalAdds
<1>4. Whole(t, devs)
  <2>1. ASSUME NEW p \in Posts
        PROVE  (t.snaps[p] > 0 => Author[p] \in devs) /\ t.times[p] >= t.snaps[p]
    <3>1. /\ a.snaps[p] \in Nat /\ b.snaps[p] \in Nat /\ a.times[p] \in Nat /\ b.times[p] \in Nat
          /\ t.snaps[p] = a.snaps[p] + b.snaps[p] /\ t.times[p] = a.times[p] + b.times[p]
      BY <1>1, <1>2
    <3>2. /\ a.snaps[p] > 0 => Author[p] \in devs
          /\ b.snaps[p] > 0 => Author[p] \in devs
          /\ a.times[p] >= a.snaps[p] /\ b.times[p] >= b.snaps[p]
      BY DEF Whole
    <3>3. QED BY <3>1, <3>2
  <2>2. QED BY <1>1, <1>3, <2>1 DEF Whole
<1>5. QED BY <1>4 DEF t

LEMMA WholeTempState ==
    ASSUME NEW s, fetched[s] \subseteq RedditPosts, NEW games \in SUBSET AllGames, NEW devs,
           \A p \in fetched[s] : Author[p] \in devs
    PROVE  Whole(TempState(s, games), devs)
<1>1. fetched[s] \in SUBSET Posts
  BY PostSets
<1>2. Total(Marked(fetched[s]), Posts) = Cardinality(fetched[s])
  BY <1>1, MarkedTotal
<1>3. \A p \in Posts : Marked(fetched[s])[p] = IF p \in fetched[s] THEN 1 ELSE 0
  BY DEF Marked
<1> DEFINE t == TempState(s, games)
<1>4. t.snaps = Marked(fetched[s]) /\ t.times = Marked(fetched[s]) /\ t.consumed = Cardinality(fetched[s])
  BY TempStateIs
<1> HIDE DEF t
<1>5. \A p \in Posts : t.times[p] >= t.snaps[p]
  BY <1>3, <1>4
<1>6. \A p \in Posts : t.snaps[p] > 0 => Author[p] \in devs
  BY <1>3, <1>4
<1>7. t.consumed = Total(t.times, Posts)
  BY <1>2, <1>4
<1>8. QED BY <1>5, <1>6, <1>7 DEF t, Whole

-----------------------------------------------------------------------------
(* What each step of the search changes.                                   *)

PipelineStays == UNCHANGED <<sub, fetched, reddit, rmem>>
SearchStays == UNCHANGED <<main, mem, disk, hist>>

LEMMA MainFields ==
    ASSUME Shape
    PROVE  /\ main.pc \in {"search", "batch", "scrapers", "down", "done"} /\ main.i \in Nat
           /\ main.token \in 0 .. Len(Pages) - 1 /\ main.todo \in SUBSET Tweets
           /\ main.games \in SUBSET AllGames /\ main.err \in BOOLEAN
           /\ main = [pc |-> main.pc, i |-> main.i, token |-> main.token, todo |-> main.todo,
                     games |-> main.games, err |-> main.err]
  BY DEF Shape, Mains

LEMMA GamesTyped ==
    ASSUME NEW p \in Posts
    PROVE  Games(p) \in SUBSET AllGames
  BY DEF Games, AllGames

LEMMA DownMoves ==
    ASSUME Shape, TransformFails \/ Crash
    PROVE  /\ main' \in Mains /\ main'.pc = "down"
           /\ UNCHANGED <<mem, disk, db, hist>> /\ PipelineStays
<1>1. main' = [main EXCEPT !.pc = "down"] /\ UNCHANGED <<mem, disk, sub, fetched, reddit, rmem, db, hist>>
  BY DEF TransformFails, Crash, Down
<1>2. main \in Mains
  BY DEF Shape
<1>3. QED BY <1>1, <1>2 DEF Mains, PipelineStays

LEMMA ResultMoves ==
    ASSUME Shape, NEW p \in main.todo, Result(p)
    PROVE  /\ main.pc = "batch" /\ p \in Tweets
           /\ main' \in Mains /\ main'.pc = "batch" /\ main'.i = main.i /\ main'.token = main.token
           /\ main'.todo = main.todo \ {p}
           /\ mem' \in ScoutStates /\ mem' = WithSnapshot(mem, TransformTweet(p))
           /\ db' = db \cup {Author[TransformTweet(p)]}
           /\ UNCHANGED <<disk, hist>> /\ PipelineStays
<1>1. main.pc = "batch" /\ p \in Tweets
  BY MainFields DEF Result
<1>2. TransformTweet(p) \in Posts /\ mem \in ScoutStates
  BY <1>1, PostSets DEF Shape
<1>3. PICK games \in {{}, Games(TransformTweet(p))} :
        main' = [main EXCEPT !.todo = @ \ {p}, !.games = @ \cup games]
  BY DEF Result
<1>4. games \in SUBSET AllGames
  BY <1>2, GamesTyped
<1>5. main' = [pc |-> "batch", i |-> main.i, token |-> main.token, todo |-> main.todo \ {p},
               games |-> main.games \cup games, err |-> main.err]
  BY <1>1, <1>3, MainFields
<1>6. main' \in Mains
  BY <1>4, <1>5, MainFields DEF Mains
<1>7. mem' = WithSnapshot(mem, TransformTweet(p)) /\ mem' \in ScoutStates
  BY <1>2, WithSnapshotIs DEF Result
<1>8. db' = db \cup {Author[TransformTweet(p)]} /\ UNCHANGED <<disk, hist, sub, fetched, reddit, rmem>>
  BY DEF Result
<1>9. QED BY <1>1, <1>5, <1>6, <1>7, <1>8 DEF PipelineStays

LEMMA UpsertFailsMoves ==
    ASSUME Shape, NEW p \in main.todo, UpsertFails(p)
    PROVE  /\ main.pc = "batch" /\ TransformTweet(p) \in Posts
           /\ main' \in Mains /\ main'.pc = "down"
           /\ mem' \in ScoutStates /\ mem' = WithTime(mem, TransformTweet(p)) /\ disk' = mem'
           /\ db \subseteq db' /\ db' \subseteq {Author[q] : q \in Posts}
           /\ hist' \in [wrapped : BOOLEAN, partial : BOOLEAN, again : BOOLEAN]
           /\ hist'.partial /\ hist'.again = hist.again
           /\ PipelineStays
<1>1. main.pc = "batch" /\ p \in Tweets
  BY MainFields DEF UpsertFails
<1>2. TransformTweet(p) \in Posts /\ mem \in ScoutStates /\ main \in Mains
  BY <1>1, PostSets DEF Shape
<1>3. main' = [main EXCEPT !.pc = "down"] /\ disk' = mem' /\ mem' = WithTime(mem, TransformTweet(p))
  BY DEF UpsertFails, ReturnError
<1>4. main' \in Mains /\ main'.pc = "down"
  BY <1>2, <1>3 DEF Mains
<1>5. db' = db \/ db' = db \cup {Author[TransformTweet(p)]}
  BY DEF UpsertFails
<1>6. hist' = [hist EXCEPT !.partial = TRUE] /\ UNCHANGED <<sub, fetched, reddit, rmem>>
  BY DEF UpsertFails
<1>7. hist \in [wrapped : BOOLEAN, partial : BOOLEAN, again : BOOLEAN] /\ db \subseteq {Author[q] : q \in Posts}
  BY DEF Shape
<1>8. /\ hist' \in [wrapped : BOOLEAN, partial : BOOLEAN, again : BOOLEAN]
      /\ hist'.partial /\ hist'.again = hist.again
  BY <1>6, <1>7
<1>9. mem' \in ScoutStates
  BY <1>2, <1>3, WithTimeIs
<1>10. db \subseteq db' /\ db' \subseteq {Author[q] : q \in Posts}
  BY <1>2, <1>5, <1>7
<1>11. QED BY <1>1, <1>2, <1>3, <1>4, <1>6, <1>8, <1>9, <1>10 DEF PipelineStays

LEMMA SearchMoves ==
    ASSUME Shape, Search
    PROVE  /\ main.pc = "search" /\ main.i < NumBatches
           /\ main' \in Mains /\ main'.pc = "batch" /\ main'.i = main.i /\ main'.token = main.token
           /\ main'.todo = Pages[main.token + 1]
           /\ hist' \in [wrapped : BOOLEAN, partial : BOOLEAN, again : BOOLEAN]
           /\ hist'.partial = hist.partial /\ hist'.again = hist.again
           /\ hist'.wrapped = (hist.wrapped \/ (main.token = 0 /\ mem.batch > 0))
           /\ UNCHANGED <<mem, disk, db>> /\ PipelineStays
<1>1. main.pc = "search" /\ main.i < NumBatches
  BY DEF Search
<1>2. main.token + 1 \in 1 .. Len(Pages)
  BY MainFields, PageSets
<1>3. Pages[main.token + 1] \in SUBSET Tweets
  BY <1>2, PageSets
<1>4. main' = [pc |-> "batch", i |-> main.i, token |-> main.token, todo |-> Pages[main.token + 1],
               games |-> main.games, err |-> FALSE]
  BY MainFields DEF Search
<1>5. main' \in Mains
  BY <1>3, <1>4, MainFields DEF Mains
<1>6. hist \in [wrapped : BOOLEAN, partial : BOOLEAN, again : BOOLEAN]
  BY DEF Shape
<1>7. hist' = [hist EXCEPT !.wrapped = @ \/ (main.token = 0 /\ mem.batch > 0)]
  BY DEF Search
<1>8. /\ hist' \in [wrapped : BOOLEAN, partial : BOOLEAN, again : BOOLEAN]
      /\ hist'.partial = hist.partial /\ hist'.again = hist.again
      /\ hist'.wrapped = (hist.wrapped \/ (main.token = 0 /\ mem.batch > 0))
  BY <1>6, <1>7
<1>9. UNCHANGED <<mem, disk, sub, fetched, reddit, rmem, db>>
  BY DEF Search
<1>10. QED BY <1>1, <1>4, <1>5, <1>8, <1>9 DEF PipelineStays

LEMMA SearchFailsMoves ==
    ASSUME Shape, SearchFails
    PROVE  /\ main.pc = "search" /\ main' \in Mains /\ main'.pc = "search"
           /\ main'.i = main.i + 1 /\ main'.token = main.token
           /\ UNCHANGED <<mem, disk, db, hist>> /\ PipelineStays
<1>1. main.pc = "search" /\ UNCHANGED <<mem, disk, sub, fetched, reddit, rmem, db, hist>>
  BY DEF SearchFails
<1>2. main' = [pc |-> "search", i |-> main.i + 1, token |-> main.token, todo |-> main.todo,
               games |-> main.games, err |-> TRUE]
  BY MainFields DEF SearchFails
<1>3. main' \in Mains
  BY <1>2, MainFields DEF Mains
<1>4. QED BY <1>1, <1>2, <1>3 DEF PipelineStays

LEMMA CheckpointMoves ==
    ASSUME Shape, Batched, Checkpoint
    PROVE  /\ main.pc = "batch" /\ main.todo = {}
           /\ main' \in Mains /\ main'.pc = "search" /\ main'.i = main.i + 1 /\ main'.token = NextToken
           /\ mem' \in ScoutStates /\ mem'.batch = mem.batch + 1 /\ mem'.token = NextToken
           /\ mem'.snaps = mem.snaps /\ mem'.times = mem.times /\ mem'.consumed = mem.consumed
           /\ disk' = mem' \/ disk' = disk
           /\ UNCHANGED <<db, hist>> /\ PipelineStays
<1>1. main.pc = "batch" /\ main.todo = {} /\ UNCHANGED <<db, hist, sub, fetched, reddit, rmem>>
  BY DEF Checkpoint
<1>2. NextToken \in 0 .. Len(Pages) - 1
  BY MainFields, PageSets DEF NextToken
<1>3. mem.batch + 1 \in 0 .. NumBatches
  <2>1. mem.batch <= main.i /\ main.i < NumBatches
    BY <1>1 DEF Batched
  <2>2. mem.batch \in 0 .. NumBatches /\ main.i \in Nat
    BY MainFields, StateFields DEF Shape
  <2>3. QED BY <2>1, <2>2, PageSets
<1>4. /\ mem \in ScoutStates
      /\ mem = [snaps |-> mem.snaps, times |-> mem.times, games |-> mem.games, consumed |-> mem.consumed,
               batch |-> mem.batch, token |-> mem.token]
  BY StateFields DEF Shape
<1>5. mem' = [snaps |-> mem.snaps, times |-> mem.times, games |-> mem.games, consumed |-> mem.consumed,
              batch |-> mem.batch + 1, token |-> NextToken]
  BY <1>4 DEF Checkpoint, AtCheckpoint
<1>6. mem' \in ScoutStates
  BY <1>2, <1>3, <1>4, <1>5, StateFields DEF ScoutStates
<1>7. PICK err \in BOOLEAN :
        main' = [pc |-> "search", i |-> main.i + 1, token |-> NextToken, todo |-> main.todo,
                 games |-> main.games, err |-> err]
  BY MainFields DEF Checkpoint
<1>8. main' \in Mains
  BY <1>2, <1>7, MainFields DEF Mains
<1>9. disk' = mem' \/ disk' = disk
  BY DEF Checkpoint
<1>10. QED BY <1>1, <1>5, <1>6, <1>7, <1>8, <1>9 DEF PipelineStays

LEMMA MergeRedditMoves ==
    ASSUME Shape, MergeReddit
    PROVE  /\ main.pc = "search" /\ main' \in Mains /\ main'.pc = "scrapers"
           /\ mem' \in ScoutStates /\ mem' = Plus(mem, rmem)
           /\ UNCHANGED <<disk, db, hist>> /\ PipelineStays
<1>1. main.pc = "search" /\ mem' = Plus(mem, rmem) /\ UNCHANGED <<disk, db, hist, sub, fetched, reddit, rmem>>
  BY DEF MergeReddit
<1>2. mem' \in ScoutStates
  BY <1>1, PlusIs DEF Shape
<1>3. mem'.games \in SUBSET AllGames
  BY <1>2 DEF ScoutStates
<1>4. reddit.err \in BOOLEAN
  BY DEF Shape, Reddits
<1>5. main' = [pc |-> "scrapers", i |-> main.i, token |-> main.token, todo |-> main.todo,
               games |-> main.games \cup mem'.games,
               err |-> main.err \/ (reddit.pc = "assigned" /\ reddit.err)]
  BY MainFields DEF MergeReddit
<1>6. main' \in Mains
  BY <1>3, <1>4, <1>5, MainFields DEF Mains
<1>7. QED BY <1>1, <1>2, <1>5, <1>6 DEF PipelineStays

LEMMA EndPhaseMoves ==
    ASSUME Shape, EndPhase
    PROVE  /\ main.pc = "scrapers" /\ main' \in Mains /\ main'.pc \in {"down", "done"}
           /\ mem' \in ScoutStates /\ disk' = mem'
           /\ mem'.snaps = mem.snaps /\ mem'.times = mem.times /\ mem'.consumed = mem.consumed
           /\ mem'.batch = mem.batch /\ mem'.token = mem.token
           /\ UNCHANGED <<db, hist>> /\ PipelineStays
<1>1. main.pc = "scrapers" /\ UNCHANGED <<db, hist, sub, fetched, reddit, rmem>>
  BY DEF EndPhase
<1>2. mem \in ScoutStates /\ main \in Mains /\ main.games \in SUBSET AllGames
  BY MainFields DEF Shape
<1>3. CASE main.err
  <2>1. main' = [main EXCEPT !.pc = "down"] /\ disk' = mem /\ mem' = mem
    BY <1>3 DEF EndPhase, ReturnError
  <2>2. main' \in Mains /\ main'.pc = "down"
    BY <1>2, <2>1 DEF Mains
  <2>3. QED BY <1>1, <1>2, <2>1, <2>2 DEF PipelineStays
<1>4. CASE ~main.err
  <2>1. main' = [main EXCEPT !.pc = "done"] /\ disk' = mem' /\ mem' = [mem EXCEPT !.games = @ \cup main.games]
    BY <1>4 DEF EndPhase
  <2>2. main' \in Mains /\ main'.pc = "done"
    BY <1>2, <2>1 DEF Mains
  <2>3. mem' = [snaps |-> mem.snaps, times |-> mem.times, games |-> mem.games \cup main.games,
                consumed |-> mem.consumed, batch |-> mem.batch, token |-> mem.token]
    <3>1. mem = [snaps |-> mem.snaps, times |-> mem.times, games |-> mem.games,
                 consumed |-> mem.consumed, batch |-> mem.batch, token |-> mem.token]
      BY <1>2, StateFields
    <3>2. QED BY <2>1, <3>1
  <2>4. mem' \in ScoutStates
    BY <1>2, <2>3, StateFields DEF ScoutStates
  <2>5. QED BY <1>1, <2>1, <2>2, <2>3, <2>4 DEF PipelineStays
<1>5. QED BY <1>3, <1>4

LEMMA RestartMoves ==
    ASSUME Shape, Restart
    PROVE  /\ main' \in Mains /\ main'.pc = "search" /\ main'.i = mem'.batch /\ main'.token = mem'.token
           /\ mem' \in ScoutStates /\ mem' = (IF disk = None THEN Blank ELSE disk)
           /\ sub' = [s \in Subs |-> "queued"] /\ fetched' = [s \in Subs |-> {}]
           /\ reddit' = [pc |-> "request", forwarder |-> TRUE, results |-> 0, err |-> FALSE]
           /\ rmem' = Blank
           /\ hist' \in [wrapped : BOOLEAN, partial : BOOLEAN, again : BOOLEAN]
           /\ hist'.wrapped = hist.wrapped /\ hist'.partial = hist.partial
           /\ hist'.again = (hist.again \/ (disk # None /\ \E p \in RedditPosts : disk.snaps[p] > 0))
           /\ UNCHANGED <<disk, db>>
<1>1. mem' = (IF disk = None THEN Blank ELSE disk) /\ main' = Starting(mem')
  BY DEF Restart
<1>2. mem' \in ScoutStates
  BY <1>1, BlankIs DEF Shape
<1>3. mem'.batch \in Nat /\ mem'.token \in 0 .. Len(Pages) - 1
  BY <1>2, PageSets DEF ScoutStates
<1>4. main' = [pc |-> "search", i |-> mem'.batch, token |-> mem'.token, todo |-> {}, games |-> {}, err |-> FALSE]
  BY <1>1 DEF Starting
<1>5. main' \in Mains
  BY <1>3, <1>4 DEF Mains
<1>6. hist \in [wrapped : BOOLEAN, partial : BOOLEAN, again : BOOLEAN]
  BY DEF Shape
<1>7. hist' = [hist EXCEPT !.again = @ \/ (disk # None /\ \E p \in RedditPosts : disk.snaps[p] > 0)]
  BY DEF Restart
<1>8. /\ hist' \in [wrapped : BOOLEAN, partial : BOOLEAN, again : BOOLEAN]
      /\ hist'.wrapped = hist.wrapped /\ hist'.partial = hist.partial
      /\ hist'.again = (hist.again \/ (disk # None /\ \E p \in RedditPosts : disk.snaps[p] > 0))
  BY <1>6, <1>7
<1>9. RedditStarts /\ UNCHANGED <<disk, db>>
  BY DEF Restart
<1>10. /\ main'.pc = "search" /\ main'.i = mem'.batch /\ main'.token = mem'.token
  BY <1>4
<1>11. QED BY <1>1, <1>2, <1>5, <1>8, <1>9, <1>10 DEF RedditStarts

-----------------------------------------------------------------------------
(* The choice of posts of a subreddit.                                     *)

LEMMA DivBounds ==
    ASSUME NEW a \in Nat, NEW b \in Nat \ {0}
    PROVE  /\ a \div b \in Nat
           /\ b * (a \div b) <= a
           /\ a < b * ((a \div b) + 1)
OBVIOUS

(* With every q-th of n posts, q being n / w rounded, there are at most    *)
(* half as many again as the w that are wanted.                            *)
LEMMA Rounded ==
    ASSUME NEW n \in Nat, NEW w \in Nat \ {0}, n > w,
           NEW q \in Nat, 2 * w * q <= 2 * n + w, 2 * n + w < 2 * w * (q + 1),
           NEW k \in Nat, q * k <= n + q - 1
    PROVE  q >= 1 /\ 2 * k <= 3 * w
<1>1. q >= 1
  <2> SUFFICES ASSUME q = 0 PROVE FALSE OBVIOUS
  <2>1. 2 * w * (q + 1) = 2 * w OBVIOUS
  <2>2. QED BY <2>1
<1>2. 2 * n < 2 * (w * q) + w
  <2>1. 2 * w * (q + 1) = 2 * (w * q) + 2 * w
    OBVIOUS
  <2>2. QED BY <2>1
<1>3. 2 * (q * k) <= 2 * (w * q) + (w - 1) + 2 * q - 2
  <2>1. q * k \in Int /\ w * q \in Int OBVIOUS
  <2>2. QED BY <1>2, <2>1
<1>4. CASE q = 1
  <2>1. q * k = k /\ w * q = w BY <1>4
  <2>2. QED BY <1>1, <1>3, <2>1
<1>5. CASE q >= 2
  <2> SUFFICES ASSUME 2 * k >= 3 * w + 1 PROVE FALSE BY <1>1
  <2>1. q * (2 * k) >= q * (3 * w + 1)
    OBVIOUS
  <2>2. q * (2 * k) = 2 * (q * k) /\ q * (3 * w + 1) = 3 * (w * q) + q
    OBVIOUS
  <2>3. w * q \in Int /\ q * k \in Int
    OBVIOUS
  <2>4. w * q <= w - 3 + q
    BY <1>3, <2>1, <2>2, <2>3
  <2>5. (w - 1) * (q - 1) >= 0
    BY <1>5
  <2>6. (w - 1) * (q - 1) = w * q - w - q + 1
    OBVIOUS
  <2>7. QED BY <2>3, <2>4, <2>5, <2>6
<1>6. QED BY <1>1, <1>4, <1>5

LEMMA SampledIs ==
    ASSUME NEW s \in Subs, NEW posts, posts \subseteq Range(Sampled(s))
    PROVE  posts \subseteq Range(Top[s]) /\ 2 * Cardinality(posts) <= 3 * PerSubreddit
<1> DEFINE n == Len(Top[s])
           w == PerSubreddit
           q == IF n > w THEN (2 * n + w) \div (2 * w) ELSE 1
           k == (n + q - 1) \div q
           f == Sampled(s)
<1>1. n \in Nat /\ DOMAIN Top[s] = 1 .. n /\ w \in Nat \ {0}
  BY DiscoveryAssumption
<1>2. f = [i \in 1 .. k |-> Top[s][(i - 1) * q + 1]]
  BY DEF Sampled
<1> HIDE DEF n, w, f
<1>3. q \in Nat \ {0} /\ k \in Nat /\ 2 * k <= 3 * w /\ q * k <= n + q - 1
  <2>1. CASE n > w
    <3> DEFINE a == 2 * n + w
               b == 2 * w
    <3>1. q = a \div b
      BY <2>1
    <3>2. a \in Nat /\ b \in Nat \ {0}
      BY <1>1
    <3>3. a \div b \in Nat /\ b * (a \div b) <= a /\ a < b * ((a \div b) + 1)
      BY <3>2, DivBounds
    <3>4. q \in Nat /\ 2 * w * q <= 2 * n + w /\ 2 * n + w < 2 * w * (q + 1)
      BY <3>1, <3>3
    <3> HIDE DEF q, a, b
    <3>5. q >= 1
      <4>1. 0 \in Nat /\ q * 0 = 0 /\ n + q - 1 >= 0
        BY <1>1, <2>1, <3>4
      <4>2. q * 0 <= n + q - 1
        BY <4>1
      <4>3. QED BY <1>1, <2>1, <3>4, <4>1, <4>2, Rounded
    <3>6. n + q - 1 \in Nat /\ q \in Nat \ {0}
      BY <1>1, <3>4, <3>5
    <3>7. k \in Nat /\ q * k <= n + q - 1
      BY <3>6, DivBounds
    <3> HIDE DEF k
    <3>8. 2 * k <= 3 * w
      BY <1>1, <2>1, <3>4, <3>7, Rounded
    <3>9. QED BY <3>6, <3>7, <3>8
  <2>2. CASE ~(n > w)
    <3>1. q = 1
      BY <2>2
    <3>2. k = n \div 1
      BY <1>1, <3>1
    <3>3. n \div 1 = n
      BY <1>1
    <3> HIDE DEF q, k
    <3>4. q * k = n /\ n <= w /\ 2 * n <= 3 * w
      BY <1>1, <2>2, <3>1, <3>2, <3>3
    <3>5. QED BY <1>1, <3>1, <3>2, <3>3, <3>4
  <2>3. QED BY <2>1, <2>2
<1> HIDE DEF q, k
<1>4. ASSUME NEW i \in 1 .. k PROVE (i - 1) * q + 1 \in 1 .. n
  <2>1. (i - 1) * q <= (k - 1) * q /\ (i - 1) * q >= 0
    BY <1>3
  <2>2. (k - 1) * q = q * k - q
    BY <1>3
  <2>3. q * k \in Int /\ (i - 1) * q \in Int
    BY <1>3
  <2>4. QED BY <1>1, <1>3, <2>1, <2>2, <2>3
<1>5. f \in [1 .. k -> Range(Top[s])]
  <2>1. \A i \in 1 .. k : Top[s][(i - 1) * q + 1] \in Range(Top[s])
    BY <1>1, <1>4 DEF Range
  <2>2. QED BY <1>2, <2>1
<1>6. f \in Surjection(1 .. k, Range(f)) /\ Range(f) \subseteq Range(Top[s])
  BY <1>5 DEF Surjection, Range
<1>7. k \in Int /\ 1 \in Int
  BY <1>3
<1>8. IsFiniteSet(1 .. k) /\ Cardinality(1 .. k) = k
  <2>1. /\ IsFiniteSet(1 .. k)
        /\ Cardinality(1 .. k) = IF 1 > k THEN 0 ELSE k - 1 + 1
    BY <1>7, FS_Interval
  <2>2. QED BY <1>3, <2>1
<1>9. IsFiniteSet(Range(f)) /\ Cardinality(Range(f)) <= k
  BY <1>6, <1>8, FS_Surjection
<1>10. posts \in SUBSET Range(f)
  BY DEF f
<1>11. IsFiniteSet(posts) /\ Cardinality(posts) <= Cardinality(Range(f))
  BY <1>9, <1>10, FS_Subset
<1>12. Cardinality(posts) \in Nat /\ Cardinality(Range(f)) \in Nat
  BY <1>9, <1>11, FS_CardinalityType
<1>13. 2 * Cardinality(posts) <= 3 * w
  BY <1>1, <1>3, <1>9, <1>11, <1>12
<1>14. QED BY <1>6, <1>10, <1>13 DEF w

-----------------------------------------------------------------------------
(* What each step of the Reddit pipeline changes.                          *)

LEMMA ScrapeMoves ==
    ASSUME Shape, NEW s \in Subs, ScrapeSubreddit(s)
    PROVE  /\ SearchStays /\ UNCHANGED <<reddit, rmem, db>>
           /\ \/ /\ sub[s] = "queued" /\ GoesTo(s, "scraping") /\ fetched' = fetched
                 /\ Cardinality(In("scraping")) < Scrapers
              \/ /\ sub[s] = "scraping" /\ GoesTo(s, "scraped")
                 /\ \E posts \in SUBSET Range(Sampled(s)) : fetched' = [fetched EXCEPT ![s] = posts]
              \/ /\ sub[s] = "scraping" /\ fetched' = fetched
                 /\ \E e \in {"tempError", "error"} : GoesTo(s, e)
<1>1. SearchStays /\ UNCHANGED <<reddit, rmem, db>>
  BY DEF ScrapeSubreddit, SearchStays
<1>2. CASE sub[s] = "scraping" /\ GoesTo(s, "scraped") /\ fetched' = [fetched EXCEPT ![s] = Range(Sampled(s))]
  BY <1>1, <1>2
<1>3. CASE /\ sub[s] = "scraping" /\ GoesTo(s, "scraped")
           /\ \E p \in Range(Front(Sampled(s))) : fetched' = [fetched EXCEPT ![s] = Range(Sampled(s)) \ {p}]
  <2>1. PICK p : fetched' = [fetched EXCEPT ![s] = Range(Sampled(s)) \ {p}]
    BY <1>3
  <2>2. Range(Sampled(s)) \ {p} \in SUBSET Range(Sampled(s))
    OBVIOUS
  <2>3. QED BY <1>1, <1>3, <2>1, <2>2
<1>4. CASE sub[s] = "queued" /\ Cardinality(In("scraping")) < Scrapers /\ GoesTo(s, "scraping") /\ fetched' = fetched
  BY <1>1, <1>4
<1>5. CASE sub[s] = "scraping" /\ (\E e \in {"tempError", "error"} : GoesTo(s, e)) /\ fetched' = fetched
  BY <1>1, <1>5
<1>6. QED BY <1>2, <1>3, <1>4, <1>5 DEF ScrapeSubreddit

LEMMA ForwardMoves ==
    ASSUME Shape, NEW s \in Subs, Forward(s)
    PROVE  /\ SearchStays /\ UNCHANGED <<fetched, rmem, db>>
           /\ \/ sub[s] = "scraped" /\ GoesTo(s, "posted")
              \/ sub[s] \in {"tempError", "error"} /\ GoesTo(s, "skipped")
           /\ reddit' \in Reddits /\ reddit'.results = reddit.results
<1>1. reddit' = reddit \/ reddit' = [reddit EXCEPT !.forwarder = FALSE, !.err = TRUE]
  BY DEF Forward
<1>2. reddit \in Reddits
  BY DEF Shape
<1>3. reddit' \in Reddits /\ reddit'.results = reddit.results
  BY <1>1, <1>2 DEF Reddits
<1>4. SearchStays /\ UNCHANGED <<fetched, rmem, db>>
  BY DEF Forward, SearchStays
<1>5. \/ sub[s] = "scraped" /\ GoesTo(s, "posted")
      \/ sub[s] \in {"tempError", "error"} /\ GoesTo(s, "skipped")
  BY DEF Forward
<1>6. QED BY <1>3, <1>4, <1>5

LEMMA BatchWorkerMoves ==
    ASSUME Shape, NEW s \in Subs, BatchWorker(s)
    PROVE  /\ SearchStays /\ UNCHANGED <<fetched, reddit, rmem>>
           /\ db \subseteq db' /\ db' \subseteq {Author[p] : p \in Posts}
           /\ \/ sub[s] = "posted" /\ GoesTo(s, "batching") /\ Cardinality(In("batching")) < Batchers
              \/ sub[s] = "batching" /\ GoesTo(s, "batched") /\ \A p \in fetched[s] : Author[p] \in db'
              \/ sub[s] = "batching" /\ GoesTo(s, "batchError")
<1>1. SearchStays /\ UNCHANGED <<fetched, reddit, rmem>>
  BY DEF BatchWorker, SearchStays
<1>2. db \subseteq {Author[p] : p \in Posts} /\ fetched[s] \subseteq Posts
  BY PostSets DEF Shape
<1>3. \A p : TransformPost(p).developer = Author[p]
  BY DEF TransformPost
<1>4. CASE sub[s] = "posted" /\ Cardinality(In("batching")) < Batchers /\ GoesTo(s, "batching") /\ db' = db
  BY <1>1, <1>2, <1>4
<1>5. CASE /\ sub[s] = "batching" /\ GoesTo(s, "batched")
           /\ db' = db \cup {TransformPost(p).developer : p \in fetched[s]}
  <2>1. db' = db \cup {Author[p] : p \in fetched[s]}
    BY <1>3, <1>5
  <2>2. QED BY <1>1, <1>2, <1>5, <2>1
<1>6. CASE /\ sub[s] = "batching" /\ GoesTo(s, "batchError")
           /\ \E ps \in SUBSET fetched[s] : db' = db \cup {TransformPost(p).developer : p \in ps}
  <2>1. PICK ps \in SUBSET fetched[s] : db' = db \cup {TransformPost(p).developer : p \in ps}
    BY <1>6
  <2>2. db' = db \cup {Author[p] : p \in ps}
    BY <1>3, <2>1
  <2>3. QED BY <1>1, <1>2, <1>6, <2>2
<1>7. QED BY <1>4, <1>5, <1>6 DEF BatchWorker

LEMMA MergeSubredditMoves ==
    ASSUME Shape, NEW s \in Subs, MergeSubreddit(s)
    PROVE  /\ SearchStays /\ UNCHANGED <<fetched, db>>
           /\ sub[s] \in {"batched", "batchError"} /\ GoesTo(s, "merged")
           /\ reddit' \in Reddits /\ rmem' \in ScoutStates
           /\ \/ /\ sub[s] = "batched" /\ reddit'.results = reddit.results + 1
                 /\ \E games \in SUBSET AllGames : rmem' = Plus(rmem, TempState(s, games))
              \/ reddit'.results = reddit.results /\ rmem' = rmem
<1>1. SearchStays /\ UNCHANGED <<fetched, db>> /\ sub[s] \in {"batched", "batchError"} /\ GoesTo(s, "merged")
  BY DEF MergeSubreddit, SearchStays
<1>2. reddit \in Reddits /\ rmem \in ScoutStates /\ fetched[s] \subseteq RedditPosts /\ fetched[s] \subseteq Posts
  BY PostSets DEF Shape
<1>3. CASE /\ sub[s] = "batched" /\ reddit' = [reddit EXCEPT !.results = @ + 1]
           /\ \E games \in SUBSET UNION {TransformPost(p).games : p \in fetched[s]} :
                rmem' = Plus(rmem, TempState(s, games))
  <2>1. reddit' \in Reddits /\ reddit'.results = reddit.results + 1
    BY <1>2, <1>3 DEF Reddits
  <2>2. PICK games \in SUBSET UNION {TransformPost(p).games : p \in fetched[s]} :
          rmem' = Plus(rmem, TempState(s, games))
    BY <1>3
  <2>3. \A p \in fetched[s] : TransformPost(p).games \in SUBSET AllGames
    BY <1>2, GamesTyped DEF TransformPost
  <2>4. games \in SUBSET AllGames
    BY <2>3
  <2>5. TempState(s, games) \in ScoutStates
    BY <1>2, <2>4, TempStateIs
  <2>6. rmem' \in ScoutStates
    BY <1>2, <2>2, <2>5, PlusIs
  <2>7. QED BY <1>1, <1>3, <2>1, <2>2, <2>4, <2>6
<1>4. CASE RedditReturns(TRUE) /\ rmem' = rmem
  <2>1. reddit' = [reddit EXCEPT !.pc = "done", !.err = TRUE]
    BY <1>4 DEF RedditReturns
  <2>2. reddit' \in Reddits /\ reddit'.results = reddit.results
    BY <1>2, <2>1 DEF Reddits
  <2>3. QED BY <1>1, <1>2, <1>4, <2>2
<1>5. QED BY <1>3, <1>4 DEF MergeSubreddit

LEMMA RedditMoves ==
    ASSUME Shape, InitialRequest \/ RedditEnds
    PROVE  /\ SearchStays /\ UNCHANGED <<sub, fetched, rmem, db>>
           /\ reddit' \in Reddits /\ reddit'.results = reddit.results
<1>1. SearchStays /\ UNCHANGED <<sub, fetched, rmem, db>>
  BY DEF InitialRequest, RedditEnds, SearchStays
<1>2. \/ \E pc \in {"on", "assigned"} : reddit' = [reddit EXCEPT !.pc = pc]
      \/ \E err \in BOOLEAN : reddit' = [reddit EXCEPT !.pc = "done", !.err = err]
  BY DEF InitialRequest, RedditEnds, RedditReturns, Shape, Reddits
<1>3. reddit \in Reddits
  BY DEF Shape
<1>4. reddit' \in Reddits /\ reddit'.results = reddit.results
  BY <1>2, <1>3 DEF Reddits
<1>5. QED BY <1>1, <1>4

-----------------------------------------------------------------------------
(* Types.                                                                  *)

LEMMA InitShape == ASSUME Init PROVE Shape
<1>1. mem = Blank /\ rmem = Blank /\ disk = None /\ db = {}
  BY DEF Init
<1>2. main = [pc |-> "search", i |-> 0, token |-> 0, todo |-> {}, games |-> {}, err |-> FALSE]
  BY BlankIs DEF Init, Starting
<1>3. main \in Mains
  BY <1>2, PageSets DEF Mains
<1>4. reddit \in Reddits
  BY DEF Init, Reddits
<1>5. sub \in [Subs -> Stages] /\ fetched \in [Subs -> SUBSET RedditPosts]
  BY DEF Init, Stages
<1>6. hist \in [wrapped : BOOLEAN, partial : BOOLEAN, again : BOOLEAN]
  BY DEF Init
<1>7. QED BY <1>1, <1>3, <1>4, <1>5, <1>6, BlankIs DEF Shape

LEMMA NextShape == ASSUME Inv, [Next]_vars PROVE Shape'
<1>0. Shape /\ Batched
  BY DEF Inv
<1>1. CASE SearchStays /\ UNCHANGED db /\ UNCHANGED <<sub, fetched, rmem>> /\ reddit' \in Reddits
  BY <1>0, <1>1 DEF Shape, SearchStays
<1>2. ASSUME TransformFails \/ Crash PROVE Shape'
  BY <1>0, <1>2, DownMoves DEF Shape, PipelineStays
<1>3. ASSUME NEW p \in main.todo, Result(p) PROVE Shape'
  <2>1. /\ p \in Tweets /\ main' \in Mains /\ mem' \in ScoutStates
        /\ db' = db \cup {Author[TransformTweet(p)]} /\ UNCHANGED <<disk, hist>> /\ PipelineStays
    BY <1>0, <1>3, ResultMoves
  <2>2. db' \subseteq {Author[q] : q \in Posts}
    BY <1>0, <2>1, PostSets DEF Shape
  <2>3. QED BY <1>0, <2>1, <2>2 DEF Shape, PipelineStays
<1>4. ASSUME NEW p \in main.todo, UpsertFails(p) PROVE Shape'
  <2>1. /\ main' \in Mains /\ mem' \in ScoutStates /\ disk' = mem'
        /\ db' \subseteq {Author[q] : q \in Posts}
        /\ hist' \in [wrapped : BOOLEAN, partial : BOOLEAN, again : BOOLEAN] /\ PipelineStays
    BY <1>0, <1>4, UpsertFailsMoves
  <2>2. QED BY <1>0, <2>1 DEF Shape, PipelineStays
<1>5. ASSUME Search PROVE Shape'
  <2>1. /\ main' \in Mains /\ UNCHANGED <<mem, disk, db>> /\ PipelineStays
        /\ hist' \in [wrapped : BOOLEAN, partial : BOOLEAN, again : BOOLEAN]
    BY <1>0, <1>5, SearchMoves
  <2>2. QED BY <1>0, <2>1 DEF Shape, PipelineStays
<1>6. ASSUME SearchFails PROVE Shape'
  BY <1>0, <1>6, SearchFailsMoves DEF Shape, PipelineStays
<1>7. ASSUME Checkpoint PROVE Shape'
  <2>1. /\ main' \in Mains /\ mem' \in ScoutStates /\ (disk' = mem' \/ disk' = disk)
        /\ UNCHANGED <<db, hist>> /\ PipelineStays
    BY <1>0, <1>7, CheckpointMoves
  <2>2. QED BY <1>0, <2>1 DEF Shape, PipelineStays
<1>8. ASSUME MergeReddit PROVE Shape'
  <2>1. main' \in Mains /\ mem' \in ScoutStates /\ UNCHANGED <<disk, db, hist>> /\ PipelineStays
    BY <1>0, <1>8, MergeRedditMoves
  <2>2. QED BY <1>0, <2>1 DEF Shape, PipelineStays
<1>9. ASSUME EndPhase PROVE Shape'
  <2>1. main' \in Mains /\ mem' \in ScoutStates /\ disk' = mem' /\ UNCHANGED <<db, hist>> /\ PipelineStays
    BY <1>0, <1>9, EndPhaseMoves
  <2>2. QED BY <1>0, <2>1 DEF Shape, PipelineStays
<1>10. ASSUME InitialRequest \/ RedditEnds PROVE Shape'
  BY <1>0, <1>1, <1>10, RedditMoves
<1>11. ASSUME NEW s \in Subs, ScrapeSubreddit(s) PROVE Shape'
  <2>1. SearchStays /\ UNCHANGED <<reddit, rmem, db>>
    BY <1>0, <1>11, ScrapeMoves
  <2>2. \E e \in Stages : sub' = [sub EXCEPT ![s] = e]
    BY <1>0, <1>11, ScrapeMoves DEF GoesTo, Stages
  <2>3. sub' \in [Subs -> Stages]
    BY <1>0, <2>2 DEF Shape
  <2>4. fetched' = fetched \/ \E posts \in SUBSET Range(Sampled(s)) : fetched' = [fetched EXCEPT ![s] = posts]
    BY <1>0, <1>11, ScrapeMoves
  <2>5. \A posts \in SUBSET Range(Sampled(s)) : posts \in SUBSET RedditPosts
    <3> SUFFICES ASSUME NEW posts \in SUBSET Range(Sampled(s)) PROVE posts \subseteq RedditPosts
      OBVIOUS
    <3>1. posts \subseteq Range(Top[s])
      BY SampledIs
    <3>2. QED BY <3>1, PostSets
  <2>6. fetched' \in [Subs -> SUBSET RedditPosts]
    <3>1. fetched \in [Subs -> SUBSET RedditPosts]
      BY <1>0 DEF Shape
    <3>2. QED BY <2>4, <2>5, <3>1
  <2>7. QED BY <1>0, <2>1, <2>3, <2>6 DEF Shape, SearchStays
<1>12. ASSUME NEW s \in Subs, Forward(s) PROVE Shape'
  <2>1. SearchStays /\ UNCHANGED <<fetched, rmem, db>> /\ reddit' \in Reddits
    BY <1>0, <1>12, ForwardMoves
  <2>2. \E e \in Stages : sub' = [sub EXCEPT ![s] = e]
    BY <1>0, <1>12, ForwardMoves DEF GoesTo, Stages
  <2>3. sub' \in [Subs -> Stages]
    BY <1>0, <2>2 DEF Shape
  <2>4. QED BY <1>0, <2>1, <2>3 DEF Shape, SearchStays
<1>13. ASSUME NEW s \in Subs, BatchWorker(s) PROVE Shape'
  <2>1. SearchStays /\ UNCHANGED <<fetched, reddit, rmem>> /\ db' \subseteq {Author[p] : p \in Posts}
    BY <1>0, <1>13, BatchWorkerMoves
  <2>2. \E e \in Stages : sub' = [sub EXCEPT ![s] = e]
    BY <1>0, <1>13, BatchWorkerMoves DEF GoesTo, Stages
  <2>3. sub' \in [Subs -> Stages]
    BY <1>0, <2>2 DEF Shape
  <2>4. QED BY <1>0, <2>1, <2>3 DEF Shape, SearchStays
<1>14. ASSUME NEW s \in Subs, MergeSubreddit(s) PROVE Shape'
  <2>1. SearchStays /\ UNCHANGED <<fetched, db>> /\ reddit' \in Reddits /\ rmem' \in ScoutStates
    BY <1>0, <1>14, MergeSubredditMoves
  <2>2. \E e \in Stages : sub' = [sub EXCEPT ![s] = e]
    BY <1>0, <1>14, MergeSubredditMoves DEF GoesTo, Stages
  <2>3. sub' \in [Subs -> Stages]
    BY <1>0, <2>2 DEF Shape
  <2>4. QED BY <1>0, <2>1, <2>3 DEF Shape, SearchStays
<1>15. ASSUME Restart PROVE Shape'
  <2>1. /\ main' \in Mains /\ mem' \in ScoutStates /\ UNCHANGED <<disk, db>>
        /\ hist' \in [wrapped : BOOLEAN, partial : BOOLEAN, again : BOOLEAN]
    BY <1>0, <1>15, RestartMoves
  <2>2. /\ sub' = [s \in Subs |-> "queued"] /\ fetched' = [s \in Subs |-> {}] /\ rmem' = Blank
        /\ reddit' = [pc |-> "request", forwarder |-> TRUE, results |-> 0, err |-> FALSE]
    BY <1>0, <1>15, RestartMoves
  <2>3. sub' \in [Subs -> Stages] /\ fetched' \in [Subs -> SUBSET RedditPosts] /\ reddit' \in Reddits
    BY <2>2 DEF Stages, Reddits
  <2>4. QED BY <1>0, <2>1, <2>2, <2>3, BlankIs DEF Shape
<1>16. CASE UNCHANGED vars
  BY <1>0, <1>16 DEF Shape, vars
<1>17. QED
  BY <1>2, <1>3, <1>4, <1>5, <1>6, <1>7, <1>8, <1>9, <1>10, <1>11, <1>12, <1>13, <1>14, <1>15, <1>16
  DEF Next, TwitterStep, RedditStep, Failure

(* Each step is one of the search, of the Reddit pipeline, or the start of *)
(* a process.                                                              *)
LEMMA Kinds ==
    ASSUME Inv, [Next]_vars
    PROVE  \/ PipelineStays /\ db \subseteq db'
           \/ /\ SearchStays
              /\ \/ InitialRequest \/ RedditEnds
                 \/ \E s \in Subs : ScrapeSubreddit(s) \/ Forward(s) \/ BatchWorker(s) \/ MergeSubreddit(s)
           \/ Restart
<1>0. Shape /\ Batched
  BY DEF Inv
<1>1. ASSUME NEW p \in main.todo, Result(p) PROVE PipelineStays /\ db \subseteq db'
  BY <1>0, <1>1, ResultMoves
<1>2. ASSUME NEW p \in main.todo, UpsertFails(p) PROVE PipelineStays /\ db \subseteq db'
  BY <1>0, <1>2, UpsertFailsMoves
<1>3. ASSUME TransformFails \/ Crash \/ Search \/ SearchFails \/ Checkpoint \/ MergeReddit \/ EndPhase
      PROVE  PipelineStays /\ db \subseteq db'
  BY <1>0, <1>3, DownMoves, SearchMoves, SearchFailsMoves, CheckpointMoves, MergeRedditMoves, EndPhaseMoves
<1>4. ASSUME NEW s \in Subs, ScrapeSubreddit(s) \/ Forward(s) \/ BatchWorker(s) \/ MergeSubreddit(s)
      PROVE  SearchStays
  BY <1>0, <1>4, ScrapeMoves, ForwardMoves, BatchWorkerMoves, MergeSubredditMoves
<1>5. ASSUME InitialRequest \/ RedditEnds PROVE SearchStays
  BY <1>0, <1>5, RedditMoves
<1>6. CASE UNCHANGED vars
  BY <1>6 DEF vars, PipelineStays
<1>7. QED BY <1>1, <1>2, <1>3, <1>4, <1>5, <1>6 DEF Next, TwitterStep, RedditStep, Failure

-----------------------------------------------------------------------------
(* The pipeline.                                                           *)

LEMMA InFinite ==
    ASSUME NEW stage
    PROVE  IsFiniteSet(In(stage)) /\ Cardinality(In(stage)) \in Nat
<1>1. In(stage) \in SUBSET Subs
  BY DEF In
<1>2. IsFiniteSet(In(stage))
  BY <1>1, PostSets, FS_Subset
<1>3. QED BY <1>2, FS_CardinalityType

(* A subreddit that goes to another stage is one more there, and one less  *)
(* where it was.                                                           *)
LEMMA InMoves ==
    ASSUME Shape, NEW s \in Subs, NEW to, sub[s] # to, GoesTo(s, to), NEW stage
    PROVE  Cardinality(In(stage)') =
             IF stage = to THEN Cardinality(In(stage)) + 1
             ELSE IF stage = sub[s] THEN Cardinality(In(stage)) - 1 ELSE Cardinality(In(stage))
<1> DEFINE I == In(stage)
           J == In(stage)'
<1>1. sub \in [Subs -> Stages] /\ sub' = [sub EXCEPT ![s] = to]
  BY DEF Shape, GoesTo
<1>2. \A r \in Subs : sub'[r] = IF r = s THEN to ELSE sub[r]
  BY <1>1
<1>3. I = {r \in Subs : sub[r] = stage} /\ J = {r \in Subs : sub'[r] = stage}
  BY DEF In
<1>4. IsFiniteSet(I)
  BY InFinite
<1> HIDE DEF I, J
<1>5. CASE stage = to
  <2>1. s \notin I /\ J = I \cup {s}
    BY <1>2, <1>3, <1>5
  <2>2. Cardinality(J) = Cardinality(I) + 1
    BY <1>4, <2>1, FS_AddElement
  <2>3. QED BY <1>5, <2>2 DEF I, J
<1>6. CASE stage # to /\ stage = sub[s]
  <2>1. s \in I /\ J = I \ {s}
    BY <1>2, <1>3, <1>6
  <2>2. Cardinality(J) = Cardinality(I) - 1
    BY <1>4, <2>1, FS_RemoveElement
  <2>3. QED BY <1>6, <2>2 DEF I, J
<1>7. CASE stage # to /\ stage # sub[s]
  <2>1. J = I
    BY <1>2, <1>3, <1>7
  <2>2. QED BY <1>7, <2>1 DEF I, J
<1>8. QED BY <1>5, <1>6, <1>7

LEMMA InitPipeline == ASSUME Init PROVE Pipeline
<1>1. In("scraping") = {} /\ In("batching") = {} /\ reddit.results = 0 /\ \A s \in Subs : fetched[s] = {}
  BY DEF Init, In
<1>2. Cardinality({}) = 0 /\ Scrapers \in Nat /\ Batchers \in Nat /\ PerSubreddit \in Nat
  BY FS_EmptySet, DiscoveryAssumption
<1>3. Cardinality(In("merged")) \in Nat
  BY InFinite
<1>4. Cardinality(In("scraping")) <= Scrapers /\ Cardinality(In("batching")) <= Batchers
  BY <1>1, <1>2
<1>5. reddit.results <= Cardinality(In("merged"))
  BY <1>1, <1>3
<1>6. ASSUME NEW s \in Subs
      PROVE  fetched[s] \subseteq Range(Top[s]) /\ 2 * Cardinality(fetched[s]) <= 3 * PerSubreddit
  <2>1. fetched[s] = {} /\ Cardinality(fetched[s]) = 0
    BY <1>1, <1>2
  <2>2. QED BY <1>2, <2>1
<1>7. QED BY <1>4, <1>5, <1>6 DEF Pipeline

LEMMA NextPipeline == ASSUME Inv, [Next]_vars PROVE Pipeline'
<1>0. Shape /\ Pipeline /\ Scrapers \in Nat \ {0} /\ Batchers \in Nat \ {0} /\ PerSubreddit \in Nat
  BY DiscoveryAssumption DEF Inv
<1>n. /\ Cardinality(In("scraping")) \in Nat /\ Cardinality(In("batching")) \in Nat
      /\ Cardinality(In("merged")) \in Nat /\ reddit.results \in Nat
  BY <1>0, InFinite DEF Shape, Reddits
<1>1. CASE PipelineStays
  <2>1. /\ In("scraping")' = In("scraping") /\ In("batching")' = In("batching") /\ In("merged")' = In("merged")
        /\ UNCHANGED <<reddit, fetched>>
    BY <1>1 DEF PipelineStays, In
  <2>2. QED BY <1>0, <2>1 DEF Pipeline
<1>2. ASSUME InitialRequest \/ RedditEnds PROVE Pipeline'
  <2>1. UNCHANGED <<sub, fetched>> /\ reddit'.results = reddit.results
    BY <1>0, <1>2, RedditMoves
  <2>2. In("scraping")' = In("scraping") /\ In("batching")' = In("batching") /\ In("merged")' = In("merged")
    BY <2>1 DEF In
  <2>3. QED BY <1>0, <2>1, <2>2 DEF Pipeline
<1>3. ASSUME NEW s \in Subs, ScrapeSubreddit(s) PROVE Pipeline'
  <2>1. CASE /\ sub[s] = "queued" /\ GoesTo(s, "scraping") /\ UNCHANGED <<reddit, fetched>>
             /\ Cardinality(In("scraping")) < Scrapers
    <3>1. /\ Cardinality(In("scraping")') = Cardinality(In("scraping")) + 1
          /\ Cardinality(In("batching")') = Cardinality(In("batching"))
          /\ Cardinality(In("merged")') = Cardinality(In("merged"))
      BY <1>0, <2>1, InMoves
    <3>2. QED BY <1>0, <1>n, <2>1, <3>1 DEF Pipeline
  <2>2. CASE /\ sub[s] = "scraping" /\ UNCHANGED reddit /\ GoesTo(s, "scraped")
             /\ \E posts \in SUBSET Range(Sampled(s)) : fetched' = [fetched EXCEPT ![s] = posts]
    <3>1. /\ Cardinality(In("scraping")') = Cardinality(In("scraping")) - 1
          /\ Cardinality(In("batching")') = Cardinality(In("batching"))
          /\ Cardinality(In("merged")') = Cardinality(In("merged"))
      BY <1>0, <2>2, InMoves
    <3>2. PICK posts \in SUBSET Range(Sampled(s)) : fetched' = [fetched EXCEPT ![s] = posts]
      BY <2>2
    <3>3. posts \subseteq Range(Top[s]) /\ 2 * Cardinality(posts) <= 3 * PerSubreddit
      BY SampledIs
    <3>4. \A r \in Subs : fetched'[r] = IF r = s THEN posts ELSE fetched[r]
      BY <1>0, <3>2 DEF Shape
    <3>5. \A r \in Subs : fetched'[r] \subseteq Range(Top[r]) /\ 2 * Cardinality(fetched'[r]) <= 3 * PerSubreddit
      BY <1>0, <3>3, <3>4 DEF Pipeline
    <3>6. QED BY <1>0, <1>n, <2>2, <3>1, <3>5 DEF Pipeline
  <2>3. CASE /\ sub[s] = "scraping" /\ UNCHANGED <<reddit, fetched>>
             /\ \E e \in {"tempError", "error"} : GoesTo(s, e)
    <3>1. /\ Cardinality(In("scraping")') = Cardinality(In("scraping")) - 1
          /\ Cardinality(In("batching")') = Cardinality(In("batching"))
          /\ Cardinality(In("merged")') = Cardinality(In("merged"))
      BY <1>0, <2>3, InMoves
    <3>2. QED BY <1>0, <1>n, <2>3, <3>1 DEF Pipeline
  <2>4. QED BY <1>0, <1>3, <2>1, <2>2, <2>3, ScrapeMoves
<1>4. ASSUME NEW s \in Subs, Forward(s) PROVE Pipeline'
  <2>1. PICK to \in {"posted", "skipped"} :
          GoesTo(s, to) /\ sub[s] \in {"scraped", "tempError", "error"}
    BY <1>0, <1>4, ForwardMoves
  <2>2. /\ Cardinality(In("scraping")') = Cardinality(In("scraping"))
        /\ Cardinality(In("batching")') = Cardinality(In("batching"))
        /\ Cardinality(In("merged")') = Cardinality(In("merged"))
    BY <1>0, <2>1, InMoves
  <2>3. UNCHANGED fetched /\ reddit'.results = reddit.results
    BY <1>0, <1>4, ForwardMoves
  <2>4. QED BY <1>0, <2>2, <2>3 DEF Pipeline
<1>5. ASSUME NEW s \in Subs, BatchWorker(s) PROVE Pipeline'
  <2>0. UNCHANGED <<fetched, reddit>>
    BY <1>0, <1>5, BatchWorkerMoves
  <2>1. CASE sub[s] = "posted" /\ GoesTo(s, "batching") /\ Cardinality(In("batching")) < Batchers
    <3>1. /\ Cardinality(In("scraping")') = Cardinality(In("scraping"))
          /\ Cardinality(In("batching")') = Cardinality(In("batching")) + 1
          /\ Cardinality(In("merged")') = Cardinality(In("merged"))
      BY <1>0, <2>1, InMoves
    <3>2. QED BY <1>0, <1>n, <2>0, <2>1, <3>1 DEF Pipeline
  <2>2. CASE sub[s] = "batching" /\ \E e \in {"batched", "batchError"} : GoesTo(s, e)
    <3>1. /\ Cardinality(In("scraping")') = Cardinality(In("scraping"))
          /\ Cardinality(In("batching")') = Cardinality(In("batching")) - 1
          /\ Cardinality(In("merged")') = Cardinality(In("merged"))
      BY <1>0, <2>2, InMoves
    <3>2. QED BY <1>0, <1>n, <2>0, <3>1 DEF Pipeline
  <2>3. QED BY <1>0, <1>5, <2>1, <2>2, BatchWorkerMoves
<1>6. ASSUME NEW s \in Subs, MergeSubreddit(s) PROVE Pipeline'
  <2>1. UNCHANGED fetched /\ GoesTo(s, "merged") /\ sub[s] \in {"batched", "batchError"}
    BY <1>0, <1>6, MergeSubredditMoves
  <2>2. reddit'.results = reddit.results + 1 \/ reddit'.results = reddit.results
    BY <1>0, <1>6, MergeSubredditMoves
  <2>3. /\ Cardinality(In("scraping")') = Cardinality(In("scraping"))
        /\ Cardinality(In("batching")') = Cardinality(In("batching"))
        /\ Cardinality(In("merged")') = Cardinality(In("merged")) + 1
    BY <1>0, <2>1, InMoves
  <2>4. QED BY <1>0, <1>n, <2>1, <2>2, <2>3 DEF Pipeline
<1>7. ASSUME Restart PROVE Pipeline'
  <2>1. /\ sub' = [s \in Subs |-> "queued"] /\ fetched' = [s \in Subs |-> {}]
        /\ reddit' = [pc |-> "request", forwarder |-> TRUE, results |-> 0, err |-> FALSE]
    BY <1>0, <1>7, RestartMoves
  <2>2. In("scraping")' = {} /\ In("batching")' = {} /\ In("merged")' = {}
    BY <2>1 DEF In
  <2>3. Cardinality({}) = 0
    BY FS_EmptySet
  <2>4. reddit'.results = 0 /\ \A s \in Subs : fetched'[s] = {}
    BY <2>1
  <2>5. /\ Cardinality(In("scraping")') <= Scrapers /\ Cardinality(In("batching")') <= Batchers
        /\ reddit'.results <= Cardinality(In("merged")')
    <3>1. Cardinality(In("scraping")') = 0 /\ Cardinality(In("batching")') = 0 /\ Cardinality(In("merged")') = 0
      BY <2>2, <2>3
    <3>2. QED BY <1>0, <2>4, <3>1
  <2>6. ASSUME NEW s \in Subs
        PROVE  fetched'[s] \subseteq Range(Top[s]) /\ 2 * Cardinality(fetched'[s]) <= 3 * PerSubreddit
    <3>1. fetched'[s] = {} /\ Cardinality(fetched'[s]) = 0
      BY <2>3, <2>4
    <3>2. QED BY <1>0, <3>1
  <2>7. QED BY <2>5, <2>6 DEF Pipeline
<1>8. QED BY <1>1, <1>2, <1>3, <1>4, <1>5, <1>6, <1>7, Kinds

-----------------------------------------------------------------------------
(* The batches.                                                            *)

LEMMA InitBatched == ASSUME Init PROVE Batched
  BY BlankIs DEF Init, Batched, Starting

LEMMA NextBatched == ASSUME Inv, [Next]_vars PROVE Batched'
<1>0. Shape /\ Batched
  BY DEF Inv
<1>n. /\ main.i \in Nat /\ main.todo \subseteq Tweets /\ mem.batch \in Nat
  BY <1>0, MainFields, StateFields, PageSets DEF Shape
<1>1. CASE SearchStays
  BY <1>0, <1>1 DEF Batched, SearchStays
<1>2. ASSUME TransformFails \/ Crash PROVE Batched'
  BY <1>0, <1>2, DownMoves DEF Batched
<1>3. ASSUME NEW p \in main.todo, Result(p) PROVE Batched'
  <2>1. /\ main.pc = "batch" /\ main'.pc = "batch" /\ main'.i = main.i /\ main'.token = main.token
        /\ main'.todo = main.todo \ {p} /\ p \in Tweets /\ mem' = WithSnapshot(mem, TransformTweet(p))
    BY <1>0, <1>3, ResultMoves
  <2>2. TransformTweet(p) \in Posts /\ mem \in ScoutStates
    BY <1>0, <2>1, PostSets DEF Shape
  <2>3. mem'.batch = mem.batch /\ mem'.token = mem.token
    BY <2>1, <2>2, WithSnapshotIs
  <2>4. QED BY <1>0, <2>1, <2>3 DEF Batched
<1>4. ASSUME NEW p \in main.todo, UpsertFails(p) PROVE Batched'
  <2>1. main'.pc = "down"
    BY <1>0, <1>4, UpsertFailsMoves
  <2>2. QED BY <2>1 DEF Batched
<1>5. ASSUME Search PROVE Batched'
  <2>1. /\ main.pc = "search" /\ main.i < NumBatches /\ main'.i = main.i /\ main'.token = main.token
        /\ main'.todo = Pages[main.token + 1] /\ UNCHANGED mem
    BY <1>0, <1>5, SearchMoves
  <2>2. QED BY <1>0, <2>1 DEF Batched
<1>6. ASSUME SearchFails PROVE Batched'
  <2>1. /\ main.pc = "search" /\ main'.pc = "search" /\ main'.i = main.i + 1 /\ main'.token = main.token
        /\ UNCHANGED mem
    BY <1>0, <1>6, SearchFailsMoves
  <2>2. QED BY <1>0, <1>n, <2>1 DEF Batched
<1>7. ASSUME Checkpoint PROVE Batched'
  <2>1. /\ main.pc = "batch" /\ main'.pc = "search" /\ main'.i = main.i + 1 /\ main'.token = NextToken
        /\ mem'.batch = mem.batch + 1 /\ mem'.token = NextToken
    BY <1>0, <1>7, CheckpointMoves
  <2>2. QED BY <1>0, <1>n, <2>1 DEF Batched
<1>8. ASSUME MergeReddit PROVE Batched'
  <2>1. main'.pc = "scrapers"
    BY <1>0, <1>8, MergeRedditMoves
  <2>2. QED BY <2>1 DEF Batched
<1>9. ASSUME EndPhase PROVE Batched'
  <2>1. main'.pc \in {"down", "done"}
    BY <1>0, <1>9, EndPhaseMoves
  <2>2. QED BY <2>1 DEF Batched
<1>10. ASSUME Restart PROVE Batched'
  <2>1. main'.pc = "search" /\ main'.i = mem'.batch /\ main'.token = mem'.token /\ mem' \in ScoutStates
    BY <1>0, <1>10, RestartMoves
  <2>2. mem'.batch \in Nat
    BY <2>1, PageSets DEF ScoutStates
  <2>3. QED BY <2>1, <2>2 DEF Batched
<1>11. ASSUME UNCHANGED vars PROVE Batched'
  BY <1>0, <1>11 DEF Batched, vars
<1>12. ASSUME RedditStep PROVE SearchStays
  <2>1. CASE InitialRequest \/ RedditEnds
    BY <1>0, <2>1, RedditMoves
  <2>2. ASSUME NEW s \in Subs, ScrapeSubreddit(s) \/ Forward(s) \/ BatchWorker(s) \/ MergeSubreddit(s)
        PROVE  SearchStays
    BY <1>0, <2>2, ScrapeMoves, ForwardMoves, BatchWorkerMoves, MergeSubredditMoves
  <2>3. QED BY <1>12, <2>1, <2>2 DEF RedditStep
<1>13. QED
  BY <1>1, <1>2, <1>3, <1>4, <1>5, <1>6, <1>7, <1>8, <1>9, <1>10, <1>11, <1>12
  DEF Next, TwitterStep, Failure

-----------------------------------------------------------------------------
(* The developers.                                                         *)

LEMMA WholeSame ==
    ASSUME NEW st, NEW same, NEW devs, Whole(st, devs),
           same.snaps = st.snaps, same.times = st.times, same.consumed = st.consumed
    PROVE  Whole(same, devs)
  BY DEF Whole

LEMMA InitDevelopers == ASSUME Init PROVE Developers
<1>1. mem = Blank /\ rmem = Blank /\ disk = None /\ \A s \in Subs : sub[s] = "queued"
  BY DEF Init
<1>2. Whole(Blank, db)
  BY BlankIs, WholeGrows
<1>3. QED BY <1>1, <1>2 DEF Developers

LEMMA NextDevelopers == ASSUME Inv, [Next]_vars PROVE Developers'
<1>0. Shape /\ Batched /\ Developers
  BY DEF Inv
<1>w. Whole(mem, db) /\ Whole(rmem, db) /\ (disk # None => Whole(disk, db))
  BY <1>0 DEF Developers
<1>s. mem \in ScoutStates /\ rmem \in ScoutStates
  BY <1>0 DEF Shape
<1>k. ASSUME db \subseteq db', Whole(mem', db'), disk' = mem' \/ disk' = disk, PipelineStays PROVE Developers'
  <2>1. Whole(rmem', db') /\ (disk' # None => Whole(disk', db'))
    BY <1>w, <1>k, WholeGrows DEF PipelineStays
  <2>2. \A s \in Subs : sub'[s] = "batched" => \A p \in fetched'[s] : Author[p] \in db'
    BY <1>0, <1>k DEF Developers, PipelineStays
  <2>3. QED BY <1>k, <2>1, <2>2 DEF Developers
<1>1. ASSUME TransformFails \/ Crash \/ Search \/ SearchFails PROVE Developers'
  <2>1. UNCHANGED <<mem, disk, db>> /\ PipelineStays
    BY <1>0, <1>1, DownMoves, SearchMoves, SearchFailsMoves
  <2>2. QED BY <1>k, <1>w, <2>1
<1>2. ASSUME NEW p \in main.todo, Result(p) PROVE Developers'
  <2>1. /\ p \in Tweets /\ mem' = WithSnapshot(mem, TransformTweet(p)) /\ UNCHANGED disk /\ PipelineStays
        /\ db' = db \cup {Author[TransformTweet(p)]}
    BY <1>0, <1>2, ResultMoves
  <2>2. TransformTweet(p) \in Posts
    BY <2>1, PostSets
  <2>3. Whole(mem, db') /\ Author[TransformTweet(p)] \in db'
    BY <1>w, <2>1, WholeGrows
  <2>4. Whole(WithSnapshot(mem, TransformTweet(p)), db')
    BY <1>s, <2>2, <2>3, WholeSnapshot
  <2>5. QED BY <1>k, <2>1, <2>4
<1>3. ASSUME NEW p \in main.todo, UpsertFails(p) PROVE Developers'
  <2>1. /\ TransformTweet(p) \in Posts /\ mem' = WithTime(mem, TransformTweet(p)) /\ disk' = mem'
        /\ db \subseteq db' /\ PipelineStays
    BY <1>0, <1>3, UpsertFailsMoves
  <2>2. Whole(mem, db')
    BY <1>w, <2>1, WholeGrows
  <2>3. Whole(WithTime(mem, TransformTweet(p)), db')
    BY <1>s, <2>1, <2>2, WholeTime
  <2>4. QED BY <1>k, <2>1, <2>3
<1>4. ASSUME Checkpoint PROVE Developers'
  <2>1. /\ mem'.snaps = mem.snaps /\ mem'.times = mem.times /\ mem'.consumed = mem.consumed
        /\ disk' = mem' \/ disk' = disk
        /\ db' = db /\ PipelineStays
    BY <1>0, <1>4, CheckpointMoves
  <2>2. Whole(mem', db')
    BY <1>w, <2>1, WholeSame
  <2>3. QED BY <1>k, <2>1, <2>2
<1>5. ASSUME EndPhase PROVE Developers'
  <2>1. /\ mem'.snaps = mem.snaps /\ mem'.times = mem.times /\ mem'.consumed = mem.consumed
        /\ disk' = mem' /\ db' = db /\ PipelineStays
    BY <1>0, <1>5, EndPhaseMoves
  <2>2. Whole(mem', db')
    BY <1>w, <2>1, WholeSame
  <2>3. QED BY <1>k, <2>1, <2>2
<1>6. ASSUME MergeReddit PROVE Developers'
  <2>1. mem' = Plus(mem, rmem) /\ UNCHANGED <<disk, db>> /\ PipelineStays
    BY <1>0, <1>6, MergeRedditMoves
  <2>2. Whole(Plus(mem, rmem), db)
    BY <1>w, <1>s, WholePlus
  <2>3. QED BY <1>k, <2>1, <2>2
<1>r. ASSUME SearchStays, db \subseteq db', Whole(rmem', db'),
             \A s \in Subs : sub'[s] = "batched" => \A p \in fetched'[s] : Author[p] \in db'
      PROVE  Developers'
  <2>1. Whole(mem', db') /\ (disk' # None => Whole(disk', db'))
    BY <1>w, <1>r, WholeGrows DEF SearchStays
  <2>2. QED BY <1>r, <2>1 DEF Developers
<1>b. \A s \in Subs : sub[s] = "batched" => \A p \in fetched[s] : Author[p] \in db
  BY <1>0 DEF Developers
<1>7. ASSUME InitialRequest \/ RedditEnds PROVE Developers'
  <2>1. SearchStays /\ UNCHANGED <<sub, fetched, rmem, db>>
    BY <1>0, <1>7, RedditMoves
  <2>2. QED BY <1>b, <1>r, <1>w, <2>1
<1>8. ASSUME NEW s \in Subs, ScrapeSubreddit(s) PROVE Developers'
  <2>1. SearchStays /\ UNCHANGED <<rmem, db>>
    BY <1>0, <1>8, ScrapeMoves
  <2>2. \E to \in {"scraping", "scraped", "tempError", "error"} : GoesTo(s, to)
    BY <1>0, <1>8, ScrapeMoves
  <2>3. \A r \in Subs : r # s => sub'[r] = sub[r] /\ fetched'[r] = fetched[r]
    <3>1. \A r \in Subs : r # s => sub'[r] = sub[r]
      BY <1>0, <2>2 DEF Shape, GoesTo
    <3>2. fetched' = fetched \/ \E posts \in SUBSET Range(Sampled(s)) : fetched' = [fetched EXCEPT ![s] = posts]
      BY <1>0, <1>8, ScrapeMoves
    <3>3. \A r \in Subs : r # s => fetched'[r] = fetched[r]
      BY <1>0, <3>2 DEF Shape
    <3>4. QED BY <3>1, <3>3
  <2>4. sub'[s] # "batched"
    BY <1>0, <2>2 DEF Shape, GoesTo
  <2>5. \A r \in Subs : sub'[r] = "batched" => \A p \in fetched'[r] : Author[p] \in db'
    BY <1>b, <2>1, <2>3, <2>4
  <2>6. QED BY <1>r, <1>w, <2>1, <2>5
<1>9. ASSUME NEW s \in Subs, Forward(s) PROVE Developers'
  <2>1. SearchStays /\ UNCHANGED <<fetched, rmem, db>>
    BY <1>0, <1>9, ForwardMoves
  <2>2. \E to \in {"posted", "skipped"} : GoesTo(s, to)
    BY <1>0, <1>9, ForwardMoves
  <2>3. \A r \in Subs : sub'[r] = "batched" => sub[r] = "batched"
    BY <1>0, <2>2 DEF Shape, GoesTo
  <2>4. QED BY <1>b, <1>r, <1>w, <2>1, <2>3
<1>10. ASSUME NEW s \in Subs, BatchWorker(s) PROVE Developers'
  <2>1. SearchStays /\ UNCHANGED <<fetched, rmem>> /\ db \subseteq db'
    BY <1>0, <1>10, BatchWorkerMoves
  <2>2. Whole(rmem', db')
    BY <1>w, <2>1, WholeGrows
  <2>3. \/ \E to \in {"batching", "batchError"} : GoesTo(s, to)
        \/ GoesTo(s, "batched") /\ \A p \in fetched[s] : Author[p] \in db'
    BY <1>0, <1>10, BatchWorkerMoves
  <2>4. \A r \in Subs : sub'[r] = "batched" => sub[r] = "batched" \/ \A p \in fetched[r] : Author[p] \in db'
    <3>1. CASE \E to \in {"batching", "batchError"} : GoesTo(s, to)
      BY <1>0, <3>1 DEF Shape, GoesTo
    <3>2. CASE GoesTo(s, "batched") /\ \A p \in fetched[s] : Author[p] \in db'
      <4>1. \A r \in Subs : r # s => sub'[r] = sub[r]
        BY <1>0, <3>2 DEF Shape, GoesTo
      <4>2. QED BY <3>2, <4>1
    <3>3. QED BY <2>3, <3>1, <3>2
  <2>5. \A r \in Subs : sub'[r] = "batched" => \A p \in fetched'[r] : Author[p] \in db'
    BY <1>b, <2>1, <2>4
  <2>6. QED BY <1>r, <2>1, <2>2, <2>5
<1>11. ASSUME NEW s \in Subs, MergeSubreddit(s) PROVE Developers'
  <2>1. SearchStays /\ UNCHANGED <<fetched, db>> /\ GoesTo(s, "merged")
    BY <1>0, <1>11, MergeSubredditMoves
  <2>2. Whole(rmem', db')
    <3>1. CASE rmem' = rmem
      BY <1>w, <2>1, <3>1
    <3>2. CASE sub[s] = "batched" /\ \E games \in SUBSET AllGames : rmem' = Plus(rmem, TempState(s, games))
      <4>1. PICK games \in SUBSET AllGames : rmem' = Plus(rmem, TempState(s, games))
        BY <3>2
      <4>2. fetched[s] \subseteq RedditPosts /\ \A p \in fetched[s] : Author[p] \in db
        BY <1>0, <1>b, <3>2 DEF Shape
      <4>3. TempState(s, games) \in ScoutStates /\ Whole(TempState(s, games), db)
        BY <4>2, TempStateIs, WholeTempState
      <4>4. Whole(Plus(rmem, TempState(s, games)), db)
        BY <1>w, <1>s, <4>3, WholePlus
      <4>5. QED BY <2>1, <4>1, <4>4
    <3>3. QED BY <1>0, <1>11, <3>1, <3>2, MergeSubredditMoves
  <2>3. \A r \in Subs : sub'[r] = "batched" => sub[r] = "batched"
    BY <1>0, <2>1 DEF Shape, GoesTo
  <2>4. QED BY <1>b, <1>r, <2>1, <2>2, <2>3
<1>12. ASSUME Restart PROVE Developers'
  <2>1. /\ mem' = (IF disk = None THEN Blank ELSE disk) /\ rmem' = Blank /\ UNCHANGED <<disk, db>>
        /\ sub' = [s \in Subs |-> "queued"]
    BY <1>0, <1>12, RestartMoves
  <2>2. Whole(Blank, db)
    BY BlankIs, WholeGrows
  <2>3. Whole(mem', db') /\ Whole(rmem', db') /\ (disk' # None => Whole(disk', db'))
    BY <1>w, <2>1, <2>2
  <2>4. \A s \in Subs : sub'[s] # "batched"
    BY <2>1
  <2>5. QED BY <2>3, <2>4 DEF Developers
<1>13. CASE UNCHANGED vars
  BY <1>0, <1>13 DEF Developers, vars
<1>14. QED
  BY <1>1, <1>2, <1>3, <1>4, <1>5, <1>6, <1>7, <1>8, <1>9, <1>10, <1>11, <1>12, <1>13
  DEF Next, TwitterStep, RedditStep, Failure

-----------------------------------------------------------------------------
(* What was found by the search.                                           *)

LEMMA FromIs ==
    ASSUME NEW T \in SUBSET Tweets, NEW p
    PROVE  IsFiniteSet(From(T, p)) /\ Cardinality(From(T, p)) \in Nat
<1>1. From(T, p) \in SUBSET Tweets
  BY DEF From
<1>2. IsFiniteSet(From(T, p))
  BY <1>1, PostSets, FS_Subset
<1>3. QED BY <1>2, FS_CardinalityType

LEMMA WithinGrows ==
    ASSUME NEW st \in ScoutStates, NEW T \in SUBSET Tweets, NEW U \in SUBSET Tweets, T \subseteq U, Within(st, T),
           NEW same, \A p \in Searchable : same.snaps[p] = st.snaps[p]
    PROVE  Within(same, U)
<1> SUFFICES ASSUME NEW p \in Searchable PROVE same.snaps[p] <= Cardinality(From(U, p))
  BY DEF Within
<1>1. st.snaps[p] <= Cardinality(From(T, p)) /\ same.snaps[p] = st.snaps[p]
  BY DEF Within
<1>2. From(T, p) \subseteq From(U, p)
  BY DEF From
<1>3. IsFiniteSet(From(U, p)) /\ Cardinality(From(U, p)) \in Nat /\ Cardinality(From(T, p)) \in Nat
  BY FromIs
<1>4. Cardinality(From(T, p)) <= Cardinality(From(U, p))
  BY <1>2, <1>3, FS_Subset
<1>5. st.snaps[p] \in Nat
  BY PostSets, StateFields
<1>6. QED BY <1>1, <1>3, <1>4, <1>5

(* A tweet that was not consumed yet gives one more.                       *)
LEMMA WithinResult ==
    ASSUME NEW st \in ScoutStates, NEW T \in SUBSET Tweets, Within(st, T), NEW q \in Tweets, q \notin T
    PROVE  Within(WithSnapshot(st, TransformTweet(q)), T \cup {q})
<1> DEFINE t == WithSnapshot(st, TransformTweet(q))
           U == T \cup {q}
<1> SUFFICES ASSUME NEW p \in Searchable PROVE t.snaps[p] <= Cardinality(From(U, p))
  BY DEF Within
<1>1. TransformTweet(q) \in Posts /\ p \in Posts
  BY PostSets
<1>2. t.snaps[p] = st.snaps[p] + Marked({TransformTweet(q)})[p]
  BY <1>1, WithSnapshotIs
<1>3. st.snaps[p] <= Cardinality(From(T, p)) /\ st.snaps[p] \in Nat
  BY <1>1, StateFields DEF Within
<1>4. IsFiniteSet(From(T, p)) /\ Cardinality(From(T, p)) \in Nat
  BY FromIs
<1> HIDE DEF t
<1>5. CASE TransformTweet(q) = p
  <2>1. From(U, p) = From(T, p) \cup {q} /\ q \notin From(T, p)
    BY <1>5 DEF From
  <2>2. Cardinality(From(U, p)) = Cardinality(From(T, p)) + 1
    BY <1>4, <2>1, FS_AddElement
  <2>3. Marked({TransformTweet(q)})[p] = 1
    BY <1>1, <1>5 DEF Marked
  <2>4. QED BY <1>2, <1>3, <1>4, <2>2, <2>3
<1>6. CASE TransformTweet(q) # p
  <2>1. From(U, p) = From(T, p)
    BY <1>6 DEF From
  <2>2. Marked({TransformTweet(q)})[p] = 0
    BY <1>1, <1>6 DEF Marked
  <2>3. QED BY <1>2, <1>3, <2>1, <2>2
<1>7. QED BY <1>5, <1>6

LEMMA ConsumedIs ==
    ASSUME NEW st \in ScoutStates
    PROVE  Consumed(st) \in SUBSET Tweets
<1>1. st.token \in 0 .. Len(Pages) - 1
  BY StateFields
<1>2. \A j \in 1 .. st.token : j \in 1 .. Len(Pages)
  BY <1>1, PageSets
<1>3. QED BY <1>2, PageSets DEF Consumed

(* The page at the token of a batch that is not of a second round is new,  *)
(* and it is counted by the checkpoint.                                    *)
LEMMA PageIsNew ==
    ASSUME NEW st \in ScoutStates, st.token # 0 \/ st.batch = 0
    PROVE  /\ Pages[st.token + 1] \in SUBSET Tweets
           /\ Consumed(st) \cap Pages[st.token + 1] = {}
           /\ \A next \in ScoutStates :
                /\ next.batch = st.batch + 1
                /\ next.token = IF st.token + 1 < Len(Pages) THEN st.token + 1 ELSE 0
                => Consumed(st) \cup Pages[st.token + 1] \subseteq Consumed(next)
<1>1. st.token \in 0 .. Len(Pages) - 1 /\ st.batch \in Nat /\ Len(Pages) \in Nat
  BY StateFields, PageSets
<1>2. st.token + 1 \in 1 .. Len(Pages)
  BY <1>1
<1>3. Pages[st.token + 1] \in SUBSET Tweets
  BY <1>2, PageSets
<1>4. Consumed(st) = UNION {Pages[j] : j \in 1 .. st.token}
  BY <1>1 DEF Consumed
<1>5. \A j \in 1 .. st.token : j \in 1 .. Len(Pages) /\ j # st.token + 1
  BY <1>1
<1>6. Consumed(st) \cap Pages[st.token + 1] = {}
  BY <1>2, <1>4, <1>5, PageSets
<1>7. ASSUME NEW next \in ScoutStates, next.batch = st.batch + 1,
             next.token = IF st.token + 1 < Len(Pages) THEN st.token + 1 ELSE 0
      PROVE  Consumed(st) \cup Pages[st.token + 1] \subseteq Consumed(next)
  <2>1. CASE next.token = 0
    <3>1. next.batch # 0
      BY <1>1, <1>7
    <3>2. Consumed(next) = Tweets
      BY <2>1, <3>1 DEF Consumed
    <3>3. QED BY <1>3, <3>2, ConsumedIs
  <2>2. CASE next.token # 0
    <3>1. next.token = st.token + 1
      BY <1>7, <2>2
    <3>2. Consumed(next) = UNION {Pages[j] : j \in 1 .. st.token + 1}
      BY <2>2, <3>1 DEF Consumed
    <3>3. \A j \in 1 .. st.token : j \in 1 .. st.token + 1
      BY <1>1
    <3>4. st.token + 1 \in 1 .. st.token + 1
      BY <1>1
    <3>5. QED BY <1>4, <3>2, <3>3, <3>4
  <2>3. QED BY <2>1, <2>2
<1>8. QED BY <1>3, <1>6, <1>7

LEMMA InitSearched == ASSUME Init PROVE Searched
<1>1. mem = Blank /\ rmem = Blank /\ disk = None /\ main.pc = "search"
  BY DEF Init, Starting
<1>2. \A p \in Searchable : Blank.snaps[p] = 0
  BY BlankIs, PostSets
<1>3. \A T \in SUBSET Tweets : Within(Blank, T)
  BY <1>2, FromIs DEF Within
<1>4. Consumed(Blank) \in SUBSET Tweets
  BY BlankIs, ConsumedIs
<1>5. QED BY <1>1, <1>2, <1>3, <1>4 DEF Searched, Sought

(* The state of Reddit has no tweets.                                      *)
LEMMA NextSearchedReddit ==
    ASSUME Inv, [Next]_vars
    PROVE  \A p \in Searchable : rmem'.snaps[p] = 0
<1>0. Shape /\ Batched /\ \A p \in Searchable : rmem.snaps[p] = 0
  BY DEF Inv, Searched
<1>1. CASE rmem' = rmem
  BY <1>0, <1>1
<1>2. ASSUME NEW s \in Subs, MergeSubreddit(s), rmem' # rmem
      PROVE  \A p \in Searchable : rmem'.snaps[p] = 0
  <2>1. PICK games \in SUBSET AllGames : rmem' = Plus(rmem, TempState(s, games))
    BY <1>0, <1>2, MergeSubredditMoves
  <2>2. fetched[s] \subseteq RedditPosts /\ rmem \in ScoutStates
    BY <1>0 DEF Shape
  <2>3. TempState(s, games) \in ScoutStates /\ TempState(s, games).snaps = Marked(fetched[s])
    BY <2>2, TempStateIs
  <2>4. \A p \in Posts : rmem'.snaps[p] = rmem.snaps[p] + Marked(fetched[s])[p]
    BY <2>1, <2>2, <2>3, PlusIs
  <2>5. \A p \in Searchable : p \in Posts /\ Marked(fetched[s])[p] = 0
    BY <2>2, PostSets DEF Marked
  <2>6. QED BY <1>0, <2>4, <2>5
<1>3. CASE Restart
  <2>1. rmem' = Blank
    BY <1>0, <1>3, RestartMoves
  <2>2. QED BY <2>1, BlankIs, PostSets
<1>4. ASSUME NEW s \in Subs, ScrapeSubreddit(s) \/ Forward(s) \/ BatchWorker(s)
      PROVE  rmem' = rmem
  BY <1>0, <1>4, ScrapeMoves, ForwardMoves, BatchWorkerMoves
<1>5. ASSUME InitialRequest \/ RedditEnds PROVE rmem' = rmem
  BY <1>0, <1>5, RedditMoves
<1>6. QED BY <1>1, <1>2, <1>3, <1>4, <1>5, Kinds DEF PipelineStays

LEMMA NextSearched == ASSUME Inv, [Next]_vars PROVE Searched'
<1>0. Shape /\ Batched /\ Searched /\ mem \in ScoutStates /\ (disk = None \/ disk \in ScoutStates)
  BY DEF Inv, Shape
<1>r. \A p \in Searchable : rmem'.snaps[p] = 0
  BY NextSearchedReddit
<1>t. Tweets \in SUBSET Tweets /\ Consumed(mem) \in SUBSET Tweets /\ Searchable \subseteq Posts
  BY <1>0, ConsumedIs, PostSets
<1> SUFFICES ASSUME ~hist'.wrapped, ~hist'.partial PROVE Sought'
  BY <1>r DEF Searched
<1>1. ASSUME UNCHANGED <<mem, disk, hist>>, main'.pc = main.pc \/ main'.pc = "down",
             UNCHANGED <<main.token, main.todo>> \/ main'.pc # "batch"
      PROVE  Sought'
  <2>1. Sought
    BY <1>0, <1>1 DEF Searched
  <2>2. QED BY <1>1, <2>1 DEF Sought
<1>2. ASSUME TransformFails \/ Crash \/ SearchFails PROVE Sought'
  <2>1. UNCHANGED <<mem, disk, hist>>
    BY <1>0, <1>2, DownMoves, SearchFailsMoves
  <2>2. (main'.pc = main.pc \/ main'.pc = "down") /\ main'.pc # "batch"
    BY <1>0, <1>2, DownMoves, SearchFailsMoves
  <2>3. QED BY <1>1, <2>1, <2>2
<1>3. ASSUME SearchStays PROVE Sought'
  BY <1>1, <1>3 DEF SearchStays
<1>4. ASSUME NEW p \in main.todo, Result(p) PROVE Sought'
  <2> DEFINE T == Consumed(mem) \cup (Pages[main.token + 1] \ main.todo)
             U == T \cup {p}
             more == WithSnapshot(mem, TransformTweet(p))
  <2>1. /\ main.pc = "batch" /\ p \in Tweets /\ main'.pc = "batch" /\ main'.token = main.token
        /\ main'.todo = main.todo \ {p} /\ mem' = more /\ UNCHANGED <<disk, hist>>
    BY <1>0, <1>4, ResultMoves
  <2>2. Sought
    BY <1>0, <2>1 DEF Searched
  <2>3. main.token = mem.token /\ main.todo \subseteq Pages[main.token + 1] /\ (mem.token # 0 \/ mem.batch = 0)
    BY <1>0, <2>1, <2>2 DEF Batched, Sought
  <2>4. Pages[main.token + 1] \in SUBSET Tweets /\ Consumed(mem) \cap Pages[main.token + 1] = {}
    BY <1>0, <2>3, PageIsNew
  <2>5. T \in SUBSET Tweets /\ p \notin T /\ Within(mem, T)
    BY <1>4, <1>t, <2>1, <2>2, <2>3, <2>4 DEF Sought
  <2>6. Within(more, U) /\ U \in SUBSET Tweets
    BY <1>0, <2>1, <2>5, WithinResult
  <2>7. more \in ScoutStates /\ more.token = mem.token /\ more.batch = mem.batch
    BY <1>0, <2>1, PostSets, WithSnapshotIs
  <2>8. Consumed(more) = Consumed(mem)
    BY <2>7 DEF Consumed
  <2>9. U = Consumed(more) \cup (Pages[main.token + 1] \ (main.todo \ {p}))
    BY <1>4, <2>3, <2>8
  <2>10. Within(more, Tweets)
    BY <1>t, <2>6, <2>7, WithinGrows
  <2> HIDE DEF T, U, more
  <2>11. QED BY <2>1, <2>2, <2>3, <2>6, <2>7, <2>9, <2>10 DEF Sought
<1>5. ASSUME NEW p \in main.todo, UpsertFails(p) PROVE Sought'
  BY <1>0, <1>5, UpsertFailsMoves
<1>6. ASSUME Search PROVE Sought'
  <2>1. /\ main.pc = "search" /\ main'.pc = "batch" /\ main'.token = main.token
        /\ main'.todo = Pages[main.token + 1] /\ UNCHANGED <<mem, disk>>
        /\ hist'.partial = hist.partial /\ hist'.wrapped = (hist.wrapped \/ (main.token = 0 /\ mem.batch > 0))
    BY <1>0, <1>6, SearchMoves
  <2>2. Sought
    BY <1>0, <2>1 DEF Searched
  <2>3. mem.batch \in Nat
    BY <1>0, StateFields, PageSets
  <2>4. main.token # 0 \/ mem.batch = 0
    <3>1. ~(main.token = 0 /\ mem.batch > 0)
      BY <2>1, Zenon
    <3>2. QED BY <2>3, <3>1
  <2>5. Consumed(mem) \cup (Pages[main.token + 1] \ main'.todo) = Consumed(mem)
    BY <2>1
  <2>6. QED BY <2>1, <2>2, <2>4, <2>5 DEF Sought
<1>7. ASSUME Checkpoint PROVE Sought'
  <2>1. /\ main.pc = "batch" /\ main.todo = {} /\ main'.pc = "search"
        /\ mem' \in ScoutStates /\ mem'.batch = mem.batch + 1 /\ mem'.token = NextToken
        /\ mem'.snaps = mem.snaps /\ (disk' = mem' \/ disk' = disk) /\ UNCHANGED hist
    BY <1>0, <1>7, CheckpointMoves
  <2>2. Sought
    BY <1>0, <2>1 DEF Searched
  <2>3. main.token = mem.token /\ (mem.token # 0 \/ mem.batch = 0)
    BY <1>0, <2>1, <2>2 DEF Batched, Sought
  <2> DEFINE T == Consumed(mem) \cup Pages[mem.token + 1]
  <2>4. Pages[mem.token + 1] \in SUBSET Tweets /\ T \subseteq Consumed(mem')
    BY <1>0, <2>1, <2>3, PageIsNew DEF NextToken
  <2>5. T \in SUBSET Tweets /\ Consumed(mem') \in SUBSET Tweets
    BY <1>t, <2>1, <2>4, ConsumedIs
  <2>6. Within(mem, T)
    <3>1. T = Consumed(mem) \cup (Pages[main.token + 1] \ main.todo)
      BY <2>1, <2>3
    <3>2. QED BY <2>1, <2>2, <3>1 DEF Sought
  <2>7. Within(mem', Consumed(mem')) /\ Within(mem', Tweets)
    BY <1>0, <1>t, <2>1, <2>4, <2>5, <2>6, WithinGrows
  <2>8. disk' # None => Within(disk', Consumed(disk'))
    BY <2>1, <2>2, <2>7 DEF Sought
  <2>9. QED BY <2>1, <2>7, <2>8 DEF Sought
<1>8. ASSUME MergeReddit PROVE Sought'
  <2>1. /\ main.pc = "search" /\ main'.pc = "scrapers" /\ mem' = Plus(mem, rmem) /\ UNCHANGED <<disk, hist>>
    BY <1>0, <1>8, MergeRedditMoves
  <2>2. Sought
    BY <1>0, <2>1 DEF Searched
  <2>3. rmem \in ScoutStates /\ \A p \in Searchable : rmem.snaps[p] = 0
    BY <1>0 DEF Shape, Searched
  <2>4. mem'.batch = mem.batch /\ mem'.token = mem.token /\ \A p \in Posts : mem'.snaps[p] = mem.snaps[p] + rmem.snaps[p]
    BY <1>0, <2>1, <2>3, PlusIs
  <2>5. \A p \in Searchable : mem'.snaps[p] = mem.snaps[p]
    <3> SUFFICES ASSUME NEW p \in Searchable PROVE mem'.snaps[p] = mem.snaps[p]
      OBVIOUS
    <3>1. p \in Posts /\ rmem.snaps[p] = 0
      BY <1>t, <2>3
    <3>2. mem.snaps[p] \in Nat
      BY <1>0, <3>1, StateFields
    <3>3. QED BY <2>4, <3>1, <3>2
  <2>6. Consumed(mem') = Consumed(mem)
    BY <2>4 DEF Consumed
  <2>7. Within(mem', Consumed(mem)) /\ Within(mem', Tweets)
    BY <1>0, <1>t, <2>1, <2>2, <2>5, WithinGrows DEF Sought
  <2>8. QED BY <2>1, <2>2, <2>6, <2>7 DEF Sought
<1>9. ASSUME EndPhase PROVE Sought'
  <2>1. /\ main.pc = "scrapers" /\ main'.pc \in {"down", "done"} /\ disk' = mem' /\ mem'.snaps = mem.snaps
        /\ mem'.batch = mem.batch /\ mem'.token = mem.token /\ UNCHANGED hist
    BY <1>0, <1>9, EndPhaseMoves
  <2>2. Sought
    BY <1>0, <2>1 DEF Searched
  <2>3. Consumed(mem') = Consumed(mem)
    BY <2>1 DEF Consumed
  <2>4. Within(mem', Consumed(mem)) /\ Within(mem', Tweets)
    BY <1>0, <1>t, <2>1, <2>2, WithinGrows DEF Sought
  <2>5. QED BY <2>1, <2>3, <2>4 DEF Sought
<1>10. ASSUME Restart PROVE Sought'
  <2>1. /\ main'.pc = "search" /\ mem' = (IF disk = None THEN Blank ELSE disk) /\ UNCHANGED disk
        /\ hist'.wrapped = hist.wrapped /\ hist'.partial = hist.partial
    BY <1>0, <1>10, RestartMoves
  <2>2. Sought
    BY <1>0, <2>1 DEF Searched
  <2>3. CASE disk = None
    <3>1. \A T \in SUBSET Tweets : Within(Blank, T)
      BY <1>t, BlankIs, FromIs DEF Within
    <3>2. Consumed(Blank) \in SUBSET Tweets
      BY BlankIs, ConsumedIs
    <3>3. QED BY <1>t, <2>1, <2>3, <3>1, <3>2 DEF Sought
  <2>4. CASE disk # None
    <3>1. Within(disk, Consumed(disk)) /\ disk \in ScoutStates
      BY <1>0, <2>2, <2>4 DEF Sought
    <3>2. Within(disk, Tweets)
      BY <1>t, <3>1, ConsumedIs, WithinGrows
    <3>3. QED BY <2>1, <2>4, <3>1, <3>2 DEF Sought
  <2>5. QED BY <2>3, <2>4
<1>11. CASE UNCHANGED vars
  BY <1>3, <1>11 DEF vars, SearchStays
<1>12. ASSUME RedditStep PROVE SearchStays
  <2>1. CASE InitialRequest \/ RedditEnds
    BY <1>0, <2>1, RedditMoves
  <2>2. ASSUME NEW s \in Subs, ScrapeSubreddit(s) \/ Forward(s) \/ BatchWorker(s) \/ MergeSubreddit(s)
        PROVE  SearchStays
    BY <1>0, <2>2, ScrapeMoves, ForwardMoves, BatchWorkerMoves, MergeSubredditMoves
  <2>3. QED BY <1>12, <2>1, <2>2 DEF RedditStep
<1>13. QED
  BY <1>2, <1>3, <1>4, <1>5, <1>6, <1>7, <1>8, <1>9, <1>10, <1>11, <1>12
  DEF Next, TwitterStep, Failure

-----------------------------------------------------------------------------
(* What was found on Reddit.                                               *)

(* The state of Reddit counts a post once, when its subreddit is merged.   *)
MergedOnce == \A s \in Subs : \A p \in Range(Top[s]) : rmem.snaps[p] <= IF sub[s] = "merged" THEN 1 ELSE 0

AtMost(state, n) == \A p \in RedditPosts : state.snaps[p] <= n

LEMMA RedditPost ==
    ASSUME NEW p \in RedditPosts
    PROVE  p \in Posts /\ p \notin Searchable /\ \E s \in Subs : p \in Range(Top[s])
  BY PostSets DEF RedditPosts

LEMMA BlankAtMost == AtMost(Blank, 0)
  BY BlankIs, RedditPost DEF AtMost

LEMMA InitMerged == ASSUME Init PROVE Merged
<1>1. mem = Blank /\ rmem = Blank /\ disk = None /\ main.pc = "search" /\ \A s \in Subs : sub[s] = "queued"
  BY DEF Init, Starting
<1>2. \A s \in Subs : \A p \in Range(Top[s]) : Blank.snaps[p] = 0
  BY BlankIs, PostSets
<1>3. AtMost(Blank, 0)
  BY BlankAtMost
<1>4. QED BY <1>1, <1>2, <1>3 DEF Merged, AtMost

LEMMA NextMergedOnce == ASSUME Inv, [Next]_vars PROVE MergedOnce'
<1>0. Shape /\ Batched /\ MergedOnce /\ rmem \in ScoutStates
  BY DEF Inv, Shape, Merged, MergedOnce
<1>1. ASSUME rmem' = rmem, \A s \in Subs : sub'[s] = "merged" <=> sub[s] = "merged" PROVE MergedOnce'
  BY <1>0, <1>1 DEF MergedOnce
<1>2. CASE PipelineStays
  BY <1>1, <1>2 DEF PipelineStays
<1>3. CASE InitialRequest \/ RedditEnds
  BY <1>0, <1>1, <1>3, RedditMoves
<1>4. ASSUME NEW s \in Subs, ScrapeSubreddit(s) \/ Forward(s) \/ BatchWorker(s) PROVE MergedOnce'
  <2>1. rmem' = rmem
    BY <1>0, <1>4, ScrapeMoves, ForwardMoves, BatchWorkerMoves
  <2>2. sub[s] # "merged" /\ \E to \in Stages \ {"merged"} : GoesTo(s, to)
    <3>1. CASE ScrapeSubreddit(s)
      <4>1. sub[s] # "merged" /\ \E to \in {"scraping", "scraped", "tempError", "error"} : GoesTo(s, to)
        BY <1>0, <3>1, ScrapeMoves
      <4>2. QED BY <4>1 DEF Stages
    <3>2. CASE Forward(s)
      <4>1. sub[s] # "merged" /\ \E to \in {"posted", "skipped"} : GoesTo(s, to)
        BY <1>0, <3>2, ForwardMoves
      <4>2. QED BY <4>1 DEF Stages
    <3>3. CASE BatchWorker(s)
      <4>1. sub[s] # "merged" /\ \E to \in {"batching", "batched", "batchError"} : GoesTo(s, to)
        BY <1>0, <3>3, BatchWorkerMoves
      <4>2. QED BY <4>1 DEF Stages
    <3>4. QED BY <1>4, <3>1, <3>2, <3>3
  <2>3. \A r \in Subs : sub'[r] = "merged" <=> sub[r] = "merged"
    <3>1. PICK to \in Stages \ {"merged"} : sub' = [sub EXCEPT ![s] = to]
      BY <2>2 DEF GoesTo
    <3>2. \A r \in Subs : sub'[r] = IF r = s THEN to ELSE sub[r]
      BY <1>0, <3>1 DEF Shape
    <3>3. QED BY <2>2, <3>2
  <2>4. QED BY <1>1, <2>1, <2>3
<1>5. ASSUME NEW s \in Subs, MergeSubreddit(s) PROVE MergedOnce'
  <2>1. sub[s] # "merged" /\ GoesTo(s, "merged")
    BY <1>0, <1>5, MergeSubredditMoves
  <2>2. \A r \in Subs : sub'[r] = IF r = s THEN "merged" ELSE sub[r]
    BY <1>0, <2>1 DEF Shape, GoesTo
  <2>3. \A r \in Subs : \A p \in Range(Top[r]) : p \in Posts /\ rmem.snaps[p] \in Nat
    BY <1>0, PostSets, StateFields
  <2>4. fetched[s] \subseteq Range(Top[s]) /\ fetched[s] \subseteq RedditPosts
    BY <1>0 DEF Inv, Pipeline, Shape
  <2>5. CASE rmem' = rmem
    <3> SUFFICES ASSUME NEW r \in Subs, NEW p \in Range(Top[r])
                 PROVE  rmem'.snaps[p] <= IF sub'[r] = "merged" THEN 1 ELSE 0
      BY DEF MergedOnce
    <3>1. rmem.snaps[p] \in Nat /\ rmem.snaps[p] <= IF sub[r] = "merged" THEN 1 ELSE 0
      BY <1>0, <2>3 DEF MergedOnce
    <3>2. QED BY <2>2, <2>5, <3>1
  <2>6. CASE \E games \in SUBSET AllGames : rmem' = Plus(rmem, TempState(s, games))
    <3>1. PICK games \in SUBSET AllGames : rmem' = Plus(rmem, TempState(s, games))
      BY <2>6
    <3>2. TempState(s, games) \in ScoutStates /\ TempState(s, games).snaps = Marked(fetched[s])
      BY <2>4, TempStateIs
    <3>3. \A p \in Posts : rmem'.snaps[p] = rmem.snaps[p] + Marked(fetched[s])[p]
      BY <1>0, <3>1, <3>2, PlusIs
    <3> SUFFICES ASSUME NEW r \in Subs, NEW p \in Range(Top[r])
                 PROVE  rmem'.snaps[p] <= IF sub'[r] = "merged" THEN 1 ELSE 0
      BY DEF MergedOnce
    <3>4. /\ p \in Posts /\ rmem.snaps[p] \in Nat
          /\ rmem.snaps[p] <= IF sub[r] = "merged" THEN 1 ELSE 0
          /\ rmem'.snaps[p] = rmem.snaps[p] + Marked(fetched[s])[p]
      BY <1>0, <2>3, <3>3 DEF MergedOnce
    <3>5. CASE r = s
      <4>1. Marked(fetched[s])[p] \in {0, 1}
        BY <3>4 DEF Marked
      <4>2. QED BY <2>1, <2>2, <3>4, <3>5, <4>1
    <3>6. CASE r # s
      <4>1. Range(Top[r]) \cap Range(Top[s]) = {}
        BY <3>6, DiscoveryAssumption
      <4>2. p \notin fetched[s]
        BY <2>4, <4>1
      <4>3. Marked(fetched[s])[p] = 0
        BY <3>4, <4>2 DEF Marked
      <4>4. QED BY <2>2, <3>4, <3>6, <4>3
    <3>7. QED BY <3>5, <3>6
  <2>7. QED BY <1>0, <1>5, <2>5, <2>6, MergeSubredditMoves
<1>6. CASE Restart
  <2>1. rmem' = Blank
    BY <1>0, <1>6, RestartMoves
  <2>2. \A s \in Subs : \A p \in Range(Top[s]) : Blank.snaps[p] = 0
    BY BlankIs, PostSets
  <2>3. QED BY <2>1, <2>2 DEF MergedOnce
<1>7. QED BY <1>2, <1>3, <1>4, <1>5, <1>6, Kinds

LEMMA NextMerged == ASSUME Inv, [Next]_vars PROVE Merged'
<1> DEFINE Bound == IF main.pc \in {"search", "batch"} THEN 0 ELSE 1
           Once == AtMost(mem, Bound) /\ (disk # None => AtMost(disk, 1))
<1>0. Shape /\ Batched /\ mem \in ScoutStates /\ rmem \in ScoutStates /\ (disk = None \/ disk \in ScoutStates)
  BY DEF Inv, Shape
<1>r. MergedOnce /\ MergedOnce'
  BY NextMergedOnce DEF Inv, Merged, MergedOnce
<1>o. ~hist.again => Once
  BY DEF Inv, Merged, AtMost
<1>n. \A p \in RedditPosts : p \in Posts /\ mem.snaps[p] \in Nat /\ (disk # None => disk.snaps[p] \in Nat)
  BY <1>0, RedditPost, StateFields
<1> SUFFICES ASSUME ~hist'.again PROVE Once'
  BY <1>r DEF Merged, MergedOnce, AtMost
<1>1. ASSUME UNCHANGED hist, \A p \in RedditPosts : mem'.snaps[p] = mem.snaps[p],
             main'.pc \in {"search", "batch"} => main.pc \in {"search", "batch"}, disk' = mem' \/ disk' = disk
      PROVE  Once'
  <2>1. Once
    BY <1>o, <1>1
  <2>2. AtMost(mem', Bound')
    BY <1>1, <1>n, <2>1 DEF AtMost
  <2>3. AtMost(mem', 1)
    BY <1>1, <1>n, <2>1 DEF AtMost
  <2>4. disk' # None => AtMost(disk', 1)
    BY <1>1, <2>1, <2>3
  <2> HIDE DEF Bound
  <2>5. QED BY <2>2, <2>4
<1>2. ASSUME TransformFails \/ Crash \/ SearchFails PROVE Once'
  <2>1. UNCHANGED <<mem, disk, hist>>
    BY <1>0, <1>2, DownMoves, SearchFailsMoves
  <2>2. main'.pc = "down" \/ main.pc = "search"
    BY <1>0, <1>2, DownMoves, SearchFailsMoves
  <2>3. QED BY <1>1, <2>1, <2>2
<1>3. ASSUME Search PROVE Once'
  <2>1. UNCHANGED <<mem, disk>> /\ main.pc = "search" /\ main'.pc = "batch" /\ hist'.again = hist.again
    BY <1>0, <1>3, SearchMoves
  <2>2. Once
    BY <1>o, <2>1
  <2>3. QED BY <2>1, <2>2 DEF AtMost
<1>4. ASSUME SearchStays PROVE Once'
  BY <1>1, <1>4 DEF SearchStays
<1>5. ASSUME NEW p \in main.todo, Result(p) PROVE Once'
  <2>1. /\ main.pc = "batch" /\ p \in Tweets /\ mem' = WithSnapshot(mem, TransformTweet(p))
        /\ UNCHANGED <<disk, hist>>
    BY <1>0, <1>5, ResultMoves
  <2>2. TransformTweet(p) \in Posts /\ TransformTweet(p) \in Searchable
    BY <2>1, PostSets
  <2>3. \A q \in Posts : mem'.snaps[q] = mem.snaps[q] + Marked({TransformTweet(p)})[q]
    BY <1>0, <2>1, <2>2, WithSnapshotIs
  <2>4. \A q \in RedditPosts : Marked({TransformTweet(p)})[q] = 0
    BY <2>2, RedditPost DEF Marked
  <2>5. \A q \in RedditPosts : mem'.snaps[q] = mem.snaps[q]
    BY <1>n, <2>3, <2>4
  <2>6. QED BY <1>1, <2>1, <2>5
<1>6. ASSUME NEW p \in main.todo, UpsertFails(p) PROVE Once'
  <2>1. /\ main.pc = "batch" /\ main'.pc = "down" /\ TransformTweet(p) \in Posts
        /\ mem' = WithTime(mem, TransformTweet(p)) /\ disk' = mem' /\ hist'.again = hist.again
    BY <1>0, <1>6, UpsertFailsMoves
  <2>2. mem'.snaps = mem.snaps
    BY <1>0, <2>1, WithTimeIs
  <2>3. Once
    BY <1>o, <2>1
  <2>4. AtMost(mem', 1)
    BY <1>n, <2>1, <2>2, <2>3 DEF AtMost
  <2>5. QED BY <2>1, <2>4
<1>7. ASSUME Checkpoint PROVE Once'
  <2>1. /\ main.pc = "batch" /\ mem'.snaps = mem.snaps /\ (disk' = mem' \/ disk' = disk) /\ UNCHANGED hist
    BY <1>0, <1>7, CheckpointMoves
  <2>2. QED BY <1>1, <2>1
<1>8. ASSUME MergeReddit PROVE Once'
  <2>1. /\ main.pc = "search" /\ main'.pc = "scrapers" /\ mem' = Plus(mem, rmem) /\ UNCHANGED <<disk, hist>>
    BY <1>0, <1>8, MergeRedditMoves
  <2>2. Once
    BY <1>o, <2>1
  <2>3. \A p \in Posts : mem'.snaps[p] = mem.snaps[p] + rmem.snaps[p]
    BY <1>0, <2>1, PlusIs
  <2>4. ASSUME NEW p \in RedditPosts PROVE mem'.snaps[p] <= 1
    <3>1. PICK s \in Subs : p \in Range(Top[s])
      BY RedditPost
    <3>2. p \in Posts /\ rmem.snaps[p] \in Nat /\ mem.snaps[p] \in Nat
      BY <1>0, <1>n, StateFields
    <3>3. rmem.snaps[p] <= 1
      BY <1>r, <3>1, <3>2 DEF MergedOnce
    <3>4. mem.snaps[p] <= 0
      BY <2>1, <2>2 DEF AtMost
    <3>5. QED BY <2>3, <3>2, <3>3, <3>4
  <2>5. QED BY <2>1, <2>2, <2>4 DEF AtMost
<1>9. ASSUME EndPhase PROVE Once'
  <2>1. /\ main'.pc \in {"down", "done"} /\ disk' = mem' /\ mem'.snaps = mem.snaps /\ UNCHANGED hist
    BY <1>0, <1>9, EndPhaseMoves
  <2>2. QED BY <1>1, <2>1
<1>10. ASSUME Restart PROVE Once'
  <2>1. /\ main'.pc = "search" /\ mem' = (IF disk = None THEN Blank ELSE disk) /\ UNCHANGED disk
        /\ hist'.again = (hist.again \/ (disk # None /\ \E p \in RedditPosts : disk.snaps[p] > 0))
    BY <1>0, <1>10, RestartMoves
  <2>2. ~hist.again /\ ~(disk # None /\ \E p \in RedditPosts : disk.snaps[p] > 0)
    BY <2>1, Zenon
  <2>3. disk # None => AtMost(disk, 1)
    BY <1>o, <2>2
  <2>4. AtMost(mem', 0)
    <3>1. CASE disk = None
      BY <2>1, <3>1, BlankAtMost
    <3>2. CASE disk # None
      BY <1>n, <2>1, <2>2, <3>2 DEF AtMost
    <3>3. QED BY <3>1, <3>2
  <2>5. QED BY <2>1, <2>3, <2>4
<1>11. CASE UNCHANGED vars
  BY <1>4, <1>11 DEF vars, SearchStays
<1>12. ASSUME RedditStep PROVE SearchStays
  <2>1. CASE InitialRequest \/ RedditEnds
    BY <1>0, <2>1, RedditMoves
  <2>2. ASSUME NEW s \in Subs, ScrapeSubreddit(s) \/ Forward(s) \/ BatchWorker(s) \/ MergeSubreddit(s)
        PROVE  SearchStays
    BY <1>0, <2>2, ScrapeMoves, ForwardMoves, BatchWorkerMoves, MergeSubredditMoves
  <2>3. QED BY <1>12, <2>1, <2>2 DEF RedditStep
<1>13. QED
  BY <1>2, <1>3, <1>4, <1>5, <1>6, <1>7, <1>8, <1>9, <1>10, <1>11, <1>12
  DEF Next, TwitterStep, Failure

-----------------------------------------------------------------------------
(* The theorems.                                                           *)

(* Whatever fails and however often the program is started again, what is  *)
(* in memory and what is saved is whole and counts nothing twice.          *)
THEOREM Invariant == Spec => []Inv
<1>1. Init => Inv
  BY InitShape, InitPipeline, InitBatched, InitDevelopers, InitSearched, InitMerged DEF Inv
<1>2. Inv /\ [Next]_vars => Inv'
  BY NextShape, NextPipeline, NextBatched, NextDevelopers, NextSearched, NextMerged DEF Inv
<1>3. QED BY <1>1, <1>2, PTL DEF Spec

LEMMA StatesAre ==
    ASSUME Shape, NEW state \in States
    PROVE  state \in ScoutStates /\ (state = mem \/ state = rmem \/ (state = disk /\ disk # None))
  BY DEF Shape, States

(* The states of DiscoveryPhase keep their types; no more workers of the   *)
(* pipeline run than are configured (discovery.go:636, discovery.go:640),  *)
(* and of each subreddit at most half as many posts again as wanted.       *)
THEOREM TypeCorrect == Spec => []TypeOK
<1>1. ASSUME Inv PROVE TypeOK
  <2>1. Shape /\ Pipeline
    BY <1>1 DEF Inv
  <2>2. ASSUME NEW state \in States
        PROVE  /\ state.snaps \in [Posts -> Nat] /\ state.times \in [Posts -> Nat]
               /\ state.batch \in 0 .. NumBatches /\ state.token \in 0 .. Len(Pages) - 1
    BY <2>1, StatesAre, StateFields
  <2>3. main.todo \subseteq Tweets /\ db \subseteq {Author[p] : p \in Posts}
    BY <2>1 DEF Shape, Mains
  <2>4. QED BY <2>1, <2>2, <2>3 DEF TypeOK, Pipeline
<1>2. QED BY <1>1, Invariant, PTL

(* Whatever DiscoveryBatch adds to a state and whenever it is saved, its   *)
(* developers are in the database and each of its snapshots has its time   *)
(* (discovery.go:424).                                                     *)
THEOREM DevelopersAreSaved == Spec => []SnapshotsHaveDevelopers
<1>1. ASSUME Inv PROVE SnapshotsHaveDevelopers
  <2>1. \A state \in States : Whole(state, db)
    BY <1>1, StatesAre DEF Inv, Developers
  <2>2. QED BY <2>1 DEF SnapshotsHaveDevelopers, Whole
<1>2. QED BY <1>1, Invariant, PTL

(* Over crashes, errors and checkpoints a tweet gives one snapshot until   *)
(* the search begins again or a batch fails half-way, and a Reddit post    *)
(* one until it is saved with an error (discovery.go:837,                  *)
(* discovery.go:862).                                                      *)
THEOREM PostsCountOnce == Spec => []NoPostTwice
<1>1. ASSUME Inv PROVE NoPostTwice
  <2>0. Shape
    BY <1>1 DEF Inv
  <2> SUFFICES ASSUME NEW state \in States
               PROVE  /\ ~hist.wrapped /\ ~hist.partial => Within(state, Tweets)
                      /\ ~hist.again => AtMost(state, 1)
    BY DEF NoPostTwice, Within, From, Searchable, AtMost
  <2>1. state \in ScoutStates /\ (state = mem \/ state = rmem \/ (state = disk /\ disk # None))
    BY <2>0, StatesAre
  <2>2. ~hist.wrapped /\ ~hist.partial => Within(state, Tweets)
    <3>1. Tweets \in SUBSET Tweets /\ \A p \in Searchable : Cardinality(From(Tweets, p)) \in Nat
      BY FromIs
    <3>2. CASE state = mem
      BY <1>1, <3>2 DEF Inv, Searched, Sought
    <3>3. CASE state = rmem
      <4>1. \A p \in Searchable : state.snaps[p] = 0
        BY <1>1, <3>3 DEF Inv, Searched
      <4>2. QED BY <3>1, <4>1 DEF Within
    <3>4. CASE state = disk /\ disk # None
      <4>1. ~hist.wrapped /\ ~hist.partial => Within(state, Consumed(state))
        BY <1>1, <3>4 DEF Inv, Searched, Sought
      <4>2. Consumed(state) \in SUBSET Tweets
        BY <2>1, ConsumedIs
      <4>3. QED BY <2>1, <3>1, <4>1, <4>2, WithinGrows
    <3>5. QED BY <2>1, <3>2, <3>3, <3>4
  <2>3. ~hist.again => AtMost(state, 1)
    <3>1. \A p \in RedditPosts : state.snaps[p] \in Nat
      BY <2>1, RedditPost, StateFields
    <3>2. CASE state = mem
      BY <1>1, <3>1, <3>2 DEF Inv, Merged, AtMost
    <3>3. CASE state = rmem
      <4>1. MergedOnce
        BY <1>1 DEF Inv, Merged, MergedOnce
      <4>2. \A s \in Subs : \A p \in Range(Top[s]) : p \in RedditPosts
        BY PostSets
      <4>3. \A s \in Subs : \A p \in Range(Top[s]) : state.snaps[p] <= 1
        BY <3>1, <3>3, <4>1, <4>2 DEF MergedOnce
      <4>4. QED BY <4>3, RedditPost DEF AtMost
    <3>4. CASE state = disk /\ disk # None
      BY <1>1, <3>4 DEF Inv, Merged, AtMost
    <3>5. QED BY <2>1, <3>2, <3>3, <3>4
  <2>4. QED BY <2>2, <2>3
<1>2. QED BY <1>1, Invariant, PTL
=============================================================================
