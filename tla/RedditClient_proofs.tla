--------------------------- MODULE RedditClient_proofs ---------------------------
(***************************************************************************)
(* Proof that the Reddit client counts every request of the day, in a map  *)
(* of bounded size, whatever goroutines insert and delete periods at once. *)
(***************************************************************************)
EXTENDS RedditClient, FiniteSetTheorems, WellFoundedInduction, TLAPS

-----------------------------------------------------------------------------
(* The inductive invariant.                                                *)

Limits == {l \in [used : Int, remaining : Int, reset : Int] : l.used + l.remaining = Allowed}

Pcs == {"idle", "token", "fetch", "fetched", "request", "loadLimit", "storeLimit", "loadOrStore", "count",
        "full", "grow", "evict", "delete"}
AllBindings == Bindings \cup {AccessToken}

(* It needs the access token, makes a request, or counts it.               *)
Needing == {"token", "fetch", "fetched"}
Asking == {"request", "loadLimit", "storeLimit"}
Counting == {"count", "full", "grow", "evict", "delete"}

Fields == [pc : Pcs, binding : AllBindings \cup {None}, outer : Bindings \cup {None},
           limit : Limits \cup {None}, seen : Limits \cup {None},
           period : Nat, held : BOOLEAN, orphan : BOOLEAN]
Places ==
    {r \in Fields :
        /\ r.pc \in Needing => r.binding \in Bindings
        /\ r.pc \in Asking => r.binding \in AllBindings
        /\ r.orphan => r.pc \in Counting}

Shape ==
    /\ now \in 0 .. MaxPeriod
    /\ token = None \/ token \in Nat
    /\ limits \in [AllBindings -> Limits \cup {None}]
    /\ DOMAIN counts \subseteq 0 .. now /\ counts \in [DOMAIN counts -> Nat]
    /\ periods \in Nat
    /\ thread \in [Threads -> Places] /\ \A t \in Threads : thread[t].period <= now
    /\ server \in [used : 0 .. Allowed, requests : Nat, faults : Nat]
    /\ hist \in [counted : [0 .. MaxPeriod -> Nat], raced : BOOLEAN]

Inserting == {t \in Threads : Inserts(t)}
Sizing == {t \in Threads : thread[t].pc \in {"grow", "evict", "delete"}}

(* A goroutine that inserts has not counted its period in periods yet.  Who*)
(* has seen that there are too many is one of them, so that the map holds  *)
(* more periods than a day has when it looks for the oldest: that one is   *)
(* not of this day, and will be of no later one.                           *)
Sized ==
    /\ Cardinality(DOMAIN counts) >= periods + Cardinality(Inserting)
    /\ \A t \in Sizing : ~thread[t].held
    /\ \A t \in Threads : thread[t].pc = "full" => ~thread[t].held
    /\ \A t \in Threads : thread[t].pc \in {"evict", "delete"} => periods >= PeriodCountMax
    /\ \A t \in Threads : thread[t].pc = "delete" => ~Today(thread[t].period)

(* As long as no two have inserted at once.                                *)
OneAtATime ==
    ~hist.raced =>
        /\ Cardinality(DOMAIN counts) = periods + Cardinality(Inserting)
        /\ periods <= PeriodCountMax
        /\ \A t, u \in Sizing : t = u
        /\ \A t \in Threads : thread[t].pc = "grow" => periods < PeriodCountMax
        /\ \A t \in Threads : thread[t].pc = "delete" => thread[t].period \in DOMAIN counts

(* The counters of this day are those of the requests.                     *)
Counted ==
    /\ \A p \in 0 .. MaxPeriod : p > now => hist.counted[p] = 0
    /\ \A p \in 0 .. now : Today(p) =>
         hist.counted[p] = IF p \in DOMAIN counts THEN counts[p] ELSE 0
    /\ \A t \in Threads : thread[t].pc = "count" /\ Today(thread[t].period)
         => thread[t].period \in DOMAIN counts

(* A counter that was deleted is of no day to come.                        *)
Orphaned ==
    \A t \in Threads : thread[t].pc = "count" /\ thread[t].orphan => ~Today(thread[t].period)

Inv == Shape /\ Sized /\ OneAtATime /\ Counted /\ Orphaned

-----------------------------------------------------------------------------
(* Days.                                                                   *)

LEMMA Division ==
    ASSUME NEW a \in Nat, NEW d \in Nat, d # 0
    PROVE  a \div d \in Nat /\ d * (a \div d) <= a /\ a <= d * (a \div d) + d - 1
  OBVIOUS

LEMMA DayLater ==
    ASSUME RedditAssumption, NEW a \in Nat, NEW b \in Nat, a <= b
    PROVE  a \div PeriodsPerDay <= b \div PeriodsPerDay
<1> DEFINE d == PeriodsPerDay
           i == a \div d
           j == b \div d
<1>1. d \in Nat /\ d # 0
  BY DEF RedditAssumption
<1>2. i \in Nat /\ j \in Nat /\ d * i <= a /\ b <= d * j + d - 1
  BY <1>1, Division
<1> SUFFICES ASSUME ~(i <= j) PROVE FALSE
  OBVIOUS
<1> HIDE DEF i, j, d
<1>3. j + 1 <= i
  BY <1>2
<1>4. d * (j + 1) <= d * i /\ d * (j + 1) = d * j + d
  BY <1>1, <1>2, <1>3
<1>5. d * i \in Nat /\ d * j \in Nat
  BY <1>1, <1>2
<1>6. QED
  BY <1>1, <1>2, <1>4, <1>5

LEMMA DaySize ==
    ASSUME RedditAssumption, NEW k \in Nat, NEW S \in SUBSET Nat,
           \A p \in S : p \div PeriodsPerDay = k
    PROVE  IsFiniteSet(S) /\ Cardinality(S) \in Nat /\ Cardinality(S) <= PeriodsPerDay
<1> DEFINE d == PeriodsPerDay
           first == d * k
<1>1. d \in Nat /\ d # 0 /\ first \in Nat
  <2>1. d \in Nat /\ d # 0
    BY DEF RedditAssumption
  <2>2. QED BY <2>1
<1>2. ASSUME NEW p \in S PROVE p \in first .. (first + d - 1)
  <2>1. p \in Nat /\ p \div d = k
    OBVIOUS
  <2>2. d * k <= p /\ p <= d * k + d - 1
    BY <1>1, <2>1, Division
  <2>3. QED BY <1>1, <2>1, <2>2
<1> HIDE DEF first, d
<1> DEFINE last == first + d - 1
<1>3. first \in Int /\ last \in Int /\ ~(first > last) /\ last - first + 1 = d
  BY <1>1
<1>4. S \in SUBSET (first .. last)
  BY <1>2
<1> HIDE DEF last
<1>6. IsFiniteSet(first .. last) /\ Cardinality(first .. last) = d
  BY <1>3, FS_Interval
<1>5. QED BY <1>4, <1>6, FS_Subset, FS_CardinalityType DEF d

(* The minimum of periods exists.                                          *)
LEMMA OldestIs ==
    ASSUME DOMAIN counts \subseteq Nat, DOMAIN counts # {}
    PROVE  Oldest \in DOMAIN counts /\ \A p \in DOMAIN counts : Oldest <= p
<1>1. PICK x \in DOMAIN counts : \A y \in DOMAIN counts : ~(<<y, x>> \in OpToRel(<, Nat))
  BY NatLessThanWellFounded, WFMin
<1>2. \A y \in DOMAIN counts : ~(y < x)
  BY <1>1 DEF OpToRel
<1>3. \A y \in DOMAIN counts : x <= y
  BY <1>2
<1>4. \E z \in DOMAIN counts : \A y \in DOMAIN counts : z <= y
  BY <1>3
<1>5. Oldest = CHOOSE z \in DOMAIN counts : \A y \in DOMAIN counts : z <= y
  BY DEF Oldest, Min
<1>6. QED BY <1>4, <1>5

-----------------------------------------------------------------------------
(* What the steps do to the goroutines.                                    *)

Quiet == {"idle", "token", "fetch", "fetched", "request", "loadLimit", "storeLimit", "loadOrStore"}

(* Goroutine t is elsewhere, with a record r of the right type.            *)
Placed(t, r) ==
    /\ r \in Places /\ r.period <= now'
    /\ thread' = [thread EXCEPT ![t] = r]

(* The other goroutines are where they were; that t deletes a counter may  *)
(* have made an orphan of theirs.                                          *)
Others(t) ==
    \A u \in Threads : u # t =>
        /\ thread'[u].pc = thread[u].pc /\ thread'[u].period = thread[u].period
        /\ thread'[u].held = thread[u].held
        /\ thread'[u].orphan => \/ thread[u].orphan
                                \/ thread[t].pc = "delete" /\ thread[u].period = thread[t].period

LEMMA IdlePlace ==
    ASSUME Shape PROVE Idle \in Places /\ Idle.period <= now /\ Idle.pc = "idle" /\ ~Idle.held
  BY DEF Shape, Idle, Places, Fields, Pcs, Needing, Asking

LEMMA Basics ==
    ASSUME Shape
    PROVE  /\ now \in Nat /\ now \in 0 .. MaxPeriod
           /\ server \in [used : 0 .. Allowed, requests : Nat, faults : Nat] /\ server.used \in 0 .. Allowed
           /\ DOMAIN counts \subseteq 0 .. now
           /\ \A u \in Threads : thread[u] \in Places /\ thread[u].period \in Nat /\ thread[u].period <= now
<1>1. /\ now \in 0 .. MaxPeriod /\ server \in [used : 0 .. Allowed, requests : Nat, faults : Nat]
      /\ DOMAIN counts \subseteq 0 .. now
      /\ \A u \in Threads : thread[u] \in Places /\ thread[u].period <= now
  BY DEF Shape
<1>2. \A u \in Threads : thread[u].period \in Nat
  BY <1>1 DEF Places, Fields
<1>3. QED BY <1>1, <1>2

LEMMA GotoPlaces ==
    ASSUME Shape, NEW t \in Threads, NEW pc \in Pcs, Goto(t, pc), now' = now,
           pc \in Needing \cup Asking => thread[t].pc \in Needing,
           thread[t].pc \in Counting => pc \in Counting
    PROVE  \E r : /\ Placed(t, r) /\ r.pc = pc
                  /\ r.period = thread[t].period /\ r.held = thread[t].held
<1> DEFINE r == [thread[t] EXCEPT !.pc = pc]
<1>1. thread[t] \in Places /\ thread[t].period <= now
  BY DEF Shape
<1>2. r \in Places /\ r.pc = pc /\ r.period = thread[t].period /\ r.held = thread[t].held
  BY <1>1 DEF Places, Fields, Needing, Asking, AllBindings
<1>3. thread' = [thread EXCEPT ![t] = r]
  BY DEF Goto, Shape
<1> HIDE DEF r
<1>4. r.period <= now'
  BY <1>1, <1>2
<1>5. QED BY <1>2, <1>3, <1>4 DEF Placed

LEMMA ReturnedPlace ==
    ASSUME Shape, NEW t \in Threads
    PROVE  /\ Returned(t) \in Places /\ Returned(t).period <= now
           /\ Returned(t).pc \in {"idle", "fetched"} /\ ~Returned(t).held
<1>1. CASE thread[t].outer = None
  BY <1>1, IdlePlace DEF Returned
<1>2. CASE thread[t].outer # None
  <2> DEFINE b == thread[t].outer
             r == [Idle EXCEPT !.pc = "fetched", !.binding = b]
  <2>1. b \in Bindings
    BY <1>2 DEF Shape, Places, Fields
  <2>2. Returned(t) = r /\ now \in Nat
    BY <1>2 DEF Returned, Shape
  <2> HIDE DEF b
  <2>3. r \in Places /\ r.period = 0 /\ r.pc = "fetched" /\ ~r.held
    BY <2>1 DEF Idle, Places, Fields, Pcs, Needing, Asking, AllBindings
  <2>4. QED BY <2>2, <2>3
<1>3. QED BY <1>1, <1>2

LEMMA ReturnPlaces ==
    ASSUME Shape, NEW t \in Threads, Return(t) \/ Fail(t), now' = now
    PROVE  \E r : Placed(t, r) /\ r.pc \in {"idle", "fetched"} /\ ~r.held
<1>1. CASE thread' = [thread EXCEPT ![t] = Idle]
  BY <1>1, IdlePlace DEF Placed
<1>2. CASE thread' # [thread EXCEPT ![t] = Idle]
  BY <1>2, ReturnedPlace DEF Return, Fail, Placed
<1>3. QED BY <1>1, <1>2

(* The limit of an answer.                                                 *)
LEMMA AnswerLimit ==
    ASSUME RedditAssumption, NEW used \in 0 .. Allowed, NEW reset \in Int
    PROVE  [used |-> used + 1, remaining |-> Allowed - used - 1, reset |-> reset] \in Limits
<1>1. Allowed \in Nat
  BY DEF RedditAssumption
<1>2. used + 1 \in Int /\ Allowed - used - 1 \in Int /\ (used + 1) + (Allowed - used - 1) = Allowed
  BY <1>1
<1>3. QED BY <1>2 DEF Limits

QuietStep(t) ==
    Begin(t) \/ RefreshToken(t) \/ FetchToken(t) \/ SetAccessToken(t) \/ Run(t) \/ LoadLimit(t) \/ StoreLimit(t)

(* Up to the counting a goroutine touches neither the counters nor what is *)
(* remembered of them.                                                     *)
LEMMA QuietPlaces ==
    ASSUME RedditAssumption, Shape, NEW t \in Threads, QuietStep(t)
    PROVE  /\ thread[t].pc \in Quiet
           /\ UNCHANGED <<now, counts, periods, hist>>
           /\ \E r : Placed(t, r) /\ r.pc \in Quiet
<1>1. CASE Begin(t)
  <2>1. PICK b \in Bindings : thread' = [thread EXCEPT ![t] = [Idle EXCEPT !.pc = "token", !.binding = b]]
    BY <1>1 DEF Begin
  <2> DEFINE r == [Idle EXCEPT !.pc = "token", !.binding = b]
  <2>2. r \in Places /\ r.period = 0 /\ r.pc = "token"
    BY DEF Idle, Places, Fields, Pcs, Needing, Asking, AllBindings
  <2>3. now' = now /\ now \in Nat
    BY <1>1 DEF Begin, Shape
  <2>4. thread' = [thread EXCEPT ![t] = r]
    BY <2>1
  <2> HIDE DEF r
  <2>5. Placed(t, r)
    BY <2>2, <2>3, <2>4 DEF Placed
  <2>6. QED BY <1>1, <2>2, <2>5 DEF Begin, Quiet
<1>2. CASE RefreshToken(t)
  <2>1. now' = now /\ thread[t].pc = "token"
    BY <1>2 DEF RefreshToken
  <2>2. Goto(t, "fetch") \/ Goto(t, "request")
    BY <1>2 DEF RefreshToken
  <2>3. \E r : Placed(t, r) /\ r.pc \in Quiet
    BY <2>1, <2>2, GotoPlaces DEF Quiet, Pcs, Needing, Asking, Counting
  <2>4. QED BY <1>2, <2>1, <2>3 DEF RefreshToken, Quiet
<1>3. CASE SetAccessToken(t)
  <2>1. \E r : Placed(t, r) /\ r.pc \in Quiet
    BY <1>3, GotoPlaces DEF SetAccessToken, Quiet, Pcs, Needing, Asking, Counting
  <2>2. QED BY <1>3, <2>1 DEF SetAccessToken, Quiet
<1>4. CASE Run(t)
  <2>1. now' = now /\ thread[t].pc = "request" /\ UNCHANGED <<now, counts, periods, hist>>
    BY <1>4 DEF Run
  <2>2. CASE Return(t) \/ Fail(t)
    BY <2>1, <2>2, ReturnPlaces DEF Quiet
  <2>3. CASE ~(Return(t) \/ Fail(t))
    <3>1. PICK rounded \in {0, 1} :
             thread' = [thread EXCEPT ![t].pc = "loadLimit",
                 ![t].limit = [used |-> server.used + 1, remaining |-> Allowed - server.used - 1,
                               reset |-> 2 * Window(now) + 2 + rounded]]
      BY <1>4, <2>3 DEF Run
    <3> DEFINE reset == 2 * Window(now) + 2 + rounded
               limit == [used |-> server.used + 1, remaining |-> Allowed - server.used - 1, reset |-> reset]
               r == [thread[t] EXCEPT !.pc = "loadLimit", !.limit = limit]
    <3>2. server.used \in 0 .. Allowed /\ reset \in Int
      <4>1. now \in Nat /\ server.used \in 0 .. Allowed
        BY DEF Shape
      <4>2. QED BY <4>1 DEF Window
    <3>3. thread' = [thread EXCEPT ![t] = r]
      BY <3>1 DEF Shape
    <3> HIDE DEF reset
    <3>4. limit \in Limits
      BY <3>2, AnswerLimit
    <3> HIDE DEF limit
    <3>5. thread[t] \in Places /\ thread[t].period <= now
      BY DEF Shape
    <3>6. r \in Places /\ r.pc = "loadLimit" /\ r.period = thread[t].period
      BY <2>1, <3>4, <3>5 DEF Places, Fields, Pcs, Needing, Asking, Counting
    <3> HIDE DEF r
    <3>7. Placed(t, r)
      BY <2>1, <3>3, <3>5, <3>6 DEF Placed
    <3>8. QED BY <2>1, <3>6, <3>7 DEF Quiet
  <2>4. QED BY <2>2, <2>3
<1>5. CASE LoadLimit(t)
  <2>1. now' = now /\ thread[t].pc = "loadLimit" /\ UNCHANGED <<now, counts, periods, hist>>
    BY <1>5 DEF LoadLimit
  <2> DEFINE r == [thread[t] EXCEPT !.pc = "storeLimit", !.seen = limits[thread[t].binding]]
  <2>2. thread' = [thread EXCEPT ![t] = r]
    BY <1>5 DEF LoadLimit, Shape
  <2>3. thread[t] \in Places /\ thread[t].period <= now /\ thread[t].binding \in AllBindings
    BY <1>5 DEF Shape, LoadLimit, Places, Asking
  <2>4. limits[thread[t].binding] \in Limits \cup {None}
    BY <2>3 DEF Shape
  <2>5. r \in Places /\ r.pc = "storeLimit" /\ r.period = thread[t].period
    BY <2>1, <2>3, <2>4 DEF Places, Fields, Pcs, Needing, Asking, Counting
  <2> HIDE DEF r
  <2>6. Placed(t, r)
    BY <2>1, <2>2, <2>3, <2>5 DEF Placed
  <2>7. QED BY <2>1, <2>5, <2>6 DEF Quiet
<1>6. CASE StoreLimit(t)
  <2>1. now' = now /\ thread[t].pc = "storeLimit" /\ UNCHANGED <<now, counts, periods, hist>>
    BY <1>6 DEF StoreLimit
  <2> DEFINE outer == thread[t].outer
             r == [Idle EXCEPT !.pc = "loadOrStore", !.period = now, !.outer = outer]
  <2>2. thread' = [thread EXCEPT ![t] = r]
    BY <1>6 DEF StoreLimit
  <2>3. now \in Nat /\ outer \in Bindings \cup {None}
    BY DEF Shape, Places, Fields
  <2> HIDE DEF outer
  <2>4. r \in Places /\ r.pc = "loadOrStore" /\ r.period = now
    BY <2>3 DEF Places, Fields, Pcs, Idle, Needing, Asking
  <2> HIDE DEF r
  <2>5. Placed(t, r)
    BY <2>1, <2>2, <2>3, <2>4 DEF Placed
  <2>6. QED BY <2>1, <2>4, <2>5 DEF Quiet
<1>7. CASE FetchToken(t)
  <2> DEFINE b == thread[t].binding
             r == [Idle EXCEPT !.pc = "request", !.binding = AccessToken, !.outer = b]
  <2>1. now' = now /\ now \in Nat /\ thread[t].pc = "fetch" /\ UNCHANGED <<now, counts, periods, hist>>
    BY <1>7 DEF FetchToken, Shape
  <2>2. b \in Bindings
    BY <2>1 DEF Shape, Places, Needing
  <2>3. thread' = [thread EXCEPT ![t] = r]
    BY <1>7 DEF FetchToken
  <2> HIDE DEF b
  <2>4. r \in Places /\ r.period = 0 /\ r.pc = "request"
    BY <2>2 DEF Idle, Places, Fields, Pcs, Needing, Asking, AllBindings
  <2> HIDE DEF r
  <2>5. Placed(t, r)
    BY <2>1, <2>3, <2>4 DEF Placed
  <2>6. QED BY <2>1, <2>4, <2>5 DEF Quiet
<1>8. QED BY <1>1, <1>2, <1>3, <1>4, <1>5, <1>6, <1>7 DEF QuietStep

LEMMA PlacedThere ==
    ASSUME Shape, NEW t \in Threads, NEW r, Placed(t, r), now' = now
    PROVE  /\ thread' \in [Threads -> Places] /\ \A u \in Threads : thread'[u].period <= now'
           /\ thread'[t] = r /\ \A u \in Threads : u # t => thread'[u] = thread[u]
  BY DEF Placed, Shape

(* While a goroutine inserts there are periods, the oldest of which is not *)
(* of this day.                                                            *)
LEMMA Inserted ==
    ASSUME RedditAssumption, Shape
    PROVE  /\ IsFiniteSet(Inserting) /\ Cardinality(Inserting) \in Nat
           /\ IsFiniteSet(DOMAIN counts) /\ Cardinality(DOMAIN counts) \in Nat
<1>1. Inserting \in SUBSET Threads /\ IsFiniteSet(Threads)
  BY DEF Inserting, RedditAssumption
<1>2. IsFiniteSet(0 .. now) /\ DOMAIN counts \in SUBSET (0 .. now)
  <2>1. now \in Nat
    BY DEF Shape
  <2>2. 0 \in Int /\ now \in Int
    BY <2>1
  <2>3. IsFiniteSet(0 .. now)
    BY <2>2, FS_Interval
  <2>4. QED BY <2>3 DEF Shape
<1>3. QED BY <1>1, <1>2, FS_Subset, FS_CardinalityType

LEMMA OldestNotToday ==
    ASSUME RedditAssumption, Shape, Sized, NEW t \in Threads, thread[t].pc = "evict"
    PROVE  Oldest \in DOMAIN counts /\ Oldest \in 0 .. now /\ ~Today(Oldest)
<1>1. t \in Inserting
  BY DEF Sized, Sizing, Inserting, Inserts
<1>2. Cardinality(Inserting) # 0
  BY <1>1, Inserted, FS_EmptySet
<1>3. Cardinality(DOMAIN counts) >= PeriodCountMax + 1
  <2>1. Cardinality(Inserting) >= 1 /\ Cardinality(Inserting) \in Nat
    BY <1>2, Inserted
  <2>2. /\ Cardinality(DOMAIN counts) >= periods + Cardinality(Inserting)
        /\ periods >= PeriodCountMax /\ periods \in Nat
    BY DEF Sized, Shape
  <2>3. PeriodCountMax \in Nat /\ Cardinality(DOMAIN counts) \in Nat
    BY Inserted DEF RedditAssumption
  <2>4. QED BY <2>1, <2>2, <2>3
<1>4. PeriodCountMax \in Nat /\ PeriodsPerDay \in Nat /\ PeriodCountMax > PeriodsPerDay /\ PeriodsPerDay # 0
  BY DEF RedditAssumption
<1>5. DOMAIN counts # {} /\ DOMAIN counts \subseteq Nat
  <2>1. Cardinality(DOMAIN counts) # 0
    BY <1>3, <1>4, Inserted
  <2>2. DOMAIN counts # {}
    BY <2>1, FS_EmptySet
  <2>3. QED BY <2>2 DEF Shape
<1>6. Oldest \in DOMAIN counts /\ \A p \in DOMAIN counts : Oldest <= p
  BY <1>5, OldestIs
<1>7. ASSUME Today(Oldest) PROVE FALSE
  <2> DEFINE k == now \div PeriodsPerDay
  <2>1. now \in Nat /\ Oldest \in Nat
    BY <1>5, <1>6 DEF Shape
  <2>2. k \in Nat
    BY <1>4, <2>1, Division
  <2>3. Oldest \div PeriodsPerDay = k
    BY <1>7 DEF Today
  <2>4. ASSUME NEW p \in DOMAIN counts PROVE p \div PeriodsPerDay = k
    <3>1. p \in Nat /\ Oldest <= p /\ p <= now
      BY <1>5, <1>6 DEF Shape
    <3>2. Oldest \div PeriodsPerDay <= p \div PeriodsPerDay /\ p \div PeriodsPerDay <= now \div PeriodsPerDay
      BY <2>1, <3>1, DayLater
    <3>3. p \div PeriodsPerDay \in Nat
      BY <1>4, <3>1, Division
    <3> DEFINE d == p \div PeriodsPerDay
               o == Oldest \div PeriodsPerDay
    <3>4. d \in Nat /\ o = k /\ o <= d /\ d <= k
      BY <2>3, <3>2, <3>3
    <3> HIDE DEF d, o, k
    <3>5. d = k
      BY <2>2, <3>4
    <3>6. QED BY <3>5 DEF d
  <2> HIDE DEF k
  <2>5. Cardinality(DOMAIN counts) <= PeriodsPerDay
    BY <1>5, <2>2, <2>4, DaySize
  <2>6. QED
    BY <1>3, <1>4, <2>5, Inserted
<1>8. QED BY <1>6, <1>7 DEF Shape

LEMMA LoadOrStorePlaces ==
    ASSUME RedditAssumption, Shape, NEW t \in Threads, LoadOrStore(t)
    PROVE  \E r : /\ Placed(t, r) /\ r.pc = "count" /\ r.period = thread[t].period
                  /\ r.held = (thread[t].period \in DOMAIN counts) /\ ~r.orphan
<1> DEFINE b == thread[t].period \in DOMAIN counts
           r == [thread[t] EXCEPT !.pc = "count", !.held = b]
<1>1. thread[t] \in Places /\ thread[t].period <= now /\ now' = now
  BY DEF Shape, LoadOrStore
<1>2. thread' = [thread EXCEPT ![t] = r]
  BY DEF LoadOrStore, Shape
<1>3. b \in BOOLEAN
  OBVIOUS
<1>4. r.held = b /\ ~r.orphan
  <2>1. thread[t].pc = "loadOrStore"
    BY DEF LoadOrStore
  <2>2. ~thread[t].orphan
    BY <1>1, <2>1 DEF Places, Counting
  <2>3. r.held = b /\ r.orphan = thread[t].orphan
    BY <1>1 DEF Places, Fields
  <2>4. QED BY <2>2, <2>3
<1> HIDE DEF b
<1>5. r \in Places /\ r.pc = "count" /\ r.period = thread[t].period
  <2>1. thread[t] \in Fields
    BY <1>1 DEF Places
  <2>2. r \in Fields /\ r.pc = "count" /\ r.period = thread[t].period
    BY <1>3, <2>1 DEF Fields, Pcs
  <2> HIDE DEF r
  <2>3. QED BY <2>2 DEF Places, Needing, Asking, Counting
<1> HIDE DEF r
<1>6. Placed(t, r)
  BY <1>1, <1>2, <1>5 DEF Placed
<1>7. QED BY <1>4, <1>5, <1>6 DEF b

LEMMA FindOldestPlaces ==
    ASSUME RedditAssumption, Shape, Sized, NEW t \in Threads, FindOldest(t)
    PROVE  \E r : /\ Placed(t, r) /\ r.pc = "delete" /\ r.period = Oldest
                  /\ r.held = thread[t].held
<1> DEFINE r == [thread[t] EXCEPT !.pc = "delete", !.period = Oldest]
<1>1. thread[t] \in Places /\ thread[t].period <= now /\ now' = now
  BY DEF Shape, FindOldest
<1>2. thread' = [thread EXCEPT ![t] = r]
  BY DEF FindOldest, Shape
<1>3. Oldest \in Nat /\ Oldest <= now
  <2>1. now \in Nat
    BY DEF Shape
  <2>2. QED BY <2>1, OldestNotToday DEF FindOldest
<1> DEFINE p == Oldest
           q == [thread[t] EXCEPT !.pc = "delete", !.period = p]
<1>4. p \in Nat /\ r = q
  BY <1>3
<1> HIDE DEF p, r
<1>5. r \in Places /\ r.pc = "delete" /\ r.period = p /\ r.held = thread[t].held
  BY <1>1, <1>4 DEF Places, Fields, Pcs, Needing, Asking, Counting
<1> HIDE DEF r
<1>6. Placed(t, r)
  BY <1>1, <1>2, <1>3, <1>5 DEF Placed, p
<1>7. QED BY <1>5, <1>6 DEF p

(* The other steps: where the goroutine goes.                              *)
LEMMA CountPlaces ==
    ASSUME Shape, NEW t \in Threads, Count(t)
    PROVE  \E r : /\ Placed(t, r) /\ ~r.held
                  /\ IF thread[t].held THEN r.pc \in {"idle", "fetched"} ELSE r.pc = "full"
<1>1. now' = now /\ thread[t].pc = "count"
  BY DEF Count
<1>2. CASE thread[t].held
  BY <1>1, <1>2, ReturnPlaces DEF Count
<1>3. CASE ~thread[t].held
  BY <1>1, <1>3, GotoPlaces DEF Count, Pcs, Needing, Asking, Counting
<1>4. QED BY <1>2, <1>3

LEMMA LoadPeriodsPlaces ==
    ASSUME Shape, NEW t \in Threads, LoadPeriods(t)
    PROVE  \E r : /\ Placed(t, r) /\ r.held = thread[t].held
                  /\ r.pc = IF Full THEN "evict" ELSE "grow"
<1>1. now' = now
  BY DEF LoadPeriods
<1>2. CASE Full
  BY <1>1, <1>2, GotoPlaces DEF LoadPeriods, Pcs, Needing, Asking, Counting
<1>3. CASE ~Full
  BY <1>1, <1>3, GotoPlaces DEF LoadPeriods, Pcs, Needing, Asking, Counting
<1>4. QED BY <1>2, <1>3

(* Deleting a counter makes an orphan of it, for who is about to count.    *)
LEMMA EvictPlaces ==
    ASSUME Shape, NEW t \in Threads, Evict(t)
    PROVE  /\ thread' \in [Threads -> Places] /\ \A u \in Threads : thread'[u].period <= now'
           /\ thread'[t].pc \in {"idle", "fetched"} /\ ~thread'[t].held
           /\ Others(t)
<1> DEFINE o(u) == thread[u].orphan \/ Counts(u, thread[t].period)
           other(u) == [thread[u] EXCEPT !.orphan = o(u)]
<1>1. /\ thread[t].pc = "delete" /\ now' = now
      /\ thread' = [u \in Threads |->
            IF u = t THEN Returned(t)
            ELSE [thread[u] EXCEPT !.orphan = @ \/ Counts(u, thread[t].period)]]
  BY DEF Evict
<1>2. ASSUME NEW u \in Threads PROVE thread[u] \in Places /\ thread[u].period <= now
  BY DEF Shape
<1>3. ASSUME NEW u \in Threads, u # t PROVE thread'[u] = other(u)
  <2>1. thread'[u] = [thread[u] EXCEPT !.orphan = @ \/ Counts(u, thread[t].period)]
    BY <1>1, <1>3
  <2>2. QED BY <1>2, <2>1 DEF Places, Fields
<1>4. ASSUME NEW u \in Threads
      PROVE  /\ other(u) \in Places /\ other(u).pc = thread[u].pc /\ other(u).period = thread[u].period
             /\ other(u).held = thread[u].held
             /\ other(u).orphan => thread[u].orphan \/ thread[u].period = thread[t].period
  <2>1. thread[u] \in Places
    BY <1>2
  <2>2. o(u) \in BOOLEAN
    OBVIOUS
  <2>3. o(u) => thread[u].pc \in Counting
    BY <2>1 DEF Places, Counts, Counting
  <2>4. o(u) => thread[u].orphan \/ thread[u].period = thread[t].period
    BY DEF Counts
  <2>5. other(u).orphan = o(u)
    BY <2>1 DEF Places, Fields
  <2> HIDE DEF o
  <2>6. QED BY <2>1, <2>2, <2>3, <2>4, <2>5 DEF Places, Fields
<1>5. thread'[t] = Returned(t)
  BY <1>1
<1> HIDE DEF other
<1>6. ASSUME NEW u \in Threads PROVE thread'[u] \in Places /\ thread'[u].period <= now'
  <2>1. CASE u = t
    BY <1>1, <1>5, <2>1, ReturnedPlace
  <2>2. CASE u # t
    BY <1>1, <1>2, <1>3, <1>4, <2>2
  <2>3. QED BY <2>1, <2>2
<1>7. thread' \in [Threads -> Places]
  BY <1>1, <1>6
<1>8. Others(t)
  BY <1>1, <1>3, <1>4 DEF Others
<1>9. QED BY <1>5, <1>6, <1>7, <1>8, ReturnedPlace

-----------------------------------------------------------------------------
(* Shape.                                                                  *)

LEMMA InitShape ==
    ASSUME RedditAssumption, Init PROVE Shape
<1>1. now = 0 /\ MaxPeriod \in Nat /\ Allowed \in Nat
  BY DEF Init, RedditAssumption
<1>2. Idle \in Places /\ Idle.period = 0
  BY DEF Idle, Places, Fields, Pcs, Needing, Asking
<1>3. thread \in [Threads -> Places] /\ \A t \in Threads : thread[t].period <= now
  BY <1>1, <1>2 DEF Init
<1>4. server \in [used : 0 .. Allowed, requests : Nat, faults : Nat]
  BY <1>1 DEF Init
<1>5. hist \in [counted : [0 .. MaxPeriod -> Nat], raced : BOOLEAN]
  BY DEF Init
<1>6. DOMAIN counts \subseteq 0 .. now /\ counts \in [DOMAIN counts -> Nat]
  BY DEF Init
<1>7. limits \in [AllBindings -> Limits \cup {None}]
  BY DEF Init, AllBindings
<1>8. QED BY <1>1, <1>3, <1>4, <1>5, <1>6, <1>7 DEF Init, Shape

LEMMA ServerCounts ==
    ASSUME NEW s \in [used : 0 .. Allowed, requests : Nat, faults : Nat], NEW n \in 0 .. Allowed
    PROVE  /\ [s EXCEPT !.used = n] \in [used : 0 .. Allowed, requests : Nat, faults : Nat]
           /\ [s EXCEPT !.requests = s.requests + 1] \in [used : 0 .. Allowed, requests : Nat, faults : Nat]
           /\ [s EXCEPT !.faults = s.faults + 1] \in [used : 0 .. Allowed, requests : Nat, faults : Nat]
  OBVIOUS

(* The token, the limits and what Reddit knows, which only these steps     *)
(* change.                                                                 *)
LEMMA QuietShape ==
    ASSUME RedditAssumption, Shape, NEW t \in Threads, QuietStep(t)
    PROVE  /\ token' = None \/ token' \in Nat
           /\ limits' \in [AllBindings -> Limits \cup {None}]
           /\ server' \in [used : 0 .. Allowed, requests : Nat, faults : Nat]
<1>0. Allowed \in Nat /\ TokenPeriods \in Nat
  BY DEF RedditAssumption
<1>S. server \in [used : 0 .. Allowed, requests : Nat, faults : Nat] /\ server.used \in 0 .. Allowed
  BY DEF Shape
<1>1. CASE Begin(t)
  <2>1. server' = [server EXCEPT !.requests = server.requests + 1] /\ UNCHANGED <<token, limits>>
    BY <1>1 DEF Begin
  <2>2. server' \in [used : 0 .. Allowed, requests : Nat, faults : Nat]
    BY <1>S, <2>1, ServerCounts, Zenon
  <2>3. QED BY <2>1, <2>2 DEF Shape
<1>2. CASE RefreshToken(t)
  <2>1. UNCHANGED <<token, limits>>
    BY <1>2 DEF RefreshToken
  <2>2. server' = server
    BY <1>2 DEF RefreshToken
  <2>3. QED BY <2>1, <2>2 DEF Shape
<1>3. CASE SetAccessToken(t)
  <2>1. now \in Nat
    BY DEF Shape
  <2>2. QED BY <1>0, <1>3, <2>1 DEF SetAccessToken, Shape
<1>4. CASE Run(t)
  <2>1. UNCHANGED <<token, limits>>
    BY <1>4 DEF Run
  <2>2. \/ server.used < Allowed /\ server' = [server EXCEPT !.used = server.used + 1]
        \/ server' = server \/ server' = [server EXCEPT !.faults = server.faults + 1]
    BY <1>4 DEF Run, Fault
  <2>5. server.used < Allowed => server.used + 1 \in 0 .. Allowed
    BY <1>0, <1>S
  <2>3. server' \in [used : 0 .. Allowed, requests : Nat, faults : Nat]
    BY <1>S, <2>2, <2>5, ServerCounts, Zenon
  <2>4. QED BY <2>1, <2>3 DEF Shape
<1>5. CASE LoadLimit(t)
  BY <1>5 DEF LoadLimit, Shape
<1>6. CASE StoreLimit(t)
  <2>1. UNCHANGED <<token, server>>
    BY <1>6 DEF StoreLimit
  <2>2. thread[t].limit \in Limits \cup {None}
    BY DEF Shape, Places, Fields
  <2>3. limits' = limits \/ limits' = [limits EXCEPT ![thread[t].binding] = thread[t].limit]
    BY <1>6 DEF StoreLimit
  <2>4. limits' \in [AllBindings -> Limits \cup {None}]
    BY <2>2, <2>3 DEF Shape
  <2>5. QED BY <2>1, <2>4 DEF Shape
<1>7. CASE FetchToken(t)
  BY <1>7 DEF FetchToken, Shape
<1>8. QED BY <1>1, <1>2, <1>3, <1>4, <1>5, <1>6, <1>7 DEF QuietStep

(* What Count and LoadPeriods do to the observations keeps their types.    *)
LEMMA HistShape ==
    ASSUME NEW h \in [counted : [0 .. MaxPeriod -> Nat], raced : BOOLEAN],
           NEW p \in 0 .. MaxPeriod, NEW b \in BOOLEAN
    PROVE  /\ [h EXCEPT !.counted[p] = @ + 1] \in [counted : [0 .. MaxPeriod -> Nat], raced : BOOLEAN]
           /\ [h EXCEPT !.raced = b] \in [counted : [0 .. MaxPeriod -> Nat], raced : BOOLEAN]
<1> DEFINE counted == h.counted
           raced == h.raced
           n == counted[p] + 1
           more == [counted EXCEPT ![p] = n]
<1>1. /\ counted \in [0 .. MaxPeriod -> Nat] /\ raced \in BOOLEAN
      /\ h = [counted |-> counted, raced |-> raced]
  OBVIOUS
<1>2. n \in Nat
  <2> HIDE DEF counted
  <2>1. counted[p] \in Nat
    BY <1>1
  <2>2. QED BY <2>1
<1>3. [h EXCEPT !.counted[p] = @ + 1] = [counted |-> more, raced |-> raced]
  BY <1>1
<1>4. [h EXCEPT !.raced = b] = [counted |-> counted, raced |-> b]
  BY <1>1
<1> HIDE DEF counted, raced, n
<1>5. more \in [0 .. MaxPeriod -> Nat]
  BY <1>1, <1>2
<1> HIDE DEF more
<1>6. [counted |-> more, raced |-> raced] \in [counted : [0 .. MaxPeriod -> Nat], raced : BOOLEAN]
  BY <1>1, <1>5, Zenon
<1>7. [counted |-> counted, raced |-> b] \in [counted : [0 .. MaxPeriod -> Nat], raced : BOOLEAN]
  BY <1>1, Zenon
<1>8. QED BY <1>3, <1>4, <1>6, <1>7, Zenon

LEMMA ShapeKept ==
    ASSUME RedditAssumption, Shape, Sized, [Next]_vars PROVE Shape'
<1>1. ASSUME NEW t \in Threads, QuietStep(t) PROVE Shape'
  <2>1. UNCHANGED <<now, counts, periods, hist>>
    BY <1>1, QuietPlaces
  <2>2. PICK r : Placed(t, r)
    BY <1>1, QuietPlaces
  <2>3. thread' \in [Threads -> Places] /\ \A u \in Threads : thread'[u].period <= now'
    BY <2>1, <2>2, PlacedThere
  <2>4. QED BY <1>1, <2>1, <2>3, QuietShape DEF Shape
<1>2. ASSUME NEW t \in Threads, LoadOrStore(t) PROVE Shape'
  <2>1. UNCHANGED <<now, token, limits, periods, server, hist>>
    BY <1>2 DEF LoadOrStore
  <2>2. PICK r : Placed(t, r)
    BY <1>2, LoadOrStorePlaces
  <2>3. thread' \in [Threads -> Places] /\ \A u \in Threads : thread'[u].period <= now'
    BY <2>1, <2>2, PlacedThere
  <2>4. thread[t].period \in 0 .. now
    BY DEF Shape, Places, Fields
  <2>5. DOMAIN counts' \subseteq 0 .. now /\ counts' \in [DOMAIN counts' -> Nat]
    BY <1>2, <2>4 DEF LoadOrStore, Shape
  <2>6. QED BY <2>1, <2>3, <2>5 DEF Shape
<1>3. ASSUME NEW t \in Threads, Count(t) PROVE Shape'
  <2>1. UNCHANGED <<now, token, limits, periods, server>>
    BY <1>3 DEF Count
  <2>2. PICK r : Placed(t, r)
    BY <1>3, CountPlaces
  <2>3. thread' \in [Threads -> Places] /\ \A u \in Threads : thread'[u].period <= now'
    BY <2>1, <2>2, PlacedThere
  <2>4. DOMAIN counts' \subseteq 0 .. now /\ counts' \in [DOMAIN counts' -> Nat]
    <3> DEFINE p == thread[t].period
    <3>1. counts' = counts \/ counts' = [counts EXCEPT ![p] = counts[p] + 1]
      BY <1>3 DEF Count
    <3>3. DOMAIN counts \subseteq 0 .. now /\ counts \in [DOMAIN counts -> Nat]
      BY DEF Shape
    <3>2. p \in DOMAIN counts => counts[p] + 1 \in Nat
      BY <3>3
    <3> HIDE DEF p
    <3>4. QED BY <3>1, <3>2, <3>3
  <2>5. hist' \in [counted : [0 .. MaxPeriod -> Nat], raced : BOOLEAN]
    <3>1. hist' = [hist EXCEPT !.counted[thread[t].period] = @ + 1]
      BY <1>3 DEF Count
    <3>2. /\ hist \in [counted : [0 .. MaxPeriod -> Nat], raced : BOOLEAN]
          /\ thread[t].period \in Nat /\ thread[t].period <= now /\ now \in 0 .. MaxPeriod
      BY DEF Shape, Places, Fields
    <3>3. thread[t].period \in 0 .. MaxPeriod
      BY <3>2, RedditAssumption DEF RedditAssumption
    <3>4. QED BY <3>1, <3>2, <3>3, HistShape, Zenon
  <2>6. QED BY <2>1, <2>3, <2>4, <2>5 DEF Shape
<1>4. ASSUME NEW t \in Threads, LoadPeriods(t) PROVE Shape'
  <2>1. UNCHANGED <<now, token, limits, counts, periods, server>>
    BY <1>4 DEF LoadPeriods
  <2>2. PICK r : Placed(t, r)
    BY <1>4, LoadPeriodsPlaces
  <2>3. thread' \in [Threads -> Places] /\ \A u \in Threads : thread'[u].period <= now'
    BY <2>1, <2>2, PlacedThere
  <2>4. hist' \in [counted : [0 .. MaxPeriod -> Nat], raced : BOOLEAN]
    <3>1. PICK b \in BOOLEAN : hist' = [hist EXCEPT !.raced = b]
      <4>1. PICK b : b \in BOOLEAN /\ hist' = [hist EXCEPT !.raced = b]
        <5> DEFINE b == hist.raced \/ \E u \in Threads \ {t} : thread[u].pc \in {"full", "evict", "delete", "grow"}
        <5>1. hist' = [hist EXCEPT !.raced = b]
          BY <1>4 DEF LoadPeriods
        <5>2. b \in BOOLEAN
          OBVIOUS
        <5>3. QED BY <5>1, <5>2
      <4>2. QED BY <4>1
    <3>2. /\ hist \in [counted : [0 .. MaxPeriod -> Nat], raced : BOOLEAN] /\ 0 \in 0 .. MaxPeriod
      BY RedditAssumption DEF Shape, RedditAssumption
    <3>3. QED BY <3>1, <3>2, HistShape, Zenon
  <2>5. QED BY <2>1, <2>3, <2>4 DEF Shape
<1>5. ASSUME NEW t \in Threads, Grow(t) PROVE Shape'
  <2>1. UNCHANGED <<now, token, limits, counts, server, hist>> /\ periods' = periods + 1
    BY <1>5 DEF Grow
  <2>2. PICK r : Placed(t, r)
    BY <1>5, <2>1, ReturnPlaces DEF Grow
  <2>3. thread' \in [Threads -> Places] /\ \A u \in Threads : thread'[u].period <= now'
    BY <2>1, <2>2, PlacedThere
  <2>4. periods' \in Nat
    BY <2>1 DEF Shape
  <2>5. QED BY <2>1, <2>3, <2>4, Zenon DEF Shape
<1>6. ASSUME NEW t \in Threads, FindOldest(t) PROVE Shape'
  <2>1. UNCHANGED <<now, token, limits, counts, periods, server, hist>>
    BY <1>6 DEF FindOldest
  <2>2. PICK r : Placed(t, r)
    BY <1>6, FindOldestPlaces
  <2>3. thread' \in [Threads -> Places] /\ \A u \in Threads : thread'[u].period <= now'
    BY <2>1, <2>2, PlacedThere
  <2>4. QED BY <2>1, <2>3 DEF Shape
<1>7. ASSUME NEW t \in Threads, Evict(t) PROVE Shape'
  <2>1. UNCHANGED <<now, token, limits, periods, server, hist>>
    BY <1>7 DEF Evict
  <2>3. thread' \in [Threads -> Places] /\ \A u \in Threads : thread'[u].period <= now'
    BY <1>7, EvictPlaces
  <2>4. DOMAIN counts' \subseteq 0 .. now /\ counts' \in [DOMAIN counts' -> Nat]
    BY <1>7 DEF Evict, RestrictDomain, Restrict, Shape
  <2>5. QED BY <2>1, <2>3, <2>4 DEF Shape
<1>8. CASE Tick
  <2>1. UNCHANGED <<token, limits, counts, periods, thread, hist>> /\ now' = now + 1 /\ now < MaxPeriod
        /\ MaxPeriod \in Nat /\ Allowed \in Nat
    BY <1>8 DEF Tick, RedditAssumption
  <2>2. now \in Nat /\ now' \in 0 .. MaxPeriod /\ now <= now'
    BY <2>1, Basics
  <2>3. \A u \in Threads : thread[u].period \in Nat /\ thread[u].period <= now
    BY Basics
  <2>4. \A u \in Threads : thread'[u].period <= now'
    BY <2>1, <2>2, <2>3
  <2>5. PICK n \in 0 .. Allowed : server' = [server EXCEPT !.used = n]
    <3> DEFINE n == IF Window(now') # Window(now) THEN 0 ELSE server.used
    <3>1. server' = [server EXCEPT !.used = n]
      BY <1>8 DEF Tick
    <3>2. server.used \in 0 .. Allowed
      BY Basics
    <3>3. n \in 0 .. Allowed
      BY <2>1, <3>2
    <3> HIDE DEF n
    <3>4. QED BY <3>1, <3>3
  <2>6. server' \in [used : 0 .. Allowed, requests : Nat, faults : Nat]
    <3>1. server \in [used : 0 .. Allowed, requests : Nat, faults : Nat]
      BY Basics
    <3>2. QED BY <2>5, <3>1, ServerCounts
  <2>7. DOMAIN counts \subseteq 0 .. now'
    BY <2>2, Basics
  <2>8. QED BY <2>1, <2>2, <2>4, <2>6, <2>7 DEF Shape
<1>9. CASE UNCHANGED vars
  BY <1>9 DEF vars, Shape
<1>10. QED
  BY <1>1, <1>2, <1>3, <1>4, <1>5, <1>6, <1>7, <1>8, <1>9 DEF Next, QuietStep

-----------------------------------------------------------------------------
(* How many insert.                                                        *)

Inserting2(r) == r.pc \in {"count", "full", "grow", "evict", "delete"} /\ ~r.held

LEMMA StillInserting ==
    ASSUME Shape, NEW t \in Threads, NEW r, thread'[t] = r, Others(t), Inserting2(r) <=> Inserts(t)
    PROVE  Inserting' = Inserting
<1>1. \A u \in Threads : Inserts(u)' <=> Inserts(u)
  BY DEF Inserts, Inserting2, Others
<1>2. QED BY <1>1 DEF Inserting

LEMMA OneMoreInserting ==
    ASSUME RedditAssumption, Shape, NEW t \in Threads, NEW r, thread'[t] = r, Others(t),
           Inserting2(r), ~Inserts(t)
    PROVE  Cardinality(Inserting') = Cardinality(Inserting) + 1
<1>2. \A u \in Threads : Inserts(u)' <=> (Inserts(u) \/ u = t)
  BY DEF Inserts, Inserting2, Others
<1>3. Inserting' = Inserting \cup {t} /\ t \notin Inserting
  BY <1>2 DEF Inserting
<1>4. QED BY <1>3, Inserted, FS_AddElement

LEMMA OneLessInserting ==
    ASSUME RedditAssumption, Shape, NEW t \in Threads, NEW r, thread'[t] = r, Others(t),
           ~Inserting2(r), Inserts(t)
    PROVE  Cardinality(Inserting') = Cardinality(Inserting) - 1
<1>2. \A u \in Threads : Inserts(u)' <=> (Inserts(u) /\ u # t)
  BY DEF Inserts, Inserting2, Others
<1>3. Inserting' = Inserting \ {t} /\ t \in Inserting
  BY <1>2 DEF Inserting
<1>4. QED BY <1>3, Inserted, FS_RemoveElement

(* What each step does to the counters and to the number that inserts.     *)

LEMMA QuietMoves ==
    ASSUME RedditAssumption, Shape, NEW t \in Threads, QuietStep(t)
    PROVE  /\ UNCHANGED <<now, counts, periods, hist>> /\ Inserting' = Inserting /\ Others(t)
           /\ thread[t].pc \in Quiet /\ thread'[t].pc \in Quiet
<1>1. thread[t].pc \in Quiet /\ UNCHANGED <<now, counts, periods, hist>>
  BY QuietPlaces
<1>2. PICK r : Placed(t, r) /\ r.pc \in Quiet
  BY QuietPlaces
<1>3. thread'[t] = r /\ Others(t)
  BY <1>1, <1>2, PlacedThere DEF Others
<1>4. Inserting2(r) <=> Inserts(t)
  BY <1>1, <1>2 DEF Inserting2, Inserts, Quiet
<1>5. QED BY <1>1, <1>2, <1>3, <1>4, StillInserting

LEMMA LoadOrStoreMoves ==
    ASSUME RedditAssumption, Shape, NEW t \in Threads, LoadOrStore(t)
    PROVE  /\ UNCHANGED <<now, periods, hist>> /\ Others(t)
           /\ thread'[t].pc = "count" /\ thread'[t].period = thread[t].period /\ ~thread'[t].orphan
           /\ thread[t].period \in 0 .. now
           /\ IF thread[t].period \in DOMAIN counts
              THEN counts' = counts /\ Inserting' = Inserting
              ELSE /\ DOMAIN counts' = DOMAIN counts \cup {thread[t].period}
                   /\ counts'[thread[t].period] = 0
                   /\ \A p \in DOMAIN counts : counts'[p] = counts[p]
                   /\ Cardinality(DOMAIN counts') = Cardinality(DOMAIN counts) + 1
                   /\ Cardinality(Inserting') = Cardinality(Inserting) + 1
<1>1. UNCHANGED <<now, periods, hist>> /\ thread[t].pc = "loadOrStore"
  BY DEF LoadOrStore
<1>2. PICK r : /\ Placed(t, r) /\ r.pc = "count" /\ r.period = thread[t].period
               /\ r.held = (thread[t].period \in DOMAIN counts) /\ ~r.orphan
  BY LoadOrStorePlaces
<1>3. thread'[t] = r /\ Others(t)
  BY <1>1, <1>2, PlacedThere DEF Others
<1>4. thread[t].period \in 0 .. now
  BY DEF Shape, Places, Fields
<1>5. ~Inserts(t)
  BY <1>1 DEF Inserts
<1>6. CASE thread[t].period \in DOMAIN counts
  <2>1. ~Inserting2(r)
    BY <1>2, <1>6 DEF Inserting2
  <2>2. counts' = counts
    BY <1>6 DEF LoadOrStore
  <2>3. Inserting' = Inserting
    BY <1>3, <1>5, <2>1, StillInserting
  <2>4. QED BY <1>1, <1>2, <1>3, <1>4, <1>6, <2>2, <2>3
<1>7. CASE thread[t].period \notin DOMAIN counts
  <2>1. Inserting2(r)
    BY <1>2, <1>7 DEF Inserting2
  <2>2. Cardinality(Inserting') = Cardinality(Inserting) + 1
    BY <1>3, <1>5, <2>1, OneMoreInserting
  <2>3. /\ DOMAIN counts' = DOMAIN counts \cup {thread[t].period}
        /\ counts'[thread[t].period] = 0
        /\ \A p \in DOMAIN counts : counts'[p] = counts[p]
    <3> DEFINE p == thread[t].period
    <3>1. counts' = [q \in DOMAIN counts \cup {p} |-> IF q = p THEN 0 ELSE counts[q]] /\ p \notin DOMAIN counts
      BY <1>7 DEF LoadOrStore
    <3> HIDE DEF p
    <3>2. DOMAIN counts' = DOMAIN counts \cup {p}
      BY <3>1
    <3>4. counts'[p] = 0 /\ \A q \in DOMAIN counts : counts'[q] = counts[q]
      BY <3>1
    <3>3. QED BY <3>2, <3>4 DEF p
  <2>4. Cardinality(DOMAIN counts') = Cardinality(DOMAIN counts) + 1
    <3> DEFINE D == DOMAIN counts
               E == DOMAIN counts'
               p == thread[t].period
    <3>1. IsFiniteSet(D) /\ p \notin D /\ E = D \cup {p}
      BY <1>7, <2>3, Inserted
    <3> HIDE DEF D, E, p
    <3>2. Cardinality(D \cup {p}) = Cardinality(D) + 1
      BY <3>1, FS_AddElement
    <3>3. Cardinality(E) = Cardinality(D) + 1
      BY <3>1, <3>2
    <3>4. QED BY <3>3 DEF D, E
  <2>5. QED BY <1>1, <1>2, <1>3, <1>4, <1>7, <2>2, <2>3, <2>4
<1>8. QED BY <1>6, <1>7

LEMMA CountMoves ==
    ASSUME RedditAssumption, Shape, NEW t \in Threads, Count(t)
    PROVE  /\ UNCHANGED <<now, periods>> /\ Inserting' = Inserting /\ Others(t)
           /\ thread[t].pc = "count" /\ thread'[t].pc \in {"idle", "fetched", "full"} /\ ~thread'[t].held
           /\ DOMAIN counts' = DOMAIN counts /\ hist'.raced = hist.raced
<1>1. UNCHANGED <<now, periods>> /\ thread[t].pc = "count" /\ DOMAIN counts' = DOMAIN counts
  BY DEF Count
<1>2. PICK r : Placed(t, r) /\ ~r.held /\ IF thread[t].held THEN r.pc \in {"idle", "fetched"} ELSE r.pc = "full"
  BY CountPlaces
<1>3. thread'[t] = r /\ Others(t)
  BY <1>1, <1>2, PlacedThere DEF Others
<1>4. Inserting2(r) <=> Inserts(t)
  BY <1>1, <1>2 DEF Inserting2, Inserts
<1>5. hist'.raced = hist.raced
  BY DEF Count, Shape
<1>6. QED BY <1>1, <1>2, <1>3, <1>4, <1>5, StillInserting

LEMMA LoadPeriodsMoves ==
    ASSUME RedditAssumption, Shape, NEW t \in Threads, LoadPeriods(t)
    PROVE  /\ UNCHANGED <<now, counts, periods>> /\ Inserting' = Inserting /\ Others(t)
           /\ thread[t].pc = "full" /\ thread'[t].pc = IF Full THEN "evict" ELSE "grow"
           /\ thread'[t].held = thread[t].held
           /\ hist'.counted = hist.counted
           /\ ~hist'.raced => ~hist.raced /\ \A u \in Threads : u # t =>
                thread[u].pc \notin {"full", "evict", "delete", "grow"}
<1>1. UNCHANGED <<now, counts, periods>> /\ thread[t].pc = "full"
  BY DEF LoadPeriods
<1>2. PICK r : Placed(t, r) /\ r.held = thread[t].held /\ r.pc = IF Full THEN "evict" ELSE "grow"
  BY LoadPeriodsPlaces
<1>3. thread'[t] = r /\ Others(t)
  BY <1>1, <1>2, PlacedThere DEF Others
<1>4. Inserting2(r) <=> Inserts(t)
  BY <1>1, <1>2 DEF Inserting2, Inserts
<1>5. hist'.counted = hist.counted
      /\ (~hist'.raced => ~hist.raced /\ \A u \in Threads : u # t =>
            thread[u].pc \notin {"full", "evict", "delete", "grow"})
  BY DEF LoadPeriods, Shape
<1>6. QED BY <1>1, <1>2, <1>3, <1>4, <1>5, StillInserting

LEMMA GrowMoves ==
    ASSUME RedditAssumption, Shape, Sized, NEW t \in Threads, Grow(t)
    PROVE  /\ UNCHANGED <<now, counts, hist>> /\ periods' = periods + 1 /\ Others(t)
           /\ thread[t].pc = "grow" /\ thread'[t].pc \in {"idle", "fetched"}
           /\ Cardinality(Inserting') = Cardinality(Inserting) - 1
<1>1. UNCHANGED <<now, counts, hist>> /\ periods' = periods + 1 /\ thread[t].pc = "grow"
  BY DEF Grow
<1>2. PICK r : Placed(t, r) /\ r.pc \in {"idle", "fetched"}
  BY <1>1, ReturnPlaces DEF Grow
<1>3. thread'[t] = r /\ Others(t)
  BY <1>1, <1>2, PlacedThere DEF Others
<1>4. ~Inserting2(r) /\ Inserts(t)
  BY <1>1, <1>2 DEF Inserting2, Inserts, Sized, Sizing
<1>5. Cardinality(Inserting') = Cardinality(Inserting) - 1
  BY <1>3, <1>4, OneLessInserting
<1>6. QED BY <1>1, <1>2, <1>3, <1>5

LEMMA FindOldestMoves ==
    ASSUME RedditAssumption, Shape, Sized, NEW t \in Threads, FindOldest(t)
    PROVE  /\ UNCHANGED <<now, counts, periods, hist>> /\ Inserting' = Inserting /\ Others(t)
           /\ thread[t].pc = "evict" /\ thread'[t].pc = "delete"
           /\ thread'[t].held = thread[t].held
           /\ thread'[t].period = Oldest /\ Oldest \in DOMAIN counts /\ ~Today(Oldest)
<1>1. UNCHANGED <<now, counts, periods, hist>> /\ thread[t].pc = "evict"
  BY DEF FindOldest
<1>2. PICK r : Placed(t, r) /\ r.pc = "delete" /\ r.period = Oldest /\ r.held = thread[t].held
  BY FindOldestPlaces
<1>3. thread'[t] = r /\ Others(t)
  BY <1>1, <1>2, PlacedThere DEF Others
<1>4. Inserting2(r) <=> Inserts(t)
  BY <1>1, <1>2 DEF Inserting2, Inserts
<1>5. Inserting' = Inserting
  BY <1>3, <1>4, StillInserting
<1>6. Oldest \in DOMAIN counts /\ ~Today(Oldest)
  BY <1>1, OldestNotToday
<1>7. QED BY <1>1, <1>2, <1>3, <1>5, <1>6

LEMMA EvictMoves ==
    ASSUME RedditAssumption, Shape, Sized, NEW t \in Threads, Evict(t)
    PROVE  /\ UNCHANGED <<now, periods, hist>> /\ Others(t)
           /\ thread[t].pc = "delete" /\ thread'[t].pc \in {"idle", "fetched"}
           /\ Cardinality(Inserting') = Cardinality(Inserting) - 1
           /\ DOMAIN counts' = DOMAIN counts \ {thread[t].period}
           /\ \A p \in DOMAIN counts' : counts'[p] = counts[p]
           /\ Cardinality(DOMAIN counts') =
                IF thread[t].period \in DOMAIN counts THEN Cardinality(DOMAIN counts) - 1
                ELSE Cardinality(DOMAIN counts)
<1>1. UNCHANGED <<now, periods, hist>> /\ thread[t].pc = "delete"
  BY DEF Evict
<1> DEFINE r == thread'[t]
<1>2. r.pc \in {"idle", "fetched"}
  BY EvictPlaces
<1>3. thread'[t] = r /\ Others(t)
  BY EvictPlaces
<1>4. ~Inserting2(r) /\ Inserts(t)
  BY <1>1, <1>2 DEF Inserting2, Inserts, Sized, Sizing
<1>5. Cardinality(Inserting') = Cardinality(Inserting) - 1
  BY <1>3, <1>4, OneLessInserting
<1>6. DOMAIN counts' = DOMAIN counts \ {thread[t].period} /\ \A p \in DOMAIN counts' : counts'[p] = counts[p]
  BY DEF Evict, RestrictDomain, Restrict
<1>7. thread[t].period \in DOMAIN counts => Cardinality(DOMAIN counts') = Cardinality(DOMAIN counts) - 1
  BY <1>6, Inserted, FS_RemoveElement
<1>8. thread[t].period \notin DOMAIN counts => DOMAIN counts' = DOMAIN counts
  BY <1>6
<1>9. QED BY <1>1, <1>2, <1>3, <1>5, <1>6, <1>7, <1>8

(* The day goes on: what is not of this day is not of a later one.         *)
LEMMA NotLater ==
    ASSUME RedditAssumption, Shape, Tick, NEW p \in 0 .. now, ~Today(p)
    PROVE  ~Today(p)'
<1>1. p \in Nat /\ now \in Nat /\ now' \in Nat /\ p <= now /\ now <= now'
  <2>1. now \in Nat /\ now' = now + 1
    BY DEF Shape, Tick
  <2>2. QED BY <2>1
<1>2. PeriodsPerDay \in Nat /\ PeriodsPerDay # 0
  BY DEF RedditAssumption
<1> DEFINE d(q) == q \div PeriodsPerDay
<1>3. d(p) \in Nat /\ d(now) \in Nat /\ d(now') \in Nat
  BY <1>1, <1>2, Division
<1>4. d(p) <= d(now) /\ d(now) <= d(now')
  BY <1>1, DayLater
<1>5. d(p) # d(now)
  BY DEF Today
<1> DEFINE i == d(p)
           j == d(now)
           k == d(now')
<1>6. i \in Nat /\ j \in Nat /\ k \in Nat /\ i <= j /\ j <= k /\ i # j
  BY <1>3, <1>4, <1>5
<1> HIDE DEF i, j, k
<1>7. i # k
  BY <1>6
<1>8. QED BY <1>7 DEF Today, i, k

-----------------------------------------------------------------------------
(* The invariant is kept.                                                  *)

LEMMA SizedKept ==
    ASSUME RedditAssumption, Shape, Sized, [Next]_vars PROVE Sized'
<1>0. /\ periods \in Nat /\ PeriodCountMax \in Nat
      /\ Cardinality(Inserting) \in Nat /\ Cardinality(DOMAIN counts) \in Nat
  BY Inserted DEF Shape, RedditAssumption
<1>1. ASSUME NEW t \in Threads, QuietStep(t) PROVE Sized'
  BY <1>1, QuietMoves DEF Sized, Sizing, Quiet, Others, Today
<1>2. ASSUME NEW t \in Threads, LoadOrStore(t) PROVE Sized'
  <2>1. Cardinality(DOMAIN counts') >= periods' + Cardinality(Inserting')
    <3>1. CASE thread[t].period \in DOMAIN counts
      BY <1>2, <3>1, LoadOrStoreMoves DEF Sized
    <3>2. CASE thread[t].period \notin DOMAIN counts
      <4>1. /\ Cardinality(DOMAIN counts') = Cardinality(DOMAIN counts) + 1
            /\ Cardinality(Inserting') = Cardinality(Inserting) + 1 /\ periods' = periods
        BY <1>2, <3>2, LoadOrStoreMoves
      <4>2. Cardinality(DOMAIN counts) >= periods + Cardinality(Inserting)
        BY DEF Sized
      <4>3. QED BY <1>0, <4>1, <4>2
    <3>3. QED BY <3>1, <3>2
  <2>2. /\ now' = now /\ periods' = periods /\ Others(t) /\ thread'[t].pc = "count"
    BY <1>2, LoadOrStoreMoves
  <2>3. QED BY <2>1, <2>2 DEF Sized, Sizing, Others, Today
<1>3. ASSUME NEW t \in Threads, Count(t) PROVE Sized'
  BY <1>3, CountMoves DEF Sized, Sizing, Others, Today
<1>4. ASSUME NEW t \in Threads, LoadPeriods(t) PROVE Sized'
  <2>1. ~thread[t].held
    BY <1>4, LoadPeriodsMoves DEF Sized
  <2>2. Full => periods >= PeriodCountMax
    BY <1>0 DEF Full
  <2>3. QED BY <1>4, <2>1, <2>2, LoadPeriodsMoves DEF Sized, Sizing, Others, Today
<1>5. ASSUME NEW t \in Threads, Grow(t) PROVE Sized'
  <2>1. Cardinality(DOMAIN counts') >= periods' + Cardinality(Inserting')
    <3>1. /\ counts' = counts /\ periods' = periods + 1
          /\ Cardinality(Inserting') = Cardinality(Inserting) - 1
      BY <1>5, GrowMoves
    <3>2. Cardinality(DOMAIN counts) >= periods + Cardinality(Inserting)
      BY DEF Sized
    <3>3. QED BY <1>0, <3>1, <3>2
  <2>2. periods >= PeriodCountMax => periods' >= PeriodCountMax
    BY <1>0, <1>5, GrowMoves
  <2>3. QED BY <1>5, <2>1, <2>2, GrowMoves DEF Sized, Sizing, Others, Today
<1>6. ASSUME NEW t \in Threads, FindOldest(t) PROVE Sized'
  BY <1>6, FindOldestMoves DEF Sized, Sizing, Others, Today
<1>7. ASSUME NEW t \in Threads, Evict(t) PROVE Sized'
  <2>1. Cardinality(DOMAIN counts') >= periods' + Cardinality(Inserting')
    <3>1. /\ Cardinality(DOMAIN counts') = Cardinality(DOMAIN counts) - 1
             \/ Cardinality(DOMAIN counts') = Cardinality(DOMAIN counts)
          /\ periods' = periods
          /\ Cardinality(Inserting') = Cardinality(Inserting) - 1
      BY <1>7, EvictMoves
    <3>2. Cardinality(DOMAIN counts) >= periods + Cardinality(Inserting)
      BY DEF Sized
    <3>3. QED BY <1>0, <3>1, <3>2
  <2>2. /\ now' = now /\ periods' = periods /\ Others(t) /\ thread'[t].pc \in {"idle", "fetched"}
    BY <1>7, EvictMoves
  <2>3. QED BY <2>1, <2>2 DEF Sized, Sizing, Others, Today
<1>8. CASE Tick
  <2>1. UNCHANGED <<counts, periods, thread>>
    BY <1>8 DEF Tick
  <2>2. Inserting' = Inserting /\ Sizing' = Sizing
    BY <2>1 DEF Inserting, Inserts, Sizing
  <2>3. ASSUME NEW t \in Threads, thread'[t].pc = "delete" PROVE ~Today(thread[t].period)'
    <3>1. thread[t].period \in 0 .. now
      BY DEF Shape, Places, Fields
    <3>2. ~Today(thread[t].period)
      BY <2>1, <2>3 DEF Sized
    <3> DEFINE p == thread[t].period
    <3>3. ~(p \div PeriodsPerDay = now' \div PeriodsPerDay)
      <4>1. p \in 0 .. now /\ ~Today(p)
        BY <3>1, <3>2
      <4> HIDE DEF p
      <4>2. QED BY <1>8, <4>1, NotLater DEF Today
    <3>4. QED BY <2>1, <3>3 DEF Today
  <2>4. QED BY <2>1, <2>2, <2>3 DEF Sized
<1>9. CASE UNCHANGED vars
  BY <1>9 DEF vars, Sized, Inserting, Inserts, Sizing, Today
<1>10. QED
  BY <1>1, <1>2, <1>3, <1>4, <1>5, <1>6, <1>7, <1>8, <1>9 DEF Next, QuietStep

LEMMA OneAtATimeKept ==
    ASSUME RedditAssumption, Shape, Sized, OneAtATime, [Next]_vars PROVE OneAtATime'
<1>0. /\ periods \in Nat /\ PeriodCountMax \in Nat
      /\ Cardinality(Inserting) \in Nat /\ Cardinality(DOMAIN counts) \in Nat
  BY Inserted DEF Shape, RedditAssumption
<1>1. ASSUME NEW t \in Threads, QuietStep(t) PROVE OneAtATime'
  BY <1>1, QuietMoves DEF OneAtATime, Sizing, Quiet, Others
<1>2. ASSUME NEW t \in Threads, LoadOrStore(t), ~hist'.raced PROVE OneAtATime'
  <2>0. hist' = hist /\ ~hist.raced /\ periods' = periods
    BY <1>2, LoadOrStoreMoves
  <2>1. Cardinality(DOMAIN counts') = periods' + Cardinality(Inserting')
    <3>1. CASE thread[t].period \in DOMAIN counts
      BY <1>2, <2>0, <3>1, LoadOrStoreMoves DEF OneAtATime
    <3>2. CASE thread[t].period \notin DOMAIN counts
      <4>1. /\ Cardinality(DOMAIN counts') = Cardinality(DOMAIN counts) + 1
            /\ Cardinality(Inserting') = Cardinality(Inserting) + 1
        BY <1>2, <3>2, LoadOrStoreMoves
      <4>2. Cardinality(DOMAIN counts) = periods + Cardinality(Inserting)
        BY <2>0 DEF OneAtATime
      <4>3. QED BY <1>0, <2>0, <4>1, <4>2
    <3>3. QED BY <3>1, <3>2
  <2>2. DOMAIN counts \subseteq DOMAIN counts'
    BY <1>2, LoadOrStoreMoves
  <2>3. Others(t) /\ thread'[t].pc = "count"
    BY <1>2, LoadOrStoreMoves
  <2>4. QED BY <2>0, <2>1, <2>2, <2>3 DEF OneAtATime, Sizing, Others
<1>3. ASSUME NEW t \in Threads, Count(t) PROVE OneAtATime'
  BY <1>3, CountMoves DEF OneAtATime, Sizing, Others
<1>4. ASSUME NEW t \in Threads, LoadPeriods(t), ~hist'.raced PROVE OneAtATime'
  <2>1. ~hist.raced /\ \A u \in Threads : u # t => thread[u].pc \notin {"full", "evict", "delete", "grow"}
    BY <1>4, LoadPeriodsMoves
  <2>2. periods <= PeriodCountMax /\ (~Full => periods < PeriodCountMax)
    BY <1>0, <2>1 DEF OneAtATime, Full
  <2>3. \A u \in Sizing' : u = t
    BY <1>4, <2>1, LoadPeriodsMoves DEF Sizing, Others
  <2>4. QED BY <1>4, <2>1, <2>2, <2>3, LoadPeriodsMoves DEF OneAtATime, Sizing, Others
<1>5. ASSUME NEW t \in Threads, Grow(t), ~hist'.raced PROVE OneAtATime'
  <2>1. /\ counts' = counts /\ periods' = periods + 1 /\ ~hist.raced
        /\ Cardinality(Inserting') = Cardinality(Inserting) - 1 /\ thread[t].pc = "grow"
    BY <1>5, GrowMoves
  <2>2. Cardinality(DOMAIN counts) = periods + Cardinality(Inserting) /\ periods < PeriodCountMax
    BY <2>1 DEF OneAtATime
  <2>3. Cardinality(DOMAIN counts') = periods' + Cardinality(Inserting') /\ periods' <= PeriodCountMax
    BY <1>0, <2>1, <2>2
  <2>4. Sizing' = {} /\ \A u \in Threads : thread'[u].pc \notin {"grow", "delete"}
    BY <1>5, <2>1, GrowMoves DEF OneAtATime, Sizing, Others
  <2>5. QED BY <2>3, <2>4 DEF OneAtATime
<1>6. ASSUME NEW t \in Threads, FindOldest(t) PROVE OneAtATime'
  BY <1>6, FindOldestMoves DEF OneAtATime, Sizing, Others
<1>7. ASSUME NEW t \in Threads, Evict(t), ~hist'.raced PROVE OneAtATime'
  <2>1. /\ periods' = periods /\ ~hist.raced /\ thread[t].pc = "delete"
        /\ Cardinality(Inserting') = Cardinality(Inserting) - 1
    BY <1>7, EvictMoves
  <2>2. thread[t].period \in DOMAIN counts /\ periods <= PeriodCountMax
        /\ Cardinality(DOMAIN counts) = periods + Cardinality(Inserting)
    BY <2>1 DEF OneAtATime
  <2>3. Cardinality(DOMAIN counts') = Cardinality(DOMAIN counts) - 1
    BY <1>7, <2>2, EvictMoves
  <2>4. Cardinality(DOMAIN counts') = periods' + Cardinality(Inserting') /\ periods' <= PeriodCountMax
    BY <1>0, <2>1, <2>2, <2>3
  <2>5. Sizing' = {} /\ \A u \in Threads : thread'[u].pc \notin {"grow", "delete"}
    <3>1. \A u \in Threads : u # t => thread[u].pc \notin {"grow", "evict", "delete"}
      BY <2>1 DEF OneAtATime, Sizing
    <3>2. \A u \in Threads : thread'[u].pc \notin {"grow", "evict", "delete"}
      BY <1>7, <3>1, EvictMoves DEF Others
    <3>3. QED BY <3>2 DEF Sizing
  <2>6. QED BY <2>4, <2>5 DEF OneAtATime
<1>8. CASE Tick
  <2>1. UNCHANGED <<counts, periods, thread, hist>>
    BY <1>8 DEF Tick
  <2>2. QED BY <2>1 DEF OneAtATime, Inserting, Inserts, Sizing
<1>9. CASE UNCHANGED vars
  BY <1>9 DEF vars, OneAtATime, Inserting, Inserts, Sizing
<1>10. hist'.raced => OneAtATime'
  BY DEF OneAtATime
<1>11. QED
  BY <1>1, <1>2, <1>3, <1>4, <1>5, <1>6, <1>7, <1>8, <1>9, <1>10 DEF Next, QuietStep

LEMMA CountedKept ==
    ASSUME RedditAssumption, Shape, Sized, Counted, Orphaned, [Next]_vars PROVE Counted'
<1>1. ASSUME NEW t \in Threads, QuietStep(t) PROVE Counted'
  BY <1>1, QuietMoves DEF Counted, Quiet, Others, Today
<1>2. ASSUME NEW t \in Threads, LoadOrStore(t) PROVE Counted'
  <2> DEFINE p == thread[t].period
  <2>1. /\ now' = now /\ hist' = hist /\ p \in 0 .. now
        /\ thread'[t].pc = "count" /\ thread'[t].period = p /\ Others(t)
    BY <1>2, LoadOrStoreMoves
  <2>2. /\ DOMAIN counts' = DOMAIN counts \cup {p}
        /\ \A q \in DOMAIN counts : counts'[q] = counts[q]
        /\ p \notin DOMAIN counts => counts'[p] = 0
    BY <1>2, LoadOrStoreMoves
  <2> HIDE DEF p
  <2>3. ASSUME NEW q \in 0 .. now, Today(q)
        PROVE  hist.counted[q] = IF q \in DOMAIN counts' THEN counts'[q] ELSE 0
    BY <2>2, <2>3 DEF Counted
  <2>4. ASSUME NEW u \in Threads, thread'[u].pc = "count", Today(thread'[u].period)
        PROVE  thread'[u].period \in DOMAIN counts'
    <3>1. CASE u = t
      BY <2>1, <2>2, <3>1
    <3>2. CASE u # t
      BY <2>1, <2>2, <2>4, <3>2 DEF Counted, Others
    <3>3. QED BY <3>1, <3>2
  <2>5. QED BY <2>1, <2>3, <2>4 DEF Counted, Today
<1>3. ASSUME NEW t \in Threads, Count(t) PROVE Counted'
  <2> DEFINE p == thread[t].period
  <2>1. /\ now' = now /\ DOMAIN counts' = DOMAIN counts /\ Others(t)
        /\ thread[t].pc = "count" /\ thread'[t].pc # "count"
    BY <1>3, CountMoves
  <2>2. p \in 0 .. now /\ p \in 0 .. MaxPeriod
    BY DEF Shape, Places, Fields
  <2>3. /\ Today(p) /\ p \in DOMAIN counts => counts'[p] = counts[p] + 1
        /\ \A q \in DOMAIN counts : q # p => counts'[q] = counts[q]
    BY <1>3, <2>1 DEF Count, Orphaned
  <2>4. /\ hist'.counted[p] = hist.counted[p] + 1
        /\ \A q \in 0 .. MaxPeriod : q # p => hist'.counted[q] = hist.counted[q]
    BY <1>3, <2>2 DEF Count, Shape
  <2>5. Today(p) => p \in DOMAIN counts
    BY <2>1 DEF Counted
  <2> HIDE DEF p
  <2>6. ASSUME NEW q \in 0 .. MaxPeriod, q > now PROVE hist'.counted[q] = 0
    <3>1. q # p
      <4>1. now \in Nat
        BY DEF Shape
      <4>2. QED BY <2>2, <2>6, <4>1
    <3>2. QED BY <2>4, <2>6, <3>1 DEF Counted
  <2>7. ASSUME NEW q \in 0 .. now, Today(q)
        PROVE  hist'.counted[q] = IF q \in DOMAIN counts' THEN counts'[q] ELSE 0
    <3>1. hist.counted[q] = IF q \in DOMAIN counts THEN counts[q] ELSE 0
      BY <2>7 DEF Counted
    <3>2. q \in 0 .. MaxPeriod
      BY DEF Shape
    <3>3. CASE q = p
      BY <2>1, <2>3, <2>4, <2>5, <2>7, <3>1, <3>3
    <3>4. CASE q # p
      BY <2>1, <2>3, <2>4, <3>1, <3>2, <3>4
    <3>5. QED BY <3>3, <3>4
  <2>8. ASSUME NEW u \in Threads, thread'[u].pc = "count", Today(thread'[u].period)
        PROVE  thread'[u].period \in DOMAIN counts'
    BY <2>1, <2>8 DEF Counted, Others
  <2>9. QED BY <2>1, <2>6, <2>7, <2>8 DEF Counted, Today
<1>4. ASSUME NEW t \in Threads, LoadPeriods(t) PROVE Counted'
  BY <1>4, LoadPeriodsMoves DEF Counted, Others, Today
<1>5. ASSUME NEW t \in Threads, Grow(t) PROVE Counted'
  BY <1>5, GrowMoves DEF Counted, Others, Today
<1>6. ASSUME NEW t \in Threads, FindOldest(t) PROVE Counted'
  BY <1>6, FindOldestMoves DEF Counted, Others, Today
<1>7. ASSUME NEW t \in Threads, Evict(t) PROVE Counted'
  <2> DEFINE p == thread[t].period
  <2>1. /\ now' = now /\ hist' = hist /\ Others(t) /\ thread[t].pc = "delete" /\ thread'[t].pc # "count"
        /\ DOMAIN counts' = DOMAIN counts \ {p}
        /\ \A q \in DOMAIN counts' : counts'[q] = counts[q]
    BY <1>7, EvictMoves
  <2>2. ~Today(p)
    BY <2>1 DEF Sized
  <2> HIDE DEF p
  <2>3. ASSUME NEW q \in 0 .. now, Today(q)
        PROVE  hist.counted[q] = IF q \in DOMAIN counts' THEN counts'[q] ELSE 0
    BY <2>1, <2>2, <2>3 DEF Counted
  <2>4. ASSUME NEW u \in Threads, thread'[u].pc = "count", Today(thread'[u].period)
        PROVE  thread'[u].period \in DOMAIN counts'
    BY <2>1, <2>2, <2>4 DEF Counted, Others
  <2>5. QED BY <2>1, <2>3, <2>4 DEF Counted, Today
<1>8. CASE Tick
  <2>1. now' = now + 1 /\ UNCHANGED <<counts, thread, hist>>
    BY <1>8 DEF Tick
  <2>2. now \in Nat /\ DOMAIN counts \subseteq 0 .. now /\ now' \in 0 .. MaxPeriod
    <3>1. now \in 0 .. MaxPeriod /\ now < MaxPeriod /\ MaxPeriod \in Nat
      BY <1>8 DEF Shape, Tick, RedditAssumption
    <3>2. QED BY <2>1, <3>1 DEF Shape
  <2>3. \A q \in 0 .. now : Today(q)' => Today(q)
    <3> SUFFICES ASSUME NEW q \in 0 .. now, ~Today(q) PROVE ~(q \div PeriodsPerDay = now' \div PeriodsPerDay)
      BY DEF Today
    <3>1. QED BY <1>8, NotLater DEF Today
  <2>4. ASSUME NEW q \in 0 .. MaxPeriod, q > now' PROVE hist.counted[q] = 0
    <3>1. q > now
      BY <2>1, <2>2, <2>4
    <3>2. QED BY <3>1 DEF Counted
  <2>5. ASSUME NEW q \in 0 .. now', Today(q)'
        PROVE  hist.counted[q] = IF q \in DOMAIN counts THEN counts[q] ELSE 0
    <3>1. CASE q \in 0 .. now
      BY <2>3, <2>5, <3>1 DEF Counted
    <3>2. CASE q \notin 0 .. now
      <4>1. q > now /\ q \in 0 .. MaxPeriod
        BY <2>1, <2>2, <3>2
      <4>2. q \notin DOMAIN counts
        BY <2>2, <3>2
      <4>3. QED BY <4>1, <4>2 DEF Counted
    <3>3. QED BY <3>1, <3>2
  <2>6. ASSUME NEW u \in Threads, thread[u].pc = "count", Today(thread[u].period)'
        PROVE  thread[u].period \in DOMAIN counts
    <3>1. thread[u].period \in 0 .. now /\ thread'[u].period = thread[u].period
      BY <2>1 DEF Shape, Places, Fields
    <3>2. Today(thread[u].period)
      BY <2>3, <2>6, <3>1 DEF Today
    <3>3. QED BY <2>6, <3>2 DEF Counted
  <2>7. QED BY <2>1, <2>4, <2>5, <2>6 DEF Counted, Today
<1>9. CASE UNCHANGED vars
  BY <1>9 DEF vars, Counted, Today
<1>10. QED
  BY <1>1, <1>2, <1>3, <1>4, <1>5, <1>6, <1>7, <1>8, <1>9 DEF Next, QuietStep

(* Who deletes a counter deletes one that is not of this day.              *)
LEMMA OrphanedKept ==
    ASSUME RedditAssumption, Shape, Sized, Orphaned, [Next]_vars PROVE Orphaned'
<1>1. ASSUME NEW t \in Threads, Others(t), now' = now, thread'[t].pc = "count" => ~thread'[t].orphan
      PROVE  Orphaned'
  <2>1. thread[t].pc = "delete" => ~Today(thread[t].period)
    BY DEF Sized
  <2>2. \A p : Today(p)' <=> Today(p)
    BY <1>1 DEF Today
  <2>3. ASSUME NEW u \in Threads, thread'[u].pc = "count", thread'[u].orphan
        PROVE  ~Today(thread'[u].period)
    <3>1. u # t
      BY <1>1, <2>3
    <3>2. /\ thread[u].pc = "count" /\ thread'[u].period = thread[u].period
          /\ thread[u].orphan \/ (thread[t].pc = "delete" /\ thread[u].period = thread[t].period)
      BY <1>1, <2>3, <3>1 DEF Others
    <3>3. QED BY <2>1, <3>2 DEF Orphaned
  <2>4. QED BY <1>1, <2>3 DEF Orphaned, Today
<1>2. ASSUME NEW t \in Threads, QuietStep(t) PROVE Orphaned'
  BY <1>1, <1>2, QuietMoves DEF Quiet
<1>3. ASSUME NEW t \in Threads, LoadOrStore(t) PROVE Orphaned'
  BY <1>1, <1>3, LoadOrStoreMoves
<1>4. ASSUME NEW t \in Threads, Count(t) PROVE Orphaned'
  BY <1>1, <1>4, CountMoves
<1>5. ASSUME NEW t \in Threads, LoadPeriods(t) PROVE Orphaned'
  BY <1>1, <1>5, LoadPeriodsMoves
<1>6. ASSUME NEW t \in Threads, Grow(t) PROVE Orphaned'
  BY <1>1, <1>6, GrowMoves
<1>7. ASSUME NEW t \in Threads, FindOldest(t) PROVE Orphaned'
  BY <1>1, <1>7, FindOldestMoves
<1>8. ASSUME NEW t \in Threads, Evict(t) PROVE Orphaned'
  BY <1>1, <1>8, EvictMoves
<1>9. CASE Tick
  <2>1. thread' = thread
    BY <1>9 DEF Tick
  <2>2. ASSUME NEW u \in Threads, thread[u].pc = "count", thread[u].orphan
        PROVE  ~Today(thread[u].period)'
    <3> DEFINE p == thread[u].period
    <3>1. p \in 0 .. now /\ ~Today(p)
      BY <2>2 DEF Shape, Places, Fields, Orphaned
    <3>2. ~(p \div PeriodsPerDay = now' \div PeriodsPerDay)
      <4> HIDE DEF p
      <4>1. QED BY <1>9, <3>1, NotLater DEF Today
    <3>3. QED BY <2>1, <3>2 DEF Today
  <2>3. QED BY <2>1, <2>2 DEF Orphaned
<1>10. CASE UNCHANGED vars
  BY <1>10 DEF vars, Orphaned, Today
<1>11. QED
  BY <1>2, <1>3, <1>4, <1>5, <1>6, <1>7, <1>8, <1>9, <1>10 DEF Next, QuietStep

LEMMA InitInv ==
    ASSUME RedditAssumption, Init PROVE Inv
<1>1. Shape
  BY InitShape
<1>2. DOMAIN counts = {} /\ periods = 0 /\ now = 0 /\ \A t \in Threads : thread[t] = Idle
  BY DEF Init
<1>3. \A t \in Threads : thread[t].pc = "idle"
  BY <1>2 DEF Idle
<1>4. Inserting = {} /\ Sizing = {}
  BY <1>3 DEF Inserting, Inserts, Sizing
<1>5. Cardinality(DOMAIN counts) = 0 /\ Cardinality(Inserting) = 0
  BY <1>2, <1>4, FS_EmptySet
<1>6. PeriodCountMax \in Nat
  BY DEF RedditAssumption
<1>7. Sized
  BY <1>2, <1>3, <1>4, <1>5 DEF Sized
<1>8. OneAtATime
  BY <1>2, <1>3, <1>4, <1>5, <1>6 DEF OneAtATime
<1>9. Counted
  BY <1>2, <1>3 DEF Counted, Init
<1>10. Orphaned
  BY <1>3 DEF Orphaned
<1>11. QED BY <1>1, <1>7, <1>8, <1>9, <1>10 DEF Inv

LEMMA Invariant == Spec => []Inv
<1>1. Init => Inv
  BY InitInv, RedditAssumption
<1>2. Inv /\ [Next]_vars => Inv'
  BY ShapeKept, SizedKept, OneAtATimeKept, CountedKept, OrphanedKept, RedditAssumption DEF Inv
<1>3. QED BY <1>1, <1>2, PTL DEF Spec

-----------------------------------------------------------------------------
(* For any goroutines, bindings and bounds: the limits add up, no period   *)
(* is of the future, and requestsPeriodCount holds no more than its        *)
(* maximum and those that are being inserted, as requestPeriods says, as   *)
(* long as no two goroutines insert at once (client.go:186).               *)
THEOREM TypeCorrect == Spec => []TypeOK
<1>1. ASSUME Inv PROVE TypeOK
  <2>1. /\ token = None \/ token \in Nat
        /\ \A b \in AllBindings : limits[b] = None \/ limits[b].used + limits[b].remaining = Allowed
        /\ DOMAIN counts \subseteq 0 .. now
    BY <1>1 DEF Inv, Shape, Limits
  <2>2. /\ periods \in Nat /\ PeriodCountMax \in Nat
        /\ Cardinality(Inserting) \in Nat /\ Cardinality(DOMAIN counts) \in Nat
    BY <1>1, Inserted, RedditAssumption DEF Inv, Shape, RedditAssumption
  <2>3. CASE ~hist.raced
    <3>1. Cardinality(DOMAIN counts) = periods + Cardinality(Inserting) /\ periods <= PeriodCountMax
      BY <1>1, <2>3 DEF Inv, OneAtATime
    <3>2. Cardinality(DOMAIN counts) <= PeriodCountMax + Cardinality(Inserting)
      BY <2>2, <3>1
    <3>3. (\A t \in Threads : ~Inserts(t)) => Cardinality(DOMAIN counts) = periods
      <4>1. ASSUME \A t \in Threads : ~Inserts(t) PROVE Cardinality(Inserting) = 0
        BY <4>1, FS_EmptySet DEF Inserting
      <4>2. QED BY <2>2, <3>1, <4>1
    <3>4. QED BY <2>1, <3>2, <3>3 DEF TypeOK, Inserting, AllBindings
  <2>4. QED BY <2>1, <2>3 DEF TypeOK, AllBindings
<1>2. QED BY <1>1, Invariant, PTL

(* RequestsMadeWithinPeriod finds every request that was counted on this   *)
(* day, also when goroutines insert, count and delete at once: who finds   *)
(* too many periods never deletes one of this day (client.go:230), which   *)
(* needs requestsPeriodCountMax to be more than a day has.                 *)
THEOREM AllAreCounted == Spec => []RequestsCounted
<1>1. ASSUME Inv PROVE RequestsCounted
  <2> DEFINE A == {p \in DOMAIN counts : Today(p)}
             B == {p \in 0 .. now : Today(p)}
             SA == UNION {{x} \X (1 .. counts[x]) : x \in A}
             SB == UNION {{x} \X (1 .. hist.counted[x]) : x \in B}
  <2>1. A \subseteq B /\ \A p \in A : hist.counted[p] = counts[p]
    BY <1>1 DEF Inv, Shape, Counted
  <2>2. \A p \in B \ A : hist.counted[p] = 0
    BY <1>1 DEF Inv, Shape, Counted
  <2> HIDE DEF A, B
  <2>3. SA \subseteq SB
    BY <2>1
  <2>4. SB \subseteq SA
    <3> SUFFICES ASSUME NEW x \in B, NEW e \in {x} \X (1 .. hist.counted[x]) PROVE e \in SA
      OBVIOUS
    <3>1. x \in A
      BY <2>2
    <3>2. QED BY <2>1, <3>1
  <2>5. SA = SB
    BY <2>3, <2>4
  <2>6. QED BY <2>5 DEF RequestsCounted, RequestsMadeToday, Total, A, B
<1>2. QED BY <1>1, Invariant, PTL
====
