-------------------------- MODULE TwitterClient_proofs --------------------------
(***************************************************************************)
(* Proofs about the tweet cap and the rate limit of twitter.ClientWrapper, *)
(* for any number of goroutines and any sizes of requests and caps.        *)
(*                                                                         *)
(* CapAccounts is not inductive.  While no count is lost, what Twitter     *)
(* counted is bounded by what the cap in memory says and what the searches *)
(* under way asked for (Counted), and so it is for a dashboard that was    *)
(* read and since which nobody has set the cap (Fetched).  Memory can be   *)
(* replaced by the file, so no cap of the file, or about to be written to  *)
(* it, is ahead of the one in memory (Newest); and the file can be all that*)
(* is left of memory, so either the cap in memory is in the file or being  *)
(* written, or somebody is about to write (Written), of which, when the    *)
(* process ends, only the first can be (Left).                             *)
(*                                                                         *)
(* Nor is LimitAccounts: no limit that a goroutine is still to store denies*)
(* a request that Twitter would answer either (Allowed), and what the      *)
(* answers of a process said that has ended is lost (Recorded).            *)
(***************************************************************************)
EXTENDS TwitterClient, FiniteSetTheorems, TLAPS

(* The types.                                                              *)
Caps ==
    {c \in [used : Nat, remaining : Int, month : Nat, passes : BOOLEAN] :
        c.used + c.remaining = Cap \/ (c.passes /\ c.used + c.remaining = 0)}
Limits == [period : Nat, remaining : Answers]

(* A cap is of a month that has come; CheckFresh only passes for good when *)
(* its month has ended.                                                    *)
Seen(c) == c.month <= server.month /\ (c.passes => c.month < server.month)

Answered == {"readCap", "setCap", "readFile", "parse", "isFresh", "fetch", "storeCap",
             "marshal", "create", "write", "loadLimit", "storeLimit"}
ThreadStates ==
    [pc : {"idle", "check", "request"} \cup Answered, left : Nat, offset : 0 .. MaxResources,
     cap : Caps \cup {Torn}, limit : Limits \cup {None}, seen : Limits \cup {None},
     dirty : BOOLEAN, mixed : BOOLEAN]
KnownLimit(l) == l \in Limits /\ l.period <= server.period

ServerStates == [period : Nat, requests : 0 .. Requests, month : Nat, pulled : Nat]
HistStates == [uncounted : BOOLEAN, torn : BOOLEAN, lost : SUBSET Answers]

SeenCap(c) == c \in Caps /\ Seen(c)

Shape ==
    /\ SeenCap(cap)
    /\ file = Torn \/ SeenCap(file)
    /\ limit = None \/ KnownLimit(limit)
    /\ thread \in [Threads -> ThreadStates]
    /\ client \in {"up", "down", "refused"}
    /\ server \in ServerStates
    /\ hist \in HistStates

(* What is known of a goroutine at each step.                              *)
Holding == {"setCap", "storeCap", "create", "write"}
InGetTweetCap == {"readFile", "parse", "isFresh", "fetch", "storeCap"}

Step(t) ==
    /\ IF thread[t].pc \in Answered THEN KnownLimit(thread[t].limit) ELSE thread[t].limit = None
    /\ thread[t].pc \in Holding => SeenCap(thread[t].cap)
    /\ thread[t].pc = "parse" /\ thread[t].cap # Torn => SeenCap(thread[t].cap)
    /\ thread[t].pc = "storeCap" => ~thread[t].cap.passes
    /\ thread[t].pc \in InGetTweetCap => server.month > 0
    /\ client # "up" => thread[t].pc = "idle"
Steps == \A t \in Threads : Step(t)

(* One pair for each tweet that is asked for and not counted yet.          *)
Asked == {a \in Threads \X (1 .. MaxResources) : Counting(a[1]) /\ a[2] <= thread[a[1]].offset}
Counted == Fresh(cap) => server.pulled <= cap.used + Cardinality(Asked)

Fetched ==
    \A t \in Threads : thread[t].pc = "storeCap" /\ ~thread[t].dirty /\ Fresh(thread[t].cap) =>
        server.pulled <= thread[t].cap.used + Cardinality(Asked)

Behind(c) == Fresh(c) => Fresh(cap) /\ c.used <= cap.used
Newest ==
    /\ file # Torn => Behind(file)
    /\ \A t \in Threads : thread[t].pc \in {"parse", "create", "write"} /\ thread[t].cap # Torn =>
            Behind(thread[t].cap)

(* The cap in memory will reach the file, or has.                          *)
Witness ==
    \/ \E t \in Threads :
         \/ thread[t].pc = "marshal"
         \/ thread[t].pc \in {"create", "write"} /\ thread[t].cap = cap
    \/ /\ file \in {cap, Torn}
       /\ \A t \in Threads : thread[t].pc \in {"create", "write"} => thread[t].dirty

Written == Fresh(cap) => Witness
Left == file # Torn /\ Fresh(file) => file = cap /\ server.pulled <= cap.used

(* Those that passed the check and have not set the cap: each overdraws it *)
(* by at most MaxResources, but for one that found it sufficient.          *)
Committed == {t \in Threads : thread[t].pc \in {"request", "readCap", "setCap"}}
Overdrawn ==
    LET free == Cardinality(Threads) - Cardinality(Committed)
    IN  \/ \E t \in Committed : cap.remaining >= thread[t].offset - MaxResources * free
        \/ cap.remaining >= -(MaxResources * (free - 1))

(* The limits of this period.                                              *)
Allows(l) == Valid(l) => server.requests <= l.remaining
Allowed == Allows(limit) /\ \A t \in Threads : Allows(thread[t].limit)
Recorded ==
    \A v \in server.requests .. Requests - 1 :
        \/ v \in hist.lost
        \/ client = "up" /\ (Knows(limit, v) \/ \E t \in Threads : thread[t].limit = Answer(v))

Inv ==
    /\ Shape /\ Steps /\ CapOnDisk
    /\ ~hist.uncounted =>
        /\ client = "up" => Counted /\ Fetched /\ Newest /\ Written
        /\ client = "down" => Left
        /\ server.month = 0 => Overdrawn
    /\ Allowed /\ Recorded

-----------------------------------------------------------------------------
(* Facts about caps and the constants.                                     *)

LEMMA Amounts ==
    /\ MaxResources \in Nat \ {0} /\ MinResources \in Nat /\ MinResources <= MaxResources
    /\ Requests \in Nat \ {0} /\ Cap \in Nat /\ Totals \subseteq Nat
    /\ MaxFaults \in Nat /\ MaxCalls \in Nat
    /\ IsFiniteSet(Threads) /\ Cardinality(Threads) \in Nat
    /\ Torn \notin Caps
    /\ \A v \in Answers : v \in Nat /\ v <= Requests - 1
<1>1. Cardinality(Threads) \in Nat
  BY TwitterAssumption, FS_CardinalityType
<1>2. Torn \notin Caps
  BY TwitterAssumption DEF Caps
<1>3. \A v \in Answers : v \in Nat /\ v <= Requests - 1
  BY TwitterAssumption DEF Answers
<1>4. QED BY <1>1, <1>2, <1>3, TwitterAssumption

LEMMA CapType ==
    \A c \in Caps : /\ c.used \in Nat /\ c.remaining \in Int /\ c.month \in Nat /\ c.passes \in BOOLEAN
                    /\ c.remaining <= Cap
                    /\ ~c.passes => c.used + c.remaining = Cap
  BY Amounts DEF Caps

(* A cap is what its fields are.                                           *)
LEMMA SameCap ==
    ASSUME NEW c \in Caps, NEW d \in Caps, ~c.passes, ~d.passes, c.month = d.month, c.used = d.used
    PROVE  c = d
<1>1. c.remaining = d.remaining
  BY CapType
<1>2. QED BY <1>1 DEF Caps

LEMMA ZeroCapType == ZeroCap \in Caps /\ ZeroCap.passes /\ ZeroCap.month = 0
  BY DEF Caps, ZeroCap

LEMMA FetchedCap ==
    ASSUME NEW used \in Nat, NEW month \in Nat
    PROVE  /\ CapOf(used, month) \in Caps
           /\ CapOf(used, month).used = used /\ CapOf(used, month).month = month
           /\ ~CapOf(used, month).passes
           /\ CapOf(used, month).remaining = Cap - used
  BY Amounts DEF Caps, CapOf

Drawn(c, n) == [c EXCEPT !.used = @ + n, !.remaining = @ - n]

LEMMA DrawnCap ==
    ASSUME NEW c \in Caps, NEW n \in Nat
    PROVE  /\ Drawn(c, n) \in Caps
           /\ Drawn(c, n).used = c.used + n /\ Drawn(c, n).remaining = c.remaining - n
           /\ Drawn(c, n).month = c.month /\ Drawn(c, n).passes = c.passes
<1> DEFINE d == Drawn(c, n)
<1>1. c \in [used : Nat, remaining : Int, month : Nat, passes : BOOLEAN]
  BY DEF Caps
<1>2. c.used + n \in Nat /\ c.remaining - n \in Int
  BY <1>1
<1>3. /\ d.used = c.used + n /\ d.remaining = c.remaining - n
      /\ d.month = c.month /\ d.passes = c.passes
      /\ d \in [used : Nat, remaining : Int, month : Nat, passes : BOOLEAN]
  BY <1>1, <1>2 DEF Drawn
<1> HIDE DEF d
<1>4. d.used + d.remaining = c.used + c.remaining
  BY <1>1, <1>3
<1>5. QED
  BY <1>3, <1>4 DEF Caps, d

LEMMA LateCap ==
    ASSUME NEW c \in Caps, ~c.passes, NEW late \in BOOLEAN
    PROVE  /\ [c EXCEPT !.passes = late] \in Caps
           /\ [c EXCEPT !.passes = late].used = c.used /\ [c EXCEPT !.passes = late].month = c.month
           /\ [c EXCEPT !.passes = late].passes = late
<1> DEFINE d == [c EXCEPT !.passes = late]
<1>1. c \in [used : Nat, remaining : Int, month : Nat, passes : BOOLEAN] /\ c.used + c.remaining = Cap
  BY CapType DEF Caps
<1>2. /\ d.used = c.used /\ d.remaining = c.remaining /\ d.month = c.month /\ d.passes = late
      /\ d \in [used : Nat, remaining : Int, month : Nat, passes : BOOLEAN]
  BY <1>1
<1> HIDE DEF d
<1>3. d \in Caps
  BY <1>1, <1>2 DEF Caps
<1>4. QED BY <1>2, <1>3 DEF d

(* No cap in use is of this month and of one that has ended.               *)
LEMMA FreshMonth == \A c : SeenCap(c) => (Fresh(c) <=> c.month = server.month)
<1> SUFFICES ASSUME NEW c, SeenCap(c) PROVE Fresh(c) <=> c.month = server.month
  OBVIOUS
<1>1. c.passes => c.month # server.month
  BY CapType DEF Seen, SeenCap
<1>2. QED BY <1>1 DEF Fresh

LEMMA LimitType ==
    /\ None \notin Limits
    /\ \A l \in Limits : l.period \in Nat /\ l.remaining \in Nat /\ l.remaining <= Requests - 1
    /\ \A l, m \in Limits : l.period = m.period /\ l.remaining = m.remaining => l = m
<1>1. \A l \in Limits : l.period \in Nat /\ l.remaining \in Nat /\ l.remaining <= Requests - 1
  BY Amounts DEF Limits
<1>2. None \notin Limits
  <2>1. Limits \subseteq [period : Nat, remaining : Nat]
    BY Amounts DEF Limits
  <2>2. QED BY <2>1, TwitterAssumption
<1>3. \A l, m \in Limits : l.period = m.period /\ l.remaining = m.remaining => l = m
  BY DEF Limits
<1>4. QED BY <1>1, <1>2, <1>3

LEMMA AnswerType ==
    ASSUME server \in ServerStates, NEW v \in Answers
    PROVE  /\ Answer(v) \in Limits /\ Answer(v).period = server.period /\ Answer(v).remaining = v
           /\ Answer(v) # None
<1>1. Answer(v) \in Limits /\ Answer(v).period = server.period /\ Answer(v).remaining = v
  BY DEF ServerStates, Answer, Limits
<1>2. QED BY <1>1, LimitType

LEMMA OffsetType == \A left \in Nat : Offset(left) \in 0 .. MaxResources
  BY Amounts DEF Offset

LEMMA IdleType == Idle \in ThreadStates /\ Idle.pc = "idle" /\ Idle.limit = None
  BY ZeroCapType, Amounts DEF Idle, ThreadStates

LEMMA BegunType ==
    ASSUME NEW left \in Nat
    PROVE  LET b == [Idle EXCEPT !.pc = "check", !.left = left, !.offset = Offset(left)]
           IN  b \in ThreadStates /\ b.pc = "check" /\ b.limit = None
  BY ZeroCapType, OffsetType DEF Idle, ThreadStates

-----------------------------------------------------------------------------
(* The initial state.                                                      *)

LEMMA InitInv == Init => Inv
<1> SUFFICES ASSUME Init PROVE Inv
  OBVIOUS
<1>1. cap \in Caps /\ cap.used = 0 /\ cap.month = 0 /\ ~cap.passes /\ cap.remaining = Cap /\ file = cap
  BY FetchedCap, Amounts DEF Init
<1>2. \A t \in Threads : thread[t] = Idle /\ thread[t].pc = "idle" /\ thread[t].limit = None
  BY IdleType DEF Init
<1>3. server.month = 0 /\ server.pulled = 0 /\ server.requests = Requests
  BY DEF Init
<1>4. Shape
  <2>1. server \in ServerStates
    BY Amounts DEF Init, ServerStates
  <2>2. hist \in HistStates
    BY DEF Init, HistStates
  <2>3. thread \in [Threads -> ThreadStates]
    BY IdleType DEF Init
  <2>4. SeenCap(cap)
    BY <1>1, <1>3 DEF Seen, SeenCap
  <2>5. client \in {"up", "down", "refused"} /\ limit = None
    BY DEF Init
  <2>6. QED BY <1>1, <2>1, <2>2, <2>3, <2>4, <2>5 DEF Shape
<1>5. Steps
  BY <1>2 DEF Steps, Step, Answered, Holding, InGetTweetCap
<1>6. CapOnDisk
  BY <1>1, Amounts DEF CapOnDisk
<1>7. Counted /\ Fetched /\ Newest /\ Written
  <2>1. Counted
    <3>1. Asked = {}
      BY <1>2 DEF Asked, Counting
    <3>2. Cardinality(Asked) = 0
      BY <3>1, FS_EmptySet
    <3>3. QED BY <3>2, <1>1, <1>3 DEF Counted
  <2>2. Fetched /\ Newest
    BY <1>1, <1>2 DEF Newest, Fetched, Behind
  <2>3. Written
    BY <1>1, <1>2 DEF Written, Witness
  <2>4. QED BY <2>1, <2>2, <2>3
<1>8. Left
  BY <1>1, <1>3 DEF Left
<1>9. Overdrawn
  <2>1. Committed = {}
    BY <1>2 DEF Committed
  <2>2. Cardinality(Committed) = 0
    BY <2>1, FS_EmptySet
  <2>3. Cardinality(Threads) # 0
    BY TwitterAssumption, FS_EmptySet
  <2>4. Cardinality(Threads) - 1 \in Nat
    BY <2>3, Amounts
  <2>5. MaxResources * (Cardinality(Threads) - 1) >= 0
    BY <2>4, Amounts
  <2>6. QED
    BY <1>1, <2>2, <2>4, <2>5, Amounts DEF Overdrawn
<1>10. Allowed
  BY <1>2 DEF Init, Allowed, Allows, Valid
<1>11. Recorded
  BY <1>3, Amounts DEF Recorded
<1>12. QED
  BY <1>4, <1>5, <1>6, <1>7, <1>8, <1>9, <1>10, <1>11 DEF Inv

-----------------------------------------------------------------------------
(* What each step does to the goroutine that takes it, and that it leaves  *)
(* the others where they are, but for what they know of each other.        *)

Typed == thread \in [Threads -> ThreadStates]
Moves(t) ==
    /\ Typed'
    /\ \A u \in Threads \ {t} :
         /\ thread'[u].pc = thread[u].pc /\ thread'[u].cap = thread[u].cap
         /\ thread'[u].limit = thread[u].limit /\ thread'[u].offset = thread[u].offset
         /\ thread[u].dirty => thread'[u].dirty

LEMMA ThreadType ==
    ASSUME Typed, NEW t \in Threads
    PROVE  /\ thread[t] \in ThreadStates
           /\ thread[t].left \in Nat /\ thread[t].offset \in 0 .. MaxResources
           /\ thread[t].cap \in Caps \cup {Torn}
           /\ thread[t].dirty \in BOOLEAN /\ thread[t].mixed \in BOOLEAN
           /\ thread[t].limit \in Limits \cup {None} /\ thread[t].seen \in Limits \cup {None}
           /\ thread[t].offset \in Nat
  BY Amounts DEF Typed, ThreadStates

LEMMA ShapeType ==
    ASSUME Shape
    PROVE  /\ Typed /\ hist \in HistStates /\ server \in ServerStates /\ cap \in Caps
           /\ server.month \in Nat /\ server.period \in Nat /\ server.pulled \in Nat
           /\ server.requests \in Nat /\ server.requests <= Requests
  BY Amounts DEF Shape, Typed, SeenCap, ServerStates

LEMMA Assigned ==
    ASSUME Typed, NEW t \in Threads, NEW r \in ThreadStates, thread' = [thread EXCEPT ![t] = r]
    PROVE  Moves(t) /\ thread'[t] = r
  BY DEF Typed, Moves

LEMMA Went ==
    ASSUME Typed, NEW t \in Threads, NEW pc, Goto(t, pc), pc \in {"idle", "check", "request"} \cup Answered
    PROVE  /\ Moves(t) /\ thread'[t].pc = pc
           /\ thread'[t].offset = thread[t].offset /\ thread'[t].cap = thread[t].cap
           /\ thread'[t].limit = thread[t].limit /\ thread'[t].dirty = thread[t].dirty
<1> DEFINE r == [thread[t] EXCEPT !.pc = pc]
<1>1. /\ r \in ThreadStates /\ r.pc = pc
      /\ r.offset = thread[t].offset /\ r.cap = thread[t].cap
      /\ r.limit = thread[t].limit /\ r.dirty = thread[t].dirty
  BY ThreadType DEF ThreadStates
<1>2. thread' = [thread EXCEPT ![t] = r]
  BY DEF Goto
<1> HIDE DEF r
<1>3. Moves(t) /\ thread'[t] = r
  BY <1>1, <1>2, Assigned
<1>4. QED BY <1>1, <1>3

LEMMA Returned ==
    ASSUME Typed, NEW t \in Threads, Return(t)
    PROVE  Moves(t) /\ thread'[t].pc = "idle" /\ thread'[t].limit = None
  BY IdleType, Assigned DEF Return

(* The observations.                                                       *)
LEMMA HistType ==
    ASSUME hist \in HistStates
    PROVE  /\ hist.uncounted \in BOOLEAN /\ hist.torn \in BOOLEAN /\ hist.lost \in SUBSET Answers
           /\ \A t \in Threads : Lost(t) \in SUBSET Answers
  BY DEF HistStates, Lost

LEMMA BeginStep ==
    ASSUME Typed, NEW t \in Threads, Begin(t)
    PROVE  /\ thread[t].pc = "idle" /\ Moves(t) /\ thread'[t].pc = "check" /\ thread'[t].limit = None
           /\ UNCHANGED <<cap, file, limit, client, server, hist>>
<1>1. PICK total \in Totals :
        thread' = [thread EXCEPT ![t] = [Idle EXCEPT !.pc = "check", !.left = total, !.offset = Offset(total)]]
  BY DEF Begin
<1>2. total \in Nat
  BY Amounts
<1>3. Moves(t) /\ thread'[t].pc = "check" /\ thread'[t].limit = None
  BY <1>1, <1>2, BegunType, Assigned
<1>4. QED BY <1>3 DEF Begin

LEMMA CheckStep ==
    ASSUME Typed, NEW t \in Threads, CheckRateLimit(t)
    PROVE  /\ thread[t].pc = "check" /\ Moves(t) /\ thread'[t].pc \in {"idle", "request"}
           /\ thread'[t].limit \in {thread[t].limit, None}
           /\ thread'[t].pc = "request" =>
                /\ thread'[t].offset = thread[t].offset
                /\ ~(thread[t].offset > cap.remaining)
           /\ UNCHANGED <<cap, file, limit, client, server, hist>>
<1>1. CASE ~Exceeds(t) /\ Goto(t, "request")
  BY <1>1, Went DEF CheckRateLimit, Exceeds
<1>2. CASE Return(t)
  BY <1>2, Returned DEF CheckRateLimit
<1>3. QED BY <1>1, <1>2 DEF CheckRateLimit

LEMMA RequestStep ==
    ASSUME Shape, NEW t \in Threads, Request(t)
    PROVE  /\ thread[t].pc = "request" /\ Moves(t) /\ UNCHANGED <<cap, file, limit, client, hist>>
           /\ server'.month = server.month /\ server'.period = server.period
           /\ \/ thread'[t].pc = "idle" /\ thread'[t].limit = None /\ UNCHANGED server
              \/ /\ thread'[t].pc = "readCap" /\ thread'[t].offset = thread[t].offset
                 /\ server.requests - 1 \in Answers /\ thread'[t].limit = Answer(server.requests - 1)
                 /\ server' \in ServerStates
                 /\ server'.requests = server.requests - 1
                 /\ server'.pulled <= server.pulled + thread[t].offset
<1>0. Typed /\ server \in ServerStates
  BY ShapeType
<1>1. CASE Return(t) /\ UNCHANGED server
  BY <1>0, <1>1, Returned DEF Request
<1>2. CASE ~(Return(t) /\ UNCHANGED server)
  <2>0. server.requests > 0
    BY <1>2 DEF Request
  <2>1. PICK n \in 0 .. thread[t].offset :
          server' = [server EXCEPT !.requests = @ - 1, !.pulled = @ + n]
    BY <1>2 DEF Request
  <2>2. n \in Nat /\ n <= thread[t].offset
    BY <1>0, ThreadType
  <2>3. server.requests - 1 \in Answers /\ server.pulled + n \in Nat
    BY <1>0, <2>0, <2>2, Amounts DEF ServerStates, Answers
  <2>4. /\ server' \in ServerStates
        /\ server'.month = server.month /\ server'.period = server.period
        /\ server'.requests = server.requests - 1
        /\ server'.pulled = server.pulled + n
    <3>1. server.requests - 1 \in 0 .. Requests
      BY <2>3, Amounts DEF Answers
    <3>2. QED
      BY <1>0, <2>1, <2>3, <3>1 DEF ServerStates
  <2> DEFINE l == Answer(server.requests - 1)
             r == [thread[t] EXCEPT !.pc = "readCap", !.limit = l]
  <2>5. l \in Limits
    BY <1>0, <2>3, AnswerType
  <2>6. thread' = [thread EXCEPT ![t] = r]
    BY <1>2 DEF Request, Answer
  <2> HIDE DEF l
  <2>7. r \in ThreadStates /\ r.pc = "readCap" /\ r.limit = l /\ r.offset = thread[t].offset
    BY <1>0, <2>5, ThreadType DEF ThreadStates, Answered
  <2> HIDE DEF r
  <2>8. Moves(t) /\ thread'[t] = r
    BY <1>0, <2>6, <2>7, Assigned
  <2>9. server.pulled + n <= server.pulled + thread[t].offset
    BY <1>0, <2>2, ThreadType DEF ServerStates
  <2>10. QED
    BY <2>3, <2>4, <2>7, <2>8, <2>9 DEF Request, l
<1>3. QED BY <1>1, <1>2 DEF Request

LEMMA ErrorStep ==
    ASSUME Shape, NEW t \in Threads, AnswerIsError(t)
    PROVE  /\ thread[t].pc = "readCap" /\ Moves(t)
           /\ thread'[t].pc = "idle" /\ thread'[t].limit = None
           /\ hist' \in HistStates /\ hist'.uncounted /\ hist'.torn = hist.torn /\ hist'.lost = Lost(t)
           /\ UNCHANGED <<cap, file, limit, client, server>>
<1>1. Typed /\ hist \in HistStates /\ Lost(t) \in SUBSET Answers
  BY ShapeType, HistType
<1>2. hist' \in HistStates /\ hist'.uncounted /\ hist'.torn = hist.torn /\ hist'.lost = Lost(t)
  BY <1>1 DEF AnswerIsError, HistStates
<1>3. QED BY <1>1, <1>2, Returned DEF AnswerIsError

LEMMA ReadCapStep ==
    ASSUME Shape, NEW t \in Threads, ReadCap(t)
    PROVE  /\ thread[t].pc = "readCap" /\ Moves(t) /\ thread'[t].pc = "setCap"
           /\ thread'[t].cap = Drawn(cap, thread[t].offset)
           /\ thread'[t].offset = thread[t].offset /\ thread'[t].limit = thread[t].limit
           /\ UNCHANGED <<cap, file, limit, client, server, hist>>
<1> DEFINE c == Drawn(cap, thread[t].offset)
           r == [thread[t] EXCEPT !.pc = "setCap", !.cap = c]
<1>1. Typed /\ c \in Caps
  <2>1. Typed /\ cap \in Caps
    BY ShapeType
  <2>2. thread[t].offset \in Nat
    BY <2>1, ThreadType
  <2>3. QED BY <2>1, <2>2, DrawnCap
<1>2. thread' = [thread EXCEPT ![t] = r]
  BY DEF ReadCap, Drawn
<1> HIDE DEF c
<1>3. r \in ThreadStates /\ r.pc = "setCap" /\ r.cap = c /\ r.offset = thread[t].offset /\ r.limit = thread[t].limit
  BY <1>1, ThreadType DEF ThreadStates, Answered
<1> HIDE DEF r
<1>4. Moves(t) /\ thread'[t] = r
  BY <1>1, <1>2, <1>3, Assigned
<1>5. QED BY <1>3, <1>4 DEF ReadCap, c

(* A goroutine that has read the dashboard knows that the cap was set.     *)
LEMMA SetStep ==
    ASSUME Shape, NEW t \in Threads, SetTweetCap(t)
    PROVE  /\ thread[t].pc = "setCap" /\ Moves(t) /\ cap' = thread[t].cap
           /\ thread'[t].pc = IF CheckFresh(thread[t].cap) THEN "marshal" ELSE "readFile"
           /\ thread'[t].limit = thread[t].limit
           /\ \A u \in Threads \ {t} : thread[u].pc = "storeCap" => thread'[u].dirty
           /\ hist' \in HistStates /\ hist'.torn = hist.torn /\ hist'.lost = hist.lost
           /\ ~hist'.uncounted => /\ ~hist.uncounted
                                  /\ thread[t].cap.month = cap.month
                                  /\ cap.used = thread[t].cap.used - thread[t].offset
           /\ UNCHANGED <<file, limit, client, server>>
<1>1. Typed /\ hist \in HistStates /\ hist.uncounted \in BOOLEAN
  BY ShapeType, HistType
<1> DEFINE pc == IF CheckFresh(thread[t].cap) THEN "marshal" ELSE "readFile"
           next(u) == IF u = t THEN [thread[u] EXCEPT !.pc = pc]
                      ELSE [thread[u] EXCEPT !.dirty = @ \/ thread[u].pc = "storeCap"]
<1>2. thread' = [u \in Threads |-> next(u)]
  BY DEF SetTweetCap
<1>3. next(t) \in ThreadStates /\ next(t).pc = pc /\ next(t).limit = thread[t].limit
  <2>1. pc \in Answered
    BY DEF Answered
  <2> HIDE DEF pc
  <2>2. QED BY <1>1, <2>1, ThreadType DEF ThreadStates
<1>4. ASSUME NEW u \in Threads \ {t}
      PROVE  /\ next(u) \in ThreadStates
             /\ next(u).pc = thread[u].pc /\ next(u).cap = thread[u].cap
             /\ next(u).limit = thread[u].limit /\ next(u).offset = thread[u].offset
             /\ thread[u].dirty \/ thread[u].pc = "storeCap" => next(u).dirty
  <2> DEFINE dirty == thread[u].dirty \/ thread[u].pc = "storeCap"
  <2>1. dirty \in BOOLEAN /\ next(u) = [thread[u] EXCEPT !.dirty = dirty]
    BY <1>1, ThreadType
  <2> HIDE DEF dirty, next
  <2>2. thread[u] \in ThreadStates
    BY <1>1, ThreadType
  <2>3. /\ next(u) \in ThreadStates
        /\ next(u).pc = thread[u].pc /\ next(u).cap = thread[u].cap
        /\ next(u).limit = thread[u].limit /\ next(u).offset = thread[u].offset
        /\ next(u).dirty = dirty
    BY <2>1, <2>2 DEF ThreadStates
  <2>4. QED BY <2>3 DEF dirty
<1> HIDE DEF next
<1>5. Typed' /\ \A u \in Threads : thread'[u] = next(u)
  BY <1>2, <1>3, <1>4 DEF Typed
<1>6. Moves(t) /\ \A u \in Threads \ {t} : thread[u].pc = "storeCap" => thread'[u].dirty
  BY <1>4, <1>5 DEF Moves
<1> DEFINE lost == hist.uncounted \/ cap.used # thread[t].cap.used - thread[t].offset
                                  \/ cap.month # thread[t].cap.month
<1>7. hist' = [hist EXCEPT !.uncounted = lost] /\ lost \in BOOLEAN
  BY <1>1 DEF SetTweetCap
<1>8. /\ hist' \in HistStates /\ hist'.torn = hist.torn /\ hist'.lost = hist.lost
      /\ hist'.uncounted = lost
  <2> HIDE DEF lost
  <2>1. QED BY <1>1, <1>7 DEF HistStates
<1>9. QED BY <1>3, <1>5, <1>6, <1>8 DEF SetTweetCap

LEMMA ReadFileStep ==
    ASSUME Shape, NEW t \in Threads, ReadFile(t)
    PROVE  /\ thread[t].pc = "readFile" /\ Moves(t) /\ thread'[t].pc = "parse"
           /\ thread'[t].cap = file /\ thread'[t].limit = thread[t].limit
           /\ UNCHANGED <<cap, file, limit, client, server, hist>>
<1> DEFINE r == [thread[t] EXCEPT !.pc = "parse", !.cap = file]
<1>1. Typed /\ file \in Caps \cup {Torn}
  BY ShapeType DEF Shape, SeenCap
<1>2. thread' = [thread EXCEPT ![t] = r]
  BY DEF ReadFile
<1>3. r \in ThreadStates /\ r.pc = "parse" /\ r.cap = file /\ r.limit = thread[t].limit
  BY <1>1, ThreadType DEF ThreadStates, Answered
<1> HIDE DEF r
<1>4. Moves(t) /\ thread'[t] = r
  BY <1>1, <1>2, <1>3, Assigned
<1>5. QED BY <1>3, <1>4 DEF ReadFile

LEMMA ParseStep ==
    ASSUME Shape, NEW t \in Threads, Parse(t)
    PROVE  /\ thread[t].pc = "parse" /\ Moves(t)
           /\ \/ /\ thread[t].cap = Torn /\ cap' = ZeroCap
                 /\ thread'[t].pc = "idle" /\ thread'[t].limit = None /\ hist'.lost = Lost(t)
              \/ /\ thread[t].cap # Torn /\ cap' = thread[t].cap
                 /\ thread'[t].pc = "isFresh" /\ thread'[t].limit = thread[t].limit /\ hist'.lost = hist.lost
           /\ hist' \in HistStates /\ hist'.torn = hist.torn
           /\ ~hist'.uncounted => ~hist.uncounted /\ (Fresh(cap) => Fresh(cap') /\ cap.used <= cap'.used)
           /\ UNCHANGED <<file, limit, client, server>>
<1>1. Typed /\ hist \in HistStates /\ hist.uncounted \in BOOLEAN /\ Lost(t) \in SUBSET Answers
  BY ShapeType, HistType
<1> DEFINE uncounted == hist.uncounted \/ Overwrites(cap')
           lost == IF thread[t].cap = Torn THEN Lost(t) ELSE hist.lost
<1>2. hist' = [hist EXCEPT !.uncounted = uncounted, !.lost = lost]
  BY DEF Parse
<1>3. uncounted \in BOOLEAN /\ lost \in SUBSET Answers
  BY <1>1, HistType DEF Overwrites
<1>4. hist' \in HistStates /\ hist'.torn = hist.torn /\ hist'.uncounted = uncounted /\ hist'.lost = lost
  <2> HIDE DEF uncounted, lost
  <2>1. QED BY <1>1, <1>2, <1>3 DEF HistStates
<1>5. ~hist'.uncounted => ~hist.uncounted /\ (Fresh(cap) => Fresh(cap') /\ cap.used <= cap'.used)
  BY <1>4, Zenon DEF Overwrites
<1>6. CASE thread[t].cap = Torn
  <2>1. cap' = ZeroCap /\ Return(t)
    BY <1>6 DEF Parse
  <2>2. QED BY <1>1, <1>4, <1>5, <1>6, <2>1, Returned DEF Parse
<1>7. CASE thread[t].cap # Torn
  <2>1. cap' = thread[t].cap /\ Goto(t, "isFresh")
    BY <1>7 DEF Parse
  <2>2. Moves(t) /\ thread'[t].pc = "isFresh" /\ thread'[t].limit = thread[t].limit
    BY <1>1, <2>1, Went DEF Answered
  <2>3. QED BY <1>4, <1>5, <1>7, <2>1, <2>2 DEF Parse
<1>8. QED BY <1>6, <1>7

LEMMA IsFreshStep ==
    ASSUME Shape, NEW t \in Threads, IsFresh(t)
    PROVE  /\ thread[t].pc = "isFresh" /\ Moves(t) /\ thread'[t].pc \in {"loadLimit", "fetch"}
           /\ thread'[t].limit = thread[t].limit
           /\ UNCHANGED <<cap, file, limit, client, server, hist>>
<1> DEFINE pc == IF CheckFresh(cap) THEN "loadLimit" ELSE "fetch"
<1>1. Typed /\ pc \in {"loadLimit", "fetch"} /\ Goto(t, pc)
  BY ShapeType DEF IsFresh
<1> HIDE DEF pc
<1>2. Moves(t) /\ thread'[t].pc = pc /\ thread'[t].limit = thread[t].limit
  BY <1>1, Went DEF Answered
<1>3. QED BY <1>1, <1>2 DEF IsFresh

LEMMA FetchStep ==
    ASSUME Shape, NEW t \in Threads, FetchFromWeb(t)
    PROVE  /\ thread[t].pc = "fetch" /\ Moves(t)
           /\ \/ /\ thread'[t].pc = "storeCap" /\ thread'[t].cap = CapOf(server.pulled, server.month)
                 /\ thread'[t].limit = thread[t].limit /\ hist' = hist
              \/ thread'[t].pc = "idle" /\ thread'[t].limit = None /\ hist'.lost = Lost(t)
           /\ hist' \in HistStates /\ hist'.uncounted = hist.uncounted /\ hist'.torn = hist.torn
           /\ UNCHANGED <<cap, file, limit, client, server>>
<1>1. Typed /\ hist \in HistStates /\ Lost(t) \in SUBSET Answers
  BY ShapeType, HistType
<1> DEFINE c == CapOf(server.pulled, server.month)
           r == [thread[t] EXCEPT !.pc = "storeCap", !.dirty = FALSE, !.cap = c]
<1>2. CASE thread' = [thread EXCEPT ![t] = r] /\ UNCHANGED hist
  <2>1. c \in Caps
    BY ShapeType, FetchedCap
  <2>q. QED
    <3> HIDE DEF c
    <3>1. r \in ThreadStates /\ r.pc = "storeCap" /\ r.cap = c /\ r.limit = thread[t].limit
      BY <1>1, <2>1, ThreadType DEF ThreadStates, Answered
    <3> HIDE DEF r
    <3>2. Moves(t) /\ thread'[t] = r
      BY <1>1, <1>2, <3>1, Assigned
    <3>3. QED BY <1>1, <1>2, <3>1, <3>2 DEF FetchFromWeb, c
<1>3. CASE Return(t) /\ hist' = [hist EXCEPT !.lost = Lost(t)]
  <2>1. hist' \in HistStates /\ hist'.uncounted = hist.uncounted /\ hist'.torn = hist.torn /\ hist'.lost = Lost(t)
    BY <1>1, <1>3 DEF HistStates
  <2>2. QED BY <1>1, <1>3, <2>1, Returned DEF FetchFromWeb
<1>4. QED BY <1>2, <1>3 DEF FetchFromWeb

(* What StoreCap stores.                                                   *)
LEMMA StoreCapHolds ==
    ASSUME Steps, NEW t \in Threads, StoreCap(t)
    PROVE  SeenCap(thread[t].cap) /\ ~thread[t].cap.passes
  BY DEF Steps, Step, Holding, StoreCap

LEMMA StoreCapStep ==
    ASSUME Shape, NEW t \in Threads, StoreCap(t), SeenCap(thread[t].cap), ~thread[t].cap.passes
    PROVE  /\ thread[t].pc = "storeCap" /\ Moves(t) /\ thread'[t].pc = "marshal"
           /\ thread'[t].limit = thread[t].limit
           /\ SeenCap(cap') /\ cap'.used = thread[t].cap.used
           /\ Fresh(cap') <=> Fresh(thread[t].cap)
           /\ hist' \in HistStates /\ hist'.torn = hist.torn /\ hist'.lost = hist.lost
           /\ ~hist'.uncounted => /\ ~hist.uncounted
                                  /\ Fresh(cap) => Fresh(thread[t].cap) /\ cap.used <= thread[t].cap.used
                                  /\ thread[t].dirty => Fresh(cap)
           /\ UNCHANGED <<file, limit, client, server>>
<1>1. Typed /\ hist \in HistStates /\ hist.uncounted \in BOOLEAN /\ server.month \in Nat
  BY ShapeType, HistType
<1>2. Moves(t) /\ thread'[t].pc = "marshal" /\ thread'[t].limit = thread[t].limit
  BY <1>1, Went DEF StoreCap, Answered
<1> DEFINE c == thread[t].cap
<1>3. c \in Caps /\ c.month \in Nat /\ c.month <= server.month
  BY CapType DEF SeenCap, Seen
<1>4. PICK late \in {FALSE, c.month # server.month} : cap' = [c EXCEPT !.passes = late]
  BY DEF StoreCap
<1> DEFINE uncounted == hist.uncounted \/ Overwrites(c) \/ (thread[t].dirty /\ ~Fresh(cap))
<1>5. hist' = [hist EXCEPT !.uncounted = uncounted]
  BY DEF StoreCap
<1>6. uncounted \in BOOLEAN
  BY <1>1, ThreadType DEF Overwrites
<1>7. hist' \in HistStates /\ hist'.torn = hist.torn /\ hist'.lost = hist.lost /\ hist'.uncounted = uncounted
  <2> HIDE DEF uncounted
  <2>1. QED BY <1>1, <1>5, <1>6 DEF HistStates
<1>8. late \in BOOLEAN /\ (late => c.month # server.month)
  BY <1>4
<1>9. cap' \in Caps /\ cap'.used = c.used /\ cap'.month = c.month /\ cap'.passes = late
  <2> HIDE DEF c
  <2>1. ~c.passes
    BY DEF c
  <2>2. QED BY <1>3, <1>4, <1>8, <2>1, LateCap
<1>10. SeenCap(cap') /\ (Fresh(cap') <=> Fresh(c))
  BY <1>1, <1>3, <1>8, <1>9 DEF SeenCap, Seen, Fresh
<1>11. ~hist'.uncounted => /\ ~hist.uncounted
                           /\ Fresh(cap) => Fresh(c) /\ cap.used <= c.used
                           /\ thread[t].dirty => Fresh(cap)
  BY <1>7, Zenon DEF Overwrites
<1>12. thread[t].pc = "storeCap" /\ UNCHANGED <<file, limit, client, server>>
  BY DEF StoreCap
<1> HIDE DEF uncounted
<1>13. QED
  BY <1>2, <1>7, <1>9, <1>10, <1>11, <1>12

LEMMA MarshalStep ==
    ASSUME Shape, NEW t \in Threads, Marshal(t)
    PROVE  /\ thread[t].pc = "marshal" /\ Moves(t) /\ thread'[t].pc = "create"
           /\ thread'[t].cap = cap /\ thread'[t].limit = thread[t].limit
           /\ UNCHANGED <<cap, file, limit, client, server, hist>>
<1> DEFINE r == [thread[t] EXCEPT !.pc = "create", !.cap = cap, !.dirty = FALSE]
<1>1. Typed /\ cap \in Caps
  BY ShapeType
<1>2. thread' = [thread EXCEPT ![t] = r]
  BY DEF Marshal
<1>3. r \in ThreadStates /\ r.pc = "create" /\ r.cap = cap /\ r.limit = thread[t].limit
  BY <1>1, ThreadType DEF ThreadStates, Answered
<1> HIDE DEF r
<1>4. Moves(t) /\ thread'[t] = r
  BY <1>1, <1>2, <1>3, Assigned
<1>5. QED BY <1>3, <1>4 DEF Marshal

LEMMA CreateFileStep ==
    ASSUME Shape, NEW t \in Threads, CreateFile(t)
    PROVE  /\ thread[t].pc = "create" /\ Moves(t) /\ file' = Torn
           /\ thread'[t].pc = "write" /\ thread'[t].cap = thread[t].cap /\ thread'[t].dirty = thread[t].dirty
           /\ thread'[t].limit = thread[t].limit
           /\ UNCHANGED <<cap, limit, client, server, hist>>
<1> DEFINE r == [thread[t] EXCEPT !.pc = "write", !.mixed = FALSE]
<1>1. Typed
  BY ShapeType
<1>2. thread' = [thread EXCEPT ![t] = r]
  BY DEF CreateFile
<1>3. /\ r \in ThreadStates /\ r.pc = "write" /\ r.cap = thread[t].cap
      /\ r.dirty = thread[t].dirty /\ r.limit = thread[t].limit
  BY <1>1, ThreadType DEF ThreadStates, Answered
<1> HIDE DEF r
<1>4. Moves(t) /\ thread'[t] = r
  BY <1>1, <1>2, <1>3, Assigned
<1>5. QED BY <1>3, <1>4 DEF CreateFile

(* One that is to create or write the file knows that it was written.      *)
LEMMA WriteStep ==
    ASSUME Shape, NEW t \in Threads, WriteFile(t)
    PROVE  /\ thread[t].pc = "write" /\ Moves(t)
           /\ thread'[t].pc = "loadLimit" /\ thread'[t].limit = thread[t].limit
           /\ \A u \in Threads \ {t} : thread[u].pc \in {"create", "write"} => thread'[u].dirty
           /\ \/ /\ file' = thread[t].cap /\ hist'.torn = hist.torn
                 /\ ~hist'.uncounted => ~hist.uncounted /\ (thread[t].dirty => thread[t].cap = cap)
              \/ file' = Torn /\ hist'.torn /\ hist'.uncounted = hist.uncounted
           /\ hist' \in HistStates /\ hist'.lost = hist.lost
           /\ UNCHANGED <<cap, limit, client, server>>
<1>1. Typed /\ hist \in HistStates /\ hist.uncounted \in BOOLEAN
  BY ShapeType, HistType
<1> DEFINE next(u) == IF u = t THEN [thread[u] EXCEPT !.pc = "loadLimit"]
                      ELSE [thread[u] EXCEPT !.dirty = @ \/ thread[u].pc \in {"create", "write"},
                                             !.mixed = @ \/ thread[u].pc = "write"]
<1>2. thread' = [u \in Threads |-> next(u)]
  BY DEF WriteFile
<1>3. next(t) \in ThreadStates /\ next(t).pc = "loadLimit" /\ next(t).limit = thread[t].limit
  BY <1>1, ThreadType DEF ThreadStates, Answered
<1>4. ASSUME NEW u \in Threads \ {t}
      PROVE  /\ next(u) \in ThreadStates
             /\ next(u).pc = thread[u].pc /\ next(u).cap = thread[u].cap
             /\ next(u).limit = thread[u].limit /\ next(u).offset = thread[u].offset
             /\ thread[u].dirty \/ thread[u].pc \in {"create", "write"} => next(u).dirty
  <2> DEFINE dirty == thread[u].dirty \/ thread[u].pc \in {"create", "write"}
             mixed == thread[u].mixed \/ thread[u].pc = "write"
  <2>1. dirty \in BOOLEAN /\ mixed \in BOOLEAN /\ next(u) = [thread[u] EXCEPT !.dirty = dirty, !.mixed = mixed]
    BY <1>1, ThreadType
  <2> HIDE DEF dirty, mixed, next
  <2>2. thread[u] \in ThreadStates
    BY <1>1, ThreadType
  <2>3. /\ next(u) \in ThreadStates
        /\ next(u).pc = thread[u].pc /\ next(u).cap = thread[u].cap
        /\ next(u).limit = thread[u].limit /\ next(u).offset = thread[u].offset
        /\ next(u).dirty = dirty
    BY <2>1, <2>2 DEF ThreadStates
  <2>4. QED BY <2>3 DEF dirty
<1> HIDE DEF next
<1>5. Typed' /\ \A u \in Threads : thread'[u] = next(u)
  BY <1>2, <1>3, <1>4 DEF Typed
<1>6. /\ Moves(t) /\ thread'[t].pc = "loadLimit" /\ thread'[t].limit = thread[t].limit
      /\ \A u \in Threads \ {t} : thread[u].pc \in {"create", "write"} => thread'[u].dirty
  BY <1>3, <1>4, <1>5 DEF Moves
<1>7. CASE file' = thread[t].cap /\ hist' = [hist EXCEPT !.uncounted = @ \/ (thread[t].dirty /\ cap # thread[t].cap)]
  <2> DEFINE lost == hist.uncounted \/ (thread[t].dirty /\ cap # thread[t].cap)
  <2>1. lost \in BOOLEAN /\ hist' = [hist EXCEPT !.uncounted = lost]
    BY <1>1, <1>7, ThreadType
  <2>2. ~lost => ~hist.uncounted /\ (thread[t].dirty => thread[t].cap = cap)
    OBVIOUS
  <2> HIDE DEF lost
  <2>3. /\ hist' \in HistStates /\ hist'.torn = hist.torn /\ hist'.lost = hist.lost
        /\ hist'.uncounted = lost
    BY <1>1, <2>1 DEF HistStates
  <2>4. QED BY <1>6, <1>7, <2>2, <2>3 DEF WriteFile
<1>8. CASE file' = Torn /\ hist' = [hist EXCEPT !.torn = TRUE]
  <2>1. /\ hist' \in HistStates /\ hist'.torn /\ hist'.lost = hist.lost
        /\ hist'.uncounted = hist.uncounted
    BY <1>1, <1>8 DEF HistStates
  <2>2. QED BY <1>6, <1>8, <2>1 DEF WriteFile
<1>9. QED BY <1>7, <1>8 DEF WriteFile

LEMMA WriteFailsStep ==
    ASSUME Shape, NEW t \in Threads, WriteFails(t)
    PROVE  /\ thread[t].pc \in {"create", "write"} /\ Moves(t)
           /\ thread'[t].pc = "idle" /\ thread'[t].limit = None
           /\ hist' \in HistStates /\ hist'.uncounted /\ hist'.lost = Lost(t)
           /\ hist.torn \/ thread[t].pc = "write" => hist'.torn
           /\ UNCHANGED <<cap, file, limit, client, server>>
<1>1. Typed /\ hist.torn \in BOOLEAN /\ Lost(t) \in SUBSET Answers
  BY ShapeType, HistType
<1> DEFINE torn == hist.torn \/ thread[t].pc = "write"
<1>2. torn \in BOOLEAN /\ hist' = [uncounted |-> TRUE, torn |-> torn, lost |-> Lost(t)]
  BY <1>1 DEF WriteFails
<1>3. hist' \in HistStates /\ hist'.uncounted /\ hist'.torn = torn /\ hist'.lost = Lost(t)
  <2> HIDE DEF torn
  <2>1. QED BY <1>1, <1>2 DEF HistStates
<1>4. Moves(t) /\ thread'[t].pc = "idle" /\ thread'[t].limit = None
  BY <1>1, Returned DEF WriteFails
<1>5. QED BY <1>3, <1>4 DEF WriteFails

LEMMA LoadLimitStep ==
    ASSUME Shape, NEW t \in Threads, LoadLimit(t)
    PROVE  /\ thread[t].pc = "loadLimit" /\ Moves(t) /\ thread'[t].pc = "storeLimit"
           /\ thread'[t].limit = thread[t].limit
           /\ UNCHANGED <<cap, file, limit, client, server, hist>>
<1> DEFINE r == [thread[t] EXCEPT !.pc = "storeLimit", !.seen = limit]
<1>1. Typed /\ limit \in Limits \cup {None}
  BY DEF Shape, Typed, KnownLimit
<1>2. thread' = [thread EXCEPT ![t] = r]
  BY DEF LoadLimit
<1>3. r \in ThreadStates /\ r.pc = "storeLimit" /\ r.limit = thread[t].limit
  BY <1>1, ThreadType DEF ThreadStates, Answered
<1> HIDE DEF r
<1>4. Moves(t) /\ thread'[t] = r
  BY <1>1, <1>2, <1>3, Assigned
<1>5. QED BY <1>3, <1>4 DEF LoadLimit

(* The answers that are not in the limit any more are lost.                *)
Dropped(t) ==
    {v \in Answers : /\ thread[t].seen # limit /\ ~Knows(limit', v)
                     /\ Knows(limit, v) \/ thread[t].limit = Answer(v)}

LEMMA StoreLimitStep ==
    ASSUME Shape, NEW t \in Threads, StoreLimit(t)
    PROVE  /\ thread[t].pc = "storeLimit" /\ Moves(t)
           /\ thread'[t].pc \in {"idle", "check"} /\ thread'[t].limit = None
           /\ limit' = IF Newer(thread[t].limit, thread[t].seen) THEN thread[t].limit ELSE limit
           /\ hist' \in HistStates /\ hist'.uncounted = hist.uncounted /\ hist'.torn = hist.torn
           /\ hist'.lost = hist.lost \cup Dropped(t)
           /\ UNCHANGED <<cap, file, client, server>>
<1>1. Typed /\ hist \in HistStates /\ hist.lost \in SUBSET Answers
  BY ShapeType, HistType
<1> DEFINE left == IF thread[t].left > MaxResources THEN thread[t].left - MaxResources ELSE 0
           b == [Idle EXCEPT !.pc = "check", !.left = left, !.offset = Offset(left)]
<1>2. left \in Nat
  BY <1>1, ThreadType, Amounts
<1>3. Return(t) \/ thread' = [thread EXCEPT ![t] = b]
  BY DEF StoreLimit
<1> HIDE DEF left
<1>4. b \in ThreadStates /\ b.pc = "check" /\ b.limit = None
  BY <1>2, BegunType
<1> HIDE DEF b
<1>5. Moves(t) /\ thread'[t].pc \in {"idle", "check"} /\ thread'[t].limit = None
  BY <1>1, <1>3, <1>4, Assigned, Returned
<1> DEFINE lost == hist.lost \cup Dropped(t)
<1>6. hist' = [hist EXCEPT !.lost = lost]
  BY DEF StoreLimit, Dropped
<1>7. lost \in SUBSET Answers
  BY <1>1 DEF Dropped
<1>8. hist' \in HistStates /\ hist'.uncounted = hist.uncounted /\ hist'.torn = hist.torn /\ hist'.lost = lost
  <2> HIDE DEF lost
  <2>1. QED BY <1>1, <1>6, <1>7 DEF HistStates
<1>9. QED BY <1>5, <1>8 DEF StoreLimit

LEMMA PeriodStep ==
    ASSUME Shape, NewPeriod
    PROVE  /\ server' \in ServerStates
           /\ server'.month = server.month /\ server'.pulled = server.pulled
           /\ server'.period = server.period + 1 /\ server'.requests = Requests
           /\ hist' \in HistStates /\ hist'.uncounted = hist.uncounted /\ hist'.torn = hist.torn
           /\ UNCHANGED <<cap, file, limit, thread, client>>
<1>1. /\ server' = [server EXCEPT !.period = server.period + 1, !.requests = Requests]
      /\ server \in ServerStates /\ server.period + 1 \in Nat /\ Requests \in 0 .. Requests
  BY ShapeType, Amounts DEF NewPeriod
<1>2. /\ server' \in ServerStates
      /\ server'.month = server.month /\ server'.pulled = server.pulled
      /\ server'.period = server.period + 1 /\ server'.requests = Requests
  BY <1>1 DEF ServerStates
<1>3. hist' \in HistStates /\ hist'.uncounted = hist.uncounted /\ hist'.torn = hist.torn
  BY ShapeType DEF NewPeriod, HistStates
<1>4. QED BY <1>2, <1>3 DEF NewPeriod

LEMMA MonthStep ==
    ASSUME Shape, NewMonth
    PROVE  /\ server' \in ServerStates
           /\ server'.month = server.month + 1 /\ server'.pulled = 0
           /\ server'.period = server.period /\ server'.requests = server.requests
           /\ UNCHANGED <<cap, file, limit, thread, client, hist>>
<1>1. /\ server' = [server EXCEPT !.month = server.month + 1, !.pulled = 0]
      /\ server \in ServerStates /\ server.month + 1 \in Nat /\ 0 \in Nat
  BY ShapeType DEF NewMonth
<1>2. /\ server' \in ServerStates
      /\ server'.month = server.month + 1 /\ server'.pulled = 0
      /\ server'.period = server.period /\ server'.requests = server.requests
  BY <1>1 DEF ServerStates
<1>3. QED BY <1>2 DEF NewMonth

LEMMA CrashStep ==
    ASSUME Shape, Crash
    PROVE  /\ client = "up" /\ client' = "down" /\ Typed'
           /\ \A t \in Threads : thread'[t].pc = "idle" /\ thread'[t].limit = None
           /\ hist' \in HistStates /\ hist'.lost = Answers
           /\ ~hist'.uncounted => ~hist.uncounted /\ \A t \in Threads : thread[t].pc \notin Unwritten
           /\ hist.torn \/ (\E t \in Threads : thread[t].pc = "write") => hist'.torn
           /\ UNCHANGED <<cap, file, limit, server>>
<1>1. hist.uncounted \in BOOLEAN /\ hist.torn \in BOOLEAN
  BY ShapeType, HistType
<1>2. Typed' /\ \A t \in Threads : thread'[t].pc = "idle" /\ thread'[t].limit = None
  BY IdleType DEF Crash, Typed
<1> DEFINE lost == hist.uncounted \/ \E t \in Threads : thread[t].pc \in Unwritten
           torn == hist.torn \/ \E t \in Threads : thread[t].pc = "write"
<1>3. lost \in BOOLEAN /\ torn \in BOOLEAN /\ hist' = [uncounted |-> lost, torn |-> torn, lost |-> Answers]
  BY <1>1 DEF Crash
<1>4. hist' \in HistStates /\ hist'.uncounted = lost /\ hist'.torn = torn /\ hist'.lost = Answers
  <2> HIDE DEF lost, torn
  <2>1. QED BY <1>3 DEF HistStates
<1>5. QED BY <1>2, <1>4 DEF Crash

(* The file holds what is in memory, or there is nothing to be read in it. *)
LEMMA CreateStep ==
    ASSUME Shape, Create
    PROVE  /\ client = "down" /\ limit' = None
           /\ \/ client' = "refused" /\ UNCHANGED <<cap, file, hist>>
              \/ /\ file # Torn /\ client' = "up" /\ file' = cap' /\ UNCHANGED hist
                 /\ cap' = IF CheckFresh(file) THEN file ELSE CapOf(server.pulled, server.month)
              \/ /\ client' = "down" /\ UNCHANGED cap /\ (file' = file \/ file' = Torn)
                 /\ hist'.uncounted = hist.uncounted /\ hist'.lost = hist.lost
                 /\ hist.torn \/ file' = Torn => hist'.torn
           /\ hist' \in HistStates
           /\ UNCHANGED <<thread, server>>
<1>1. hist \in HistStates /\ hist.torn \in BOOLEAN
  BY ShapeType, HistType
<1>2. CASE client' # client
  <2>1. UNCHANGED hist
    BY <1>2 DEF Create
  <2>2. QED BY <1>1, <1>2, <2>1, Zenon DEF Create
<1>3. CASE /\ client' = client /\ UNCHANGED cap /\ file' \in {file, Torn}
           /\ hist' = [hist EXCEPT !.torn = @ \/ file' = Torn]
  <2> DEFINE torn == hist.torn \/ file' = Torn
  <2>1. torn \in BOOLEAN /\ hist' = [hist EXCEPT !.torn = torn]
    BY <1>1, <1>3
  <2>2. hist.torn \/ file' = Torn => torn
    OBVIOUS
  <2> HIDE DEF torn
  <2>3. hist' \in HistStates /\ hist'.uncounted = hist.uncounted /\ hist'.lost = hist.lost /\ hist'.torn = torn
    BY <1>1, <2>1 DEF HistStates
  <2>4. QED BY <1>3, <2>2, <2>3 DEF Create
<1>4. QED BY <1>2, <1>3 DEF Create

-----------------------------------------------------------------------------
(* Types.                                                                  *)

LEMMA StillSeen ==
    ASSUME Shape, NEW m \in Nat, server.month <= m
    PROVE  \A c : SeenCap(c) => c.month <= m /\ (c.passes => c.month < m)
<1> SUFFICES ASSUME NEW c, SeenCap(c) PROVE c.month <= m /\ (c.passes => c.month < m)
  OBVIOUS
<1>1. c.month \in Nat /\ server.month \in Nat
  BY ShapeType, CapType DEF SeenCap
<1>2. QED BY <1>1 DEF SeenCap, Seen

LEMMA NextShape == ASSUME Inv, [Next]_vars PROVE Shape'
<1>0. /\ Shape /\ Steps /\ Typed /\ SeenCap(cap) /\ (file = Torn \/ SeenCap(file))
      /\ limit = None \/ KnownLimit(limit)
      /\ client \in {"up", "down", "refused"}
      /\ server \in ServerStates /\ hist \in HistStates /\ server.month \in Nat /\ server.pulled \in Nat
  BY ShapeType DEF Inv, Shape
<1>1. CASE UNCHANGED vars
  BY <1>0, <1>1 DEF Shape, Typed, vars, SeenCap, Seen, KnownLimit
<1>2. ASSUME NEW t \in Threads, client = "up", ExecuteBinding(t) PROVE Shape'
  <2>0. Step(t)
    BY <1>0 DEF Steps
  <2>q. ASSUME Typed', UNCHANGED <<limit, client>>, server' \in ServerStates, hist' \in HistStates,
               server'.month = server.month, server'.period = server.period,
               SeenCap(cap'), file' = Torn \/ SeenCap(file')
        PROVE  Shape'
    BY <1>0, <2>q DEF Shape, Typed, SeenCap, Seen, KnownLimit
  <2>1. CASE Begin(t)
    BY <1>0, <2>1, <2>q, BeginStep DEF Moves
  <2>2. CASE CheckRateLimit(t)
    BY <1>0, <2>2, <2>q, CheckStep DEF Moves
  <2>3. CASE Request(t)
    <3>1. /\ Moves(t) /\ UNCHANGED <<cap, file, limit, client, hist>> /\ server' \in ServerStates
          /\ server'.month = server.month /\ server'.period = server.period
      BY <1>0, <2>3, RequestStep
    <3>2. QED BY <1>0, <3>1, <2>q DEF Moves
  <2>4. CASE AnswerIsError(t)
    BY <1>0, <2>4, <2>q, ErrorStep DEF Moves
  <2>5. CASE ReadCap(t)
    BY <1>0, <2>5, <2>q, ReadCapStep DEF Moves
  <2>6. CASE SetTweetCap(t)
    <3>1. /\ Moves(t) /\ UNCHANGED <<file, limit, client, server>> /\ thread[t].pc = "setCap"
          /\ cap' = thread[t].cap /\ hist' \in HistStates
      BY <1>0, <2>6, SetStep
    <3>2. SeenCap(cap')
      BY <2>0, <3>1 DEF Step, Holding
    <3>3. QED BY <1>0, <3>1, <3>2, <2>q DEF Moves
  <2>7. CASE ReadFile(t)
    BY <1>0, <2>7, <2>q, ReadFileStep DEF Moves
  <2>8. CASE Parse(t)
    <3>1. /\ Moves(t) /\ UNCHANGED <<file, limit, client, server>> /\ thread[t].pc = "parse"
          /\ hist' \in HistStates
          /\ (thread[t].cap = Torn /\ cap' = ZeroCap) \/ (thread[t].cap # Torn /\ cap' = thread[t].cap)
      BY <1>0, <2>8, ParseStep
    <3>2. SeenCap(cap')
      <4>1. CASE cap' = ZeroCap
        <5>1. server.month > 0
          BY <2>0, <3>1 DEF Step, InGetTweetCap
        <5>2. QED BY <1>0, <4>1, <5>1, ZeroCapType DEF SeenCap, Seen
      <4>2. CASE thread[t].cap # Torn /\ cap' = thread[t].cap
        BY <2>0, <3>1, <4>2 DEF Step
      <4>3. QED BY <3>1, <4>1, <4>2
    <3>3. QED BY <1>0, <3>1, <3>2, <2>q DEF Moves
  <2>9. CASE IsFresh(t)
    BY <1>0, <2>9, <2>q, IsFreshStep DEF Moves
  <2>10. CASE FetchFromWeb(t)
    BY <1>0, <2>10, <2>q, FetchStep DEF Moves
  <2>11. CASE StoreCap(t)
    BY <1>0, <2>11, <2>q, StoreCapStep, StoreCapHolds DEF Moves
  <2>12. CASE Marshal(t)
    BY <1>0, <2>12, <2>q, MarshalStep DEF Moves
  <2>13. CASE CreateFile(t)
    BY <1>0, <2>13, <2>q, CreateFileStep DEF Moves
  <2>14. CASE WriteFile(t)
    <3>1. /\ Moves(t) /\ UNCHANGED <<cap, limit, client, server>> /\ thread[t].pc = "write"
          /\ hist' \in HistStates /\ (file' = Torn \/ file' = thread[t].cap)
      BY <1>0, <2>14, WriteStep
    <3>2. SeenCap(thread[t].cap)
      BY <2>0, <3>1 DEF Step, Holding
    <3>3. QED BY <1>0, <3>1, <3>2, <2>q DEF Moves
  <2>15. CASE WriteFails(t)
    BY <1>0, <2>15, <2>q, WriteFailsStep DEF Moves
  <2>16. CASE LoadLimit(t)
    BY <1>0, <2>16, <2>q, LoadLimitStep DEF Moves
  <2>17. CASE StoreLimit(t)
    <3>1. /\ Moves(t) /\ UNCHANGED <<cap, file, client, server>> /\ thread[t].pc = "storeLimit"
          /\ hist' \in HistStates /\ (limit' = limit \/ limit' = thread[t].limit)
      BY <1>0, <2>17, StoreLimitStep
    <3>2. KnownLimit(thread[t].limit)
      BY <2>0, <3>1 DEF Step, Answered
    <3>3. limit' = None \/ KnownLimit(limit')
      BY <1>0, <3>1, <3>2
    <3>4. QED BY <1>0, <3>1, <3>3 DEF Shape, Typed, Moves, SeenCap, Seen, KnownLimit
  <2>18. QED
    BY <1>2, <2>1, <2>2, <2>3, <2>4, <2>5, <2>6, <2>7, <2>8, <2>9, <2>10, <2>11, <2>12, <2>13, <2>14, <2>15,
       <2>16, <2>17 DEF ExecuteBinding
<1>3. CASE NewPeriod
  <2>1. /\ server' \in ServerStates /\ server'.month = server.month /\ server'.period = server.period + 1
        /\ hist' \in HistStates /\ server.period \in Nat
        /\ UNCHANGED <<cap, file, limit, thread, client>>
    BY <1>0, <1>3, PeriodStep, ShapeType
  <2>2. limit' = None \/ KnownLimit(limit)'
    BY <1>0, <2>1, LimitType DEF KnownLimit
  <2>3. QED BY <1>0, <2>1, <2>2 DEF Shape, Typed, SeenCap, Seen
<1>4. CASE NewMonth
  <2>1. /\ server' \in ServerStates /\ server'.month = server.month + 1 /\ server'.period = server.period
        /\ UNCHANGED <<cap, file, limit, thread, client, hist>>
    BY <1>0, <1>4, MonthStep
  <2>2. server'.month \in Nat /\ server.month <= server'.month
    BY <1>0, <2>1
  <2>3. SeenCap(cap)' /\ (file' = Torn \/ SeenCap(file)')
    BY <1>0, <2>1, <2>2, StillSeen DEF SeenCap, Seen
  <2>4. QED BY <1>0, <2>1, <2>3 DEF Shape, Typed, KnownLimit
<1>5. CASE Crash
  BY <1>0, <1>5, CrashStep DEF Shape, Typed, SeenCap, Seen, KnownLimit
<1>6. CASE Create
  <2>1. /\ UNCHANGED <<thread, server>> /\ limit' = None /\ client' \in {"up", "down", "refused"}
        /\ hist' \in HistStates
        /\ \/ UNCHANGED cap /\ file' \in {file, Torn}
           \/ /\ file' = cap' /\ file # Torn
              /\ \/ cap' = file
                 \/ cap' = CapOf(server.pulled, server.month)
    BY <1>0, <1>6, CreateStep
  <2>2. SeenCap(CapOf(server.pulled, server.month))
    BY <1>0, FetchedCap DEF SeenCap, Seen
  <2>3. SeenCap(cap') /\ (file' = Torn \/ SeenCap(file'))
    BY <1>0, <2>1, <2>2
  <2>4. QED BY <1>0, <2>1, <2>3 DEF Shape, Typed, SeenCap, Seen
<1>7. QED
  BY <1>1, <1>2, <1>3, <1>4, <1>5, <1>6 DEF Inv, Next

LEMMA NextSteps == ASSUME Inv, [Next]_vars PROVE Steps'
<1>0. Shape /\ Steps /\ Typed /\ server.month \in Nat
  BY ShapeType DEF Inv
<1>1. CASE UNCHANGED vars
  BY <1>0, <1>1 DEF Steps, Step, vars, SeenCap, Seen, KnownLimit
<1>2. ASSUME NEW t \in Threads, client = "up", ExecuteBinding(t) PROVE Steps'
  <2>0. Step(t) /\ client = "up" /\ \A u \in Threads \ {t} : Step(u)
    BY <1>0, <1>2 DEF Steps
  <2>q. ASSUME Step(t)', Moves(t), UNCHANGED client,
               server'.month = server.month, server'.period = server.period
        PROVE  Steps'
    <3>1. ASSUME NEW u \in Threads \ {t} PROVE Step(u)'
      <4>1. /\ thread'[u].pc = thread[u].pc /\ thread'[u].cap = thread[u].cap
            /\ thread'[u].limit = thread[u].limit /\ Step(u)
        BY <2>0, <2>q, <3>1 DEF Moves
      <4>2. QED BY <2>q, <4>1 DEF Step, SeenCap, Seen, KnownLimit
    <3>2. QED BY <2>q, <3>1 DEF Steps
  <2>i. ASSUME thread'[t].pc \in {"idle", "check", "request"}, thread'[t].limit = None, UNCHANGED client
        PROVE  Step(t)'
    BY <2>0, <2>i DEF Step, Answered, Holding, InGetTweetCap
  <2>l. ASSUME thread'[t].pc \in {"marshal", "loadLimit", "storeLimit"}, thread[t].pc \in Answered,
               thread'[t].limit = thread[t].limit, UNCHANGED client, server'.period = server.period
        PROVE  Step(t)'
    BY <2>0, <2>l DEF Step, Answered, Holding, InGetTweetCap, KnownLimit
  <2>h. ASSUME thread'[t].pc \in {"setCap", "create", "write"}, thread[t].pc \in Answered,
               thread'[t].limit = thread[t].limit, UNCHANGED <<client, server>>, SeenCap(thread'[t].cap)
        PROVE  Step(t)'
    BY <2>0, <2>h DEF Step, Answered, Holding, InGetTweetCap, KnownLimit, SeenCap, Seen
  <2>1. CASE Begin(t)
    BY <1>0, <2>1, <2>q, <2>i, BeginStep
  <2>2. CASE CheckRateLimit(t)
    <3>1. thread[t].limit = None
      BY <2>0, <2>2 DEF Step, Answered, CheckRateLimit
    <3>2. QED BY <1>0, <2>2, <3>1, <2>q, <2>i, CheckStep
  <2>3. CASE Request(t)
    <3>1. CASE thread'[t].pc = "idle"
      BY <1>0, <2>3, <3>1, <2>q, <2>i, RequestStep
    <3>2. CASE thread'[t].pc # "idle"
      <4>1. /\ Moves(t) /\ thread'[t].pc = "readCap" /\ UNCHANGED client
            /\ server'.month = server.month /\ server'.period = server.period
            /\ server.requests - 1 \in Answers /\ thread'[t].limit = Answer(server.requests - 1)
        BY <1>0, <2>3, <3>2, RequestStep
      <4>2. thread'[t].limit \in Limits /\ thread'[t].limit.period = server.period
        BY <1>0, <4>1, AnswerType, ShapeType
      <4>3. Step(t)'
        BY <1>0, <2>0, <4>1, <4>2, ShapeType DEF Step, Answered, Holding, InGetTweetCap, KnownLimit
      <4>4. QED BY <2>q, <4>1, <4>3
    <3>3. QED BY <3>1, <3>2
  <2>4. CASE AnswerIsError(t)
    BY <1>0, <2>4, <2>q, <2>i, ErrorStep
  <2>5. CASE ReadCap(t)
    <3>1. thread[t].offset \in Nat /\ SeenCap(cap)
      BY <1>0, ThreadType DEF Shape
    <3>2. SeenCap(thread'[t].cap)
      BY <3>1, <2>5, <1>0, ReadCapStep, DrawnCap DEF SeenCap, Seen
    <3>3. QED BY <1>0, <2>5, <3>2, <2>q, <2>h, ReadCapStep DEF Answered
  <2>6. CASE SetTweetCap(t)
    <3>1. /\ Moves(t) /\ UNCHANGED <<client, server>> /\ thread[t].pc = "setCap"
          /\ thread'[t].pc = IF CheckFresh(thread[t].cap) THEN "marshal" ELSE "readFile"
          /\ thread'[t].limit = thread[t].limit
      BY <1>0, <2>6, SetStep
    <3>2. CASE CheckFresh(thread[t].cap)
      BY <2>q, <2>l, <3>1, <3>2 DEF Answered
    <3>3. CASE ~CheckFresh(thread[t].cap)
      <4>1. SeenCap(thread[t].cap) /\ KnownLimit(thread[t].limit)
        BY <2>0, <3>1 DEF Step, Holding, Answered
      <4>2. server.month > 0
        BY <1>0, <3>3, <4>1, CapType DEF SeenCap, Seen, CheckFresh
      <4>3. Step(t)'
        BY <2>0, <3>1, <3>3, <4>1, <4>2 DEF Step, Answered, Holding, InGetTweetCap, KnownLimit
      <4>4. QED BY <2>q, <3>1, <4>3
    <3>4. QED BY <3>2, <3>3
  <2>7. CASE ReadFile(t)
    <3>1. /\ Moves(t) /\ UNCHANGED <<file, client, server>> /\ thread[t].pc = "readFile"
          /\ thread'[t].pc = "parse" /\ thread'[t].cap = file /\ thread'[t].limit = thread[t].limit
      BY <1>0, <2>7, ReadFileStep
    <3>2. (file = Torn \/ SeenCap(file)) /\ server.month > 0 /\ KnownLimit(thread[t].limit)
      BY <1>0, <2>0, <3>1 DEF Shape, Step, InGetTweetCap, Answered
    <3>3. Step(t)'
      BY <2>0, <3>1, <3>2 DEF Step, Answered, Holding, InGetTweetCap, KnownLimit, SeenCap, Seen
    <3>4. QED BY <2>q, <3>1, <3>3
  <2>8. CASE Parse(t)
    <3>1. CASE thread'[t].pc = "idle"
      BY <1>0, <2>8, <3>1, <2>q, <2>i, ParseStep
    <3>2. CASE thread'[t].pc # "idle"
      <4>1. /\ Moves(t) /\ UNCHANGED <<client, server>> /\ thread[t].pc = "parse"
            /\ thread'[t].pc = "isFresh" /\ thread'[t].limit = thread[t].limit
        BY <1>0, <2>8, <3>2, ParseStep
      <4>2. server.month > 0 /\ KnownLimit(thread[t].limit)
        BY <2>0, <4>1 DEF Step, InGetTweetCap, Answered
      <4>3. Step(t)'
        BY <2>0, <4>1, <4>2 DEF Step, Answered, Holding, InGetTweetCap, KnownLimit
      <4>4. QED BY <2>q, <4>1, <4>3
    <3>3. QED BY <3>1, <3>2
  <2>9. CASE IsFresh(t)
    <3>1. /\ Moves(t) /\ UNCHANGED <<client, server>> /\ thread[t].pc = "isFresh"
          /\ thread'[t].pc \in {"loadLimit", "fetch"} /\ thread'[t].limit = thread[t].limit
      BY <1>0, <2>9, IsFreshStep
    <3>2. server.month > 0 /\ KnownLimit(thread[t].limit)
      BY <2>0, <3>1 DEF Step, InGetTweetCap, Answered
    <3>3. Step(t)'
      BY <2>0, <3>1, <3>2 DEF Step, Answered, Holding, InGetTweetCap, KnownLimit
    <3>4. QED BY <2>q, <3>1, <3>3
  <2>10. CASE FetchFromWeb(t)
    <3>1. CASE thread'[t].pc = "idle"
      BY <1>0, <2>10, <3>1, <2>q, <2>i, FetchStep
    <3>2. CASE thread'[t].pc # "idle"
      <4>1. /\ Moves(t) /\ UNCHANGED <<client, server>> /\ thread[t].pc = "fetch"
            /\ thread'[t].pc = "storeCap" /\ thread'[t].limit = thread[t].limit
            /\ thread'[t].cap = CapOf(server.pulled, server.month)
        BY <1>0, <2>10, <3>2, FetchStep
      <4>2. server.month > 0 /\ KnownLimit(thread[t].limit)
        BY <2>0, <4>1 DEF Step, InGetTweetCap, Answered
      <4>3. SeenCap(thread'[t].cap) /\ ~thread'[t].cap.passes
        BY <1>0, <4>1, FetchedCap, ShapeType DEF SeenCap, Seen
      <4>4. Step(t)'
        BY <2>0, <4>1, <4>2, <4>3 DEF Step, Answered, Holding, InGetTweetCap, KnownLimit, SeenCap, Seen
      <4>5. QED BY <2>q, <4>1, <4>4
    <3>3. QED BY <3>1, <3>2
  <2>11. CASE StoreCap(t)
    BY <1>0, <2>11, <2>q, <2>l, StoreCapStep, StoreCapHolds DEF Answered
  <2>12. CASE Marshal(t)
    <3>1. SeenCap(cap)
      BY <1>0 DEF Shape
    <3>2. QED BY <1>0, <2>12, <3>1, <2>q, <2>h, MarshalStep DEF Answered
  <2>13. CASE CreateFile(t)
    <3>1. SeenCap(thread[t].cap)
      BY <2>0, <2>13 DEF Step, Holding, CreateFile
    <3>2. QED BY <1>0, <2>13, <3>1, <2>q, <2>h, CreateFileStep DEF Answered
  <2>14. CASE WriteFile(t)
    BY <1>0, <2>14, <2>q, <2>l, WriteStep DEF Answered
  <2>15. CASE WriteFails(t)
    BY <1>0, <2>15, <2>q, <2>i, WriteFailsStep
  <2>16. CASE LoadLimit(t)
    BY <1>0, <2>16, <2>q, <2>l, LoadLimitStep DEF Answered
  <2>17. CASE StoreLimit(t)
    BY <1>0, <2>17, <2>q, <2>i, StoreLimitStep
  <2>18. QED
    BY <1>2, <2>1, <2>2, <2>3, <2>4, <2>5, <2>6, <2>7, <2>8, <2>9, <2>10, <2>11, <2>12, <2>13, <2>14, <2>15,
       <2>16, <2>17 DEF ExecuteBinding
<1>3. CASE NewPeriod
  <2>1. /\ server'.month = server.month /\ server'.period = server.period + 1 /\ server.period \in Nat
        /\ UNCHANGED <<cap, file, limit, thread, client>>
    BY <1>0, <1>3, PeriodStep, ShapeType
  <2>2. \A l : KnownLimit(l) => l.period <= server'.period
    BY <2>1, LimitType DEF KnownLimit
  <2>3. QED BY <1>0, <2>1, <2>2 DEF Steps, Step, SeenCap, Seen, KnownLimit
<1>4. CASE NewMonth
  <2>1. /\ server'.month = server.month + 1 /\ server'.period = server.period
        /\ UNCHANGED <<cap, file, limit, thread, client, hist>>
    BY <1>0, <1>4, MonthStep
  <2>2. server'.month \in Nat /\ server.month <= server'.month /\ server'.month > 0
    BY <1>0, <2>1
  <2>3. \A c : SeenCap(c) => c.month <= server'.month /\ (c.passes => c.month < server'.month)
    BY <1>0, <2>2, StillSeen
  <2>4. QED BY <1>0, <2>1, <2>2, <2>3 DEF Steps, Step, KnownLimit, SeenCap, Seen
<1>5. CASE Crash
  BY <1>0, <1>5, CrashStep DEF Steps, Step, Answered, Holding, InGetTweetCap
<1>6. CASE Create
  <2>1. UNCHANGED <<thread, server>> /\ client # "up"
    BY <1>0, <1>6, CreateStep
  <2>2. \A u \in Threads : thread'[u].pc = "idle" /\ thread'[u].limit = None
    BY <1>0, <2>1 DEF Steps, Step, Answered
  <2>3. QED BY <2>2 DEF Steps, Step, Answered, Holding, InGetTweetCap
<1>7. QED
  BY <1>1, <1>2, <1>3, <1>4, <1>5, <1>6 DEF Next

-----------------------------------------------------------------------------
(* The tweets that are asked for and not counted yet, as pairs, so that    *)
(* their number is a cardinality.                                          *)

LEMMA PairsFinite ==
    ASSUME NEW A \in SUBSET (Threads \X (1 .. MaxResources))
    PROVE  IsFiniteSet(A) /\ Cardinality(A) \in Nat
<1>1. IsFiniteSet(1 .. MaxResources)
  BY Amounts, FS_Interval
<1>2. IsFiniteSet(Threads \X (1 .. MaxResources))
  BY <1>1, Amounts, FS_Product
<1>3. IsFiniteSet(A)
  BY <1>2, FS_Subset
<1>4. QED
  BY <1>3, FS_CardinalityType

LEMMA AskedFinite ==
    /\ IsFiniteSet(Asked) /\ Cardinality(Asked) \in Nat
    /\ IsFiniteSet(Asked') /\ Cardinality(Asked') \in Nat
<1>1. Asked \in SUBSET (Threads \X (1 .. MaxResources)) /\ Asked' \in SUBSET (Threads \X (1 .. MaxResources))
  BY DEF Asked
<1>2. QED BY <1>1, PairsFinite

(* All goroutines that count together ask for at most MaxResources each.   *)
LEMMA AskedBound ==
    ASSUME Shape
    PROVE  Cardinality(Asked) <= MaxResources * Cardinality({t \in Threads : Counting(t)})
<1> DEFINE C == {t \in Threads : Counting(t)}
<1>1. IsFiniteSet(1 .. MaxResources) /\ Cardinality(1 .. MaxResources) = MaxResources
  BY Amounts, FS_Interval
<1>2. C \in SUBSET Threads
  OBVIOUS
<1>3. IsFiniteSet(C) /\ Cardinality(C) \in Nat
  BY <1>2, Amounts, FS_Subset, FS_CardinalityType
<1>4. Asked \in SUBSET (C \X (1 .. MaxResources))
  BY DEF Asked
<1> HIDE DEF C
<1>5. /\ IsFiniteSet(C \X (1 .. MaxResources))
      /\ Cardinality(C \X (1 .. MaxResources)) = Cardinality(C) * Cardinality(1 .. MaxResources)
  BY <1>1, <1>3, FS_Product
<1>6. Cardinality(Asked) <= Cardinality(C \X (1 .. MaxResources))
  BY <1>4, <1>5, FS_Subset
<1>7. Cardinality(C \X (1 .. MaxResources)) = MaxResources * Cardinality(C)
  BY <1>1, <1>3, <1>5, Amounts
<1>8. Cardinality(Asked) <= MaxResources * Cardinality(C)
  BY <1>6, <1>7
<1>9. QED BY <1>8 DEF C

LEMMA OfOne ==
    ASSUME NEW t, NEW n \in Nat
    PROVE  IsFiniteSet({t} \X (1 .. n)) /\ Cardinality({t} \X (1 .. n)) = n
<1>1. IsFiniteSet(1 .. n) /\ Cardinality(1 .. n) = n
  BY FS_Interval
<1>2. IsFiniteSet({t}) /\ Cardinality({t}) = 1
  BY FS_Singleton
<1>3. QED BY <1>1, <1>2, FS_Product

LEMMA Together ==
    ASSUME NEW S, NEW T, IsFiniteSet(S), IsFiniteSet(T), S \cap T = {}
    PROVE  Cardinality(S \cup T) = Cardinality(S) + Cardinality(T)
<1>1. Cardinality(S \cap T) = 0 /\ Cardinality(S) \in Nat /\ Cardinality(T) \in Nat
  BY FS_EmptySet, FS_CardinalityType
<1>2. Cardinality(S \cup T) = Cardinality(S) + Cardinality(T) - Cardinality(S \cap T)
  BY FS_Union
<1>3. QED BY <1>1, <1>2

(* Asked keeps, gains or loses the pairs of one goroutine.                 *)
LEMMA AskedKept ==
    ASSUME Shape, NEW t \in Threads, Moves(t),
           Counting(t)' <=> Counting(t), Counting(t) => thread'[t].offset = thread[t].offset
    PROVE  Asked' = Asked
  BY DEF Asked, Moves, Counting

LEMMA AskedGains ==
    ASSUME Shape, Shape', NEW t \in Threads, Moves(t), ~Counting(t), Counting(t)',
           thread'[t].offset = thread[t].offset
    PROVE  Cardinality(Asked)' = Cardinality(Asked) + thread[t].offset
<1> DEFINE n == thread[t].offset
           P == {t} \X (1 .. n)
<1>1. n \in Nat /\ n <= MaxResources
  BY ThreadType, Amounts DEF Shape, Typed
<1>2. Asked' = Asked \cup P /\ Asked \cap P = {}
  BY <1>1, Amounts DEF Asked, Moves, Counting
<1>3. IsFiniteSet(P) /\ Cardinality(P) = n
  BY <1>1, OfOne
<1> HIDE DEF P, n
<1>4. Cardinality(Asked \cup P) = Cardinality(Asked) + n
  BY <1>2, <1>3, AskedFinite, Together
<1>5. QED BY <1>2, <1>4 DEF n

LEMMA AskedLoses ==
    ASSUME Shape, Shape', NEW t \in Threads, Moves(t), Counting(t), ~Counting(t)'
    PROVE  Cardinality(Asked) = Cardinality(Asked)' + thread[t].offset
<1> DEFINE n == thread[t].offset
           P == {t} \X (1 .. n)
<1>1. n \in Nat /\ n <= MaxResources
  BY ThreadType, Amounts DEF Shape, Typed
<1>2. Asked = Asked' \cup P /\ Asked' \cap P = {}
  BY <1>1, Amounts DEF Asked, Moves, Counting
<1>3. IsFiniteSet(P) /\ Cardinality(P) = n
  BY <1>1, OfOne
<1>4. IsFiniteSet(Asked')
  BY AskedFinite
<1> DEFINE A == Asked'
<1> HIDE DEF P, n, A
<1>5. Cardinality(A \cup P) = Cardinality(A) + n
  BY <1>2, <1>3, <1>4, Together DEF A
<1>6. QED BY <1>2, <1>5 DEF n, A

-----------------------------------------------------------------------------
(* The file, and the counts while none is lost.                            *)

LEMMA NextCapOnDisk == ASSUME Inv, [Next]_vars PROVE CapOnDisk'
<1>0. Shape /\ Steps /\ CapOnDisk /\ Typed
  BY ShapeType DEF Inv
<1>1. CASE UNCHANGED vars
  BY <1>0, <1>1 DEF CapOnDisk, vars
<1>2. ASSUME NEW t \in Threads, ExecuteBinding(t) PROVE CapOnDisk'
  <2>q. ASSUME Moves(t), thread[t].pc # "write" \/ hist'.torn, UNCHANGED file, hist.torn => hist'.torn
        PROVE  CapOnDisk'
    BY <1>0, <2>q DEF CapOnDisk, Moves
  <2>1. CASE Begin(t)
    BY <1>0, <2>1, <2>q, BeginStep
  <2>2. CASE CheckRateLimit(t)
    BY <1>0, <2>2, <2>q, CheckStep
  <2>3. CASE Request(t)
    BY <1>0, <2>3, <2>q, RequestStep
  <2>4. CASE AnswerIsError(t)
    BY <1>0, <2>4, <2>q, ErrorStep
  <2>5. CASE ReadCap(t)
    BY <1>0, <2>5, <2>q, ReadCapStep
  <2>6. CASE SetTweetCap(t)
    BY <1>0, <2>6, <2>q, SetStep
  <2>7. CASE ReadFile(t)
    BY <1>0, <2>7, <2>q, ReadFileStep
  <2>8. CASE Parse(t)
    BY <1>0, <2>8, <2>q, ParseStep
  <2>9. CASE IsFresh(t)
    BY <1>0, <2>9, <2>q, IsFreshStep
  <2>10. CASE FetchFromWeb(t)
    BY <1>0, <2>10, <2>q, FetchStep
  <2>11. CASE StoreCap(t)
    BY <1>0, <2>11, <2>q, StoreCapStep, StoreCapHolds
  <2>12. CASE Marshal(t)
    BY <1>0, <2>12, <2>q, MarshalStep
  <2>13. CASE CreateFile(t)
    BY <1>0, <2>13, CreateFileStep DEF CapOnDisk
  <2>14. CASE WriteFile(t)
    <3>1. thread[t].cap \in Caps /\ thread[t].cap # Torn
      BY <1>0, <2>14, Amounts DEF Steps, Step, Holding, SeenCap, WriteFile
    <3>2. QED BY <1>0, <2>14, <3>1, WriteStep DEF CapOnDisk
  <2>15. CASE WriteFails(t)
    BY <1>0, <2>15, <2>q, WriteFailsStep
  <2>16. CASE LoadLimit(t)
    BY <1>0, <2>16, <2>q, LoadLimitStep
  <2>17. CASE StoreLimit(t)
    BY <1>0, <2>17, <2>q, StoreLimitStep
  <2>18. QED
    BY <1>2, <2>1, <2>2, <2>3, <2>4, <2>5, <2>6, <2>7, <2>8, <2>9, <2>10, <2>11, <2>12, <2>13, <2>14, <2>15,
       <2>16, <2>17 DEF ExecuteBinding
<1>3. CASE NewPeriod
  BY <1>0, <1>3, PeriodStep DEF CapOnDisk
<1>4. CASE NewMonth
  BY <1>0, <1>4, MonthStep DEF CapOnDisk
<1>5. CASE Crash
  BY <1>0, <1>5, CrashStep DEF CapOnDisk
<1>6. CASE Create
  <2>1. file # Torn => file \in Caps /\ CapOf(server.pulled, server.month) \in Caps
    BY <1>0, FetchedCap, ShapeType DEF Shape, SeenCap
  <2>2. client' = "up" => file # Torn /\ file' # Torn
    BY <1>0, <1>6, <2>1, CreateStep, Amounts
  <2>3. \A u \in Threads : thread'[u] = thread[u]
    BY <1>0, <1>6, CreateStep
  <2>4. QED BY <1>0, <1>6, <2>2, <2>3, CreateStep DEF CapOnDisk
<1>7. QED
  BY <1>1, <1>2, <1>3, <1>4, <1>5, <1>6 DEF Next

LEMMA CountsStayLost == ASSUME Inv, [Next]_vars, ~hist'.uncounted PROVE ~hist.uncounted
<1>0. Shape /\ Typed /\ Steps
  BY ShapeType DEF Inv
<1>1. CASE UNCHANGED vars
  BY <1>1 DEF vars
<1>2. ASSUME NEW t \in Threads, ExecuteBinding(t) PROVE ~hist.uncounted
  <2>1. CASE StoreCap(t)
    BY <1>0, <2>1, StoreCapStep, StoreCapHolds
  <2>2. CASE ~StoreCap(t)
    BY <1>0, <1>2, <2>2, BeginStep, CheckStep, RequestStep, ErrorStep, ReadCapStep, SetStep, ReadFileStep, ParseStep,
       IsFreshStep, FetchStep, MarshalStep, CreateFileStep, WriteStep, WriteFailsStep, LoadLimitStep,
       StoreLimitStep DEF ExecuteBinding
  <2>3. QED BY <2>1, <2>2
<1>3. QED
  BY <1>0, <1>1, <1>2, PeriodStep, MonthStep, CrashStep, CreateStep DEF Next

(* A cap that takes the place of one that is fresh, and is behind it, is   *)
(* the same.                                                               *)
LEMMA ParsedIsSame ==
    ASSUME Shape, Steps, Newest, NEW t \in Threads, Parse(t), ~hist'.uncounted
    PROVE  /\ Fresh(cap) <=> Fresh(cap')
           /\ Fresh(cap) => cap' = cap
<1>1. \/ cap' = ZeroCap
      \/ thread[t].cap # Torn /\ cap' = thread[t].cap /\ thread[t].pc = "parse"
  BY ParseStep
<1>2. Fresh(cap) => Fresh(cap') /\ cap.used <= cap'.used
  BY ParseStep
<1>3. CASE cap' = ZeroCap
  BY <1>2, <1>3, ZeroCapType DEF Fresh
<1>4. CASE thread[t].cap # Torn /\ cap' = thread[t].cap /\ thread[t].pc = "parse"
  <2>1. cap' \in Caps /\ cap \in Caps /\ (Fresh(cap') => Fresh(cap) /\ cap'.used <= cap.used)
    BY <1>4 DEF Newest, Behind, Shape, Steps, Step, SeenCap
  <2>2. Fresh(cap) => cap' = cap
    <3>1. SUFFICES ASSUME Fresh(cap) PROVE cap' = cap
      OBVIOUS
    <3>2. cap.used = cap'.used /\ cap.month = cap'.month /\ ~cap.passes /\ ~cap'.passes
      BY <1>2, <2>1, <3>1, CapType DEF Fresh
    <3>3. QED BY <2>1, <3>2, SameCap
  <2>3. QED BY <1>2, <2>1, <2>2
<1>5. QED BY <1>1, <1>3, <1>4

(* While no count is lost, the cap is only set to one that is further.     *)
LEMMA Advances ==
    ASSUME Shape, Steps, Newest, Shape', NEW t \in Threads, ExecuteBinding(t), ~hist'.uncounted
    PROVE  /\ server'.month = server.month
           /\ Fresh(cap) => Fresh(cap)' /\ cap.used <= cap'.used
<1>0. Typed /\ cap.used \in Nat
  BY CapType, ShapeType
<1>1. CASE cap' = cap /\ server'.month = server.month
  BY <1>0, <1>1 DEF Fresh
<1>2. CASE SetTweetCap(t)
  <2>1. cap' = thread[t].cap /\ UNCHANGED server /\ cap'.month = cap.month /\ cap.used = cap'.used - thread[t].offset
    BY <1>2, SetStep
  <2>2. SeenCap(cap) /\ SeenCap(cap') /\ cap'.used \in Nat /\ thread[t].offset \in Nat
    BY <1>0, <2>1, CapType, ThreadType DEF Shape, SeenCap, Seen
  <2>3. Fresh(cap') <=> Fresh(cap)
    BY <2>1, <2>2, FreshMonth
  <2>4. QED BY <1>0, <2>1, <2>2, <2>3 DEF Fresh
<1>3. CASE Parse(t)
  <2>1. UNCHANGED server /\ (Fresh(cap) => cap' = cap)
    BY <1>3, ParseStep, ParsedIsSame
  <2>2. QED BY <1>0, <2>1 DEF Fresh
<1>4. CASE StoreCap(t)
  <2>1. /\ UNCHANGED server /\ cap'.used = thread[t].cap.used /\ (Fresh(cap') <=> Fresh(thread[t].cap))
        /\ Fresh(cap) => Fresh(thread[t].cap) /\ cap.used <= thread[t].cap.used
    BY <1>4, StoreCapStep, StoreCapHolds
  <2>2. QED BY <2>1 DEF Fresh
<1>5. QED
  BY <1>0, <1>1, <1>2, <1>3, <1>4, BeginStep, CheckStep, RequestStep, ErrorStep, ReadCapStep, ReadFileStep,
     IsFreshStep, FetchStep, MarshalStep, CreateFileStep, WriteStep, WriteFailsStep, LoadLimitStep,
     StoreLimitStep DEF ExecuteBinding

(* How what is asked for and what Twitter counted change together.         *)
LEMMA AskedWith ==
    ASSUME Shape, Steps, Shape', NEW t \in Threads, ExecuteBinding(t), ~hist'.uncounted
    PROVE  /\ server'.pulled <= server.pulled + Cardinality(Asked)' - Cardinality(Asked) \/ SetTweetCap(t)
           /\ SetTweetCap(t) => /\ server' = server
                                /\ Cardinality(Asked) = Cardinality(Asked)' + thread[t].offset
<1>0. /\ Typed /\ server.pulled \in Nat /\ server'.pulled \in Nat /\ thread[t].offset \in Nat
      /\ Cardinality(Asked) \in Nat /\ Cardinality(Asked)' \in Nat
  BY ShapeType, AskedFinite, ThreadType DEF Shape, ServerStates
<1>q. ASSUME Moves(t), ~Counting(t), ~Counting(t)', UNCHANGED server
      PROVE  server'.pulled <= server.pulled + Cardinality(Asked)' - Cardinality(Asked)
  <2>1. Asked' = Asked
    BY <1>q, AskedKept
  <2>2. QED BY <1>0, <1>q, <2>1
<1>1. CASE SetTweetCap(t)
  <2>1. Moves(t) /\ UNCHANGED server /\ thread[t].pc = "setCap" /\ thread'[t].pc \in {"marshal", "readFile"}
    BY <1>1, SetStep
  <2>2. Cardinality(Asked) = Cardinality(Asked)' + thread[t].offset
    BY <2>1, AskedLoses DEF Counting
  <2>3. QED BY <1>1, <2>1, <2>2
<1>2. ASSUME ~SetTweetCap(t)
      PROVE  server'.pulled <= server.pulled + Cardinality(Asked)' - Cardinality(Asked)
  <2>1. CASE Request(t)
    <3>1. CASE thread'[t].pc = "idle"
      BY <2>1, <3>1, <1>q, RequestStep DEF Counting
    <3>2. CASE thread'[t].pc # "idle"
      <4>1. /\ Moves(t) /\ thread[t].pc = "request" /\ thread'[t].pc = "readCap"
            /\ thread'[t].offset = thread[t].offset
            /\ server'.pulled <= server.pulled + thread[t].offset
        BY <2>1, <3>2, RequestStep
      <4>2. Cardinality(Asked)' = Cardinality(Asked) + thread[t].offset
        BY <4>1, AskedGains DEF Counting
      <4>3. QED BY <1>0, <4>1, <4>2
    <3>3. QED BY <3>1, <3>2
  <2>2. CASE ReadCap(t)
    <3>1. /\ Moves(t) /\ UNCHANGED server /\ thread[t].pc = "readCap" /\ thread'[t].pc = "setCap"
          /\ thread'[t].offset = thread[t].offset
      BY <2>2, ReadCapStep
    <3>2. Asked' = Asked
      BY <3>1, AskedKept DEF Counting
    <3>3. QED BY <1>0, <3>1, <3>2
  <2>3. CASE StoreCap(t)
    BY <2>3, <1>q, StoreCapStep, StoreCapHolds DEF Counting
  <2>4. CASE Begin(t) \/ CheckRateLimit(t)
    BY <1>0, <2>4, <1>q, BeginStep, CheckStep DEF Counting
  <2>5. CASE ReadFile(t) \/ Parse(t) \/ IsFresh(t) \/ FetchFromWeb(t)
    BY <2>5, <1>q, ReadFileStep, ParseStep, IsFreshStep, FetchStep DEF Counting
  <2>6. CASE Marshal(t) \/ CreateFile(t) \/ WriteFile(t)
    BY <2>6, <1>q, MarshalStep, CreateFileStep, WriteStep DEF Counting
  <2>7. CASE LoadLimit(t) \/ StoreLimit(t)
    BY <2>7, <1>q, LoadLimitStep, StoreLimitStep DEF Counting
  <2>8. CASE AnswerIsError(t) \/ WriteFails(t)
    BY <2>8, ErrorStep, WriteFailsStep
  <2>9. QED
    BY <1>2, <2>1, <2>2, <2>3, <2>4, <2>5, <2>6, <2>7, <2>8 DEF ExecuteBinding
<1>3. QED BY <1>1, <1>2

LEMMA NextCounted == ASSUME Inv, [Next]_vars, ~hist'.uncounted, client' = "up" PROVE Counted'
<1>0. Shape /\ Steps /\ ~hist.uncounted /\ Shape'
  BY CountsStayLost, NextShape DEF Inv
<1>1. client = "up" => Counted /\ Fetched /\ Newest
  BY <1>0 DEF Inv
<1>2. client = "down" => Left
  BY <1>0 DEF Inv
<1>3. /\ Typed /\ cap \in Caps /\ cap.used \in Nat /\ cap'.used \in Nat
      /\ server.pulled \in Nat /\ server'.pulled \in Nat
      /\ Cardinality(Asked) \in Nat /\ Cardinality(Asked)' \in Nat
  BY <1>0, CapType, AskedFinite, ShapeType DEF Shape, SeenCap, ServerStates
<1>4. CASE UNCHANGED vars
  <2>1. Asked' = Asked
    BY <1>4 DEF Asked, Counting, vars
  <2>2. CASE client = "up"
    BY <1>1, <1>4, <2>1, <2>2 DEF Counted, vars, Fresh
  <2>3. QED BY <1>4, <2>2 DEF vars
<1>5. ASSUME NEW t \in Threads, client = "up", ExecuteBinding(t) PROVE Counted'
  <2>0. thread[t].offset \in Nat /\ Counted
    BY <1>1, <1>3, <1>5, ThreadType
  <2>1. CASE SetTweetCap(t)
    <3>1. /\ cap' = thread[t].cap /\ UNCHANGED server
          /\ thread[t].cap.month = cap.month /\ cap.used = thread[t].cap.used - thread[t].offset
      BY <1>0, <2>1, SetStep
    <3>2. Cardinality(Asked) = Cardinality(Asked)' + thread[t].offset
      BY <1>0, <1>5, <2>1, AskedWith
    <3>3. Fresh(cap)' => Fresh(cap)
      <4>1. SeenCap(cap) /\ SeenCap(cap')
        BY <1>0, <3>1 DEF Shape, SeenCap, Seen
      <4>2. Fresh(cap') <=> Fresh(cap)
        BY <3>1, <4>1, FreshMonth
      <4>3. QED BY <3>1, <4>2 DEF Fresh
    <3>4. QED BY <2>0, <1>3, <3>1, <3>2, <3>3 DEF Counted
  <2>2. CASE ~SetTweetCap(t) /\ Fresh(cap)
    <3>1. server'.pulled <= server.pulled + Cardinality(Asked)' - Cardinality(Asked)
      BY <1>0, <1>5, <2>2, AskedWith
    <3>2. cap.used <= cap'.used
      BY <1>0, <1>1, <1>5, <2>2, Advances
    <3>3. QED BY <2>0, <1>3, <2>2, <3>1, <3>2 DEF Counted
  <2>3. CASE ~SetTweetCap(t) /\ ~Fresh(cap)
    <3>1. CASE StoreCap(t)
      <4>1. /\ ~thread[t].dirty /\ thread[t].pc = "storeCap"
            /\ cap'.used = thread[t].cap.used /\ (Fresh(cap') <=> Fresh(thread[t].cap)) /\ UNCHANGED server
        BY <1>0, <1>5, <2>3, <3>1, StoreCapStep, StoreCapHolds
      <4>2. Fresh(cap') => server.pulled <= cap'.used + Cardinality(Asked)
        BY <1>1, <1>5, <4>1 DEF Fetched
      <4>3. server'.pulled <= server.pulled + Cardinality(Asked)' - Cardinality(Asked)
        BY <1>0, <1>5, <2>3, AskedWith
      <4>4. Fresh(cap)' => Fresh(cap')
        BY <4>1 DEF Fresh
      <4>5. QED BY <1>3, <4>1, <4>2, <4>3, <4>4 DEF Counted
    <3>2. CASE Parse(t)
      <4>1. ~Fresh(cap') /\ UNCHANGED server
        BY <1>0, <1>1, <1>5, <2>3, <3>2, ParsedIsSame, ParseStep
      <4>2. QED BY <4>1 DEF Counted, Fresh
    <3>3. CASE ~StoreCap(t) /\ ~Parse(t)
      <4>1. cap' = cap /\ server'.month = server.month
        BY <1>0, <1>3, <1>5, <2>3, <3>3, BeginStep, CheckStep, RequestStep, ErrorStep, ReadCapStep, ReadFileStep,
           IsFreshStep, FetchStep, MarshalStep, CreateFileStep, WriteStep, WriteFailsStep, LoadLimitStep,
           StoreLimitStep DEF ExecuteBinding
      <4>2. QED BY <2>3, <4>1 DEF Counted, Fresh
    <3>4. QED BY <3>1, <3>2, <3>3
  <2>4. QED BY <2>1, <2>2, <2>3
<1>6. CASE NewPeriod
  <2>1. UNCHANGED <<cap, thread, client>> /\ server'.month = server.month /\ server'.pulled = server.pulled
    BY <1>0, <1>6, PeriodStep
  <2>2. Asked' = Asked
    BY <2>1 DEF Asked, Counting
  <2>3. QED BY <1>1, <2>1, <2>2 DEF Counted, Fresh
<1>7. CASE NewMonth
  <2>1. server'.pulled = 0
    BY <1>0, <1>7, MonthStep
  <2>2. QED BY <1>3, <2>1 DEF Counted
<1>8. CASE Crash
  BY <1>0, <1>8, CrashStep
<1>9. CASE Create
  <2>1. /\ UNCHANGED server /\ client = "down" /\ file # Torn
        /\ cap' = file \/ cap' = CapOf(server.pulled, server.month)
    BY <1>0, <1>9, CreateStep
  <2>2. Fresh(cap)' => server'.pulled <= cap'.used
    <3>1. CASE cap' = file
      <4>1. Fresh(file) => server.pulled <= file.used
        BY <1>2, <2>1 DEF Left
      <4>2. QED BY <2>1, <3>1, <4>1 DEF Fresh
    <3>2. CASE cap' = CapOf(server.pulled, server.month)
      BY <1>0, <1>3, <2>1, <3>2, FetchedCap, ShapeType
    <3>3. QED BY <2>1, <3>1, <3>2
  <2>3. QED BY <1>3, <2>2 DEF Counted
<1>10. QED
  BY <1>4, <1>5, <1>6, <1>7, <1>8, <1>9 DEF Next

(* The dashboard that a goroutine has read is as it was until somebody sets*)
(* the cap.                                                                *)
LEMMA NextFetched == ASSUME Inv, [Next]_vars, ~hist'.uncounted, client' = "up" PROVE Fetched'
<1>0. Shape /\ Steps /\ ~hist.uncounted /\ Shape' /\ Steps' /\ Typed
  BY CountsStayLost, NextShape, NextSteps, ShapeType DEF Inv
<1>1. client = "up" => Fetched
  BY <1>0 DEF Inv
<1>2. /\ server.pulled \in Nat /\ server'.pulled \in Nat
      /\ Cardinality(Asked) \in Nat /\ Cardinality(Asked)' \in Nat
      /\ \A u \in Threads : thread[u].pc = "storeCap" => thread[u].cap.used \in Nat
  BY <1>0, CapType, AskedFinite, ShapeType DEF Shape, ServerStates, Steps, Step, Holding, SeenCap
<1>3. CASE UNCHANGED vars
  <2>1. Asked' = Asked
    BY <1>3 DEF Asked, Counting, vars
  <2>2. Fetched
    BY <1>1, <1>3 DEF vars
  <2>3. QED BY <1>3, <2>1, <2>2 DEF Fetched, vars, Fresh
<1>4. ASSUME NEW t \in Threads, client = "up", ExecuteBinding(t) PROVE Fetched'
  <2>0. Fetched /\ server'.month = server.month
    BY <1>0, <1>1, <1>4, Advances DEF Inv
  <2>q. ASSUME Moves(t), ~SetTweetCap(t), thread'[t].pc # "storeCap" PROVE Fetched'
    <3>1. SUFFICES ASSUME NEW u \in Threads \ {t}, thread'[u].pc = "storeCap", ~thread'[u].dirty,
                          Fresh(thread[u].cap)'
                   PROVE  server'.pulled <= thread'[u].cap.used + Cardinality(Asked)'
      BY <2>q DEF Fetched
    <3>2. thread'[u].cap = thread[u].cap /\ thread[u].pc = "storeCap" /\ ~thread[u].dirty
      BY <2>q, <3>1 DEF Moves
    <3>3. Fresh(thread[u].cap)
      BY <2>0, <3>1, <3>2 DEF Fresh
    <3>4. server.pulled <= thread[u].cap.used + Cardinality(Asked)
      BY <2>0, <3>2, <3>3 DEF Fetched
    <3>5. server'.pulled <= server.pulled + Cardinality(Asked)' - Cardinality(Asked)
      BY <1>0, <1>4, <2>q, AskedWith
    <3>6. thread[u].cap.used \in Nat
      BY <1>2, <3>2
    <3>7. QED BY <1>2, <3>2, <3>4, <3>5, <3>6
  <2>1. CASE SetTweetCap(t)
    <3>1. /\ Moves(t) /\ thread'[t].pc \in {"marshal", "readFile"}
          /\ \A u \in Threads \ {t} : thread[u].pc = "storeCap" => thread'[u].dirty
      BY <1>0, <2>1, SetStep
    <3>2. \A u \in Threads : thread'[u].pc = "storeCap" => thread'[u].dirty
      BY <3>1 DEF Moves
    <3>3. QED BY <3>2 DEF Fetched
  <2>2. CASE FetchFromWeb(t)
    <3>1. CASE thread'[t].pc = "idle"
      <4>1. Moves(t) /\ ~SetTweetCap(t)
        BY <1>0, <2>2, FetchStep DEF SetTweetCap
      <4>2. QED BY <2>q, <3>1, <4>1
    <3>2. CASE thread'[t].pc # "idle"
      <4>1. /\ Moves(t) /\ thread[t].pc = "fetch" /\ thread'[t].pc = "storeCap"
            /\ thread'[t].cap = CapOf(server.pulled, server.month) /\ UNCHANGED server
        BY <1>0, <2>2, <3>2, FetchStep
      <4>2. Asked' = Asked
        BY <1>0, <4>1, AskedKept DEF Counting
      <4>3. thread'[t].cap.used = server.pulled
        BY <1>0, <4>1, FetchedCap, ShapeType
      <4>4. ASSUME NEW u \in Threads \ {t}, thread'[u].pc = "storeCap", ~thread'[u].dirty, Fresh(thread[u].cap)'
            PROVE  server'.pulled <= thread'[u].cap.used + Cardinality(Asked)'
        <5>1. thread'[u].cap = thread[u].cap /\ thread[u].pc = "storeCap" /\ ~thread[u].dirty
          BY <4>1, <4>4 DEF Moves
        <5>2. QED BY <2>0, <4>1, <4>2, <4>4, <5>1 DEF Fetched, Fresh
      <4>5. server'.pulled <= thread'[t].cap.used + Cardinality(Asked)'
        BY <1>2, <4>1, <4>3
      <4>6. QED BY <4>4, <4>5 DEF Fetched
    <3>3. QED BY <3>1, <3>2
  <2>3. CASE StoreCap(t)
    BY <1>0, <2>3, <2>q, StoreCapStep, StoreCapHolds DEF SetTweetCap
  <2>4. CASE ~SetTweetCap(t) /\ ~FetchFromWeb(t) /\ ~StoreCap(t)
    <3>1. Moves(t) /\ thread'[t].pc # "storeCap"
      BY <1>0, <1>4, <2>4, BeginStep, CheckStep, RequestStep, ErrorStep, ReadCapStep, ReadFileStep, ParseStep,
         IsFreshStep, MarshalStep, CreateFileStep, WriteStep, WriteFailsStep, LoadLimitStep,
         StoreLimitStep DEF ExecuteBinding
    <3>2. QED BY <2>q, <2>4, <3>1
  <2>5. QED BY <2>1, <2>2, <2>3, <2>4
<1>5. CASE NewPeriod
  <2>1. UNCHANGED <<thread, client>> /\ server'.month = server.month /\ server'.pulled = server.pulled
    BY <1>0, <1>5, PeriodStep
  <2>2. Asked' = Asked
    BY <2>1 DEF Asked, Counting
  <2>3. QED BY <1>1, <2>1, <2>2 DEF Fetched, Fresh
<1>6. CASE NewMonth
  <2>1. server'.pulled = 0 /\ thread' = thread
    BY <1>0, <1>6, MonthStep
  <2>2. QED BY <1>2, <2>1 DEF Fetched
<1>7. CASE Crash
  BY <1>0, <1>7, CrashStep
<1>8. CASE Create
  <2>1. thread' = thread /\ client # "up"
    BY <1>0, <1>8, CreateStep
  <2>2. QED BY <1>0, <2>1 DEF Fetched, Steps, Step
<1>9. QED
  BY <1>3, <1>4, <1>5, <1>6, <1>7, <1>8 DEF Next

(* The file, and what may be written to it, stays behind the cap.          *)
LEMMA NextNewest == ASSUME Inv, [Next]_vars, ~hist'.uncounted, client' = "up" PROVE Newest'
<1>0. Shape /\ Steps /\ ~hist.uncounted /\ Shape' /\ Typed /\ cap \in Caps /\ cap.used \in Nat /\ cap'.used \in Nat
  BY CountsStayLost, NextShape, ShapeType, CapType DEF Inv, Shape, SeenCap
<1>1. client = "up" => Newest
  BY <1>0 DEF Inv
<1>2. CASE UNCHANGED vars
  <2>1. Newest
    BY <1>1, <1>2 DEF vars
  <2>2. QED BY <1>2, <2>1 DEF Newest, Behind, vars, Fresh
<1>3. ASSUME NEW t \in Threads, client = "up", ExecuteBinding(t) PROVE Newest'
  <2> DEFINE Ok(c) == ~c.passes /\ c.month = server'.month => Fresh(cap)' /\ c.used <= cap'.used
  <2>0. Newest
    BY <1>1, <1>3
  <2>a. server'.month = server.month /\ (Fresh(cap) => Fresh(cap)' /\ cap.used <= cap'.used)
    BY <1>0, <1>3, <2>0, Advances
  <2>b. ASSUME NEW c \in Caps, Behind(c) PROVE Ok(c)
    <3>1. c.used \in Nat
      BY CapType
    <3>2. QED BY <1>0, <2>a, <2>b, <3>1 DEF Behind, Fresh
  <2>f. file # Torn => Ok(file)
    BY <1>0, <2>0, <2>b DEF Newest, Shape, SeenCap
  <2>u. ASSUME NEW u \in Threads, thread[u].pc \in {"parse", "create", "write"}, thread[u].cap # Torn
        PROVE  Ok(thread[u].cap)
    <3>1. thread[u].cap \in Caps
      BY <1>0, <2>u, ThreadType
    <3>2. QED BY <2>0, <2>u, <2>b, <3>1 DEF Newest
  <2> HIDE DEF Ok
  <2>q. ASSUME Moves(t), file' # Torn => Ok(file'),
               thread'[t].pc \in {"parse", "create", "write"} /\ thread'[t].cap # Torn => Ok(thread'[t].cap)
        PROVE  Newest'
    <3>1. ASSUME NEW u \in Threads, thread'[u].pc \in {"parse", "create", "write"}, thread'[u].cap # Torn
          PROVE  Ok(thread'[u].cap)
      <4>1. CASE u = t
        BY <2>q, <3>1, <4>1
      <4>2. CASE u # t
        <5>1. thread'[u].cap = thread[u].cap /\ thread'[u].pc = thread[u].pc
          BY <2>q, <3>1, <4>2 DEF Moves
        <5>2. QED BY <2>u, <3>1, <5>1
      <4>3. QED BY <4>1, <4>2
    <3>2. QED BY <2>q, <3>1 DEF Newest, Behind, Fresh, Ok
  <2>1. CASE ReadFile(t)
    BY <1>0, <2>1, <2>f, <2>q, ReadFileStep
  <2>2. CASE Marshal(t)
    <3>1. Moves(t) /\ file' = file /\ thread'[t].cap = cap
      BY <1>0, <2>2, MarshalStep
    <3>2. Ok(cap)
      BY <1>0, <2>b DEF Behind
    <3>3. QED BY <2>f, <2>q, <3>1, <3>2
  <2>3. CASE CreateFile(t)
    <3>1. Moves(t) /\ file' = Torn /\ thread[t].pc = "create" /\ thread'[t].cap = thread[t].cap
      BY <1>0, <2>3, CreateFileStep
    <3>2. QED BY <2>q, <2>u, <3>1
  <2>4. CASE WriteFile(t)
    <3>1. /\ Moves(t) /\ (file' = Torn \/ file' = thread[t].cap)
          /\ thread[t].pc = "write" /\ thread'[t].pc = "loadLimit"
      BY <1>0, <2>4, WriteStep
    <3>2. QED BY <2>q, <2>u, <3>1
  <2>5. CASE SetTweetCap(t)
    BY <1>0, <2>5, <2>f, <2>q, SetStep
  <2>6. CASE Parse(t)
    BY <1>0, <2>6, <2>f, <2>q, ParseStep
  <2>7. CASE StoreCap(t)
    BY <1>0, <2>7, <2>f, <2>q, StoreCapStep, StoreCapHolds
  <2>8. CASE Begin(t) \/ CheckRateLimit(t) \/ Request(t) \/ AnswerIsError(t) \/ ReadCap(t)
    BY <1>0, <2>8, <2>f, <2>q, BeginStep, CheckStep, RequestStep, ErrorStep, ReadCapStep
  <2>9. CASE IsFresh(t) \/ FetchFromWeb(t) \/ WriteFails(t)
    BY <1>0, <2>9, <2>f, <2>q, IsFreshStep, FetchStep, WriteFailsStep
  <2>10. CASE LoadLimit(t) \/ StoreLimit(t)
    BY <1>0, <2>10, <2>f, <2>q, LoadLimitStep, StoreLimitStep
  <2>11. QED
    BY <1>3, <2>1, <2>2, <2>3, <2>4, <2>5, <2>6, <2>7, <2>8, <2>9, <2>10 DEF ExecuteBinding
<1>4. CASE NewPeriod
  BY <1>0, <1>1, <1>4, PeriodStep DEF Newest, Behind, Fresh
<1>5. CASE NewMonth
  <2>1. server'.month = server.month + 1 /\ UNCHANGED <<file, thread>> /\ server.month \in Nat
    BY <1>0, <1>5, MonthStep, ShapeType
  <2>2. \A c : SeenCap(c) => c.month # server'.month
    BY <2>1, CapType DEF SeenCap, Seen
  <2>3. ASSUME NEW u \in Threads, thread[u].pc \in {"parse", "create", "write"}, thread[u].cap # Torn
        PROVE  SeenCap(thread[u].cap)
    BY <1>0, <2>3 DEF Steps, Step, Holding
  <2>4. file # Torn => SeenCap(file)
    BY <1>0 DEF Shape
  <2>5. QED BY <2>1, <2>2, <2>3, <2>4 DEF Newest, Behind, Fresh
<1>6. CASE Crash
  BY <1>0, <1>6, CrashStep
<1>7. CASE Create
  <2>1. file' = cap' /\ UNCHANGED thread /\ client = "down"
    BY <1>0, <1>7, CreateStep
  <2>2. \A u \in Threads : thread'[u].pc = "idle"
    BY <1>0, <2>1 DEF Steps, Step
  <2>3. QED BY <1>0, <2>1, <2>2 DEF Newest, Behind, Fresh
<1>8. QED
  BY <1>2, <1>3, <1>4, <1>5, <1>6, <1>7 DEF Next

LEMMA NextWritten == ASSUME Inv, [Next]_vars, ~hist'.uncounted, client' = "up" PROVE Written'
<1>0. Shape /\ Steps /\ ~hist.uncounted /\ Shape' /\ Typed
  BY CountsStayLost, NextShape, ShapeType DEF Inv
<1>1. client = "up" => Newest /\ Written
  BY <1>0 DEF Inv
<1>2. CASE UNCHANGED vars
  BY <1>1, <1>2 DEF Written, Witness, vars, Fresh
<1>3. ASSUME NEW t \in Threads, client = "up", ExecuteBinding(t) PROVE Written'
  <2>0. Written /\ Newest
    BY <1>1, <1>3
  <2>q. ASSUME Moves(t), thread[t].pc \notin {"marshal", "create", "write"},
               thread'[t].pc \notin {"create", "write"},
               UNCHANGED file, Fresh(cap)' => Fresh(cap) /\ cap' = cap
        PROVE  Written'
    <3>1. SUFFICES ASSUME Fresh(cap)' PROVE Witness'
      BY DEF Written
    <3>2. Witness /\ cap' = cap
      BY <2>0, <2>q, <3>1 DEF Written
    <3>3. QED BY <2>q, <3>2 DEF Witness, Moves
  <2>c. ASSUME thread'[t].pc = "marshal" PROVE Written'
    BY <2>c DEF Written, Witness
  <2>1. CASE SetTweetCap(t)
    <3>1. CASE CheckFresh(thread[t].cap)
      BY <1>0, <2>1, <2>c, <3>1, SetStep
    <3>2. CASE ~CheckFresh(thread[t].cap)
      <4>1. ~Fresh(cap)'
        BY <1>0, <2>1, <3>2, SetStep DEF CheckFresh, Fresh
      <4>2. QED BY <4>1 DEF Written
    <3>3. QED BY <3>1, <3>2
  <2>2. CASE Parse(t)
    <3>1. /\ Moves(t) /\ thread[t].pc = "parse" /\ thread'[t].pc \in {"idle", "isFresh"} /\ UNCHANGED <<file, server>>
      BY <1>0, <2>2, ParseStep
    <3>2. Fresh(cap') => Fresh(cap) /\ cap' = cap
      BY <1>0, <2>0, <2>2, ParsedIsSame
    <3>3. Fresh(cap)' => Fresh(cap')
      BY <3>1 DEF Fresh
    <3>4. QED BY <2>q, <3>1, <3>2, <3>3
  <2>3. CASE StoreCap(t)
    BY <1>0, <2>3, <2>c, StoreCapStep, StoreCapHolds
  <2>4. CASE Marshal(t)
    BY <1>0, <2>4, MarshalStep DEF Written, Witness
  <2>5. CASE CreateFile(t)
    <3>1. /\ Moves(t) /\ thread[t].pc = "create" /\ thread'[t].pc = "write" /\ file' = Torn
          /\ thread'[t].cap = thread[t].cap /\ thread'[t].dirty = thread[t].dirty /\ UNCHANGED <<cap, server>>
      BY <1>0, <2>5, CreateFileStep
    <3>2. SUFFICES ASSUME Fresh(cap) PROVE Witness'
      BY <3>1 DEF Written, Fresh
    <3>3. Witness
      BY <2>0, <3>2 DEF Written
    <3>4. CASE \E u \in Threads : \/ thread[u].pc = "marshal"
                                  \/ thread[u].pc \in {"create", "write"} /\ thread[u].cap = cap
      <4>1. PICK u \in Threads : \/ thread[u].pc = "marshal"
                                 \/ thread[u].pc \in {"create", "write"} /\ thread[u].cap = cap
        BY <3>4
      <4>2. \/ thread'[u].pc = "marshal"
            \/ thread'[u].pc \in {"create", "write"} /\ thread'[u].cap = cap'
        BY <3>1, <4>1 DEF Moves
      <4>3. QED BY <4>2 DEF Witness
    <3>5. CASE \A u \in Threads : thread[u].pc \in {"create", "write"} => thread[u].dirty
      <4>1. \A u \in Threads : thread'[u].pc \in {"create", "write"} => thread'[u].dirty
        BY <3>1, <3>5 DEF Moves
      <4>2. QED BY <3>1, <4>1 DEF Witness
    <3>6. QED BY <3>3, <3>4, <3>5 DEF Witness
  <2>6. CASE WriteFile(t)
    <3>1. /\ Moves(t) /\ thread[t].pc = "write" /\ thread'[t].pc = "loadLimit" /\ UNCHANGED <<cap, server>>
          /\ (file' = thread[t].cap /\ (thread[t].dirty => thread[t].cap = cap)) \/ file' = Torn
          /\ \A u \in Threads \ {t} : thread[u].pc \in {"create", "write"} => thread'[u].dirty
      BY <1>0, <2>6, WriteStep
    <3>2. SUFFICES ASSUME Fresh(cap) PROVE Witness'
      BY <3>1 DEF Written, Fresh
    <3>3. Witness
      BY <2>0, <3>2 DEF Written
    <3>4. CASE \E u \in Threads \ {t} : \/ thread[u].pc = "marshal"
                                        \/ thread[u].pc \in {"create", "write"} /\ thread[u].cap = cap
      BY <3>1, <3>4 DEF Witness, Moves
    <3>5. CASE thread[t].cap = cap \/ thread[t].dirty
      <4>1. file' \in {cap', Torn}
        BY <3>1, <3>5
      <4>2. \A u \in Threads : thread'[u].pc \in {"create", "write"} => thread'[u].dirty
        BY <3>1 DEF Moves
      <4>3. QED BY <4>1, <4>2 DEF Witness
    <3>6. QED BY <3>1, <3>3, <3>4, <3>5 DEF Witness
  <2>7. CASE Request(t)
    <3>1. /\ Moves(t) /\ thread[t].pc = "request" /\ thread'[t].pc \in {"idle", "readCap"}
          /\ UNCHANGED <<cap, file>> /\ server'.month = server.month
      BY <1>0, <2>7, RequestStep
    <3>2. QED BY <2>q, <3>1 DEF Fresh
  <2>8. CASE Begin(t) \/ CheckRateLimit(t)
    BY <1>0, <2>8, <2>q, BeginStep, CheckStep DEF Fresh
  <2>9. CASE AnswerIsError(t) \/ WriteFails(t)
    BY <1>0, <2>9, ErrorStep, WriteFailsStep
  <2>10. CASE ReadCap(t) \/ ReadFile(t)
    BY <1>0, <2>10, <2>q, ReadCapStep, ReadFileStep DEF Fresh
  <2>11. CASE IsFresh(t) \/ FetchFromWeb(t)
    BY <1>0, <2>11, <2>q, IsFreshStep, FetchStep DEF Fresh
  <2>12. CASE LoadLimit(t) \/ StoreLimit(t)
    BY <1>0, <2>12, <2>q, LoadLimitStep, StoreLimitStep DEF Fresh
  <2>13. QED
    BY <1>3, <2>1, <2>2, <2>3, <2>4, <2>5, <2>6, <2>7, <2>8, <2>9, <2>10, <2>11, <2>12 DEF ExecuteBinding
<1>4. CASE NewPeriod
  BY <1>0, <1>1, <1>4, PeriodStep DEF Written, Witness, Fresh
<1>5. CASE NewMonth
  <2>1. server'.month = server.month + 1 /\ cap' = cap /\ server.month \in Nat
    BY <1>0, <1>5, MonthStep, ShapeType
  <2>2. ~Fresh(cap)'
    BY <1>0, <2>1, CapType DEF Fresh, Shape, SeenCap, Seen
  <2>3. QED BY <2>2 DEF Written
<1>6. CASE Crash
  BY <1>0, <1>6, CrashStep
<1>7. CASE Create
  <2>1. file' = cap' /\ \A u \in Threads : thread'[u].pc = "idle"
    BY <1>0, <1>7, CreateStep DEF Steps, Step
  <2>2. QED BY <2>1 DEF Written, Witness
<1>8. QED
  BY <1>2, <1>3, <1>4, <1>5, <1>6, <1>7 DEF Next

(* The process goes down by Crash alone.                                   *)
LEMMA ExecutesUp ==
    ASSUME Shape, Steps, NEW t \in Threads, ExecuteBinding(t)
    PROVE  client' = client /\ server'.month = server.month /\ server'.period = server.period
<1>0. Typed
  BY ShapeType
<1>1. CASE StoreCap(t)
  BY <1>1, StoreCapStep, StoreCapHolds
<1>2. CASE ~StoreCap(t)
  BY <1>0, <1>2, BeginStep, CheckStep, RequestStep, ErrorStep, ReadCapStep, SetStep, ReadFileStep, ParseStep,
     IsFreshStep, FetchStep, MarshalStep, CreateFileStep, WriteStep, WriteFailsStep, LoadLimitStep,
     StoreLimitStep DEF ExecuteBinding
<1>3. QED BY <1>1, <1>2

(* When the process ends with no count lost, what it knew is in the file.  *)
LEMMA NextLeft == ASSUME Inv, [Next]_vars, ~hist'.uncounted, client' = "down" PROVE Left'
<1>0. Shape /\ Steps /\ ~hist.uncounted /\ Shape'
  BY CountsStayLost, NextShape DEF Inv
<1>1. CASE client = "down"
  <2>1. Left
    BY <1>0, <1>1 DEF Inv
  <2>2. CASE UNCHANGED vars
    BY <2>1, <2>2 DEF Left, vars, Fresh
  <2>3. CASE NewPeriod
    BY <1>0, <2>1, <2>3, PeriodStep DEF Left, Fresh
  <2>4. CASE NewMonth
    <3>1. server'.month = server.month + 1 /\ UNCHANGED file /\ server.month \in Nat
      BY <1>0, <2>4, MonthStep, ShapeType
    <3>2. file # Torn => ~Fresh(file)'
      BY <1>0, <3>1, CapType DEF Fresh, Shape, SeenCap, Seen
    <3>3. QED BY <3>1, <3>2 DEF Left
  <2>5. CASE Create
    <3>1. UNCHANGED <<cap, server>> /\ (file' = file \/ file' = Torn)
      BY <1>0, <2>5, CreateStep
    <3>2. QED BY <2>1, <3>1 DEF Left, Fresh
  <2>6. QED
    BY <1>0, <1>1, <2>2, <2>3, <2>4, <2>5, CrashStep DEF Next
<1>2. CASE client # "down"
  <2>1. Crash
    BY <1>0, <1>2, ExecutesUp, PeriodStep, MonthStep, CreateStep DEF Next, vars
  <2>2. /\ client = "up" /\ UNCHANGED <<cap, file, server>>
        /\ \A t \in Threads : thread[t].pc \notin Unwritten
    BY <1>0, <2>1, CrashStep
  <2>3. Counted /\ Newest /\ Written
    BY <1>0, <2>2 DEF Inv
  <2>4. Cardinality(Asked) = 0
    <3>1. Asked = {}
      BY <2>2 DEF Asked, Counting, Unwritten
    <3>2. QED BY <3>1, FS_EmptySet
  <2>5. Fresh(cap) => server.pulled <= cap.used /\ file \in {cap, Torn}
    <3>1. Fresh(cap) => server.pulled <= cap.used
      BY <1>0, <2>3, <2>4, CapType, ShapeType DEF Counted
    <3>2. Fresh(cap) => file \in {cap, Torn}
      BY <2>2, <2>3 DEF Written, Witness, Unwritten
    <3>3. QED BY <3>1, <3>2
  <2>6. QED BY <2>2, <2>3, <2>5 DEF Left, Newest, Behind, Fresh
<1>3. QED BY <1>1, <1>2

-----------------------------------------------------------------------------
(* How far the goroutines that have passed the check overdraw the cap: each*)
(* of them but the first may have found it sufficient for itself alone.    *)

Uncommitted == Cardinality(Threads) - Cardinality(Committed)

LEMMA CommittedSize ==
    ASSUME NEW S \in SUBSET Threads
    PROVE  /\ IsFiniteSet(S) /\ Cardinality(S) \in Nat /\ Cardinality(S) <= Cardinality(Threads)
           /\ S # {} => Cardinality(S) >= 1
<1>1. IsFiniteSet(S) /\ Cardinality(S) \in Nat /\ Cardinality(S) <= Cardinality(Threads)
  BY Amounts, FS_Subset, FS_CardinalityType
<1>2. Cardinality(S) = 0 <=> S = {}
  BY <1>1, FS_EmptySet
<1>3. QED BY <1>1, <1>2

LEMMA UncommittedType ==
    /\ Uncommitted \in Nat /\ Uncommitted' \in Nat
    /\ Committed # {} => Uncommitted <= Cardinality(Threads) - 1
    /\ Uncommitted <= Cardinality(Threads)
<1>1. Committed \in SUBSET Threads /\ Committed' \in SUBSET Threads
  BY DEF Committed
<1> DEFINE D == Committed'
<1>2. Cardinality(D) \in Nat /\ Cardinality(D) <= Cardinality(Threads)
  <2> HIDE DEF D
  <2>1. D \in SUBSET Threads
    BY <1>1 DEF D
  <2>2. QED BY <2>1, CommittedSize
<1>3. QED
  BY <1>1, <1>2, CommittedSize, Amounts DEF Uncommitted

LEMMA Products ==
    ASSUME NEW m \in Int, NEW n \in Int
    PROVE  /\ MaxResources * m \in Int /\ MaxResources * n \in Int
           /\ m <= n => MaxResources * m <= MaxResources * n
           /\ MaxResources * (m + 1) = MaxResources * m + MaxResources
           /\ MaxResources * (m - 1) = MaxResources * m - MaxResources
  BY Amounts

LEMMA ProductType == \A n \in Nat : MaxResources * n \in Nat
<1> SUFFICES ASSUME NEW n \in Nat PROVE MaxResources * n \in Nat
  OBVIOUS
<1>1. MaxResources * 0 = 0 /\ MaxResources * 0 <= MaxResources * n
  BY Products, Amounts
<1>2. QED BY <1>1, Products

LEMMA Deepest ==
    ASSUME Shape, Overdrawn
    PROVE  cap.remaining >= -(MaxResources * (Cardinality(Threads) - 1))
<1> DEFINE f == Uncommitted
           k == Cardinality(Threads)
<1>1. f \in Nat /\ f <= k /\ k \in Nat /\ MaxResources \in Nat /\ cap.remaining \in Int
  BY UncommittedType, Amounts, CapType, ShapeType
<1>2. CASE cap.remaining >= -(MaxResources * (f - 1))
  <2>1. MaxResources * (f - 1) <= MaxResources * (k - 1)
    <3> HIDE DEF f, k
    <3>1. f - 1 <= k - 1 /\ f - 1 \in Int /\ k - 1 \in Int
      BY <1>1
    <3>2. QED BY <3>1, Products
  <2>2. MaxResources * (f - 1) \in Int /\ MaxResources * (k - 1) \in Int
    BY <1>1
  <2> HIDE DEF f, k
  <2>3. QED BY <1>1, <1>2, <2>1, <2>2 DEF k
<1>3. CASE \E t \in Committed : cap.remaining >= thread[t].offset - MaxResources * f
  <2>1. PICK t \in Committed : cap.remaining >= thread[t].offset - MaxResources * f
    BY <1>3
  <2>2. thread[t].offset \in Nat
    BY ThreadType, ShapeType DEF Committed
  <2>3. f <= k - 1
    BY <2>1, UncommittedType
  <2>4. MaxResources * f <= MaxResources * (k - 1)
    <3> HIDE DEF f, k
    <3>1. k - 1 \in Int /\ f \in Int
      BY <1>1
    <3>2. QED BY <2>3, <3>1, Products
  <2>5. MaxResources * f \in Int /\ MaxResources * (k - 1) \in Int
    BY <1>1
  <2> HIDE DEF f, k
  <2>6. QED BY <1>1, <2>1, <2>2, <2>4, <2>5 DEF k
<1>4. QED
  BY <1>2, <1>3 DEF Overdrawn, Uncommitted

(* One goroutine commits itself, or another is done, in which case what it *)
(* asked for may have been subtracted.                                     *)
LEMMA Commits ==
    ASSUME Shape, Shape', NEW t \in Threads, Moves(t), t \notin Committed, t \in Committed',
           thread'[t].offset = thread[t].offset, thread[t].offset <= cap.remaining, cap' = cap
    PROVE  Overdrawn'
<1>1. Uncommitted' \in Nat
  BY UncommittedType
<1>2. MaxResources * Uncommitted' \in Nat
  BY <1>1, ProductType
<1>3. thread[t].offset \in Nat /\ cap.remaining \in Int
  BY ThreadType, CapType, ShapeType
<1>4. cap'.remaining >= thread'[t].offset - MaxResources * Uncommitted'
  BY <1>2, <1>3
<1>5. QED
  BY <1>4 DEF Overdrawn, Uncommitted

LEMMA Uncommits ==
    ASSUME Shape, NEW t \in Threads, Moves(t), t \in Committed, t \notin Committed'
    PROVE  Committed' = Committed \ {t} /\ Uncommitted' = Uncommitted + 1
<1>1. Committed' = Committed \ {t} /\ Committed \in SUBSET Threads
  BY DEF Committed, Moves
<1>2. IsFiniteSet(Committed) /\ Cardinality(Committed) \in Nat
  BY <1>1, CommittedSize
<1>3. Cardinality(Committed \ {t}) = Cardinality(Committed) - 1
  BY <1>2, FS_RemoveElement
<1>4. QED
  BY <1>1, <1>2, <1>3, Amounts DEF Uncommitted

LEMMA Done ==
    ASSUME Shape, Overdrawn, NEW t \in Threads, Moves(t), t \in Committed, t \notin Committed',
           cap'.remaining \in Int, cap'.remaining >= cap.remaining - thread[t].offset,
           cap'.remaining = cap.remaining \/ cap'.remaining = cap.remaining - thread[t].offset
    PROVE  Overdrawn'
<1> DEFINE f == Uncommitted
           g == Uncommitted'
           r == cap.remaining
           s == cap'.remaining
<1>1. Committed' = Committed \ {t} /\ g = f + 1
  BY Uncommits
<1>2. /\ f \in Nat /\ g \in Nat /\ r \in Int /\ s \in Int /\ MaxResources \in Nat
      /\ \A u \in Threads : thread[u].offset \in Nat /\ thread[u].offset <= MaxResources
  BY UncommittedType, CapType, ThreadType, ShapeType, Amounts
<1>3. s >= r - thread[t].offset /\ thread[t].offset \in Nat /\ thread[t].offset <= MaxResources
  BY <1>2
<1>4. \A u \in Committed' : u \in Committed /\ thread'[u].offset = thread[u].offset
  BY <1>1 DEF Moves, Committed
<1> HIDE DEF f, g, r, s
<1>5. /\ MaxResources * g = MaxResources * f + MaxResources /\ MaxResources * f \in Int
      /\ MaxResources * (f - 1) = MaxResources * f - MaxResources
      /\ MaxResources * (g - 1) = MaxResources * f
  <2>1. g - 1 = f
    BY <1>1, <1>2
  <2>2. QED BY <1>1, <1>2, <2>1, Products
<1>6. CASE r >= -(MaxResources * (f - 1))
  <2>1. s >= -(MaxResources * (g - 1))
    BY <1>2, <1>3, <1>5, <1>6
  <2>2. QED BY <2>1 DEF Overdrawn, s, g, Uncommitted
<1>7. CASE r >= thread[t].offset - MaxResources * f
  <2>1. s >= -(MaxResources * (g - 1))
    BY <1>2, <1>3, <1>5, <1>7
  <2>2. QED BY <2>1 DEF Overdrawn, s, g, Uncommitted
<1>8. ASSUME NEW u \in Committed, u # t, r >= thread[u].offset - MaxResources * f PROVE Overdrawn'
  <2>1. u \in Committed' /\ thread'[u].offset = thread[u].offset /\ thread[u].offset \in Nat
    BY <1>1, <1>2, <1>4, <1>8 DEF Committed
  <2>2. s >= thread[u].offset - MaxResources * g
    BY <1>2, <1>3, <1>5, <1>8, <2>1
  <2>3. QED BY <2>1, <2>2 DEF Overdrawn, s, g, Uncommitted
<1>9. QED
  BY <1>6, <1>7, <1>8 DEF Overdrawn, f, r, Uncommitted

LEMMA OverdrawnKept ==
    ASSUME Overdrawn, NEW t \in Threads, Moves(t), t \in Committed <=> t \in Committed',
           t \in Committed => thread'[t].offset = thread[t].offset, cap' = cap
    PROVE  Overdrawn'
<1>1. Committed' = Committed /\ \A u \in Committed : thread'[u].offset = thread[u].offset
  BY DEF Committed, Moves
<1>2. QED BY <1>1 DEF Overdrawn

LEMMA NextOverdrawn == ASSUME Inv, [Next]_vars, ~hist'.uncounted, server'.month = 0 PROVE Overdrawn'
<1>0. Shape /\ Steps /\ ~hist.uncounted /\ Shape' /\ Typed /\ server.month \in Nat
  BY CountsStayLost, NextShape, ShapeType DEF Inv
<1>1. server.month = 0
  BY <1>0, ExecutesUp, PeriodStep, MonthStep, CrashStep, CreateStep DEF Next, vars
<1>2. Overdrawn
  BY <1>0, <1>1 DEF Inv
<1>3. cap \in Caps /\ ~cap.passes /\ Fresh(cap) /\ cap.remaining \in Int /\ cap'.remaining \in Int
  BY <1>0, <1>1, CapType DEF Shape, SeenCap, Seen, Fresh
<1>4. CASE UNCHANGED vars
  BY <1>2, <1>4 DEF Overdrawn, Committed, vars
<1>5. ASSUME NEW t \in Threads, client = "up", ExecuteBinding(t) PROVE Overdrawn'
  <2>0. thread[t].pc \notin InGetTweetCap /\ thread[t].offset \in Nat
    BY <1>0, <1>1, ThreadType DEF Steps, Step
  <2>q. ASSUME Moves(t), t \in Committed <=> t \in Committed',
               t \in Committed => thread'[t].offset = thread[t].offset, cap' = cap
        PROVE  Overdrawn'
    BY <1>2, <2>q, OverdrawnKept
  <2>1. CASE CheckRateLimit(t)
    <3>1. CASE thread'[t].pc = "request"
      <4>1. /\ t \notin Committed /\ t \in Committed' /\ Moves(t) /\ cap' = cap
            /\ thread'[t].offset = thread[t].offset
            /\ ~(thread[t].offset > cap.remaining)
        BY <1>0, <2>1, <3>1, CheckStep DEF Committed
      <4>2. thread[t].offset <= cap.remaining
        BY <1>3, <2>0, <4>1
      <4>3. QED BY <1>0, <4>1, <4>2, Commits
    <3>2. CASE thread'[t].pc # "request"
      BY <1>0, <2>1, <2>q, <3>2, CheckStep DEF Committed
    <3>3. QED BY <3>1, <3>2
  <2>2. CASE Request(t)
    <3>1. CASE thread'[t].pc = "idle"
      <4>1. t \in Committed /\ t \notin Committed' /\ Moves(t) /\ cap' = cap
        BY <1>0, <2>2, <3>1, RequestStep DEF Committed
      <4>2. cap'.remaining >= cap.remaining - thread[t].offset
        BY <1>3, <2>0, <4>1
      <4>3. QED BY <1>0, <1>2, <1>3, <4>1, <4>2, Done
    <3>2. CASE thread'[t].pc # "idle"
      BY <1>0, <2>2, <2>q, <3>2, RequestStep DEF Committed
    <3>3. QED BY <3>1, <3>2
  <2>3. CASE SetTweetCap(t)
    <3>1. /\ Moves(t) /\ thread[t].pc = "setCap" /\ thread'[t].pc \in {"marshal", "readFile"}
          /\ cap' = thread[t].cap /\ cap'.month = cap.month
          /\ cap.used = cap'.used - thread[t].offset
          /\ UNCHANGED server
      BY <1>0, <2>3, SetStep
    <3>2. cap' \in Caps /\ ~cap'.passes
      BY <1>0, <1>1, <3>1, CapType DEF Shape, SeenCap, Seen
    <3>3. /\ cap.used \in Nat /\ cap'.used \in Nat
          /\ cap.used + cap.remaining = Cap /\ cap'.used + cap'.remaining = Cap
      BY <1>3, <3>2, CapType
    <3>4. cap'.remaining = cap.remaining - thread[t].offset
      BY <1>3, <2>0, <3>1, <3>3, Amounts
    <3>5. cap'.remaining >= cap.remaining - thread[t].offset
      BY <1>3, <2>0, <3>4
    <3>6. t \in Committed /\ t \notin Committed'
      BY <3>1 DEF Committed
    <3>7. QED BY <1>0, <1>2, <1>3, <3>1, <3>4, <3>5, <3>6, Done
  <2>4. CASE Begin(t) \/ ReadCap(t)
    BY <1>0, <2>4, <2>q, BeginStep, ReadCapStep DEF Committed
  <2>5. CASE ReadFile(t) \/ Parse(t) \/ IsFresh(t) \/ FetchFromWeb(t) \/ StoreCap(t)
    BY <2>0, <2>5 DEF ReadFile, Parse, IsFresh, FetchFromWeb, StoreCap, InGetTweetCap
  <2>6. CASE Marshal(t) \/ CreateFile(t) \/ WriteFile(t)
    BY <1>0, <2>6, <2>q, MarshalStep, CreateFileStep, WriteStep DEF Committed
  <2>7. CASE AnswerIsError(t) \/ WriteFails(t)
    BY <1>0, <2>7, ErrorStep, WriteFailsStep
  <2>8. CASE LoadLimit(t) \/ StoreLimit(t)
    BY <1>0, <2>8, <2>q, LoadLimitStep, StoreLimitStep DEF Committed
  <2>9. QED
    BY <1>5, <2>1, <2>2, <2>3, <2>4, <2>5, <2>6, <2>7, <2>8 DEF ExecuteBinding
<1>6. CASE NewPeriod
  BY <1>0, <1>2, <1>6, PeriodStep DEF Overdrawn, Committed
<1>7. CASE NewMonth
  BY <1>0, <1>1, <1>7, MonthStep
<1>8. CASE Crash
  <2>1. Committed' = {} /\ cap' = cap
    BY <1>0, <1>8, CrashStep DEF Committed
  <2>2. cap.remaining >= -(MaxResources * (Cardinality(Threads) - 1))
    BY <1>0, <1>2, Deepest
  <2>3. Cardinality(Committed') = 0
    BY <2>1, FS_EmptySet
  <2>4. Cardinality(Threads) - 0 = Cardinality(Threads)
    BY Amounts
  <2>5. QED BY <2>1, <2>2, <2>3, <2>4 DEF Overdrawn
<1>9. CASE Create
  <2>1. cap' = cap /\ thread' = thread
    <3>1. /\ thread' = thread /\ client = "down"
          /\ cap' = cap \/ (file # Torn /\ cap' = IF CheckFresh(file) THEN file ELSE CapOf(server.pulled, server.month))
      BY <1>0, <1>9, CreateStep
    <3>2. Left
      BY <1>0, <3>1 DEF Inv
    <3>3. file # Torn => Fresh(file)
      BY <1>0, <1>1, CapType DEF Shape, SeenCap, Seen, Fresh
    <3>4. QED BY <3>1, <3>2, <3>3 DEF Left, Fresh, CheckFresh
  <2>2. QED BY <1>2, <2>1 DEF Overdrawn, Committed
<1>10. QED
  BY <1>4, <1>5, <1>6, <1>7, <1>8, <1>9 DEF Next

-----------------------------------------------------------------------------
(* The rate limit.                                                         *)

(* The answers of this period, and the limits that know of them.           *)
LEMMA KnowsType ==
    ASSUME Shape, NEW v \in Answers
    PROVE  /\ \A l : KnownLimit(l) =>
                (Knows(l, v) <=> l.period = server.period /\ l.remaining <= v)
           /\ Knows(Answer(v), v) /\ KnownLimit(Answer(v))
<1>1. \A l : KnownLimit(l) => (Knows(l, v) <=> l.period = server.period /\ l.remaining <= v)
  BY LimitType DEF Knows, Valid, KnownLimit
<1>2. Answer(v) \in Limits /\ Answer(v).period = server.period /\ Answer(v).remaining = v
  BY ShapeType, AnswerType
<1>3. KnownLimit(Answer(v)) /\ v \in Nat
  BY <1>2, ShapeType, Amounts DEF KnownLimit
<1>4. QED BY <1>1, <1>2, <1>3

(* A limit that takes the place of the one that it was compared with knows *)
(* of all that that one does, and so does that one if it stays.            *)
LEMMA NewerKnows ==
    ASSUME Shape, NEW v \in Answers, NEW l, KnownLimit(l), NEW old, old = None \/ KnownLimit(old)
    PROVE  /\ Newer(l, old) /\ Knows(old, v) => Knows(l, v)
           /\ ~Newer(l, old) /\ Knows(l, v) => Knows(old, v)
<1>1. CASE old = None
  BY <1>1 DEF Newer, Knows, Valid
<1>2. CASE KnownLimit(old)
  <2>1. /\ Knows(l, v) <=> l.period = server.period /\ l.remaining <= v
        /\ Knows(old, v) <=> old.period = server.period /\ old.remaining <= v
    BY <1>2, KnowsType
  <2>2. /\ l.period \in Nat /\ l.period <= server.period /\ l.remaining \in Nat
        /\ old.period \in Nat /\ old.period <= server.period /\ old.remaining \in Nat
        /\ server.period \in Nat /\ v \in Nat /\ old # None
    BY <1>2, LimitType, ShapeType, Amounts DEF KnownLimit
  <2>3. QED BY <2>1, <2>2 DEF Newer
<1>3. QED BY <1>1, <1>2

LEMMA NextAllowed == ASSUME Inv, [Next]_vars PROVE Allowed'
<1>0. Shape /\ Steps /\ Allowed /\ Typed /\ server.requests \in Nat /\ server.period \in Nat
  BY ShapeType DEF Inv
<1>1. CASE UNCHANGED vars
  BY <1>0, <1>1 DEF Allowed, Allows, Valid, vars
<1>q. ASSUME server'.period = server.period, server'.requests \in Nat, server'.requests <= server.requests
      PROVE  \A l : Allows(l) /\ (l = None \/ KnownLimit(l)) =>
                (l # None /\ l.period = server'.period => server'.requests <= l.remaining)
  <2>1. SUFFICES ASSUME NEW l, Allows(l), l = None \/ KnownLimit(l), l # None, l.period = server'.period
                 PROVE  server'.requests <= l.remaining
    OBVIOUS
  <2>2. l.remaining \in Nat /\ server.requests <= l.remaining
    BY <1>q, <2>1, LimitType DEF Allows, Valid, KnownLimit
  <2>3. QED BY <1>0, <1>q, <2>2
<1>k. /\ limit = None \/ KnownLimit(limit)
      /\ \A u \in Threads : thread[u].limit = None \/ KnownLimit(thread[u].limit)
  BY <1>0 DEF Shape, Steps, Step
<1>2. ASSUME NEW t \in Threads, client = "up", ExecuteBinding(t) PROVE Allowed'
  <2>q. ASSUME Moves(t), server'.period = server.period, server'.requests \in Nat,
               server'.requests <= server.requests,
               limit' = limit \/ limit' = thread[t].limit,
               thread'[t].limit = None \/ thread'[t].limit = thread[t].limit \/ Allows(thread[t].limit)'
        PROVE  Allowed'
    <3>1. \A l : Allows(l) /\ (l = None \/ KnownLimit(l)) =>
                (l # None /\ l.period = server'.period => server'.requests <= l.remaining)
      BY <2>q, <1>q
    <3>2. \A u \in Threads \ {t} : thread'[u].limit = thread[u].limit
      BY <2>q DEF Moves
    <3>3. Allows(limit)'
      BY <1>0, <1>k, <2>q, <3>1 DEF Allowed, Allows, Valid
    <3>4. \A u \in Threads : Allows(thread[u].limit)'
      BY <1>0, <1>k, <2>q, <3>1, <3>2 DEF Allowed, Allows, Valid
    <3>5. QED BY <3>3, <3>4 DEF Allowed
  <2>1. CASE Request(t)
    <3>1. CASE thread'[t].pc = "idle"
      BY <1>0, <2>1, <3>1, <2>q, RequestStep
    <3>2. CASE thread'[t].pc # "idle"
      <4>1. /\ Moves(t) /\ limit' = limit /\ server'.period = server.period
            /\ server'.requests = server.requests - 1 /\ server.requests - 1 \in Answers
            /\ thread'[t].limit = Answer(server.requests - 1)
        BY <1>0, <2>1, <3>2, RequestStep
      <4>2. thread'[t].limit.remaining = server'.requests
        BY <1>0, <4>1, AnswerType, ShapeType
      <4>3. server'.requests \in Nat /\ server'.requests <= server.requests
        BY <1>0, <4>1, Amounts
      <4>4. Allows(thread[t].limit)'
        BY <4>2, <4>3 DEF Allows
      <4>5. QED BY <2>q, <4>1, <4>3, <4>4
    <3>3. QED BY <3>1, <3>2
  <2>2. CASE StoreLimit(t)
    BY <1>0, <2>2, <2>q, StoreLimitStep
  <2>3. CASE StoreCap(t)
    BY <1>0, <2>3, <2>q, StoreCapStep, StoreCapHolds
  <2>4. CASE Begin(t) \/ CheckRateLimit(t) \/ AnswerIsError(t) \/ ReadCap(t) \/ SetTweetCap(t)
    BY <1>0, <2>4, <2>q, BeginStep, CheckStep, ErrorStep, ReadCapStep, SetStep
  <2>5. CASE ReadFile(t) \/ Parse(t) \/ IsFresh(t) \/ FetchFromWeb(t)
    BY <1>0, <2>5, <2>q, ReadFileStep, ParseStep, IsFreshStep, FetchStep
  <2>6. CASE Marshal(t) \/ CreateFile(t) \/ WriteFile(t) \/ WriteFails(t) \/ LoadLimit(t)
    BY <1>0, <2>6, <2>q, MarshalStep, CreateFileStep, WriteStep, WriteFailsStep, LoadLimitStep
  <2>7. QED
    BY <1>2, <2>1, <2>2, <2>3, <2>4, <2>5, <2>6 DEF ExecuteBinding
<1>3. CASE NewPeriod
  <2>1. UNCHANGED <<limit, thread>> /\ server'.period = server.period + 1
    BY <1>0, <1>3, PeriodStep
  <2>2. \A l : KnownLimit(l) => l.period # server'.period
    BY <1>0, <2>1, LimitType DEF KnownLimit
  <2>3. QED BY <1>k, <2>1, <2>2 DEF Allowed, Allows, Valid
<1>4. CASE NewMonth
  BY <1>0, <1>4, MonthStep DEF Allowed, Allows, Valid
<1>5. CASE Crash
  BY <1>0, <1>5, CrashStep DEF Allowed, Allows, Valid
<1>6. CASE Create
  BY <1>0, <1>6, CreateStep DEF Allowed, Allows, Valid
<1>7. QED
  BY <1>1, <1>2, <1>3, <1>4, <1>5, <1>6 DEF Next

(* An answer gets into the limit, stays with its goroutine, or is lost.    *)
LEMMA NextRecorded == ASSUME Inv, [Next]_vars PROVE Recorded'
<1>0. /\ Shape /\ Steps /\ Recorded /\ Typed /\ Shape'
      /\ server.requests \in Nat /\ server.requests <= Requests /\ server.period \in Nat
  BY ShapeType, NextShape DEF Inv
<1>1. CASE UNCHANGED vars
  BY <1>0, <1>1 DEF Recorded, Knows, Valid, Answer, vars
<1>a. \A v \in server.requests .. Requests - 1 : v \in Answers
  BY <1>0, Amounts DEF Answers
<1>2. ASSUME NEW t \in Threads, client = "up", ExecuteBinding(t) PROVE Recorded'
  <2> DEFINE Known(v) == \/ v \in hist'.lost
                         \/ limit' # None /\ limit'.period = server.period /\ limit'.remaining <= v
                         \/ \E u \in Threads : thread'[u].limit = Answer(v)
  <2>0. client' = "up" /\ server'.period = server.period
    BY <1>0, <1>2, ExecutesUp
  <2>n. \A v \in Answers : Answer(v) # None
    BY <1>0, AnswerType, ShapeType
  <2>q. ASSUME \A v \in server'.requests .. Requests - 1 : Known(v) PROVE Recorded'
    BY <2>0, <2>q DEF Recorded, Knows, Valid, Answer
  <2>k. ASSUME Moves(t), UNCHANGED <<limit, server>>, hist.lost \subseteq hist'.lost,
               \/ thread'[t].limit = thread[t].limit
               \/ thread[t].limit = None
               \/ hist'.lost = Lost(t)
        PROVE  Recorded'
    <3>1. ASSUME NEW v \in server.requests .. Requests - 1 PROVE Known(v)
      <4>1. v \in Answers
        BY <1>a
      <4>2. CASE v \in hist.lost
        BY <2>k, <4>2
      <4>3. CASE Knows(limit, v)
        BY <2>k, <4>3 DEF Knows, Valid
      <4>4. ASSUME NEW u \in Threads, thread[u].limit = Answer(v) PROVE Known(v)
        <5>1. CASE u # t \/ thread'[t].limit = thread[t].limit
          BY <2>k, <4>4, <5>1 DEF Moves
        <5>2. CASE u = t /\ thread[t].limit = None
          BY <2>n, <4>1, <4>4, <5>2
        <5>3. CASE u = t /\ hist'.lost = Lost(t)
          BY <4>1, <4>4, <5>3 DEF Lost
        <5>4. QED BY <2>k, <5>1, <5>2, <5>3
      <4>5. QED BY <1>0, <3>1, <4>2, <4>3, <4>4 DEF Recorded
    <3>2. QED BY <2>k, <2>q, <3>1
  <2>l. hist.lost \subseteq Lost(t)
    BY DEF Lost
  <2>1. CASE Request(t)
    <3>0. thread[t].limit = None
      BY <1>0, <2>1 DEF Steps, Step, Answered, Request
    <3>1. CASE thread'[t].pc = "idle"
      BY <1>0, <2>1, <3>0, <3>1, <2>k, RequestStep
    <3>2. CASE thread'[t].pc # "idle"
      <4>1. /\ Moves(t) /\ UNCHANGED <<limit, hist>>
            /\ server'.requests = server.requests - 1 /\ server.requests - 1 \in Answers
            /\ thread'[t].limit = Answer(server.requests - 1)
        BY <1>0, <2>1, <3>2, RequestStep
      <4>2. ASSUME NEW v \in server'.requests .. Requests - 1 PROVE Known(v)
        <5>1. CASE v = server.requests - 1
          BY <4>1, <5>1
        <5>2. CASE v # server.requests - 1
          <6>1. v \in server.requests .. Requests - 1
            BY <1>0, <4>1, <4>2, <5>2
          <6>2. v \in hist.lost \/ Knows(limit, v) \/ \E u \in Threads : thread[u].limit = Answer(v)
            BY <1>0, <6>1 DEF Recorded
          <6>3. ASSUME NEW u \in Threads, thread[u].limit = Answer(v) PROVE thread'[u].limit = Answer(v)
            <7>1. u # t
              BY <1>a, <2>n, <3>0, <6>1, <6>3
            <7>2. QED BY <4>1, <6>3, <7>1 DEF Moves
          <6>4. QED BY <4>1, <6>2, <6>3 DEF Knows, Valid
        <5>3. QED BY <5>1, <5>2
      <4>3. QED BY <2>q, <4>2
    <3>3. QED BY <3>1, <3>2
  <2>2. CASE StoreLimit(t)
    <3>1. /\ Moves(t) /\ thread[t].pc = "storeLimit" /\ UNCHANGED server
          /\ limit' = IF Newer(thread[t].limit, thread[t].seen) THEN thread[t].limit ELSE limit
          /\ hist'.lost = hist.lost \cup Dropped(t)
      BY <1>0, <2>2, StoreLimitStep
    <3>2. KnownLimit(thread[t].limit) /\ (limit = None \/ KnownLimit(limit))
      BY <1>0, <3>1 DEF Shape, Steps, Step, Answered
    <3>3. ASSUME NEW v \in server.requests .. Requests - 1 PROVE Known(v)
      <4>1. v \in Answers
        BY <1>a
      <4>2. CASE v \in hist.lost
        BY <3>1, <4>2
      <4>3. ASSUME NEW u \in Threads \ {t}, thread[u].limit = Answer(v) PROVE Known(v)
        BY <3>1, <4>3 DEF Moves
      <4>4. CASE Knows(limit, v) \/ thread[t].limit = Answer(v)
        <5>1. CASE Knows(limit', v)
          BY <3>1, <5>1 DEF Knows, Valid
        <5>2. CASE ~Knows(limit', v) /\ thread[t].seen # limit
          BY <3>1, <4>1, <4>4, <5>2 DEF Dropped
        <5>3. CASE ~Knows(limit', v) /\ thread[t].seen = limit
          <6>1. thread[t].limit = Answer(v) => Knows(thread[t].limit, v)
            BY <1>0, <4>1, KnowsType
          <6>2. /\ Newer(thread[t].limit, limit) /\ Knows(limit, v) => Knows(thread[t].limit, v)
                /\ ~Newer(thread[t].limit, limit) /\ Knows(thread[t].limit, v) => Knows(limit, v)
            BY <1>0, <3>2, <4>1, NewerKnows
          <6>3. QED BY <3>1, <4>4, <5>3, <6>1, <6>2
        <5>4. QED BY <5>1, <5>2, <5>3
      <4>5. QED BY <1>0, <3>3, <4>2, <4>3, <4>4 DEF Recorded
    <3>4. QED BY <2>q, <3>1, <3>3
  <2>3. CASE Begin(t) \/ CheckRateLimit(t)
    <3>1. thread[t].limit = None
      BY <1>0, <2>3 DEF Steps, Step, Answered, Begin, CheckRateLimit
    <3>2. QED BY <1>0, <2>3, <3>1, <2>k, BeginStep, CheckStep
  <2>4. CASE AnswerIsError(t) \/ WriteFails(t)
    BY <1>0, <2>4, <2>k, <2>l, ErrorStep, WriteFailsStep
  <2>5. CASE ReadCap(t) \/ SetTweetCap(t) \/ ReadFile(t) \/ IsFresh(t)
    BY <1>0, <2>5, <2>k, ReadCapStep, SetStep, ReadFileStep, IsFreshStep
  <2>6. CASE Parse(t)
    BY <1>0, <2>6, <2>k, <2>l, ParseStep
  <2>7. CASE FetchFromWeb(t)
    BY <1>0, <2>7, <2>k, <2>l, FetchStep
  <2>8. CASE StoreCap(t)
    BY <1>0, <2>8, <2>k, StoreCapStep, StoreCapHolds
  <2>9. CASE Marshal(t) \/ CreateFile(t) \/ WriteFile(t) \/ LoadLimit(t)
    BY <1>0, <2>9, <2>k, MarshalStep, CreateFileStep, WriteStep, LoadLimitStep
  <2>10. QED
    BY <1>2, <2>1, <2>2, <2>3, <2>4, <2>5, <2>6, <2>7, <2>8, <2>9 DEF ExecuteBinding
<1>3. CASE NewPeriod
  <2>1. server'.requests = Requests
    BY <1>0, <1>3, PeriodStep
  <2>2. Requests .. Requests - 1 = {}
    BY Amounts
  <2>3. QED BY <2>1, <2>2 DEF Recorded
<1>4. CASE NewMonth
  BY <1>0, <1>4, MonthStep DEF Recorded, Knows, Valid, Answer
<1>5. CASE Crash
  <2>1. hist'.lost = Answers /\ UNCHANGED server
    BY <1>0, <1>5, CrashStep
  <2>2. QED BY <1>a, <2>1 DEF Recorded
<1>6. CASE Create
  <2>1. client = "down" /\ UNCHANGED server /\ hist'.lost = hist.lost
    BY <1>0, <1>6, CreateStep
  <2>2. QED BY <1>0, <2>1 DEF Recorded
<1>7. QED
  BY <1>1, <1>2, <1>3, <1>4, <1>5, <1>6 DEF Next

LEMMA NextInv == ASSUME Inv, [Next]_vars PROVE Inv'
<1>1. Shape' /\ Steps' /\ CapOnDisk' /\ Allowed' /\ Recorded'
  BY NextShape, NextSteps, NextCapOnDisk, NextAllowed, NextRecorded
<1>2. ASSUME ~hist'.uncounted, client' = "up" PROVE Counted' /\ Fetched' /\ Newest' /\ Written'
  BY <1>2, NextCounted, NextFetched, NextNewest, NextWritten
<1>3. ASSUME ~hist'.uncounted, client' = "down" PROVE Left'
  BY <1>3, NextLeft
<1>4. ASSUME ~hist'.uncounted, server'.month = 0 PROVE Overdrawn'
  BY <1>4, NextOverdrawn
<1>5. QED
  BY <1>1, <1>2, <1>3, <1>4 DEF Inv

(* The inductive invariant holds.                                          *)
LEMMA InvHolds == Spec => []Inv
  BY InitInv, NextInv, PTL DEF Spec

(* The caps and limits are of their types, and in the first month the cap  *)
(* is overdrawn by no more than a request of each goroutine but one.       *)
THEOREM TypeCorrect == Spec => []TypeOK
<1>1. Inv => TypeOK
  <2> SUFFICES ASSUME Inv PROVE TypeOK
    OBVIOUS
  <2>1. Shape /\ Typed
    BY ShapeType DEF Inv
  <2>2. cap.used \in Nat /\ cap.remaining \in Int /\ cap.remaining <= Cap
    BY <2>1, CapType, ShapeType
  <2>3. server.month = 0 /\ ~hist.uncounted => cap.remaining >= -((Cardinality(Threads) - 1) * MaxResources)
    <3>1. (Cardinality(Threads) - 1) * MaxResources = MaxResources * (Cardinality(Threads) - 1)
      BY Amounts
    <3>2. QED BY <2>1, <3>1, Deepest DEF Inv
  <2>4. file = Torn \/ file.used \in Nat
    BY <2>1, CapType DEF Shape, SeenCap
  <2>5. limit = None \/ (limit.period \in 0 .. server.period /\ limit.remaining \in 0 .. Requests - 1)
    BY <2>1 DEF Shape, KnownLimit, Limits, Answers
  <2>6. \A t \in Threads : thread[t].left \in Nat /\ thread[t].offset \in 0 .. MaxResources
    BY <2>1, ThreadType
  <2>7. QED BY <2>1, <2>2, <2>3, <2>4, <2>5, <2>6 DEF TypeOK, Shape
<1>2. QED BY <1>1, InvHolds, PTL

(* However searches, fetches, failures, months and restarts interleave, the*)
(* client knows of every tweet that was pulled this month, but for those   *)
(* that the searches under way asked for, or else a count was lost where   *)
(* the code loses it; and the next process can read the file, unless it was*)
(* torn.                                                                   *)
THEOREM CapIsCounted == Spec => []CapAccounts
<1>1. Inv => CapAccounts
  <2> SUFFICES ASSUME Inv PROVE CapAccounts
    OBVIOUS
  <2>1. Shape /\ CapOnDisk
    BY DEF Inv
  <2>2. cap.used + cap.remaining = Cap \/ (cap.passes /\ cap.used + cap.remaining = 0)
    BY <2>1, ShapeType DEF Caps
  <2>3. ASSUME client = "up", Fresh(cap), ~hist.uncounted
        PROVE  server.pulled <= cap.used + MaxResources * Cardinality({t \in Threads : Counting(t)})
    <3> DEFINE n == Cardinality({t \in Threads : Counting(t)})
    <3>1. server.pulled <= cap.used + Cardinality(Asked)
      BY <2>3 DEF Inv, Counted
    <3>2. Cardinality(Asked) <= MaxResources * n
      BY <2>1, AskedBound
    <3>3. /\ server.pulled \in Nat /\ cap.used \in Nat /\ Cardinality(Asked) \in Nat
      BY <2>1, CapType, AskedFinite, ShapeType
    <3>4. n \in Nat
      <4>1. {t \in Threads : Counting(t)} \in SUBSET Threads
        OBVIOUS
      <4>2. QED BY <4>1, CommittedSize
    <3>5. MaxResources * n \in Nat
      BY <3>4, ProductType
    <3> HIDE DEF n
    <3>6. QED BY <3>1, <3>2, <3>3, <3>5 DEF n
  <2>4. QED BY <2>1, <2>2, <2>3 DEF CapAccounts, CapInMemory
<1>2. QED BY <1>1, InvHolds, PTL

(* The limit never denies a request that Twitter would answer, and every   *)
(* answer of the period is in it, still with its goroutine, or lost where  *)
(* an error or a race between loading and storing it loses it.             *)
THEOREM LimitIsAccounted == Spec => []LimitAccounts
<1>1. Inv => LimitAccounts
  BY DEF Inv, Allowed, Allows, Recorded, LimitAccounts
<1>2. QED BY <1>1, InvHolds, PTL
================================================================================
