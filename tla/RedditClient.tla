----------------------------- MODULE RedditClient -----------------------------
(***************************************************************************)
(* reddit.Client (reddit/client.go): the workers of the Discovery and      *)
(* Update phases make requests with one client, which fetches the access   *)
(* token when there is none or it has expired, remembers the rate limit of *)
(* each binding, and counts the requests of each period of five minutes in *)
(* a map of bounded size.  UpdatePhase subtracts the requests made on this *)
(* day from those that are allowed.                                        *)
(*                                                                         *)
(* Time goes by in periods.  Reddit's answers are external: a limit is     *)
(* that of a window of two periods, and its reset, computed from the       *)
(* seconds that are left, may be rounded either way.                       *)
(***************************************************************************)
EXTENDS Integers, FiniteSets, Functions, FiniteSetsExt, Totals

CONSTANTS
    Threads, Bindings,
    AccessToken,            \* the binding that fetches the access token
    Allowed,                \* requests that Reddit allows per window
    PeriodCountMax,         \* requestsPeriodCountMax
    PeriodsPerDay,
    TokenPeriods,           \* how long an access token is valid
    MaxPeriod, MaxRequests, MaxFaults,      \* bounds
    None

ASSUME RedditAssumption ==
    /\ IsFiniteSet(Threads) /\ Allowed \in Nat \ {0}
    /\ None \notin Bindings \cup {AccessToken}
    /\ PeriodsPerDay \in Nat \ {0} /\ PeriodCountMax \in Nat /\ PeriodCountMax > PeriodsPerDay
    /\ TokenPeriods \in Nat \ {0} /\ {MaxPeriod, MaxRequests, MaxFaults} \subseteq Nat

VARIABLES
    now,            \* the period that the clock shows
    token,          \* the period in which the access token expires, or None
    limits,         \* rateLimits: a limit or None for each binding
    counts,         \* requestsPeriodCount: a counter for each period in it
    periods,        \* requestPeriods
    thread,         \* where each goroutine is in Run
    server,         \* requests of this window, and faults so far
    hist            \* what was counted for each period; did two insert at once?

vars == <<now, token, limits, counts, periods, thread, server, hist>>

(* outer: the binding of the request that the access token is fetched for; *)
(* held: was the period in the map; orphan: was its counter deleted since? *)
Idle == [pc |-> "idle", binding |-> None, outer |-> None, limit |-> None, seen |-> None, period |-> 0,
         held |-> FALSE, orphan |-> FALSE]
Window(p) == p \div 2
Today(p) == p \div PeriodsPerDay = now \div PeriodsPerDay

Init ==
    /\ now = 0
    /\ token = None
    /\ limits = [b \in Bindings \cup {AccessToken} |-> None]
    /\ counts = [p \in {} |-> 0]
    /\ periods = 0
    /\ thread = [t \in Threads |-> Idle]
    /\ server = [used |-> 0, requests |-> 0, faults |-> 0]
    /\ hist = [counted |-> [p \in 0 .. MaxPeriod |-> 0], raced |-> FALSE]

Fault == server.faults < MaxFaults /\ server' = [server EXCEPT !.faults = @ + 1]
Goto(t, pc) == thread' = [thread EXCEPT ![t].pc = pc]

(* Run for the access token returns to the Run that needs it.              *)
Returned(t) ==
    IF thread[t].outer = None THEN Idle ELSE [Idle EXCEPT !.pc = "fetched", !.binding = thread[t].outer]
Return(t) == thread' = [thread EXCEPT ![t] = Returned(t)]
Fail(t) == thread' = [thread EXCEPT ![t] = Idle]
Inserts(t) == thread[t].pc \in {"count", "full", "grow", "evict", "delete"} /\ ~thread[t].held

-----------------------------------------------------------------------------
(* SleepUntilReset, before a request: the latest limit is sought among all *)
(* bindings, in the order of the map, and not for the binding's name.      *)

Later(l, m) == l.reset >= m.reset /\ m.used > l.used

Latest ==
    LET Known == Range(limits) \ {None}
    IN  {l \in Known : \A m \in Known : m # l => ~Later(l, m)}

Awake == Latest # {} => \E l \in Latest : ~(l.remaining = 0 /\ l.reset > now)

Begin(t) ==
    /\ thread[t].pc = "idle" /\ server.requests < MaxRequests
    /\ Awake
    /\ \E b \in Bindings : thread' = [thread EXCEPT ![t] = [Idle EXCEPT !.pc = "token", !.binding = b]]
    /\ server' = [server EXCEPT !.requests = @ + 1]
    /\ UNCHANGED <<now, token, limits, counts, periods, hist>>

Expired == token = None \/ token < now

(* RefreshToken: two goroutines may both fetch the token, each with a Run  *)
(* of its own.                                                             *)
RefreshToken(t) ==
    /\ thread[t].pc = "token"
    /\ Goto(t, IF Expired THEN "fetch" ELSE "request")
    /\ UNCHANGED <<now, token, limits, counts, periods, server, hist>>

FetchToken(t) ==
    /\ thread[t].pc = "fetch"
    /\ Awake
    /\ thread' = [thread EXCEPT ![t] =
                    [Idle EXCEPT !.pc = "request", !.binding = AccessToken, !.outer = thread[t].binding]]
    /\ UNCHANGED <<now, token, limits, counts, periods, server, hist>>

SetAccessToken(t) ==
    /\ thread[t].pc = "fetched"
    /\ token' = now + TokenPeriods
    /\ Goto(t, "request")
    /\ UNCHANGED <<now, limits, counts, periods, server, hist>>

-----------------------------------------------------------------------------
(* Run.                                                                    *)

(* The answer comes with the limit after it, or without headers, or cannot *)
(* be read: then nothing is counted.                                       *)
Run(t) ==
    /\ thread[t].pc = "request"
    /\ \/ /\ server.used < Allowed
          /\ server' = [server EXCEPT !.used = @ + 1]
          /\ \E rounded \in {0, 1} :
               thread' = [thread EXCEPT ![t].pc = "loadLimit",
                 ![t].limit = [used |-> server.used + 1, remaining |-> Allowed - server.used - 1,
                               reset |-> 2 * Window(now) + 2 + rounded]]
       \/ server.used = Allowed /\ (Return(t) \/ Fail(t)) /\ UNCHANGED server
       \/ Fault /\ (Return(t) \/ Fail(t))
    /\ UNCHANGED <<now, token, limits, counts, periods, hist>>

(* AddRateLimit.                                                           *)
LoadLimit(t) ==
    /\ thread[t].pc = "loadLimit"
    /\ thread' = [thread EXCEPT ![t].pc = "storeLimit", ![t].seen = limits[thread[t].binding]]
    /\ UNCHANGED <<now, token, limits, counts, periods, server, hist>>

Replaces(l, old) == old = None \/ (l.reset >= old.reset /\ l.used > old.used)

(* incrementRequestPeriod begins with the period that the clock shows.     *)
StoreLimit(t) ==
    /\ thread[t].pc = "storeLimit"
    /\ limits' = IF Replaces(thread[t].limit, thread[t].seen)
                 THEN [limits EXCEPT ![thread[t].binding] = thread[t].limit] ELSE limits
    /\ thread' = [thread EXCEPT ![t] =
                    [Idle EXCEPT !.pc = "loadOrStore", !.period = now, !.outer = thread[t].outer]]
    /\ UNCHANGED <<now, token, counts, periods, server, hist>>

LoadOrStore(t) ==
    /\ thread[t].pc = "loadOrStore"
    /\ LET p == thread[t].period
       IN  /\ counts' = IF p \in DOMAIN counts THEN counts
                        ELSE [q \in DOMAIN counts \cup {p} |-> IF q = p THEN 0 ELSE counts[q]]
           /\ thread' = [thread EXCEPT ![t].pc = "count", ![t].held = p \in DOMAIN counts]
    /\ UNCHANGED <<now, token, limits, periods, server, hist>>

(* Nobody reads a counter that was deleted from the map since.             *)
Count(t) ==
    /\ thread[t].pc = "count"
    /\ LET p == thread[t].period
       IN  /\ counts' = IF thread[t].orphan THEN counts ELSE [counts EXCEPT ![p] = @ + 1]
           /\ hist' = [hist EXCEPT !.counted[p] = @ + 1]
    /\ IF thread[t].held THEN Return(t) ELSE Goto(t, "full")
    /\ UNCHANGED <<now, token, limits, periods, server>>

(* Mutant of Full: one period too late.                                    *)
FullLate == periods = PeriodCountMax + 1

Full == periods = PeriodCountMax

LoadPeriods(t) ==
    /\ thread[t].pc = "full"
    /\ Goto(t, IF Full THEN "evict" ELSE "grow")
    /\ hist' = [hist EXCEPT !.raced = @ \/ \E u \in Threads \ {t} : thread[u].pc \in {"full", "evict", "delete", "grow"}]
    /\ UNCHANGED <<now, token, limits, counts, periods, server>>

Grow(t) ==
    /\ thread[t].pc = "grow"
    /\ periods' = periods + 1
    /\ Return(t)
    /\ UNCHANGED <<now, token, limits, counts, server, hist>>

(* Mutant of Oldest: the comparison is the wrong way round.                *)
Newest == Max(DOMAIN counts)

Oldest == Min(DOMAIN counts)

(* Another goroutine may find the same period, and delete it too.          *)
FindOldest(t) ==
    /\ thread[t].pc = "evict"
    /\ thread' = [thread EXCEPT ![t].pc = "delete", ![t].period = Oldest]
    /\ UNCHANGED <<now, token, limits, counts, periods, server, hist>>

Counts(u, p) == thread[u].pc = "count" /\ thread[u].period = p

Evict(t) ==
    /\ thread[t].pc = "delete"
    /\ counts' = RestrictDomain(counts, LAMBDA p : p # thread[t].period)
    /\ thread' = [u \in Threads |->
                    IF u = t THEN Returned(t)
                    ELSE [thread[u] EXCEPT !.orphan = @ \/ Counts(u, thread[t].period)]]
    /\ UNCHANGED <<now, token, limits, periods, server, hist>>

-----------------------------------------------------------------------------
Tick ==
    /\ now < MaxPeriod
    /\ now' = now + 1
    /\ server' = [server EXCEPT !.used = IF Window(now') # Window(now) THEN 0 ELSE @]
    /\ UNCHANGED <<token, limits, counts, periods, thread, hist>>

Next ==
    \/ \E t \in Threads :
         \/ Begin(t) \/ RefreshToken(t) \/ FetchToken(t) \/ SetAccessToken(t) \/ Run(t)
         \/ LoadLimit(t) \/ StoreLimit(t) \/ LoadOrStore(t) \/ Count(t) \/ LoadPeriods(t) \/ Grow(t) \/ FindOldest(t) \/ Evict(t)
    \/ Tick

Spec == Init /\ [][Next]_vars

-----------------------------------------------------------------------------
RequestsMadeToday == Total(counts, {p \in DOMAIN counts : Today(p)})

(* The types, and the size of the map: it holds no more periods than it    *)
(* may and one that is being inserted, unless two goroutines inserted at   *)
(* once; then neither deletes, or both delete the same (client.go:200).    *)
TypeOK ==
    /\ token = None \/ token \in Nat
    /\ \A b \in Bindings \cup {AccessToken} : limits[b] = None \/ limits[b].used + limits[b].remaining = Allowed
    /\ DOMAIN counts \subseteq 0 .. now
    /\ hist.raced \/ Cardinality(DOMAIN counts) <= PeriodCountMax + Cardinality({t \in Threads : Inserts(t)})
    /\ hist.raced \/ (\E t \in Threads : Inserts(t)) \/ Cardinality(DOMAIN counts) = periods

(* Whatever goroutines insert, count and delete at once, all requests that *)
(* were counted on this day are found by RequestsMadeWithinPeriod: none of *)
(* them is in a counter that was replaced or deleted (client.go:230).      *)
RequestsCounted ==
    RequestsMadeToday = Total(hist.counted, {p \in 0 .. now : Today(p)})
=============================================================================
