----------------------------- MODULE TwitterClient -----------------------------
(***************************************************************************)
(* twitter.ClientWrapper (twitter/client.go): searches by several          *)
(* goroutines with one client, which checks each request against the tweet *)
(* cap of the month and the rate limit of the period, as it knows them,    *)
(* and learns both from the answers.  The cap is cached in a file.         *)
(*                                                                         *)
(* Every lock is taken for one read or one write; what is computed from a  *)
(* read, of the cap, its file, the dashboard or the limit, is stored later.*)
(* What Twitter counts, server, is external: it is modelled by the errors  *)
(* and headers that the client handles.  Lookups of users take the same    *)
(* steps without those of the cap.                                         *)
(***************************************************************************)
EXTENDS Integers, FiniteSets

CONSTANTS
    Threads,            \* the goroutines that search
    Totals,             \* numbers of tweets that are searched for
    MinResources, MaxResources,     \* per request
    Requests,           \* requests that Twitter allows per period
    Cap,                \* tweets per month
    MaxCalls, MaxPeriods, MaxMonths, MaxFaults,     \* bounds
    None,               \* no rate limit is known
    Torn                \* a file that is not the JSON of a cap

ASSUME TwitterAssumption ==
    /\ IsFiniteSet(Threads) /\ Threads # {} /\ Totals \subseteq Nat \ {0}
    /\ MinResources \in Nat \ {0} /\ MaxResources \in Nat /\ MinResources <= MaxResources
    /\ Requests \in Nat \ {0} /\ Cap \in Nat
    /\ {MaxCalls, MaxPeriods, MaxMonths, MaxFaults} \subseteq Nat
    /\ Torn \notin [used : Nat, remaining : Int, month : Nat, passes : BOOLEAN]
    /\ None \notin [period : Nat, remaining : Nat]

VARIABLES
    cap,        \* w.TweetCap
    file,       \* the cache file: a cap or Torn
    limit,      \* w.RateLimits for the search
    thread,     \* where each goroutine is in ExecuteBinding
    client,     \* is the client "up", "down" or "refused" at ClientCreate?
    server,     \* what Twitter counts in this period and this month
    bounds,     \* calls and faults so far
    hist        \* observations: see Init

vars == <<cap, file, limit, thread, client, server, bounds, hist>>

(* passes: LastFetched is not before Resets, so that CheckFresh passes for *)
(* good.  So it is of the zero cap, and of one that was read off the       *)
(* dashboard before the month ended and fetched, it says, after that.      *)
ZeroCap == [used |-> 0, remaining |-> 0, month |-> 0, passes |-> TRUE]
CapOf(used, month) == [used |-> used, remaining |-> Cap - used, month |-> month, passes |-> FALSE]
Idle == [pc |-> "idle", left |-> 0, offset |-> 0, cap |-> ZeroCap, limit |-> None,
         seen |-> None, dirty |-> FALSE, mixed |-> FALSE]

CheckFresh(c) == c.passes \/ c.month = server.month
Fresh(c) == ~c.passes /\ c.month = server.month

(* CheckRateLimit only heeds a limit whose reset is still to come.         *)
Valid(l) == l # None /\ l.period = server.period

(* The answer after which v requests of this period remain, and whether a  *)
(* limit is that of this answer or of one after it.                        *)
Answers == 0 .. Requests - 1
Answer(v) == [period |-> server.period, remaining |-> v]
Knows(l, v) == Valid(l) /\ l.remaining <= v

(* uncounted: was a request answered and not counted, or its count lost?   *)
(* torn: did the process end or fail while it wrote the file, or did two   *)
(* writers meet?  lost: the answers of this period that were not stored, or*)
(* overwritten by one that was compared with another limit.                *)
Init ==
    /\ server = [period |-> 0, requests |-> Requests, month |-> 0, pulled |-> 0]
    /\ cap = CapOf(0, 0)
    /\ file = cap
    /\ limit = None
    /\ thread = [t \in Threads |-> Idle]
    /\ client = "up"
    /\ bounds = [calls |-> 0, faults |-> 0]
    /\ hist = [uncounted |-> FALSE, torn |-> FALSE, lost |-> {}]

Fault == bounds.faults < MaxFaults /\ bounds' = [bounds EXCEPT !.faults = @ + 1]
Goto(t, pc) == thread' = [thread EXCEPT ![t].pc = pc]
Return(t) == thread' = [thread EXCEPT ![t] = Idle]

(* The limit of an answer is not stored when an error is returned before.  *)
Lost(t) == hist.lost \cup {v \in Answers : thread[t].limit = Answer(v)}

(* A cap that takes the place of one of this month that is further.        *)
Overwrites(c) == Fresh(cap) /\ ~(Fresh(c) /\ cap.used <= c.used)

-----------------------------------------------------------------------------
(* ExecuteBinding.                                                         *)

Offset(left) ==
    LET most == IF left < MaxResources THEN left ELSE MaxResources
    IN  IF most < MinResources THEN MinResources ELSE most

Begin(t) ==
    /\ thread[t].pc = "idle" /\ bounds.calls < MaxCalls
    /\ \E total \in Totals :
         thread' = [thread EXCEPT ![t] = [Idle EXCEPT !.pc = "check", !.left = total, !.offset = Offset(total)]]
    /\ bounds' = [bounds EXCEPT !.calls = @ + 1]
    /\ UNCHANGED <<cap, file, limit, client, server, hist>>

(* Mutant of Exceeds: the total of the cap is compared, not what remains.  *)
ExceedsTotal(t) ==
    \/ thread[t].offset > Cap
    \/ Valid(limit) /\ thread[t].offset > limit.remaining * MaxResources
    \/ thread[t].offset > Requests * MaxResources

Exceeds(t) ==
    \/ thread[t].offset > cap.remaining
    \/ Valid(limit) /\ thread[t].offset > limit.remaining * MaxResources
    \/ thread[t].offset > Requests * MaxResources

(* There may also be too little time left before the reset for a full      *)
(* request.                                                                *)
CheckRateLimit(t) ==
    /\ thread[t].pc = "check"
    /\ \/ ~Exceeds(t) /\ Goto(t, "request")
       \/ /\ Exceeds(t) \/ (Valid(limit) /\ thread[t].offset >= MaxResources)
          /\ Return(t)
    /\ UNCHANGED <<cap, file, limit, client, server, bounds, hist>>

(* Twitter answers with at most as many tweets as were asked for, and with *)
(* the limit after this request.                                           *)
Request(t) ==
    /\ thread[t].pc = "request"
    /\ \/ /\ server.requests > 0 /\ server.pulled < Cap
          /\ \E n \in 0 .. thread[t].offset :
               /\ server.pulled + n <= Cap
               /\ server' = [server EXCEPT !.requests = @ - 1, !.pulled = @ + n]
          /\ thread' = [thread EXCEPT ![t].pc = "readCap",
                ![t].limit = [period |-> server.period, remaining |-> server.requests - 1]]
       \/ /\ server.requests = 0 \/ server.pulled = Cap
          /\ Return(t) /\ UNCHANGED server
    /\ UNCHANGED <<cap, file, limit, client, bounds, hist>>

(* An answer with errors, or one that cannot be read: it was counted by    *)
(* Twitter and is not by the client.                                       *)
AnswerIsError(t) ==
    /\ thread[t].pc = "readCap"
    /\ Fault
    /\ Return(t)
    /\ hist' = [hist EXCEPT !.uncounted = TRUE, !.lost = Lost(t)]
    /\ UNCHANGED <<cap, file, limit, client, server>>

ReadCap(t) ==
    /\ thread[t].pc = "readCap"
    /\ thread' = [thread EXCEPT ![t].pc = "setCap",
            ![t].cap = [cap EXCEPT !.used = @ + thread[t].offset, !.remaining = @ - thread[t].offset]]
    /\ UNCHANGED <<cap, file, limit, client, server, bounds, hist>>

(* What others have set since ReadCap is overwritten.  Those that have     *)
(* read the dashboard and not stored it do not have this count.            *)
SetTweetCap(t) ==
    /\ thread[t].pc = "setCap"
    /\ cap' = thread[t].cap
    /\ hist' = [hist EXCEPT !.uncounted = @ \/ cap.used # thread[t].cap.used - thread[t].offset
                                            \/ cap.month # thread[t].cap.month]
    /\ thread' = [u \in Threads |->
            IF u = t THEN [thread[u] EXCEPT !.pc = IF CheckFresh(thread[t].cap) THEN "marshal" ELSE "readFile"]
            ELSE [thread[u] EXCEPT !.dirty = @ \/ thread[u].pc = "storeCap"]]
    /\ UNCHANGED <<file, limit, client, server, bounds>>

-----------------------------------------------------------------------------
(* GetTweetCap, when the cap is found to be of last month.                 *)

ReadFile(t) ==
    /\ thread[t].pc = "readFile"
    /\ thread' = [thread EXCEPT ![t].pc = "parse", ![t].cap = file]
    /\ UNCHANGED <<cap, file, limit, client, server, bounds, hist>>

(* A file that cannot be read leaves the zero cap in memory; one that can  *)
(* may be behind what another goroutine has set meanwhile.                 *)
Parse(t) ==
    /\ thread[t].pc = "parse"
    /\ \/ thread[t].cap = Torn /\ cap' = ZeroCap /\ Return(t)
       \/ thread[t].cap # Torn /\ cap' = thread[t].cap /\ Goto(t, "isFresh")
    /\ hist' = [hist EXCEPT !.uncounted = @ \/ Overwrites(cap'),
                            !.lost = IF thread[t].cap = Torn THEN Lost(t) ELSE @]
    /\ UNCHANGED <<file, limit, client, server, bounds>>

IsFresh(t) ==
    /\ thread[t].pc = "isFresh"
    /\ Goto(t, IF CheckFresh(cap) THEN "loadLimit" ELSE "fetch")
    /\ UNCHANGED <<cap, file, limit, client, server, bounds, hist>>

(* The browser reads the dashboard; it may fail, also in quitting.         *)
FetchFromWeb(t) ==
    /\ thread[t].pc = "fetch"
    /\ \/ /\ thread' = [thread EXCEPT ![t].pc = "storeCap", ![t].dirty = FALSE,
                                       ![t].cap = CapOf(server.pulled, server.month)]
          /\ UNCHANGED <<bounds, hist>>
       \/ /\ Fault
          /\ Return(t)
          /\ hist' = [hist EXCEPT !.lost = Lost(t)]
    /\ UNCHANGED <<cap, file, limit, client, server>>

(* LastFetched, set just before, may be of the month after.                *)
StoreCap(t) ==
    /\ thread[t].pc = "storeCap"
    /\ \E late \in {FALSE, thread[t].cap.month # server.month} :
         cap' = [thread[t].cap EXCEPT !.passes = late]
    /\ Goto(t, "marshal")
    /\ hist' = [hist EXCEPT !.uncounted = @ \/ Overwrites(thread[t].cap) \/ (thread[t].dirty /\ ~Fresh(cap))]
    /\ UNCHANGED <<file, limit, client, server, bounds>>

-----------------------------------------------------------------------------
(* WriteTweetCap: the cap is marshalled, the file truncated, then written. *)

(* Mutant of Marshal: a goroutine writes the cap that it has set itself.   *)
MarshalOwn(t) ==
    /\ thread[t].pc = "marshal"
    /\ thread' = [thread EXCEPT ![t].pc = "create", ![t].dirty = FALSE]
    /\ UNCHANGED <<cap, file, limit, client, server, bounds, hist>>

Marshal(t) ==
    /\ thread[t].pc = "marshal"
    /\ thread' = [thread EXCEPT ![t].pc = "create", ![t].cap = cap, ![t].dirty = FALSE]
    /\ UNCHANGED <<cap, file, limit, client, server, bounds, hist>>

CreateFile(t) ==
    /\ thread[t].pc = "create"
    /\ thread' = [thread EXCEPT ![t].pc = "write", ![t].mixed = FALSE]
    /\ file' = Torn
    /\ UNCHANGED <<cap, limit, client, server, bounds, hist>>

(* A newer cap that was written since Marshal is lost.  Two that write at  *)
(* once both begin at offset 0: if the first to write wrote more, the end  *)
(* of it stays.                                                            *)
WriteFile(t) ==
    /\ thread[t].pc = "write"
    /\ \/ /\ file' = thread[t].cap
          /\ hist' = [hist EXCEPT !.uncounted = @ \/ (thread[t].dirty /\ cap # thread[t].cap)]
       \/ /\ thread[t].mixed
          /\ file' = Torn /\ hist' = [hist EXCEPT !.torn = TRUE]
    /\ thread' = [u \in Threads |->
            IF u = t THEN [thread[u] EXCEPT !.pc = "loadLimit"]
            ELSE [thread[u] EXCEPT !.dirty = @ \/ thread[u].pc \in {"create", "write"},
                                   !.mixed = @ \/ thread[u].pc = "write"]]
    /\ UNCHANGED <<cap, limit, client, server, bounds>>

(* The error is returned, with the request not in the rate limit.          *)
WriteFails(t) ==
    /\ thread[t].pc \in {"create", "write"}
    /\ Fault
    /\ hist' = [uncounted |-> TRUE, torn |-> hist.torn \/ thread[t].pc = "write", lost |-> Lost(t)]
    /\ Return(t)
    /\ UNCHANGED <<cap, file, limit, client, server>>

-----------------------------------------------------------------------------
(* updateRateLimits, and the next request.                                 *)

LoadLimit(t) ==
    /\ thread[t].pc = "loadLimit"
    /\ thread' = [thread EXCEPT ![t].pc = "storeLimit", ![t].seen = limit]
    /\ UNCHANGED <<cap, file, limit, client, server, bounds, hist>>

(* Mutant of Newer: fewer remaining requests are enough.                   *)
NewerIfFewer(l, old) ==
    \/ old = None
    \/ l.remaining < old.remaining
    \/ l.period > old.period

Newer(l, old) ==
    \/ old = None
    \/ l.period = old.period /\ l.remaining < old.remaining
    \/ l.period > old.period

StoreLimit(t) ==
    /\ thread[t].pc = "storeLimit"
    /\ limit' = IF Newer(thread[t].limit, thread[t].seen) THEN thread[t].limit ELSE limit
    /\ hist' = [hist EXCEPT !.lost = @ \cup
            {v \in Answers : /\ thread[t].seen # limit /\ ~Knows(limit', v)
                             /\ Knows(limit, v) \/ thread[t].limit = Answer(v)}]
    /\ LET left == IF thread[t].left > MaxResources THEN thread[t].left - MaxResources ELSE 0
       IN  IF left = 0 THEN Return(t)
           ELSE thread' = [thread EXCEPT ![t] = [Idle EXCEPT !.pc = "check", !.left = left, !.offset = Offset(left)]]
    /\ UNCHANGED <<cap, file, client, server, bounds>>

ExecuteBinding(t) ==
    \/ Begin(t) \/ CheckRateLimit(t) \/ Request(t) \/ AnswerIsError(t) \/ ReadCap(t) \/ SetTweetCap(t)
    \/ ReadFile(t) \/ Parse(t) \/ IsFresh(t) \/ FetchFromWeb(t) \/ StoreCap(t)
    \/ Marshal(t) \/ CreateFile(t) \/ WriteFile(t) \/ WriteFails(t)
    \/ LoadLimit(t) \/ StoreLimit(t)

-----------------------------------------------------------------------------
(* Twitter's periods and months, and the end of the process.               *)

NewPeriod ==
    /\ server.period < MaxPeriods
    /\ server' = [server EXCEPT !.period = @ + 1, !.requests = Requests]
    /\ hist' = [hist EXCEPT !.lost = {}]
    /\ UNCHANGED <<cap, file, limit, thread, client, bounds>>

NewMonth ==
    /\ server.month < MaxMonths
    /\ server' = [server EXCEPT !.month = @ + 1, !.pulled = 0]
    /\ UNCHANGED <<cap, file, limit, thread, client, bounds, hist>>

(* Answered, and not in the file yet.                                      *)
Unwritten == {"readCap", "setCap", "marshal", "create", "write"}

Crash ==
    /\ client = "up"
    /\ Fault
    /\ client' = "down"
    /\ hist' = [uncounted |-> hist.uncounted \/ \E t \in Threads : thread[t].pc \in Unwritten,
                torn |-> hist.torn \/ \E t \in Threads : thread[t].pc = "write",
                lost |-> Answers]
    /\ thread' = [t \in Threads |-> Idle]
    /\ UNCHANGED <<cap, file, limit, server>>

(* ClientCreate: GetTweetCap reads the file, and goes to the web if the    *)
(* cap is of last month, writing the file anew, all of which may fail and  *)
(* be tried again by the next process.                                     *)
Create ==
    /\ client = "down"
    /\ limit' = None
    /\ \/ file = Torn /\ client' = "refused" /\ UNCHANGED <<cap, file, bounds, hist>>
       \/ /\ file # Torn
          /\ client' = "up"
          /\ cap' = IF CheckFresh(file) THEN file ELSE CapOf(server.pulled, server.month)
          /\ file' = cap'
          /\ UNCHANGED <<bounds, hist>>
       \/ /\ file # Torn /\ ~CheckFresh(file) /\ Fault
          /\ file' \in {file, Torn} /\ UNCHANGED <<cap, client>>
          /\ hist' = [hist EXCEPT !.torn = @ \/ file' = Torn]
    /\ UNCHANGED <<thread, server>>

Next ==
    \/ client = "up" /\ \E t \in Threads : ExecuteBinding(t)
    \/ NewPeriod \/ NewMonth \/ Crash \/ Create

Spec == Init /\ [][Next]_vars

-----------------------------------------------------------------------------
Counting(t) == thread[t].pc \in {"readCap", "setCap"}

(* Type correctness of the cap, the file and the limit; goroutines that    *)
(* all pass the check with the same cap overdraw it by no more than one    *)
(* request each but for the first, before the first month ends and with no *)
(* count lost: later a cap of last month is drawn on by request after      *)
(* request (client.go:412).                                                *)
TypeOK ==
    /\ cap.used \in Nat /\ cap.remaining \in Int /\ cap.remaining <= Cap
    /\ server.month = 0 /\ ~hist.uncounted => cap.remaining >= -((Cardinality(Threads) - 1) * MaxResources)
    /\ file = Torn \/ file.used \in Nat
    /\ limit = None \/ (limit.period \in 0 .. server.period /\ limit.remaining \in 0 .. Requests - 1)
    /\ client \in {"up", "down", "refused"}
    /\ \A t \in Threads : thread[t].left \in Nat /\ thread[t].offset \in 0 .. MaxResources

CapInMemory ==
    /\ cap.used + cap.remaining = Cap \/ (cap.passes /\ cap.used + cap.remaining = 0)
    /\ client = "up" /\ Fresh(cap) /\ ~hist.uncounted =>
            server.pulled <= cap.used + MaxResources * Cardinality({t \in Threads : Counting(t)})

CapOnDisk == file = Torn => hist.torn \/ \E t \in Threads : thread[t].pc = "write"

(* However searches, failures and restarts interleave, used and remaining  *)
(* make up the total (or nothing, in a cap that could not be read), and the*)
(* client knows of every tweet that was pulled this month, unless a request*)
(* was answered and not counted, or its count overwritten: by another that *)
(* was computed from the same cap (client.go:554), by the dashboard or the *)
(* file as it was read before (client.go:127, client.go:305), or in the    *)
(* file by a cap marshalled before (client.go:326).  And the next process  *)
(* can read the file, unless one is being written, was when the process    *)
(* ended, or two were (client.go:336).                                     *)
CapAccounts == CapInMemory /\ CapOnDisk

(* However answers come, months and periods end and goroutines fail, the   *)
(* limit that is known never denies a request that Twitter would answer,   *)
(* and every answer of the period is in it, or still with the goroutine    *)
(* that got it, unless an error was returned before the limit was updated, *)
(* or the limit had changed between being loaded and stored (client.go:527,*)
(* client.go:543).                                                         *)
LimitAccounts ==
    /\ Valid(limit) => server.requests <= limit.remaining
    /\ \A v \in server.requests .. Requests - 1 :
         \/ Knows(limit, v) \/ v \in hist.lost
         \/ \E t \in Threads : thread[t].limit = Answer(v)
=============================================================================
