------------------------------ MODULE CachedFields ------------------------------
(***************************************************************************)
(* The fields of a ScoutState (cached_fields.go), how they are added to,   *)
(* merged, walked, and turned into files and back (paths_to_bytes.go,      *)
(* state.go).                                                              *)
(*                                                                         *)
(* What is added to a field is numbered, so that each addition can be      *)
(* looked for: a number stands for the time of a post, a snapshot, a game, *)
(* or an entry of State.  Only a deleted developer has parts that are told *)
(* apart, as each is a file of its own: a part is the set of its one       *)
(* value, or empty when the pointer or slice is nil.                       *)
(***************************************************************************)
EXTENDS Naturals, Sequences, FiniteSets, SequencesExt, FiniteSetsExt, Functions, Totals

CONSTANTS
    TwitterDevs, RedditDevs, \* the developers' IDs, by type
    Games,                   \* the games that a deleted developer may have
    MaxAdds, MaxInterrupted  \* bounds on the additions, and on the interrupted saves

Developers == TwitterDevs \cup RedditDevs
DevType(d) == IF d \in TwitterDevs THEN "T" ELSE "R"

ASSUME CachedFieldsAssumption ==
    /\ IsFiniteSet(Developers)
    /\ TwitterDevs \cap RedditDevs = {} /\ Developers \cap Games = {}
    /\ MaxAdds \in Nat /\ MaxInterrupted \in Nat

(* The types; those whose field is a map from developers to slices, those  *)
(* that are serialised to one JSON file, and those that are iterable.      *)
Times == {"UserTweetTimes", "RedditUserPostTimes"}
Snapshots == {"DeveloperSnapshots", "RedditDeveloperSnapshots"}
Maps == Times \cup Snapshots
Types == Maps \cup {"GameIDs", "DeletedDevelopers", "State"}
Json == Times \cup {"GameIDs", "State"}
Iterable == Types \ {"State"}
Users(f) == IF f \in {"UserTweetTimes", "DeveloperSnapshots"} THEN TwitterDevs ELSE RedditDevs

VARIABLES
    fields,    \* the ScoutState of the process, by type
    temp,      \* the ScoutState in memory that the Reddit discovery fills: {} or {the state}
    directory, \* the files of the state's directory, if there is one
    iter,      \* the merged iterator over the snapshots of both types
    pc,        \* "up", "down", or "refused" when the state cannot be loaded
    hist       \* observations: see FieldsInit

fieldsVars == <<fields, temp, directory, iter, pc, hist>>

-----------------------------------------------------------------------------
(* Making, adding and merging.                                             *)

EmptyMap == [d \in {} |-> <<>>]

Make(f) ==
    CASE f \in Maps -> EmptyMap
      [] f = "GameIDs" -> {}
      [] f = "DeletedDevelopers" -> <<>>
      [] f = "State" -> [scalar |-> 0, updated |-> <<>>, toEnable |-> [t \in {"T", "R"} |-> 0]]

MakeState == [f \in Types |-> Make(f)]

Gone == [made |-> FALSE, files |-> EmptyMap]
NoIter == [queues |-> <<>>, at |-> 0, done |-> 0, passed |-> 0, seen |-> <<>>]

(* adds: the additions made to each field; live: those that the fields     *)
(* should hold, each with its field; pending: those that temp should;      *)
(* saved: those of the files in the directory; whole: was the save of      *)
(* these not interrupted?  torn: does the process work on a state that was?*)
FieldsInit ==
    /\ fields = MakeState /\ temp = {} /\ directory = Gone /\ iter = NoIter /\ pc = "up"
    /\ hist = [adds |-> [f \in Types |-> 0], live |-> {}, pending |-> {}, saved |-> {}, whole |-> TRUE, torn |-> FALSE, faults |-> 0]

(* userTimesSetOrAdd, devSnapsSetOrAdd: a key's slice is made when missing.*)
AppendTo(map, d, values) ==
    [k \in DOMAIN map \cup {d} |->
        (IF k \in DOMAIN map THEN map[k] ELSE <<>>) \o (IF k = d THEN values ELSE <<>>)]

NotNil(kept, other) == IF kept = {} THEN other ELSE kept

(* DeletedDevelopers is a set of developers, and an entry takes from the   *)
(* one that is added what it has not itself.  A developer that is nil (its *)
(* file was missing) makes the comparison panic.                           *)
IndexOf(list, d) == {i \in DOMAIN list : list[i].developer = {d}}
Panics(list, d) == \E i \in DOMAIN list : list[i].developer = {} /\ \A j \in IndexOf(list, d) : i < j

SetOrAdd(list, entry) ==
    LET same == {i \in DOMAIN list : list[i].developer = entry.developer}
        filled(old) == [developer |-> old.developer, snapshots |-> NotNil(old.snapshots, entry.snapshots),
                        games |-> NotNil(old.games, entry.games), trend |-> NotNil(old.trend, entry.trend)]
    IN  IF same = {} THEN Append(list, entry) ELSE [list EXCEPT ![Min(same)] = filled(@)]

(* Mutant of Merge: a key that both have keeps only the merged slice.      *)
MergeOver(f, field, other) ==
    CASE f \in Maps -> [d \in DOMAIN field \cup DOMAIN other |-> IF d \in DOMAIN other THEN other[d] ELSE field[d]]
      [] f = "GameIDs" -> field \cup other
      [] f = "DeletedDevelopers" -> field \o other

Merge(f, field, other) ==
    CASE f \in Maps -> [d \in DOMAIN field \cup DOMAIN other |->
                           (IF d \in DOMAIN field THEN field[d] ELSE <<>>) \o (IF d \in DOMAIN other THEN other[d] ELSE <<>>)]
      [] f = "GameIDs" -> field \cup other
      [] f = "DeletedDevelopers" -> field \o other

-----------------------------------------------------------------------------
(* Operations of the process.                                              *)

Ready == pc = "up" /\ iter = NoIter

(* The process ends, and its memory is lost.                               *)
Down == pc' = "down" /\ fields' = MakeState /\ temp' = {} /\ iter' = NoIter
Up == pc' = "up" /\ UNCHANGED <<fields, temp, iter>>

Number(f) == hist.adds[f] + 1
Adding == Ready /\ Total(hist.adds, Types) < MaxAdds

Added(f) == hist' = [hist EXCEPT !.adds[f] = @ + 1, !.live = @ \cup {<<Number(f), f>>}]
AddedToTemp(f) == hist' = [hist EXCEPT !.adds[f] = @ + 1, !.pending = @ \cup {<<Number(f), f>>}]

AddToMap(f, d) ==
    /\ Adding
    /\ \/ fields' = [fields EXCEPT ![f] = AppendTo(@, d, <<Number(f)>>)] /\ Added(f) /\ UNCHANGED temp
       \/ /\ f \in {"RedditUserPostTimes", "RedditDeveloperSnapshots"}
          /\ \E t \in temp : temp' = {[t EXCEPT ![f] = AppendTo(@, d, <<Number(f)>>)]}
          /\ AddedToTemp(f) /\ UNCHANGED fields
    /\ UNCHANGED <<directory, iter, pc>>

(* The games of a batch are merged into the state, or into the other.      *)
AddGame ==
    /\ Adding
    /\ \/ fields' = [fields EXCEPT !["GameIDs"] = Merge("GameIDs", @, {Number("GameIDs")})] /\ Added("GameIDs") /\ UNCHANGED temp
       \/ /\ \E t \in temp : temp' = {[t EXCEPT !["GameIDs"] = Merge("GameIDs", @, {Number("GameIDs")})]}
          /\ AddedToTemp("GameIDs") /\ UNCHANGED fields
    /\ UNCHANGED <<directory, iter, pc>>

(* A developer who is to be deleted, with a trend that may not have run;   *)
(* a developer already in the list gives it no new snapshots.              *)
AddDeleted(d) ==
    /\ Adding
    /\ IF Panics(fields["DeletedDevelopers"], d)
       THEN Down /\ UNCHANGED hist
       ELSE /\ \E games \in SUBSET Games :
                 fields' = [fields EXCEPT !["DeletedDevelopers"] =
                            SetOrAdd(@, [developer |-> {d}, snapshots |-> {Number("DeletedDevelopers")}, games |-> {games}, trend |-> {"run"}])]
            /\ hist' = [hist EXCEPT !.adds["DeletedDevelopers"] = @ + 1, !.live = IF IndexOf(fields["DeletedDevelopers"], d) = {}
                                                                                  THEN @ \cup {<<Number("DeletedDevelopers"), "DeletedDevelopers">>} ELSE @]
            /\ UNCHANGED <<pc, temp, iter>>
    /\ UNCHANGED directory

Replaced(n) ==
    hist' = [hist EXCEPT !.adds["State"] = @ + 1, !.live = (@ \ {<<n, "State">>}) \cup {<<Number("State"), "State">>}]

(* State: a field that is set (Phase, the batch, a date, ...), one that is *)
(* appended to with the developer's type, or the count of a type.          *)
SetScalar ==
    /\ Adding
    /\ fields' = [fields EXCEPT !["State"].scalar = Number("State")]
    /\ Replaced(fields["State"].scalar)
    /\ UNCHANGED <<temp, directory, iter, pc>>

AddDeveloper(d) ==
    /\ Adding
    /\ fields' = [fields EXCEPT !["State"].updated = Append(@, [id |-> Number("State"), type |-> DevType(d)])]
    /\ Added("State")
    /\ UNCHANGED <<temp, directory, iter, pc>>

SetToEnable(t) ==
    /\ Adding
    /\ fields' = [fields EXCEPT !["State"].toEnable[t] = Number("State")]
    /\ Replaced(fields["State"].toEnable[t])
    /\ UNCHANGED <<temp, directory, iter, pc>>

(* State.Get with the type's letter in front: the entries of that type, by *)
(* their places in the list, whose order they keep.                        *)
GetUpdated(list, t) == {i \in DOMAIN list : list[i].type = t}

StateInMemory ==
    /\ Ready /\ temp = {}
    /\ temp' = {MakeState}
    /\ UNCHANGED <<fields, directory, iter, pc, hist>>

MergeIterableCachedFields ==
    /\ Ready
    /\ \E t \in temp : fields' = [f \in Types |-> IF f \in Iterable THEN Merge(f, fields[f], t[f]) ELSE fields[f]]
    /\ temp' = {}
    /\ hist' = [hist EXCEPT !.live = @ \cup hist.pending, !.pending = {}]
    /\ UNCHANGED <<directory, iter, pc>>

-----------------------------------------------------------------------------
(* Files.  A path is the field, followed by the developer for the fields   *)
(* that have a directory, and by the part for a deleted developer; the     *)
(* meta.json files, which are not read, are left out.                      *)

Parts == {"developer", "snapshots", "games", "trend"}

(* Every developer that is in the list is encoded part by part, under its  *)
(* ID.  A nil developer has none, and gob panics at a nil pointer; it      *)
(* decodes an empty slice as nil, and a trend without the coefficients,    *)
(* which are not exported.                                                 *)
Nameless(state) == \E i \in DOMAIN state["DeletedDevelopers"] : state["DeletedDevelopers"][i].developer = {}
Encodable(state) == \A i \in DOMAIN state["DeletedDevelopers"] : state["DeletedDevelopers"][i].trend # {}

Names(list) == UNION {list[i].developer : i \in DOMAIN list}
EntryOf(list, d) == list[CHOOSE i \in DOMAIN list : d \in list[i].developer]

JsonFiles == {<<f>> : f \in Json}
MapFiles(state) == UNION {{<<f, d>> : d \in DOMAIN state[f]} : f \in Snapshots}
DeletedFiles(list) == {<<"DeletedDevelopers", d, part>> : d \in Names(list), part \in Parts}

SerialiseFields(state) ==
    [p \in JsonFiles \cup MapFiles(state) \cup DeletedFiles(state["DeletedDevelopers"]) |->
        CASE Len(p) = 1 -> state[p[1]]
          [] Len(p) = 2 -> state[p[1]][p[2]]
          [] Len(p) = 3 -> EntryOf(state["DeletedDevelopers"], p[2])[p[3]]]

InDirectory(files, f) == {p \in DOMAIN files : p[1] = f /\ Len(p) > 1}

DecodedPart(files, d, part) ==
    LET p == <<"DeletedDevelopers", d, part>>
    IN  IF p \notin DOMAIN files THEN {}
        ELSE CASE part = "games" -> files[p] \ {{}}
               [] part = "trend" -> {"loaded"}
               [] OTHER -> files[p]

DecodedEntry(files, d) ==
    [developer |-> DecodedPart(files, d, "developer"), snapshots |-> DecodedPart(files, d, "snapshots"),
     games |-> DecodedPart(files, d, "games"), trend |-> DecodedPart(files, d, "trend")]

(* A directory gives a map from what is named in it, also for the deleted  *)
(* developers, whose list is made from it in any order.                    *)
Decoded(files) ==
    LET ids(f) == {p[2] : p \in InDirectory(files, f)}
    IN  [f \in Types |->
            CASE f \in Json -> files[<<f>>]
              [] f \in Snapshots -> [d \in ids(f) |-> files[<<f, d>>]]
              [] f = "DeletedDevelopers" -> [d \in ids(f) |-> DecodedEntry(files, d)]]

Listed(map, order) == [i \in DOMAIN order |-> map[order[i]]]

DeserialisedFields(files) ==
    {[Decoded(files) EXCEPT !["DeletedDevelopers"] = Listed(@, order)]
        : order \in SetToSeqs(DOMAIN Decoded(files)["DeletedDevelopers"])}

SaveFields ==
    /\ Ready
    /\ IF Nameless(fields) \/ ~Encodable(fields)
       THEN /\ directory' = Gone
            /\ Down
            /\ hist' = [hist EXCEPT !.saved = {}, !.whole = TRUE]
       ELSE /\ directory' = [made |-> TRUE, files |-> SerialiseFields(fields)]
            /\ hist' = [hist EXCEPT !.saved = hist.live, !.whole = TRUE]
            /\ Up

(* What a removal or a write leaves: all JSON files and any of the others; *)
(* or what cannot be loaded, without a JSON file or with one cut short, for*)
(* which no file at all stands.                                            *)
Left(files) ==
    {Restrict(files, DOMAIN files \ lost) : lost \in SUBSET {p \in DOMAIN files : Len(p) > 1}} \cup {EmptyMap}

(* RemoveAll does not come to its end: the files are of the save before.   *)
RemoveInterrupted ==
    /\ Ready /\ hist.faults < MaxInterrupted /\ directory.made
    /\ \E left \in Left(directory.files) : directory' = [directory EXCEPT !.files = left]
    /\ hist' = [hist EXCEPT !.faults = @ + 1, !.whole = FALSE]
    /\ Up \/ Down

(* Or Write does not, with a file that may not be written to its end.      *)
WriteInterrupted ==
    /\ Ready /\ hist.faults < MaxInterrupted /\ ~Nameless(fields) /\ Encodable(fields)
    /\ \/ directory' = Gone /\ hist' = [hist EXCEPT !.faults = @ + 1, !.saved = {}, !.whole = TRUE]
       \/ /\ \E left \in Left(SerialiseFields(fields)) : directory' = [made |-> TRUE, files |-> left]
          /\ hist' = [hist EXCEPT !.faults = @ + 1, !.saved = hist.live, !.whole = FALSE]
    /\ Up \/ Down

ProcessCrash ==
    /\ pc = "up"
    /\ Down
    /\ UNCHANGED <<directory, hist>>

Readable == \A f \in Json : <<f>> \in DOMAIN directory.files

(* Those of the saved additions that a load cannot miss.                   *)
Found == IF hist.whole THEN hist.saved ELSE {x \in hist.saved : x[2] \in Json}

(* StateLoadOrCreate.                                                      *)
Load ==
    /\ pc = "down"
    /\ UNCHANGED <<temp, iter>>
    /\ IF ~directory.made \/ Readable
       THEN /\ IF directory.made THEN fields' \in DeserialisedFields(directory.files) ELSE fields' = MakeState
            /\ pc' = "up"
            /\ hist' = [hist EXCEPT !.live = Found, !.pending = {}, !.torn = ~hist.whole]
       ELSE pc' = "refused" /\ UNCHANGED <<fields, hist>>
    /\ UNCHANGED directory

-----------------------------------------------------------------------------
(* Walking both maps of snapshots (snapshot.go): each iterator has a queue *)
(* of the map's keys, in any order.                                        *)

IterBegins ==
    /\ Ready
    /\ \E first \in SetToSeqs(DOMAIN fields["DeveloperSnapshots"]) :
       \E second \in SetToSeqs(DOMAIN fields["RedditDeveloperSnapshots"]) :
         iter' = [NoIter EXCEPT !.queues = <<first, second>>, !.at = 1]
    /\ UNCHANGED <<fields, temp, directory, pc, hist>>

Has(k) == iter.queues[k] # <<>>
Length(k) == Cardinality(DOMAIN fields[IF k = 1 THEN "DeveloperSnapshots" ELSE "RedditDeveloperSnapshots"])

(* Continue, which may go on to the next iterator; mutant: without a count *)
(* of what the one before had.                                             *)
ContinueUncounted ==
    IF ~Has(iter.at) /\ iter.at < Len(iter.queues) /\ Has(iter.at + 1)
    THEN [iter EXCEPT !.at = @ + 1, !.passed = 0] ELSE iter
Continue ==
    IF ~Has(iter.at) /\ iter.at < Len(iter.queues) /\ Has(iter.at + 1)
    THEN [iter EXCEPT !.at = @ + 1, !.done = @ + Length(iter.at), !.passed = 0] ELSE iter

(* The body of the loop: I, Key and Get, then Next.                        *)
IterNext ==
    /\ pc = "up" /\ iter # NoIter
    /\ LET now == Continue
       IN  /\ now.queues[now.at] # <<>>
           /\ iter' = [now EXCEPT !.queues[now.at] = Tail(@), !.passed = @ + 1,
                                  !.seen = Append(@, [i |-> now.done + now.passed, key |-> Head(now.queues[now.at])])]
    /\ UNCHANGED <<fields, temp, directory, pc, hist>>

IterDone == iter # NoIter /\ Continue = iter /\ ~Has(iter.at)

IterEnds ==
    /\ pc = "up" /\ IterDone
    /\ iter' = NoIter
    /\ UNCHANGED <<fields, temp, directory, pc, hist>>

FieldsNext ==
    \/ \E f \in Maps : \E d \in Users(f) : AddToMap(f, d)
    \/ AddGame
    \/ \E d \in Developers : AddDeleted(d) \/ AddDeveloper(d)
    \/ SetScalar
    \/ \E t \in {"T", "R"} : SetToEnable(t)
    \/ StateInMemory \/ MergeIterableCachedFields
    \/ SaveFields \/ RemoveInterrupted \/ WriteInterrupted \/ ProcessCrash \/ Load
    \/ IterBegins \/ IterNext \/ IterEnds

FieldsSpec == FieldsInit /\ [][FieldsNext]_fieldsVars

-----------------------------------------------------------------------------
(* The places of a field's value at which its n-th addition is.            *)
Places(f, value, n) ==
    CASE f \in Maps -> UNION {{d} \X {i \in DOMAIN value[d] : value[d][i] = n} : d \in DOMAIN value}
      [] f = "GameIDs" -> {n} \cap value
      [] f = "DeletedDevelopers" -> {i \in DOMAIN value : n \in value[i].snapshots}
      [] f = "State" ->
           ({"scalar"} \X ({n} \cap {value.scalar}))
           \cup ({"toEnable"} \X {t \in {"T", "R"} : value.toEnable[t] = n})
           \cup ({"updated"} \X UNION {{i \in GetUpdated(value.updated, t) : value.updated[i].id = n} : t \in {"T", "R"}})

Once(state, x) ==
    LET places == Places(x[2], state[x[2]], x[1])
    IN  \E p \in places : places = {p}

(* Nothing that was added to a field is lost or doubled, while states are  *)
(* merged, saved and loaded: what this process added, or found in the save *)
(* of one before, is there once.  Of a save that was interrupted and could *)
(* still be loaded that is said of the fields in JSON only: developers may *)
(* be missing from the directories, without an error (cached_fields.go:360,*)
(* 643).  And a save that was not interrupted can be loaded; but when the  *)
(* state came from one that was, its nil developers and trends stop a save *)
(* after the directory was removed (state.go:176, cached_fields.go:591).   *)
NothingLost ==
    /\ pc = "up" =>
         /\ \A x \in hist.live : Once(fields, x)
         /\ \A x \in hist.pending : \E t \in temp : Once(t, x)
         /\ ~hist.torn => ~Nameless(fields) /\ Encodable(fields)
    /\ hist.whole /\ directory.made => Readable

(* The merged iterator, which the Snapshot phase walks, gives every key of *)
(* both maps once and numbers them in order, also when either is empty     *)
(* (cached_fields.go:102).                                                 *)
VisitedOnce ==
    pc = "up" /\ IterDone =>
        /\ {iter.seen[i].key : i \in DOMAIN iter.seen} = UNION {DOMAIN fields[f] : f \in Snapshots}
        /\ IsInjective([i \in DOMAIN iter.seen |-> iter.seen[i].key])
        /\ \A i \in DOMAIN iter.seen : iter.seen[i].i = i - 1
=============================================================================
