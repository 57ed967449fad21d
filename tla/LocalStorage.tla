---------------------------- MODULE LocalStorage ----------------------------
(***************************************************************************)
(* One local storage area shared by several web processes.                 *)
(*                                                                         *)
(* Each web process keeps a cached copy (WebProcess/Storage/               *)
(* StorageAreaMap.cpp) that it reads and writes at once; the UI process    *)
(* holds the area (UIProcess/Storage/StorageManager.cpp), serialises the   *)
(* writes on its work queue and tells every process about every change.    *)
(* Seeds and pending markers decide which of those changes a copy takes.   *)
(***************************************************************************)
EXTENDS Naturals, Sequences, FiniteSets, SequencesExt

CONSTANTS
  Procs,        \* web processes with a StorageAreaMap for the area
  Keys, Values, \* keys and values scripts use
  Null,         \* the null String: no value, and as an event's key, "clear"
  Setters,      \* processes whose scripts set and remove items
  Clearers,     \* processes whose scripts clear the area
  Quota,        \* items the area holds before setItem fails
  QueueInOrder, \* the manager's WorkQueue runs tasks in order (not so on Windows)
  MaxOps,       \* bound: operations per process that reach the manager
  MaxDeletes    \* bound: deleteAllEntries calls in the UI process

ASSUME LocalStorageAssumption ==
  /\ Null \notin Keys \union Values
  /\ Setters \subseteq Procs /\ Clearers \subseteq Procs
  /\ IsFiniteSet(Keys)
  /\ QueueInOrder \in BOOLEAN
  /\ {Quota, MaxOps, MaxDeletes} \subseteq Nat

VARIABLES
  area,          \* StorageArea::m_storageMap
  loaded,        \* StorageAreaMap::m_storageMap is not null
  map,           \* its contents
  seed,          \* m_currentSeed
  pendingValues, \* m_pendingValueChanges, a counted set of keys
  pendingClear,  \* m_hasPendingClear
  pendingGet,    \* m_hasPendingGetValues
  waiting,       \* the process is inside sendSync(GetValues)
  reply,         \* its reply: none, or the one set of values
  toManager,     \* messages from the process to StorageManager
  toProcess,     \* messages from StorageManager to the process
  ops, deletes,  \* operations so far
  hurt           \* history: copies a remote clear took a pending change from, or
                 \* made look loaded

copyVars == <<loaded, map, seed, pendingValues, pendingClear, pendingGet, hurt>>
vars == <<area, copyVars, waiting, reply, toManager, toProcess, ops, deletes>>

Items == [Keys -> Values \union {Null}]
Empty == [k \in Keys |-> Null]

\* One record shape for all messages; op says which fields matter.
Msg(op, s, k, v, flag) == [op |-> op, seed |-> s, key |-> k, value |-> v, flag |-> flag]
Request == [op : {"get", "set", "remove", "clear"}, seed : Nat, key : Keys \union {Null},
            value : Values \union {Null}, flag : {FALSE}]
\* flag: quotaError of didSet; of an event, whether the process caused it.
Notice  == [op : {"didGet", "didSet", "didRemove", "didClear", "event", "clearCache"},
            seed : Nat, key : Keys \union {Null}, value : Values \union {Null}, flag : BOOLEAN]

\* The types; of note, no message carries a value where its key should be, and the
\* null String is never stored as a key.
TypeOK ==
  /\ area \in Items
  /\ loaded \in [Procs -> BOOLEAN]
  /\ map \in [Procs -> Items]
  /\ seed \in [Procs -> Nat]
  /\ pendingValues \in [Procs -> [Keys -> Nat]]
  /\ pendingClear \in [Procs -> BOOLEAN]
  /\ pendingGet \in [Procs -> BOOLEAN]
  /\ waiting \in [Procs -> BOOLEAN]
  /\ reply \in [Procs -> SUBSET Items]
  /\ toManager \in [Procs -> Seq(Request)]
  /\ toProcess \in [Procs -> Seq(Notice)]
  /\ ops \in [Procs -> 0..MaxOps]
  /\ deletes \in 0..MaxDeletes
  /\ hurt \subseteq Procs

Init ==
  /\ area = Empty
  /\ loaded = [p \in Procs |-> FALSE]
  /\ map = [p \in Procs |-> Empty]
  /\ seed = [p \in Procs |-> 0]
  /\ pendingValues = [p \in Procs |-> [k \in Keys |-> 0]]
  /\ pendingClear = [p \in Procs |-> FALSE]
  /\ pendingGet = [p \in Procs |-> FALSE]
  /\ waiting = [p \in Procs |-> FALSE]
  /\ reply = [p \in Procs |-> {}]
  /\ toManager = [p \in Procs |-> <<>>]
  /\ toProcess = [p \in Procs |-> <<>>]
  /\ ops = [p \in Procs |-> 0]
  /\ deletes = 0
  /\ hurt = {}

\* StorageMap::setItem raises a quota exception.
OverQuota(items, k) ==
  /\ items[k] = Null
  /\ Cardinality({j \in Keys : items[j] # Null}) >= Quota

-----------------------------------------------------------------------------
(* Scripts in a web process.                                               *)

Send(p, m) == toManager' = [toManager EXCEPT ![p] = Append(@, m)]

CountOp(p) == ops[p] < MaxOps /\ ops' = [ops EXCEPT ![p] = @ + 1]

\* loadValuesIfNeeded, called by every other operation: send GetValues and wait.
StartLoad(p) ==
  /\ ~loaded[p] /\ ~waiting[p]
  /\ CountOp(p)
  /\ waiting' = [waiting EXCEPT ![p] = TRUE]
  /\ Send(p, Msg("get", seed[p], Null, Null, FALSE))
  /\ UNCHANGED <<area, copyVars, reply, toProcess, deletes>>

FinishLoad(p) ==
  /\ waiting[p]
  /\ \E values \in reply[p] : map' = [map EXCEPT ![p] = values]
  /\ loaded' = [loaded EXCEPT ![p] = TRUE]
  /\ pendingGet' = [pendingGet EXCEPT ![p] = TRUE]
  /\ waiting' = [waiting EXCEPT ![p] = FALSE]
  /\ reply' = [reply EXCEPT ![p] = {}]
  /\ UNCHANGED <<area, seed, pendingValues, pendingClear, hurt, toManager, toProcess, ops, deletes>>

\* StorageAreaMap::setItem and removeItem (v = Null), when they change something.
ChangeItem(p, k, v) ==
  /\ p \in Setters
  /\ loaded[p] /\ ~waiting[p]
  /\ map[p][k] # v
  /\ v # Null => ~OverQuota(map[p], k)
  /\ CountOp(p)
  /\ map' = [map EXCEPT ![p][k] = v]
  /\ pendingValues' = [pendingValues EXCEPT ![p][k] = @ + 1]
  /\ Send(p, Msg(IF v = Null THEN "remove" ELSE "set", seed[p], k, v, FALSE))
  /\ UNCHANGED <<area, loaded, seed, pendingClear, pendingGet, hurt, waiting, reply, toProcess, deletes>>

\* StorageAreaMap::resetValues
ResetValues(p) ==
  /\ pendingValues' = [pendingValues EXCEPT ![p] = [k \in Keys |-> 0]]
  /\ pendingGet' = [pendingGet EXCEPT ![p] = FALSE]
  /\ seed' = [seed EXCEPT ![p] = @ + 1]
  /\ hurt' = hurt \ {p}

DropCopy(p) ==
  /\ ResetValues(p)
  /\ pendingClear' = [pendingClear EXCEPT ![p] = FALSE]
  /\ loaded' = [loaded EXCEPT ![p] = FALSE]
  /\ map' = [map EXCEPT ![p] = Empty]

\* StorageAreaMap::clear does not load: it starts from an empty map.
Clear(p) ==
  /\ p \in Clearers
  /\ ~waiting[p]
  /\ CountOp(p)
  /\ ResetValues(p)
  /\ pendingClear' = [pendingClear EXCEPT ![p] = TRUE]
  /\ loaded' = [loaded EXCEPT ![p] = TRUE]
  /\ map' = [map EXCEPT ![p] = Empty]
  /\ Send(p, Msg("clear", seed[p] + 1, Null, Null, FALSE))
  /\ UNCHANGED <<area, waiting, reply, toProcess, deletes>>

-----------------------------------------------------------------------------
(* StorageManager, on its work queue.                                      *)

Event(p, q, k, v) == Msg("event", 0, k, v, p = q)

\* dispatchEvents to every listener, then the acknowledgement to p.
Tell(p, events, ack) ==
  toProcess' = [q \in Procs |-> toProcess[q]
                  \o (IF events = {} THEN <<>>
                      ELSE LET e == CHOOSE e \in events : TRUE IN <<Event(p, q, e.key, e.value)>>)
                  \o (IF q = p THEN <<ack>> ELSE <<>>)]

NoEvent == {}
OneEvent(k, v) == {[key |-> k, value |-> v]}

\* The request of p that the work queue runs next.  WorkQueueWin.cpp keeps its
\* functions in a heap and runs the latest of those that are there.
Runnable(p) == IF QueueInOrder THEN {1} \intersect DOMAIN toManager[p] ELSE DOMAIN toManager[p]

Receive(p, i, op) ==
  /\ toManager[p][i].op = op
  /\ toManager' = [toManager EXCEPT ![p] = RemoveAt(@, i)]
  /\ UNCHANGED <<copyVars, waiting, ops, deletes>>

\* getValues: DidGetValues goes first but the sync reply overtakes it.
GetValues(p, i) ==
  /\ Receive(p, i, "get")
  /\ Tell(p, NoEvent, Msg("didGet", toManager[p][i].seed, Null, Null, FALSE))
  /\ reply' = [reply EXCEPT ![p] = {area}]
  /\ UNCHANGED area

SetItem(p, i) ==
  /\ Receive(p, i, "set")
  /\ LET m == toManager[p][i]
         over == OverQuota(area, m.key)
     IN  /\ area' = IF over THEN area ELSE [area EXCEPT ![m.key] = m.value]
         /\ Tell(p, IF over THEN NoEvent ELSE OneEvent(m.key, m.value),
                 Msg("didSet", m.seed, m.key, Null, over))
  /\ UNCHANGED reply

RemoveItem(p, i) ==
  /\ Receive(p, i, "remove")
  /\ LET m == toManager[p][i] IN
       /\ area' = [area EXCEPT ![m.key] = Null]
       /\ Tell(p, IF area[m.key] = Null THEN NoEvent ELSE OneEvent(m.key, Null),
               Msg("didRemove", m.seed, m.key, Null, FALSE))
  /\ UNCHANGED reply

ClearArea(p, i) ==
  /\ Receive(p, i, "clear")
  /\ area' = Empty
  /\ Tell(p, IF area = Empty THEN NoEvent ELSE OneEvent(Null, Null),
          Msg("didClear", toManager[p][i].seed, Null, Null, FALSE))
  /\ UNCHANGED reply

\* deleteAllEntries: StorageArea::clear() drops the items and every copy.
DeleteAllEntries ==
  /\ deletes < MaxDeletes
  /\ deletes' = deletes + 1
  /\ area' = Empty
  /\ toProcess' = [p \in Procs |->
                     Append(toProcess[p], Msg("clearCache", 0, Null, Null, FALSE))]
  /\ UNCHANGED <<copyVars, waiting, reply, toManager, ops>>

-----------------------------------------------------------------------------
(* Messages from StorageManager, on the main thread of a web process.      *)

Deliver(p, op) ==
  /\ ~waiting[p]
  /\ toProcess[p] # <<>>
  /\ Head(toProcess[p]).op = op
  /\ toProcess' = [toProcess EXCEPT ![p] = Tail(@)]
  /\ UNCHANGED <<area, waiting, reply, toManager, ops, deletes>>

\* Fault: acknowledgements of an earlier seed count.
AnySeed(p) == TRUE
Current(p) == Head(toProcess[p]).seed = seed[p]

DidGetValues(p) ==
  /\ Deliver(p, "didGet")
  /\ pendingGet' = IF Current(p) THEN [pendingGet EXCEPT ![p] = FALSE] ELSE pendingGet
  /\ UNCHANGED <<loaded, map, seed, pendingValues, pendingClear, hurt>>

\* Fault: removeAll instead of remove.
AllChangesDone(p, k) == pendingValues' = [pendingValues EXCEPT ![p][k] = 0]

\* HashCountedSet::remove: one occurrence less, if there is one.
ChangeDone(p, k) ==
  pendingValues' = [pendingValues EXCEPT ![p][k] = IF @ > 0 THEN @ - 1 ELSE 0]

DidSetItem(p) ==
  /\ Deliver(p, "didSet")
  /\ LET m == Head(toProcess[p]) IN
       \/ ~Current(p) /\ UNCHANGED copyVars
       \/ Current(p) /\ m.flag /\ DropCopy(p)
       \/ /\ Current(p) /\ ~m.flag
          /\ ChangeDone(p, m.key)
          /\ UNCHANGED <<loaded, map, seed, pendingClear, pendingGet, hurt>>

DidRemoveItem(p) ==
  /\ Deliver(p, "didRemove")
  /\ IF Current(p) THEN ChangeDone(p, Head(toProcess[p]).key) ELSE UNCHANGED pendingValues
  /\ UNCHANGED <<loaded, map, seed, pendingClear, pendingGet, hurt>>

DidClear(p) ==
  /\ Deliver(p, "didClear")
  /\ pendingClear' = IF Current(p) THEN [pendingClear EXCEPT ![p] = FALSE] ELSE pendingClear
  /\ UNCHANGED <<loaded, map, seed, pendingValues, pendingGet, hurt>>

\* applyChange for a null key.  Every kept key gets oldValue, a null String.
ApplyClear(p) ==
  /\ map' = [map EXCEPT ![p] = [k \in Keys |-> Null]]
  /\ loaded' = [loaded EXCEPT ![p] = TRUE]
  /\ hurt' = IF loaded[p] /\ \A k \in Keys : pendingValues[p][k] > 0 => map[p][k] = Null
             THEN hurt ELSE hurt \union {p}

\* Fault: shouldApplyChangeForKey does not look at the pending changes.
ApplyToPendingItem(p, k, v) ==
  /\ map' = IF loaded[p] THEN [map EXCEPT ![p][k] = v] ELSE map
  /\ UNCHANGED <<loaded, hurt>>

\* applyChange for one key, under shouldApplyChangeForKey.
ApplyItem(p, k, v) ==
  /\ map' = IF loaded[p] /\ pendingValues[p][k] = 0 THEN [map EXCEPT ![p][k] = v] ELSE map
  /\ UNCHANGED <<loaded, hurt>>

\* dispatchStorageEvent: a change of another process is applied to the copy.
DispatchStorageEvent(p) ==
  /\ Deliver(p, "event")
  /\ LET e == Head(toProcess[p]) IN
       IF e.flag \/ pendingClear[p] \/ pendingGet[p] THEN UNCHANGED <<map, loaded, hurt>>
       ELSE IF e.key = Null THEN ApplyClear(p)
       ELSE ApplyItem(p, e.key, e.value)
  /\ UNCHANGED <<seed, pendingValues, pendingClear, pendingGet>>

ClearCache(p) ==
  /\ Deliver(p, "clearCache")
  /\ DropCopy(p)

-----------------------------------------------------------------------------
Scripts(p) ==
  \/ StartLoad(p) \/ Clear(p)
  \/ \E k \in Keys, v \in Values \union {Null} : ChangeItem(p, k, v)

Manager(p) ==
  \E i \in Runnable(p) : GetValues(p, i) \/ SetItem(p, i) \/ RemoveItem(p, i) \/ ClearArea(p, i)

MainThread(p) ==
  \/ FinishLoad(p) \/ DidGetValues(p) \/ DidSetItem(p) \/ DidRemoveItem(p)
  \/ DidClear(p) \/ DispatchStorageEvent(p) \/ ClearCache(p)

Next ==
  \/ \E p \in Procs : Scripts(p) \/ Manager(p) \/ MainThread(p)
  \/ DeleteAllEntries

Spec == Init /\ [][Next]_vars

-----------------------------------------------------------------------------
Quiet(p) == toManager[p] = <<>> /\ toProcess[p] = <<>> /\ ~waiting[p]

\* Once all messages have been delivered, a copy equals the area: whatever the
\* order in which changes, acknowledgements and replies crossed, no process is
\* left reading stale items, but for those that a remote clear misled.
QuietCopiesAgree ==
  \A p \in Procs \ hurt : Quiet(p) /\ loaded[p] => map[p] = area

\* "our change was made last": as long as the manager has not seen a change, the
\* copy shows it, whatever other processes' changes arrive meanwhile (but for such
\* clears).
OwnChangeShows ==
  \A p \in Procs \ hurt : loaded[p] =>
    \A k \in Keys :
      LET mine == {i \in DOMAIN toManager[p] :
                     /\ toManager[p][i].op \in {"set", "remove"}
                     /\ toManager[p][i].key = k /\ toManager[p][i].seed = seed[p]}
      IN  \A i \in mine : (\A j \in mine : j <= i) => map[p][k] = toManager[p][i].value

InFlight(p, requestOp, noticeOp, k) ==
  Cardinality({i \in DOMAIN toManager[p] :
     /\ toManager[p][i].op = requestOp /\ toManager[p][i].seed = seed[p]
     /\ toManager[p][i].key = k})
  + Cardinality({i \in DOMAIN toProcess[p] :
     /\ toProcess[p][i].op = noticeOp /\ toProcess[p][i].seed = seed[p]
     /\ toProcess[p][i].key = k})

\* The assertions of didGetValues, didSetItem, didRemoveItem and didClear: the
\* pending markers count exactly the acknowledgements the current seed still
\* expects, so none is missing and none stays behind for ever.
MarkersMatchAcks ==
  \A p \in Procs :
    /\ \A k \in Keys : pendingValues[p][k] = InFlight(p, "set", "didSet", k)
                                           + InFlight(p, "remove", "didRemove", k)
    /\ pendingClear[p] <=> InFlight(p, "clear", "didClear", Null) = 1
    /\ pendingGet[p] \/ waiting[p] <=> InFlight(p, "get", "didGet", Null) = 1

\* "Any changes that were made locally after the clear must still be kept around in
\* the new map" (applyChange): a remote clear keeps the items with a pending change.
PendingSurvivesRemoteClear ==
  [][\A p \in Procs :
       loaded[p] /\ toProcess[p] # <<>> /\ toProcess'[p] = Tail(toProcess[p])
         /\ Head(toProcess[p]).op = "event" /\ Head(toProcess[p]).key = Null
       => \A k \in Keys : pendingValues[p][k] > 0 => map'[p][k] = map[p][k]]_vars

\* "We have not yet loaded anything from this storage map" (shouldApplyChangeForKey):
\* an event about somebody else's change does not make an unloaded copy valid.
EventsDoNotLoad ==
  [][\A p \in Procs : ~loaded[p] /\ loaded'[p] => waiting[p] \/ pendingClear'[p]]_vars

=============================================================================
