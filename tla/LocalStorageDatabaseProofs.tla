--------------------- MODULE LocalStorageDatabaseProofs ---------------------
(***************************************************************************)
(* What LocalStorageDatabase guarantees for every set of keys and values,  *)
(* every batch size and any number of changes and crashes.                 *)
(***************************************************************************)
EXTENDS LocalStorageDatabase, FiniteSetTheorems, TLAPS

\* The objects below each other: an area has imported its items once it has a
\* database; without one nothing is collected; only a file holds items.
Shape ==
  /\ imported => hasArea
  /\ hasDatabase => imported
  /\ ~imported => items = Empty
  /\ ~hasDatabase => ~open /\ changed = Nothing /\ ~shouldClear /\ ~scheduled
  /\ open => exists
  /\ ~exists => table = Empty
  /\ task # "write" => batch = Nothing
  /\ task = "write" => hasDatabase /\ (batch # Nothing => open)
  /\ changed # Nothing => scheduled

IInv == TypeOK /\ Shape /\ NoStaleWrite

\* Empty and Nothing are contents and changes; what Overlay returns.
LEMMA DataTypes ==
  /\ Empty \in Items
  /\ Nothing \in Changes
  /\ \A i \in Items, c \in Changes : Overlay(i, c) \in Items
  /\ \A c, part \in Changes : Without(c, part) \in Changes
  BY DEF Empty, Nothing, Items, Changes, Overlay, Without

\* The invariant holds when the UI process starts.
LEMMA Initially == Init => IInv
<1> SUFFICES ASSUME Init PROVE IInv
  OBVIOUS
<1>0. changes \in 0..MaxChanges /\ crashes \in 0..MaxCrashes
  BY LocalStorageDatabaseAssumption DEF Init
<1>1. TypeOK
  BY <1>0, DataTypes DEF Init, TypeOK
<1>2. Shape
  BY DEF Init, Shape
<1>3. NoStaleWrite
  BY DEF Init, NoStaleWrite, Nothing
<1> QED BY <1>1, <1>2, <1>3 DEF IInv

\* The import neither changes the type of the items nor loses collected changes.
LEMMA LoadedItems ==
  ASSUME IInv, NEW result \in ImportResults
  PROVE  /\ Loaded(result) \in Items
         /\ imported => Loaded(result) = items
         /\ ~imported => changed = Nothing
  BY DataTypes DEF IInv, TypeOK, Shape, Loaded

\* A part of the changes is made of changes, and the rest is the rest.
LEMMA PartsAreChanges ==
  ASSUME NEW c \in Changes, NEW part \in Parts(c)
  PROVE  /\ part \in Changes
         /\ \A k \in Keys : part[k] \in {Unchanged, c[k]}
         /\ \A k \in Keys : Without(c, part)[k] \in {Unchanged, c[k]}
  BY DEF Parts, Without

\* Starting to write, whatever fails on the way, keeps the types and shapes.
LEMMA BeginWritePreserves ==
  ASSUME IInv, hasDatabase, NEW toWrite \in Parts(changed), BeginWrite(toWrite)
  PROVE  /\ open' \in BOOLEAN /\ failed' \in BOOLEAN /\ exists' \in BOOLEAN
         /\ shouldClear' \in BOOLEAN
         /\ table' \in Items /\ batch' \in Changes
         /\ task' = "write"
         /\ open' => exists'
         /\ ~exists' => table' = Empty
         /\ batch' # Nothing => open'
         /\ \A k \in Keys : batch'[k] \in {Unchanged, changed[k]}
<1>0. task' = "write"
  BY DEF BeginWrite
<1>1. toWrite \in Changes /\ \A k \in Keys : toWrite[k] \in {Unchanged, changed[k]}
  BY PartsAreChanges DEF IInv, TypeOK
<1>2. Nothing \in Changes /\ \A k \in Keys : Nothing[k] \in {Unchanged, changed[k]}
  BY DataTypes DEF Nothing
<1>3. /\ open \in BOOLEAN /\ failed \in BOOLEAN /\ exists \in BOOLEAN
      /\ shouldClear \in BOOLEAN /\ table \in Items /\ Empty \in Items
      /\ open => exists
      /\ ~exists => table = Empty
  BY DataTypes DEF IInv, TypeOK, Shape
<1>4. CASE OpenFails
  BY <1>0, <1>2, <1>3, <1>4 DEF OpenFails, diskVars
<1>5. CASE ClearFails
  BY <1>0, <1>2, <1>3, <1>5 DEF ClearFails, Opens
<1>6. CASE ReadyToWrite(toWrite)
  BY <1>0, <1>1, <1>3, <1>6 DEF ReadyToWrite, Opens
<1> QED
  BY <1>4, <1>5, <1>6 DEF BeginWrite

\* The bounds of the counters.
LEMMA CountersStep ==
  ASSUME IInv, [Next]_vars
  PROVE  changes' \in 0..MaxChanges /\ crashes' \in 0..MaxCrashes
<1>1. changes \in 0..MaxChanges /\ crashes \in 0..MaxCrashes
  BY DEF IInv, TypeOK
<1>2. changes' = changes \/ (changes < MaxChanges /\ changes' = changes + 1)
  BY DEF Next, vars, CreateArea, Requests, GetItems, ChangeItem, ClearItems, CountChange,
         UpdateDatabase, DestroyArea, DeleteEntries, BeginClose, Tasks, Commit, FinishClose, Crash
<1>3. crashes' = crashes \/ (crashes < MaxCrashes /\ crashes' = crashes + 1)
  BY DEF Next, vars, CreateArea, Requests, GetItems, ChangeItem, ClearItems,
         OpenAndImportIfNeeded, UpdateDatabase, DestroyArea, DeleteEntries, BeginClose,
         Tasks, Commit, FinishClose, Crash
<1> QED
  BY <1>1, <1>2, <1>3, LocalStorageDatabaseAssumption

\* All the changes are a part of the changes.
LEMMA AllIsAPart == ASSUME NEW c \in Changes PROVE c \in Parts(c)
  BY DEF Parts

\* Every step keeps the invariant.
LEMMA Step == IInv /\ [Next]_vars => IInv'
<1> SUFFICES ASSUME IInv, [Next]_vars PROVE IInv'
  OBVIOUS
<1> USE DataTypes
<1>0. changes' \in 0..MaxChanges /\ crashes' \in 0..MaxCrashes
  BY CountersStep
<1>1. CASE CreateArea
  BY <1>1 DEF CreateArea, IInv, TypeOK, Shape, NoStaleWrite, dbVars, diskVars, taskVars
<1>2. ASSUME NEW result \in ImportResults, Requests(result) PROVE IInv'
  <2> DEFINE new == Loaded(result)
  <2>1. new \in Items /\ (imported => new = items) /\ (~imported => changed = Nothing)
    BY LoadedItems
  <2>2. /\ task = "idle" /\ hasArea /\ hasDatabase' /\ imported'
        /\ hasArea' /\ UNCHANGED <<exists, table, batch, task, after, crashes>>
        /\ open' = (open \/ (~imported /\ exists /\ result # "unopened"))
        /\ failed' = (failed \/ (~imported /\ exists /\ result # "done" /\ result # "unread"))
        /\ since' = since \union {items'}
    BY <1>2 DEF Requests, GetItems, ClearItems, ChangeItem, OpenAndImportIfNeeded,
                diskVars, taskVars
  <2>3. (\A k \in Keys : Nothing[k] = Unchanged) /\ (changed # Nothing => scheduled)
    BY DEF Nothing, IInv, Shape
  <2>4. /\ items' \in Items /\ changed' \in Changes
        /\ shouldClear' \in BOOLEAN /\ scheduled' \in BOOLEAN
        /\ (changed' # Nothing => scheduled')
        /\ \A k \in Keys : changed'[k] \in {Unchanged, items'[k]}
    <3>1. CASE GetItems(result)
      BY <2>1, <2>3, <3>1 DEF GetItems, IInv, TypeOK, NoStaleWrite
    <3>2. CASE ClearItems(result)
      <4>1. CASE Loaded(result) = Empty
        BY <2>1, <2>3, <3>2, <4>1 DEF ClearItems, IInv, TypeOK, NoStaleWrite
      <4>2. CASE Loaded(result) # Empty
        BY <2>3, <3>2, <4>2 DEF ClearItems, ClearDatabase, IInv, TypeOK
      <4> QED BY <4>1, <4>2
    <3>3. ASSUME NEW k \in Keys, NEW v \in Values \union {Null}, ChangeItem(k, v, result)
          PROVE <2>4!1 /\ <2>4!2 /\ <2>4!3 /\ <2>4!4
      <4>1. items' = [new EXCEPT ![k] = v] /\ shouldClear' = shouldClear
        BY <3>3 DEF ChangeItem
      <4>2. CASE v = Null /\ new[k] = Null
        <5>1. items' = new /\ changed' = changed /\ scheduled' = scheduled
          BY <4>1, <4>2, <2>1, <3>3 DEF ChangeItem, Items
        <5> QED BY <5>1, <4>1, <2>1, <2>3, <3>3
                DEF ChangeItem, IInv, TypeOK, NoStaleWrite
      <4>3. CASE ~(v = Null /\ new[k] = Null)
        <5>1. changed' = [changed EXCEPT ![k] = v] /\ scheduled' = TRUE
          BY <4>3, <3>3 DEF ChangeItem, ItemDidChange
        <5>2. items' \in Items /\ changed' \in Changes
          BY <4>1, <5>1, <2>1 DEF Items, Changes, IInv, TypeOK
        <5>3. \A j \in Keys : changed'[j] \in {Unchanged, items'[j]}
          BY <4>1, <5>1, <2>1, <2>3 DEF Items, Changes, IInv, TypeOK, NoStaleWrite
        <5> QED BY <4>1, <5>1, <5>2, <5>3, <3>3 DEF ChangeItem, IInv, TypeOK
      <4> QED BY <4>2, <4>3
    <3> QED BY <1>2, <3>1, <3>2, <3>3 DEF Requests
  <2>5. TypeOK'
    BY <1>0, <2>2, <2>4 DEF IInv, TypeOK
  <2>6. Shape'
    BY <2>2, <2>4 DEF IInv, Shape
  <2>7. NoStaleWrite'
    BY <2>2, <2>3, <2>4 DEF IInv, Shape, NoStaleWrite
  <2> QED BY <2>5, <2>6, <2>7 DEF IInv
<1>3. CASE UpdateDatabase
  <2>1. PICK part \in Parts(changed) :
          changed' = Without(changed, part) /\ BeginWrite(part)
    BY <1>3 DEF UpdateDatabase
  <2>2. changed' \in Changes /\ \A k \in Keys : changed'[k] \in {Unchanged, changed[k]}
    BY <2>1, PartsAreChanges DEF IInv, TypeOK
  <2>3. hasDatabase /\ scheduled' \in BOOLEAN /\ after' = "nothing"
        /\ UNCHANGED <<hasArea, items, imported, hasDatabase, since, changes, crashes>>
    BY <1>3 DEF UpdateDatabase, Reschedules, TooMany, areaVars
  <2>4. changed' # Nothing => scheduled'
    <3>1. ASSUME ~TooMany PROVE changed' = Nothing
      <4>1. Without(changed, changed) = Nothing
        BY DEF Without, Nothing, IInv, TypeOK
      <4> QED BY <1>3, <3>1, <4>1, <2>1 DEF UpdateDatabase
    <3> QED BY <1>3, <3>1 DEF UpdateDatabase, Reschedules
  <2>5. TypeOK'
    BY <1>0, <2>1, <2>2, <2>3, BeginWritePreserves DEF IInv, TypeOK
  <2>6. Shape'
    BY <2>1, <2>3, <2>4, BeginWritePreserves DEF IInv, Shape
  <2>7. NoStaleWrite'
    BY <2>1, <2>2, <2>3, BeginWritePreserves DEF IInv, NoStaleWrite
  <2> QED BY <2>5, <2>6, <2>7 DEF IInv
<1>4. ASSUME NEW then \in {"destroy", "delete"}, BeginClose(then) PROVE IInv'
  <2>1. UNCHANGED <<hasArea, items, imported, hasDatabase, since, changes, crashes>>
        /\ after' = then
    BY <1>4 DEF BeginClose, areaVars
  <2>2. CASE hasDatabase /\ scheduled
    <3>1. BeginWrite(changed) /\ changed' = Nothing /\ scheduled' = FALSE
      BY <1>4, <2>2 DEF BeginClose
    <3>2. changed \in Parts(changed)
      BY AllIsAPart DEF IInv, TypeOK
    <3>3. TypeOK'
      BY <1>0, <2>1, <2>2, <3>1, <3>2, BeginWritePreserves DEF IInv, TypeOK
    <3>4. Shape'
      BY <2>1, <2>2, <3>1, <3>2, BeginWritePreserves DEF IInv, Shape
    <3>5. NoStaleWrite'
      BY <2>1, <2>2, <3>1, <3>2, BeginWritePreserves DEF IInv, NoStaleWrite, Nothing
    <3> QED BY <3>3, <3>4, <3>5 DEF IInv
  <2>3. CASE ~(hasDatabase /\ scheduled)
    <3>1. task = "idle" /\ task' = "finish"
          /\ UNCHANGED <<open, failed, changed, shouldClear, scheduled, exists, table, batch>>
      BY <1>4, <2>3 DEF BeginClose, diskVars
    <3> QED BY <1>0, <2>1, <3>1 DEF IInv, TypeOK, Shape, NoStaleWrite
  <2> QED BY <2>2, <2>3
<1>5. CASE Commit
  <2>1. PICK written \in Parts(batch) : table' = Overlay(table, written)
    BY <1>5 DEF Commit
  <2>2. table' \in Items
    BY <2>1, PartsAreChanges DEF IInv, TypeOK
  <2>3. TypeOK'
    BY <1>0, <1>5, <2>2 DEF Commit, IInv, TypeOK, areaVars, dbVars
  <2>4. Shape'
    <3>1. batch # Nothing => exists
      BY <1>5 DEF Commit, IInv, Shape
    <3>2. batch = Nothing => table' = table
      BY <2>1, PartsAreChanges DEF Overlay, Nothing, Items, IInv, TypeOK
    <3> QED BY <1>5, <3>1, <3>2 DEF Commit, IInv, Shape, areaVars, dbVars
  <2>5. NoStaleWrite'
    BY <1>5 DEF Commit, IInv, NoStaleWrite, areaVars, dbVars, Nothing
  <2> QED BY <2>3, <2>4, <2>5 DEF IInv
<1>6. CASE FinishClose
  <2>1. TypeOK'
    BY <1>0, <1>6 DEF FinishClose, IInv, TypeOK, Disk
  <2>2. Shape'
    BY <1>6 DEF FinishClose, IInv, Shape
  <2>3. NoStaleWrite'
    BY <1>6 DEF FinishClose, IInv, Shape, NoStaleWrite, Nothing
  <2> QED BY <2>1, <2>2, <2>3 DEF IInv
<1>7. CASE Crash
  <2>1. TypeOK'
    BY <1>0, <1>7 DEF Crash, IInv, TypeOK, Disk, diskVars
  <2>2. Shape'
    BY <1>7 DEF Crash, IInv, Shape, diskVars
  <2>3. NoStaleWrite'
    BY <1>7 DEF Crash, NoStaleWrite, Nothing
  <2> QED BY <2>1, <2>2, <2>3 DEF IInv
<1>8. CASE UNCHANGED vars
  BY <1>8 DEF vars, areaVars, dbVars, diskVars, taskVars, IInv, TypeOK, Shape, NoStaleWrite
<1> QED
  BY <1>1, <1>2, <1>3, <1>4, <1>5, <1>6, <1>7, <1>8
     DEF Next, DestroyArea, DeleteEntries, Tasks


-----------------------------------------------------------------------------
(* With or without errors of the file system.                              *)

\* The invariant holds in every reachable state.
LEMMA Invariance == Spec => []IInv
  BY Initially, Step, PTL DEF Spec

\* Every variable keeps its type: no batch, clear or import makes contents of
\* anything but keys and values (StorageArea, LocalStorageDatabase).
THEOREM TypeCorrect == Spec => []TypeOK
<1>1. IInv => TypeOK
  BY DEF IInv
<1> QED BY <1>1, Invariance, PTL

\* Whatever fails in openDatabase and updateDatabaseWithChangedItems, and however
\* clears, changes and batches follow each other, no update writes a value that
\* was replaced or cleared since it was collected.
THEOREM NoStaleWrites == Spec => []NoStaleWrite
<1>1. IInv => NoStaleWrite
  BY DEF IInv
<1> QED BY <1>1, Invariance, PTL

-----------------------------------------------------------------------------
(* Without errors of the file system.                                      *)

\* A clear that is due is scheduled, and is done by the time the transaction
\* starts; closing leaves nothing scheduled.
Due ==
  /\ shouldClear => scheduled
  /\ task = "write" => ~shouldClear /\ exists
  /\ ((task = "write" /\ after # "nothing") \/ task = "finish") => ~scheduled

NInv == IInv /\ Due /\ NothingLost

\* Every step keeps Due.
LEMMA DueStep ==
  ASSUME ~IOErrors, IInv, Due, [Next]_vars
  PROVE  Due'
<1>1. CASE CreateArea
  BY <1>1 DEF CreateArea, Due, dbVars, diskVars, taskVars
<1>2. ASSUME NEW result \in ImportResults, Requests(result) PROVE Due'
  BY <1>2 DEF Due, Requests, GetItems, ChangeItem, ClearItems, ClearDatabase, ItemDidChange,
              OpenAndImportIfNeeded, diskVars, taskVars
<1>3. CASE UpdateDatabase
  BY <1>3 DEF Due, UpdateDatabase, BeginWrite, OpenFails, ClearFails, ReadyToWrite, Opens
<1>4. ASSUME NEW then \in {"destroy", "delete"}, BeginClose(then) PROVE Due'
  BY <1>4 DEF Due, IInv, Shape, BeginClose, BeginWrite, OpenFails, ClearFails, ReadyToWrite, Opens
<1>5. CASE Commit
  BY <1>5 DEF Due, Commit, dbVars
<1>6. CASE FinishClose
  BY <1>6 DEF Due, FinishClose
<1>7. CASE Crash
  BY <1>7 DEF Due, Crash
<1>8. CASE UNCHANGED vars
  BY <1>8 DEF Due, vars, dbVars, diskVars, taskVars
<1> QED
  BY <1>1, <1>2, <1>3, <1>4, <1>5, <1>6, <1>7, <1>8
     DEF Next, DestroyArea, DeleteEntries, Tasks

\* Overlays of no changes, of a part and the rest, and of one change more.
LEMMA Overlays ==
  ASSUME NEW i \in Items, NEW c \in Changes
  PROVE  /\ Overlay(i, Nothing) = i
         /\ \A part \in Parts(c) : Overlay(Overlay(i, part), Without(c, part)) = Overlay(i, c)
         /\ \A k \in Keys, v \in Values \union {Null} :
              Overlay(i, [c EXCEPT ![k] = v]) = [Overlay(i, c) EXCEPT ![k] = v]
<1>1. Overlay(i, Nothing) = i
  BY DEF Overlay, Nothing, Items
<1>2. ASSUME NEW part \in Parts(c)
      PROVE  Overlay(Overlay(i, part), Without(c, part)) = Overlay(i, c)
  <2>1. \A k \in Keys : part[k] \in {Unchanged, c[k]}
    BY PartsAreChanges
  <2>2. \A k \in Keys : Overlay(Overlay(i, part), Without(c, part))[k] = Overlay(i, c)[k]
    BY <2>1 DEF Overlay, Without
  <2> QED BY <2>2 DEF Overlay
<1>3. ASSUME NEW k \in Keys, NEW v \in Values \union {Null}
      PROVE  Overlay(i, [c EXCEPT ![k] = v]) = [Overlay(i, c) EXCEPT ![k] = v]
  <2>1. v # Unchanged
    BY LocalStorageDatabaseAssumption
  <2> QED BY <2>1 DEF Overlay, Changes
<1> QED BY <1>1, <1>2, <1>3

\* Without errors an update takes what it writes from the changes, and a due clear
\* from what the file holds.
LEMMA BeginWriteWrites ==
  ASSUME ~IOErrors, IInv, task = "idle", NEW toWrite, BeginWrite(toWrite)
  PROVE  /\ batch' = toWrite /\ ~shouldClear'
         /\ Disk' = IF shouldClear THEN Empty ELSE Disk
         /\ Disk \in Items /\ Disk' \in Items
  BY DataTypes DEF BeginWrite, OpenFails, ClearFails, ReadyToWrite, Opens, Disk, IInv, TypeOK, Shape

\* With nothing collected or under way the file holds what scripts read.
LEMMA QuietIsSaved ==
  ASSUME IInv, Due, NothingLost, ~scheduled, task # "write"
  PROVE  Visible = Disk
<1>1. changed = Nothing /\ batch = Nothing /\ ~shouldClear
  BY DEF IInv, Shape, Due
<1>2. Disk \in Items
  BY DataTypes DEF Disk, IInv, TypeOK
<1> QED BY <1>1, <1>2, Overlays, DataTypes DEF NothingLost, Written

\* Every step moves changes from one of the four places to the next, and drops
\* those that a clear makes void.
LEMMA NothingLostStep ==
  ASSUME ~IOErrors, NInv, [Next]_vars
  PROVE  NothingLost'
<1> USE DEF NInv
<1>1. Disk \in Items /\ items \in Items /\ batch \in Changes /\ changed \in Changes
      /\ Empty \in Items /\ Nothing \in Changes
  BY DataTypes DEF Disk, IInv, TypeOK
<1>2. CASE CreateArea
  BY <1>2 DEF CreateArea, NothingLost, Visible, Written, Disk, dbVars, diskVars, taskVars
<1>3. ASSUME NEW result \in ImportResults, Requests(result) PROVE NothingLost'
  <2> DEFINE new == Loaded(result)
  <2>1. batch = Nothing /\ batch' = batch /\ Disk' = Disk /\ Visible' = items'
    BY <1>3 DEF Requests, GetItems, ChangeItem, ClearItems, OpenAndImportIfNeeded,
                IInv, Shape, Disk, Visible, diskVars, taskVars
  <2>2. new = Visible
    <3>1. result = "done"
      BY DEF ImportResults
    <3> QED BY <3>1 DEF Loaded, Visible, Disk, IInv, Shape
  <2>3. \A base \in Items : Overlay(base, Nothing) = base
    BY <1>1, Overlays
  <2>4. new = Overlay(IF shouldClear THEN Empty ELSE Disk, changed)
    BY <1>1, <2>1, <2>2, <2>3 DEF NothingLost, Written
  <2>5. Written' = Overlay(IF shouldClear' THEN Empty ELSE Disk, changed')
    BY <1>1, <2>1, <2>3 DEF Written
  <2>6. CASE GetItems(result)
    BY <2>1, <2>4, <2>5, <2>6 DEF GetItems, NothingLost
  <2>7. CASE ClearItems(result)
    <3>1. CASE new = Empty
      BY <2>1, <2>4, <2>5, <2>7, <3>1 DEF ClearItems, NothingLost
    <3>2. CASE new # Empty
      <4>1. changed' = Nothing /\ shouldClear' /\ items' = Empty
        BY <2>7, <3>2 DEF ClearItems, ClearDatabase
      <4> QED BY <1>1, <2>1, <2>3, <2>5, <4>1 DEF NothingLost
    <3> QED BY <3>1, <3>2
  <2>8. ASSUME NEW k \in Keys, NEW v \in Values \union {Null}, ChangeItem(k, v, result)
        PROVE  NothingLost'
    <3>1. items' = [new EXCEPT ![k] = v] /\ shouldClear' = shouldClear
      BY <2>8 DEF ChangeItem
    <3>2. CASE v = Null /\ new[k] = Null
      <4>1. changed' = changed
        BY <2>8, <3>2 DEF ChangeItem
      <4>2. new \in Items
        BY LoadedItems
      <4>3. items' = new
        BY <3>1, <3>2, <4>2 DEF Items
      <4> QED BY <2>1, <2>4, <2>5, <3>1, <4>1, <4>3 DEF NothingLost
    <3>3. CASE ~(v = Null /\ new[k] = Null)
      <4>1. changed' = [changed EXCEPT ![k] = v]
        BY <2>8, <3>3 DEF ChangeItem, ItemDidChange
      <4> DEFINE base == IF shouldClear THEN Empty ELSE Disk
      <4>2. base \in Items
        BY <1>1
      <4>3. Overlay(base, [changed EXCEPT ![k] = v]) = [Overlay(base, changed) EXCEPT ![k] = v]
        BY <1>1, <4>2, Overlays
      <4> QED BY <2>1, <2>4, <2>5, <3>1, <4>1, <4>3 DEF NothingLost
    <3> QED BY <3>2, <3>3
  <2> QED BY <1>3, <2>6, <2>7, <2>8 DEF Requests
<1>4. ASSUME hasDatabase, task = "idle", UNCHANGED <<items, imported>>,
             NEW part \in Parts(changed), BeginWrite(part), changed' = Without(changed, part)
      PROVE  NothingLost'
  <2> DEFINE base == IF shouldClear THEN Empty ELSE Disk
  <2>1. batch = Nothing /\ imported
    BY <1>4 DEF IInv, Shape
  <2>2. batch' = part /\ ~shouldClear' /\ Disk' = base /\ base \in Items
    BY <1>1, <1>4, BeginWriteWrites
  <2>3. Written' = Overlay(Overlay(base, part), Without(changed, part))
    BY <1>4, <2>2 DEF Written
  <2>4. Written = Overlay(base, changed)
    BY <1>1, <2>1, <2>2, Overlays DEF Written
  <2>5. Written' = Written
    BY <1>1, <2>2, <2>3, <2>4, Overlays
  <2> QED BY <1>4, <2>1, <2>5 DEF NothingLost, Visible
<1>5. CASE UpdateDatabase
  BY <1>4, <1>5 DEF UpdateDatabase, areaVars
<1>6. ASSUME NEW then \in {"destroy", "delete"}, BeginClose(then) PROVE NothingLost'
  <2>1. task = "idle" /\ UNCHANGED <<items, imported>>
    BY <1>6 DEF BeginClose, areaVars
  <2>2. CASE hasDatabase /\ scheduled
    <3>1. changed \in Parts(changed) /\ Without(changed, changed) = Nothing
      BY <1>1, AllIsAPart DEF Without, Nothing
    <3>2. BeginWrite(changed) /\ changed' = Nothing
      BY <1>6, <2>2 DEF BeginClose
    <3> QED BY <1>4, <2>1, <2>2, <3>1, <3>2
  <2>3. CASE ~(hasDatabase /\ scheduled)
    BY <1>6, <2>1, <2>3 DEF BeginClose, NothingLost, Visible, Written, Disk, diskVars
  <2> QED BY <2>2, <2>3
<1>7. CASE Commit
  <2>1. table' = Overlay(table, batch) /\ batch' = Nothing
        /\ UNCHANGED <<items, imported, changed, shouldClear, exists>>
    BY <1>7 DEF Commit, areaVars, dbVars
  <2>2. exists /\ ~shouldClear /\ imported
    BY <1>7 DEF Commit, Due, IInv, Shape
  <2>3. Overlay(table, batch) \in Items /\ table \in Items
    BY <1>1, DataTypes DEF IInv, TypeOK
  <2>4. Written' = Overlay(Overlay(table, batch), changed)
    BY <1>1, <2>1, <2>2, <2>3, Overlays DEF Written, Disk
  <2>5. Written = Overlay(Overlay(table, batch), changed)
    BY <2>2 DEF Written, Disk
  <2> QED BY <2>1, <2>2, <2>4, <2>5 DEF NothingLost, Visible
<1>8. CASE FinishClose \/ Crash
  <2>1. /\ changed' = Nothing /\ batch' = Nothing /\ ~shouldClear'
        /\ Disk' \in Items /\ Visible' = Disk'
    BY <1>1, <1>8 DEF FinishClose, Crash, Visible, Disk, IInv, TypeOK, Shape, diskVars
  <2> QED BY <1>1, <2>1, Overlays DEF NothingLost, Written
<1>9. CASE UNCHANGED vars
  BY <1>9 DEF vars, areaVars, dbVars, diskVars, taskVars, NothingLost, Visible, Written, Disk
<1> QED
  BY <1>2, <1>3, <1>5, <1>6, <1>7, <1>8, <1>9 DEF Next, DestroyArea, DeleteEntries, Tasks

\* Without errors the stronger invariant holds in every reachable state.
LEMMA FaithfulInvariance == ASSUME ~IOErrors PROVE Spec => []NInv
<1>1. Init => NInv
  <2> SUFFICES ASSUME Init PROVE NInv
    OBVIOUS
  <2>1. IInv
    BY Initially
  <2>2. Due
    BY DEF Init, Due
  <2>3. NothingLost
    BY DataTypes, Overlays DEF Init, NothingLost, Visible, Written, Disk
  <2> QED BY <2>1, <2>2, <2>3 DEF NInv
<1>2. NInv /\ [Next]_vars => NInv'
  <2> SUFFICES ASSUME NInv, [Next]_vars PROVE NInv'
    OBVIOUS
  <2>1. IInv'
    BY Step DEF NInv
  <2>2. Due'
    BY DueStep DEF NInv
  <2>3. NothingLost'
    BY NothingLostStep
  <2> QED BY <2>1, <2>2, <2>3 DEF NInv
<1> QED BY <1>1, <1>2, PTL DEF Spec

\* As long as no file fails, the file, the clear that is due, the batch under way
\* and the changes collected add up to what scripts read, in every state.
THEOREM ChangesAreKept == ASSUME ~IOErrors PROVE Spec => []NothingLost
<1>1. NInv => NothingLost
  BY DEF NInv
<1> QED BY <1>1, FaithfulInvariance, PTL

\* As long as no file fails, an area with no update due has been saved.
THEOREM IdleIsSaved == ASSUME ~IOErrors PROVE Spec => []SavedWhenIdle
<1>1. NInv => SavedWhenIdle
  BY QuietIsSaved DEF NInv, SavedWhenIdle
<1> QED BY <1>1, FaithfulInvariance, PTL

-----------------------------------------------------------------------------
(* What errors lose.                                                       *)

\* The value of one key under two layers of changes.
LEMMA UnderChanges ==
  ASSUME NEW base, NEW b, NEW c, NEW k \in Keys
  PROVE  Overlay(Overlay(base, b), c)[k]
           = IF c[k] # Unchanged THEN c[k] ELSE IF b[k] # Unchanged THEN b[k] ELSE base[k]
  BY DEF Overlay

\* Starting to write moves changes to the batch or, if something fails, leaves no batch.
LEMMA BeginWriteKeeps ==
  ASSUME IInv, hasDatabase, task = "idle", NEW toWrite, BeginWrite(toWrite),
         \A k \in Keys : \/ toWrite[k] = changed[k] /\ changed'[k] = Unchanged
                         \/ toWrite[k] = Unchanged /\ changed'[k] = changed[k],
         UNCHANGED <<items, imported>>, batch' # Nothing,
         NEW k \in Keys, Visible[k] = Written[k]
  PROVE  Visible'[k] = Written'[k]
<1>1. ReadyToWrite(toWrite)
  BY DEF BeginWrite, OpenFails, ClearFails
<1>2. /\ exists' = TRUE /\ shouldClear' = FALSE /\ batch' = toWrite
      /\ table' = IF shouldClear THEN Empty ELSE table
  BY <1>1 DEF ReadyToWrite, Opens
<1>3. imported /\ imported' /\ batch[k] = Unchanged /\ (~exists => table = Empty) /\ Empty[k] = Null
  BY DEF IInv, Shape, Nothing, Empty
<1>4. Visible[k] = items[k] /\ Visible'[k] = items[k]
  BY <1>3 DEF Visible
<1>5. Written[k] = IF changed[k] # Unchanged THEN changed[k]
                   ELSE IF batch[k] # Unchanged THEN batch[k]
                   ELSE (IF shouldClear THEN Empty ELSE Disk)[k]
  BY UnderChanges DEF Written
<1>6. Written'[k] = IF changed'[k] # Unchanged THEN changed'[k]
                    ELSE IF batch'[k] # Unchanged THEN batch'[k]
                    ELSE (IF shouldClear' THEN Empty ELSE Disk')[k]
  BY UnderChanges DEF Written
<1>7. (IF shouldClear' THEN Empty ELSE Disk')[k] = (IF shouldClear THEN Empty ELSE Disk)[k]
  BY <1>2, <1>3 DEF Disk
<1> QED BY <1>2, <1>3, <1>4, <1>5, <1>6, <1>7

LEMMA StepLoses ==
  ASSUME IInv, [Next]_vars, NEW k \in Keys, Visible[k] = Written[k]
  PROVE  \/ Visible'[k] = Written'[k]
         \/ task = "idle" /\ task' = "write" /\ batch' = Nothing
         \/ task = "write" /\ batch[k] # Unchanged
         \/ ~imported /\ imported'
<1>1. /\ Nothing[k] = Unchanged /\ Empty[k] = Null
      /\ (task # "write" => batch = Nothing)
      /\ (hasDatabase => imported)
      /\ items \in Items /\ table \in Items /\ changed \in Changes
  BY DEF IInv, TypeOK, Shape, Nothing, Empty
<1>2. Written[k] = IF changed[k] # Unchanged THEN changed[k]
                   ELSE IF batch[k] # Unchanged THEN batch[k]
                   ELSE (IF shouldClear THEN Empty ELSE Disk)[k]
  BY UnderChanges DEF Written
<1>3. Written'[k] = IF changed'[k] # Unchanged THEN changed'[k]
                    ELSE IF batch'[k] # Unchanged THEN batch'[k]
                    ELSE (IF shouldClear' THEN Empty ELSE Disk')[k]
  BY UnderChanges DEF Written
<1>4. CASE UNCHANGED <<items, imported, changed, shouldClear, diskVars, batch>>
  BY <1>4 DEF Visible, Written, Disk, diskVars
<1>5. CASE CreateArea \/ UNCHANGED vars
  BY <1>4, <1>5 DEF CreateArea, vars, areaVars, dbVars, diskVars, taskVars
<1>6. ASSUME NEW result \in ImportResults, Requests(result), imported
      PROVE  Visible'[k] = Written'[k]
  <2>1. /\ imported' /\ Loaded(result) = items
        /\ batch[k] = Unchanged /\ UNCHANGED <<exists, table, batch>>
    BY <1>1, <1>6 DEF Requests, GetItems, ClearItems, ChangeItem, OpenAndImportIfNeeded,
                      Loaded, diskVars, taskVars
  <2>2. Visible[k] = items[k] /\ Visible'[k] = items'[k] /\ Disk' = Disk
    BY <1>6, <2>1 DEF Visible, Disk
  <2>3. CASE GetItems(result)
    BY <1>2, <1>3, <2>1, <2>2, <2>3 DEF GetItems
  <2>4. CASE ClearItems(result)
    <3>1. CASE items = Empty
      BY <1>2, <1>3, <2>1, <2>2, <2>4, <3>1 DEF ClearItems
    <3>2. CASE items # Empty
      <4>1. items' = Empty /\ changed' = Nothing /\ shouldClear'
        BY <2>1, <2>4, <3>2 DEF ClearItems, ClearDatabase
      <4> QED BY <1>1, <1>3, <2>1, <2>2, <4>1
    <3> QED BY <3>1, <3>2
  <2>5. ASSUME NEW j \in Keys, NEW v \in Values \union {Null}, ChangeItem(j, v, result)
        PROVE  Visible'[k] = Written'[k]
    <3>1. items' = [items EXCEPT ![j] = v] /\ UNCHANGED shouldClear
      BY <2>1, <2>5 DEF ChangeItem
    <3>2. v # Unchanged
      BY LocalStorageDatabaseAssumption
    <3>3. CASE v = Null /\ items[j] = Null
      <4>1. items'[k] = items[k] /\ UNCHANGED changed
        BY <1>1, <2>1, <2>5, <3>1, <3>3 DEF ChangeItem, Items
      <4> QED BY <1>2, <1>3, <2>1, <2>2, <3>1, <4>1
    <3>4. CASE ~(v = Null /\ items[j] = Null)
      <4>1. changed' = [changed EXCEPT ![j] = v]
        BY <2>1, <2>5, <3>4 DEF ChangeItem, ItemDidChange
      <4>2. \/ k = j /\ items'[k] = v /\ changed'[k] = v
            \/ k # j /\ items'[k] = items[k] /\ changed'[k] = changed[k]
        BY <1>1, <3>1, <4>1 DEF Items, Changes
      <4> QED BY <1>2, <1>3, <2>1, <2>2, <3>1, <3>2, <4>2
    <3> QED BY <3>3, <3>4
  <2> QED BY <1>6, <2>3, <2>4, <2>5 DEF Requests
<1>7. ASSUME UpdateDatabase, batch' # Nothing
      PROVE  Visible'[k] = Written'[k]
  <2>1. PICK part \in Parts(changed) : changed' = Without(changed, part) /\ BeginWrite(part)
    BY <1>7 DEF UpdateDatabase
  <2>2. \A j \in Keys : \/ part[j] = changed[j] /\ changed'[j] = Unchanged
                        \/ part[j] = Unchanged /\ changed'[j] = changed[j]
    BY <2>1 DEF Parts, Without
  <2>3. hasDatabase /\ task = "idle" /\ UNCHANGED <<items, imported>>
    BY <1>7 DEF UpdateDatabase, areaVars
  <2> QED BY <1>7, <2>1, <2>2, <2>3, BeginWriteKeeps
<1>8. ASSUME NEW then, BeginClose(then)
      PROVE  \/ Visible'[k] = Written'[k]
             \/ task = "idle" /\ task' = "write" /\ batch' = Nothing
  <2>1. CASE hasDatabase /\ scheduled
    <3>1. BeginWrite(changed) /\ changed' = Nothing /\ task = "idle" /\ UNCHANGED <<items, imported>>
      BY <1>8, <2>1 DEF BeginClose, areaVars
    <3>2. \A j \in Keys : changed'[j] = Unchanged
      BY <3>1 DEF Nothing
    <3>3. task' = "write"
      BY <3>1 DEF BeginWrite
    <3>4. CASE batch' # Nothing
      BY <2>1, <3>1, <3>2, <3>4, BeginWriteKeeps
    <3> QED BY <3>1, <3>3, <3>4
  <2>2. CASE ~(hasDatabase /\ scheduled)
    <3>1. UNCHANGED <<items, imported, changed, shouldClear, diskVars, batch>>
      BY <1>8, <2>2 DEF BeginClose, areaVars
    <3> QED BY <1>4, <3>1 DEF Visible, Written, Disk, diskVars
  <2> QED BY <2>1, <2>2
<1>9. ASSUME Commit, batch[k] = Unchanged
      PROVE  Visible'[k] = Written'[k]
  <2>1. PICK written \in Parts(batch) : table' = Overlay(table, written)
    BY <1>9 DEF Commit
  <2>2. table'[k] = table[k]
    BY <1>9, <2>1 DEF Parts, Overlay
  <2>3. batch' = Nothing /\ UNCHANGED <<items, imported, changed, shouldClear, exists>>
    BY <1>9 DEF Commit, areaVars, dbVars
  <2>4. Disk'[k] = Disk[k]
    BY <2>2, <2>3 DEF Disk
  <2> QED BY <1>1, <1>2, <1>3, <1>9, <2>3, <2>4 DEF Visible
<1>10. ASSUME FinishClose \/ Crash
       PROVE  Visible'[k] = Written'[k]
  <2>1. /\ batch' = Nothing /\ changed' = Nothing /\ ~shouldClear' /\ items' = Empty
        /\ imported' => ~exists'
    BY <1>1, <1>10 DEF FinishClose, Crash
  <2>2. Written'[k] = Disk'[k]
    BY <1>1, <1>3, <2>1
  <2> QED BY <2>1, <2>2 DEF Visible, Disk
<1>11. CASE Commit
  <2>1. task = "write"
    BY <1>11 DEF Commit
  <2> QED BY <1>9, <1>11, <2>1
<1>12. CASE UpdateDatabase
  <2>1. task = "idle" /\ task' = "write"
    BY <1>12 DEF UpdateDatabase, BeginWrite
  <2> QED BY <1>7, <1>12, <2>1
<1>13. ASSUME NEW result \in ImportResults, Requests(result)
       PROVE  (~imported /\ imported') \/ Visible'[k] = Written'[k]
  <2>1. imported'
    BY <1>13 DEF Requests, GetItems, ClearItems, ChangeItem, OpenAndImportIfNeeded
  <2>2. imported \in BOOLEAN
    BY DEF IInv, TypeOK
  <2> QED BY <1>6, <1>13, <2>1, <2>2
<1> QED
  BY <1>5, <1>8, <1>10, <1>11, <1>12, <1>13 DEF Next, Tasks, DestroyArea, DeleteEntries

\* With I/O errors too: what scripts read for a key and what will be in the file part only
\* in a step in which the file does not open or cannot be read, its table is not cleared,
\* or a statement of the batch with that key is at stake.
THEOREM ErrorsLoseTheirOwn == Spec => LostOnlyByFailure
<1>1. IInv /\ [Next]_vars =>
        [\A k \in Keys :
           Visible[k] = Written[k]
             => \/ Visible'[k] = Written'[k]
                \/ task = "idle" /\ task' = "write" /\ batch' = Nothing
                \/ task = "write" /\ batch[k] # Unchanged
                \/ ~imported /\ imported']_vars
  BY StepLoses
<1> QED BY <1>1, Initially, Step, PTL DEF Spec, LostOnlyByFailure

-----------------------------------------------------------------------------
(* The promise of DurableItems, for areas whose changes fit in one batch.  *)

SmallArea == IsFiniteSet(Keys) /\ Cardinality(Keys) <= MaximumItemsToUpdate

\* What scripts read is remembered, so is the empty area while a clear is due, and
\* everything that was collected is in the batch that is written.
Remembered ==
  /\ Visible \in since
  /\ shouldClear => Empty \in since
  /\ task = "write" => changed = Nothing

RInv == NInv /\ Remembered

\* No update of a small area is cut into batches.
LEMMA OneBatch == ASSUME SmallArea PROVE ~TooMany
<1> DEFINE some == {k \in Keys : changed[k] # Unchanged}
<1>1. IsFiniteSet(some) /\ Cardinality(some) <= Cardinality(Keys)
  BY FS_Subset DEF SmallArea
<1>2. Cardinality(some) \in Nat /\ Cardinality(Keys) \in Nat
  BY <1>1, FS_CardinalityType DEF SmallArea
<1> QED BY <1>1, <1>2, LocalStorageDatabaseAssumption DEF SmallArea, TooMany, Size

\* Every step keeps Remembered, and is a step of DurableItems or changes nothing
\* of it.
LEMMA PromiseStep ==
  ASSUME ~IOErrors, SmallArea, RInv, [Next]_vars
  PROVE  Remembered' /\ [Promise!Next]_(Promise!vars)
<1> DEFINE Goal == Remembered' /\ [Promise!Next]_(Promise!vars)
<1> USE DEF RInv, NInv, Promise!vars
<1>1. Disk \in Items /\ items \in Items /\ since \in SUBSET Items /\ Empty \in Items
      /\ batch \in Changes /\ changed \in Changes
  BY DataTypes DEF Disk, IInv, TypeOK
<1>2. CASE CreateArea
  BY <1>2 DEF CreateArea, Remembered, Visible, Disk, dbVars, diskVars, taskVars
<1>3. ASSUME NEW result \in ImportResults, Requests(result) PROVE Goal
  <2>1. /\ Disk' = Disk /\ Visible' = items' /\ since' = since \union {items'}
        /\ crashes' = crashes /\ task' = task /\ task = "idle"
    BY <1>3 DEF Requests, GetItems, ChangeItem, ClearItems, OpenAndImportIfNeeded,
                Disk, Visible, diskVars, taskVars
  <2>2. shouldClear' => shouldClear \/ items' = Empty
    BY <1>3 DEF Requests, GetItems, ChangeItem, ClearItems
  <2>3. items' \in Items
    <3>1. IInv'
      BY <1>3, Step DEF Next
    <3> QED BY <3>1 DEF IInv, TypeOK
  <2>4. Promise!Next
    BY <2>1, <2>3 DEF Promise!Next, Promise!Change
  <2> QED BY <2>1, <2>2, <2>4 DEF Remembered
<1>4. ASSUME task = "idle", UNCHANGED <<items, imported, hasDatabase, since, crashes>>, hasDatabase,
             BeginWrite(changed), changed' = Nothing
      PROVE  Goal
  <2>1. ~shouldClear' /\ Disk' = IF shouldClear THEN Empty ELSE Disk
    BY <1>4, BeginWriteWrites
  <2>2. Visible' = Visible
    BY <1>4 DEF IInv, Shape, Visible
  <2>3. Remembered'
    BY <1>4, <2>1, <2>2 DEF Remembered
  <2>4. CASE shouldClear
    BY <1>4, <2>1, <2>2, <2>3, <2>4 DEF Remembered, Promise!Next, Promise!Save
  <2>5. CASE ~shouldClear
    BY <1>4, <2>1, <2>2, <2>3, <2>5
  <2> QED BY <2>4, <2>5
<1>5. CASE UpdateDatabase
  <2>1. Without(changed, changed) = Nothing
    BY <1>1 DEF Without, Nothing
  <2> QED BY <1>4, <1>5, <2>1, OneBatch DEF UpdateDatabase, areaVars
<1>6. ASSUME NEW then \in {"destroy", "delete"}, BeginClose(then) PROVE Goal
  <2>1. task = "idle" /\ UNCHANGED <<items, imported, hasDatabase, since, crashes>>
    BY <1>6 DEF BeginClose, areaVars
  <2>2. CASE hasDatabase /\ scheduled
    BY <1>4, <1>6, <2>1, <2>2 DEF BeginClose
  <2>3. CASE ~(hasDatabase /\ scheduled)
    BY <1>6, <2>1, <2>3 DEF BeginClose, Remembered, Visible, Disk, diskVars
  <2> QED BY <2>2, <2>3
<1>7. CASE Commit
  <2>1. table' = Overlay(table, batch)
        /\ UNCHANGED <<items, imported, changed, shouldClear, exists>>
        /\ since' = (IF table' = items THEN {items} ELSE since) /\ task' # "write"
        /\ crashes' = crashes
    BY <1>7 DEF Commit, areaVars, dbVars
  <2>2. exists /\ ~shouldClear /\ imported /\ changed = Nothing
    BY <1>7 DEF Commit, Due, IInv, Shape, Remembered
  <2>3. Overlay(table, batch) \in Items /\ table \in Items
    BY <1>1, DataTypes DEF IInv, TypeOK
  <2>4. table' = items
    BY <2>1, <2>2, <2>3, Overlays, DataTypes DEF NothingLost, Visible, Written, Disk
  <2>5. Visible = items /\ Visible' = items /\ Disk' = items /\ since' = {items}
    BY <2>1, <2>2, <2>4 DEF Visible, Disk
  <2>6. Promise!Next
    BY <2>1, <2>5 DEF Remembered, Promise!Next, Promise!Save
  <2> QED BY <2>1, <2>2, <2>5, <2>6 DEF Remembered
<1>8. CASE FinishClose
  <2>1. ~shouldClear' /\ task' # "write" /\ since' = {Disk'} /\ Visible' = Disk'
       /\ crashes' = crashes
    BY <1>8 DEF FinishClose, Visible, Disk, IInv, TypeOK
  <2>2. CASE after = "delete"
    <3>1. Disk' = Empty
      BY <1>8, <2>2 DEF FinishClose, Disk
    <3> QED BY <2>1, <3>1 DEF Remembered, Promise!Next, Promise!Delete
  <2>3. CASE after # "delete"
    <3>1. Disk' = Disk
      BY <1>8, <2>3 DEF FinishClose, Disk, IInv, Shape
    <3>2. Visible = Disk
      BY <1>8, QuietIsSaved DEF FinishClose, Due
    <3> QED BY <2>1, <3>1, <3>2 DEF Remembered, Promise!Next, Promise!Save
  <2> QED BY <2>2, <2>3
<1>9. CASE Crash
  <2>1. ~shouldClear' /\ task' # "write" /\ Disk' = Disk /\ Visible' = Disk
        /\ since' = {Disk} /\ crashes' = crashes + 1
    BY <1>9 DEF Crash, Visible, Disk, diskVars
  <2> QED BY <2>1 DEF Remembered, Promise!Next, Promise!Crash
<1>10. CASE UNCHANGED vars
  BY <1>10 DEF vars, areaVars, dbVars, diskVars, taskVars, Remembered, Visible, Disk
<1> QED
  BY <1>2, <1>3, <1>5, <1>6, <1>7, <1>8, <1>9, <1>10
     DEF Next, DestroyArea, DeleteEntries, Tasks

\* As long as no file fails and the items fit in one batch, the area implements
\* DurableItems: a crash at any point of an update, a close or a deletion takes the
\* items back to a state they really had since the last save.
THEOREM ItemsAreDurable == ASSUME ~IOErrors, SmallArea PROVE Spec => Durable
<1>1. Init => Remembered /\ Promise!Init
  BY DEF Init, Remembered, Promise!Init, Visible, Disk
<1>2. RInv /\ [Next]_vars => Remembered' /\ [Promise!Next]_(Promise!vars)
  BY PromiseStep
<1>3. NInv /\ Remembered <=> RInv
  BY DEF RInv
<1>4. Spec => []NInv
  BY FaithfulInvariance
<1>5. Spec => []RInv
  BY <1>1, <1>2, <1>3, <1>4, PTL DEF Spec
<1> QED BY <1>1, <1>2, <1>5, PTL DEF Spec, Durable, Promise!Spec

=============================================================================
