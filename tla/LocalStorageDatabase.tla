------------------------ MODULE LocalStorageDatabase ------------------------
(***************************************************************************)
(* Persistence of one local storage area: StorageManager::StorageArea      *)
(* (UIProcess/Storage/StorageManager.cpp) over LocalStorageDatabase        *)
(* (UIProcess/Storage/LocalStorageDatabase.cpp), which collects changes    *)
(* and writes them to a SQLite file one second later, when it is closed,   *)
(* or never if the process crashes first.                                  *)
(*                                                                         *)
(* Everything runs on the work queue of StorageManager, one task at a      *)
(* time; a crash may come between two commits of one task.                 *)
(***************************************************************************)
EXTENDS Naturals, FiniteSets

CONSTANTS
  Keys, Values,         \* keys and values of items
  Null,                 \* the null String
  Unchanged,            \* no entry in m_changedItems
  MaximumItemsToUpdate, \* maximumItemsToUpdate
  IOErrors,             \* whether the file may fail to open, and writes may fail
  MaxChanges,           \* bound: changes of the items
  MaxCrashes            \* bound: crashes of the UI process

ASSUME LocalStorageDatabaseAssumption ==
  /\ Null \notin Values
  /\ Unchanged \notin Values \union {Null}
  /\ MaximumItemsToUpdate \in Nat \ {0}
  /\ IOErrors \in BOOLEAN
  /\ MaxChanges \in Nat /\ MaxCrashes \in Nat

VARIABLES
  hasArea,     \* the StorageArea exists (some process listens to it)
  items,       \* its m_storageMap
  imported,    \* its m_didImportItemsFromDatabase
  hasDatabase, \* its m_localStorageDatabase is not null
  open,        \* m_database.isOpen()
  failed,      \* m_failedToOpenDatabase
  changed,     \* m_changedItems
  shouldClear, \* m_shouldClearItems
  scheduled,   \* m_didScheduleDatabaseUpdate
  exists,      \* the database file exists
  table,       \* its ItemTable
  batch,       \* the items a task is about to write
  task,        \* what the task at hand does
  after,       \* what follows when it closes the database
  since,       \* history: states of the items since the file held the items
  changes, crashes

areaVars == <<hasArea, items, imported>>
dbVars   == <<hasDatabase, open, failed, changed, shouldClear, scheduled>>
diskVars == <<exists, table>>
taskVars == <<batch, task, after>>
vars == <<areaVars, dbVars, diskVars, taskVars, since, changes, crashes>>

Items   == [Keys -> Values \union {Null}]
Changes == [Keys -> Values \union {Null, Unchanged}]
Empty   == [k \in Keys |-> Null]
Nothing == [k \in Keys |-> Unchanged]
Overlay(base, c) == [k \in Keys |-> IF c[k] = Unchanged THEN base[k] ELSE c[k]]

\* The types; of note, the file and the items never hold the marker "unchanged"
\* of m_changedItems, only values and the null String.
TypeOK ==
  /\ hasArea \in BOOLEAN /\ items \in Items /\ imported \in BOOLEAN
  /\ hasDatabase \in BOOLEAN /\ open \in BOOLEAN /\ failed \in BOOLEAN
  /\ changed \in Changes /\ shouldClear \in BOOLEAN /\ scheduled \in BOOLEAN
  /\ exists \in BOOLEAN /\ table \in Items
  /\ batch \in Changes
  /\ task \in {"idle", "write", "finish"}
  /\ after \in {"nothing", "destroy", "delete"}
  /\ since \in SUBSET Items
  /\ changes \in 0..MaxChanges /\ crashes \in 0..MaxCrashes

Init ==
  /\ hasArea = FALSE /\ items = Empty /\ imported = FALSE
  /\ hasDatabase = FALSE /\ open = FALSE /\ failed = FALSE
  /\ changed = Nothing /\ shouldClear = FALSE /\ scheduled = FALSE
  /\ exists = FALSE /\ table = Empty
  /\ batch = Nothing /\ task = "idle" /\ after = "nothing"
  /\ since = {Empty}
  /\ changes = 0 /\ crashes = 0

\* What an import would read: a file that is not there holds nothing.
Disk == IF exists THEN table ELSE Empty

-----------------------------------------------------------------------------
(* Requests of web processes.                                              *)

\* createLocalStorageMap creates the area with its first listener.
CreateArea ==
  /\ task = "idle" /\ ~hasArea
  /\ hasArea' = TRUE
  /\ UNCHANGED <<items, imported, dbVars, diskVars, taskVars, since, changes, crashes>>

\* openDatabaseAndImportItemsIfNeeded: the first access opens the file, if there
\* is one, and imports its items.  Reading may fail, and so may opening, even with
\* the file open (tryToOpenDatabase cannot create the table).
ImportResults == IF IOErrors THEN {"done", "unread", "no table", "unopened"} ELSE {"done"}

Loaded(result) == IF ~imported /\ exists /\ result = "done" THEN table ELSE items

OpenAndImportIfNeeded(result) ==
  /\ task = "idle" /\ hasArea
  /\ hasDatabase' = TRUE
  /\ imported' = TRUE
  /\ open' = (open \/ (~imported /\ exists /\ result # "unopened"))
  /\ failed' = (failed \/ (~imported /\ exists /\ result # "done" /\ result # "unread"))
  /\ since' = since \union {items'}
  /\ UNCHANGED <<hasArea, diskVars, taskVars, crashes>>

CountChange ==
  /\ changes < MaxChanges
  /\ changes' = changes + 1

GetItems(result) ==
  /\ items' = Loaded(result)
  /\ OpenAndImportIfNeeded(result)
  /\ UNCHANGED <<changed, shouldClear, scheduled, changes>>

ItemDidChange(k, v) ==
  /\ changed' = [changed EXCEPT ![k] = v]
  /\ scheduled' = TRUE

\* StorageArea::setItem, and removeItem (v = Null), which saves real changes only.
ChangeItem(k, v, result) ==
  /\ items' = [Loaded(result) EXCEPT ![k] = v]
  /\ OpenAndImportIfNeeded(result)
  /\ CountChange
  /\ IF v = Null /\ Loaded(result)[k] = Null
     THEN UNCHANGED <<changed, scheduled>>
     ELSE ItemDidChange(k, v)
  /\ UNCHANGED shouldClear

\* Fault: changes collected before a clear are still written after it.
ClearKeepsChanges == shouldClear' = TRUE /\ scheduled' = TRUE /\ UNCHANGED changed

\* LocalStorageDatabase::clear
ClearDatabase == changed' = Nothing /\ shouldClear' = TRUE /\ scheduled' = TRUE

\* StorageArea::clear for a script.
ClearItems(result) ==
  /\ items' = Empty
  /\ OpenAndImportIfNeeded(result)
  /\ CountChange
  /\ IF Loaded(result) = Empty
     THEN UNCHANGED <<changed, shouldClear, scheduled>>
     ELSE ClearDatabase

-----------------------------------------------------------------------------
(* Writing.                                                                *)

\* updateDatabaseWithChangedItems up to its transaction.  The file is opened or
\* created; the table is cleared by a statement that SQLite commits on its own.
OpenFails ==
  /\ IOErrors /\ ~open
  /\ failed' = TRUE
  /\ batch' = Nothing
  /\ UNCHANGED <<open, shouldClear, diskVars>>

Opens ==
  /\ open' = TRUE /\ exists' = TRUE
  /\ \/ UNCHANGED failed
     \/ IOErrors /\ ~open /\ failed' = TRUE

ClearFails ==
  /\ IOErrors /\ shouldClear
  /\ Opens
  /\ shouldClear' = FALSE
  /\ batch' = Nothing
  /\ UNCHANGED table

ReadyToWrite(toWrite) ==
  /\ Opens
  /\ shouldClear' = FALSE
  /\ table' = IF shouldClear THEN Empty ELSE table
  /\ batch' = toWrite

BeginWrite(toWrite) ==
  /\ task' = "write"
  /\ OpenFails \/ ClearFails \/ ReadyToWrite(toWrite)

Size(c) == Cardinality({k \in Keys : c[k] # Unchanged})

\* Any part of the changes: the iteration order of m_changedItems is arbitrary.
Parts(c) == {part \in Changes : \A k \in Keys : part[k] \in {Unchanged, c[k]}}

\* Fault: the rest of the changes is dropped with the part that is written.
WithoutTheRest(c, part) == Nothing

Without(c, part) == [k \in Keys |-> IF part[k] = Unchanged THEN c[k] ELSE Unchanged]

\* Fault: the rest of a large update is not scheduled.
NeverReschedules == FALSE

TooMany == Size(changed) > MaximumItemsToUpdate

Reschedules == TooMany

\* updateDatabase, one second after the first change.
UpdateDatabase ==
  /\ task = "idle" /\ hasDatabase /\ scheduled
  /\ \E part \in Parts(changed) :
       /\ IF TooMany THEN Size(part) = MaximumItemsToUpdate ELSE part = changed
       /\ changed' = Without(changed, part)
       /\ BeginWrite(part)
  /\ scheduled' = Reschedules
  /\ after' = "nothing"
  /\ UNCHANGED <<areaVars, hasDatabase, since, changes, crashes>>

\* The transaction of updateDatabaseWithChangedItems; after a failed statement it
\* commits what was written until then.
Commit ==
  /\ task = "write"
  /\ \E written \in Parts(batch) :
       /\ IOErrors \/ written = batch
       /\ table' = Overlay(table, written)
  /\ batch' = Nothing
  /\ task' = IF after = "nothing" THEN "idle" ELSE "finish"
  /\ since' = IF table' = items THEN {items} ELSE since
  /\ UNCHANGED <<areaVars, dbVars, exists, after, changes, crashes>>

\* Fault: what is still to be written is thrown away.
CloseWithoutWriting(then) ==
  /\ task = "idle"
  /\ task' = "finish" /\ after' = then
  /\ changed' = Nothing /\ shouldClear' = FALSE /\ scheduled' = FALSE
  /\ UNCHANGED <<areaVars, hasDatabase, open, failed, diskVars, batch, since, changes, crashes>>

\* LocalStorageDatabase::close: write everything that is scheduled.
BeginClose(then) ==
  /\ task = "idle"
  /\ after' = then
  /\ \/ /\ hasDatabase /\ scheduled
        /\ BeginWrite(changed)
        /\ changed' = Nothing /\ scheduled' = FALSE
     \/ /\ ~(hasDatabase /\ scheduled)
        /\ task' = "finish"
        /\ UNCHANGED <<open, failed, changed, shouldClear, scheduled, diskVars, batch>>
  /\ UNCHANGED <<areaVars, hasDatabase, since, changes, crashes>>

\* The last listener goes (destroyStorageMap, invalidateConnectionInternal,
\* applicationWillTerminate), and the area with it: ~StorageArea.
DestroyArea == hasArea /\ BeginClose("destroy")

\* deleteAllEntries and deleteEntriesForOrigin: StorageArea::clear, if there is an
\* area, then the tracker deletes the file.
DeleteEntries == BeginClose("delete")

\* The end of close, where an empty database is deleted, and of what called it.
\* StorageArea::clear leaves m_didImportItemsFromDatabase as it is.
FinishClose ==
  /\ task = "finish"
  /\ exists' = (exists /\ after # "delete" /\ (open => table # Empty))
  /\ table' = IF exists' THEN table ELSE Empty
  /\ items' = Empty
  /\ since' = {Disk'}
  /\ hasArea' = (hasArea /\ after = "delete")
  /\ imported' = (imported /\ after = "delete")
  /\ hasDatabase' = FALSE /\ open' = FALSE /\ failed' = FALSE
  /\ changed' = Nothing /\ shouldClear' = FALSE /\ scheduled' = FALSE
  /\ task' = "idle" /\ after' = "nothing"
  /\ UNCHANGED <<batch, changes, crashes>>

-----------------------------------------------------------------------------
\* The UI process dies: only the file remains.
Crash ==
  /\ crashes < MaxCrashes
  /\ crashes' = crashes + 1
  /\ hasArea' = FALSE /\ items' = Empty /\ imported' = FALSE
  /\ hasDatabase' = FALSE /\ open' = FALSE /\ failed' = FALSE
  /\ changed' = Nothing /\ shouldClear' = FALSE /\ scheduled' = FALSE
  /\ batch' = Nothing /\ task' = "idle" /\ after' = "nothing"
  /\ since' = {Disk}
  /\ UNCHANGED <<diskVars, changes>>

Requests(result) ==
  \/ GetItems(result) \/ ClearItems(result)
  \/ \E k \in Keys, v \in Values \union {Null} : ChangeItem(k, v, result)

Tasks == Commit \/ FinishClose

Next ==
  \/ CreateArea
  \/ \E result \in ImportResults : Requests(result)
  \/ UpdateDatabase \/ DestroyArea \/ DeleteEntries
  \/ Tasks \/ Crash

\* Timers fire and tasks run to their end.
Spec == Init /\ [][Next]_vars
FairSpec == Spec /\ WF_vars(Tasks) /\ WF_vars(UpdateDatabase)

-----------------------------------------------------------------------------
(* Properties.                                                             *)

\* What scripts read, now or after the next import.
Visible == IF imported THEN items ELSE Disk

\* What the file will hold once everything collected has been written.
Written == Overlay(Overlay(IF shouldClear THEN Empty ELSE Disk, batch), changed)

\* No change is lost on its way to the file: the file, the clear that is due, the
\* batch being written and the changes collected add up to the items.
NothingLost == Visible = Written

\* Even when files fail to open and statements fail, what waits to be written is
\* what scripts read: no update writes a value that was replaced or cleared since.
NoStaleWrite ==
  \A k \in Keys : /\ changed[k] \in {Unchanged, items[k]}
                 /\ batch[k] \in {Unchanged, items[k]}

\* Errors lose nothing but what they hit: the value scripts read for a key stops being
\* the value that will be in the file only when the file does not open or its table is
\* not cleared, when a statement of the batch with that key fails, or when the file
\* cannot be read; not when a batch is split, a clear crosses it or the area is closed.
LostOnlyByFailure ==
  [][\A k \in Keys :
       Visible[k] = Written[k]
         => \/ Visible'[k] = Written'[k]
            \/ task = "idle" /\ task' = "write" /\ batch' = Nothing
            \/ task = "write" /\ batch[k] # Unchanged
            \/ ~imported /\ imported']_vars

\* With no update due (m_didScheduleDatabaseUpdate), the file holds the items: an
\* area that is left alone, and one that is closed, has been saved.
SavedWhenIdle == task = "idle" /\ ~scheduled => Visible = Disk

\* The area keeps the promise of DurableItems: a crash, whenever it comes, takes
\* the items back to a state they had since the last save, and closing the area
\* or the application loses nothing.
Promise == INSTANCE DurableItems WITH States <- Items, Initial <- Empty,
                                      items <- Visible, saved <- Disk
Durable == Promise!Spec

\* Every collected change gets its turn: however many there are, whatever failed
\* before and whatever is closed or deleted in between, no change stays in
\* m_changedItems with no update to come.
CollectedGetsWritten ==
  \A k \in Keys : changed[k] # Unchanged ~> changed[k] = Unchanged

\* "ASSERT(!m_failedToOpenDatabase)" (openDatabase): a database that could not be
\* opened is not opened again.
OpenedOnce == [][task = "idle" /\ task' = "write" /\ ~open => ~failed]_vars

=============================================================================
