# Specifications of the WikiCity apps and of their storage engine

The repository holds three implementations of one application, a catalogue of
cities with personal favourites, for iOS (`src/Swift`), Android
(`src/KotlinLab`) and Flutter (`src/Flutter`). All three keep their data in
Firebase: accounts in Firebase Authentication, cities and user records in the
Realtime Database. There is no server code of their own, so everything that can
go wrong between two users' actions, two callbacks or two devices is decided in
the apps.

The repository also holds the sources of the libraries the iOS app is built
from. By far the largest is leveldb, the storage engine in which the Firebase
client keeps data and unsent writes when an app switches its disk persistence
on. It is where this repository has its threads, its locks, its crash recovery
and its file formats, and so it is specified here too, as a component of its own.

Both are specified in TLA+ and model-checked with TLC; what matters most of the
favourites of the three apps, of the Android session and of the storage engine is
proved with TLAPS.

| Module | What it is | Lines |
|---|---|---|
| `Favorites` | abstract specification: a set changed one city at a time | 21 |
| `RtdbClient` | one database location, its server and the client library in each app | 191 |
| `SwiftFavorites` | iOS: `CityView` and the favourites of `FirebaseAppDataHandler`, over `RtdbClient` | 329 |
| `KotlinSession` | Android: who is signed in, which activities the task holds | 375 |
| `KotlinFavorites` | Android: the lists of `UserMainActivity`, the button of `CityActivity` | 456 |
| `FlutterFavorites` | Flutter: `CityPage` and the favourites of `FirebaseAppDataHandler` | 310 |
| `DBImpl` | leveldb: writers, background thread, readers, crashes, recovery | 706 |
| `VersionSet` | leveldb: levels, compactions, snapshots, reads | 511 |
| `Cursor` | abstract specification: a cursor over the pairs of a snapshot | 33 |
| `Iterators` | leveldb: `DBIter` over `MergingIterator` over `TwoLevelIterator` | 240 |
| `LogFile` | leveldb: the format of logs and MANIFESTs, writer and reader | 262 |
| `TableFile` | leveldb: sorted tables, their index, filter and block iterators | 263 |
| `Coding` | leveldb: varints, edits, batches, footers, entries of memtables | 328 |
| `SkipList`, `Arena` | leveldb: the memtable's list, read without a lock, and its memory | 158, 67 |
| `TableCache`, `HandleTable` | leveldb: open tables, limits on files; the cache's hash table | 181, 80 |
| `WorkQueue` | leveldb: `PosixEnv::Schedule` and the background thread's loop | 56 |
| `WritableFile` | leveldb: `PosixWritableFile`, its buffer, `Sync` | 104 |
| `CurrentFile` | leveldb: how CURRENT comes to name another MANIFEST | 146 |
| `FileNames` | leveldb: names of files, made and parsed | 108 |
| `FileLock` | leveldb: the lock of a database, of threads and processes | 71 |
| `Repair` | leveldb: `RepairDB` | 175 |
| `Base64` | the base64 of the Firebase client's WebSocket | 92 |
| `StorageParts`, `Storage` | the parts of the engine that stand on their own, side by side | 58, 161 |
| `MC*` | instances for TLC | 8-35 |
| `SequenceFacts` | lemmas about sequences, counting and least elements, for all proofs | 834 |
| `SwiftFavorites_proofs` | theorems about `SwiftFavorites` and `RtdbClient` | 3011 |
| `KotlinSession_proofs` | theorems about `KotlinSession` | 855 |
| `FlutterFavorites_proofs` | theorems about `FlutterFavorites` | 895 |
| `KotlinFavorites_proofs` | theorems about `KotlinFavorites` | 3674 |
| `DBImpl_proofs` | theorems about `DBImpl`: types, tables, readers, what is stored, batches | 8452 |
| `StorageParts_proofs` | invariants of `FileLock`, `WorkQueue`, `WritableFile`, `CurrentFile`, `Repair` on their own | 3885 |
| `Storage_proofs` | theorems of `Storage`, from those invariants | 129 |

`tlc -workers 2 -config <cfg> <MC module>` runs a configuration,
`tlapm <module>_proofs.tla` checks the proofs of a module. `PROJECT.json` lists the
components, the runs, the definition-to-source map, for every checked property
a mutated definition under which TLC refutes it, the findings and the hazards.

## 1. Inventory

### iOS (`src/Swift/lab3/lab3`)

| Part | State | Operations | What makes it correct |
|---|---|---|---|
| Favourites: `FirebaseAppDataHandler` 141-262, `CityView` | list `users/<uid>/favorites`, first entry `"null"`; per screen `isInFavorites`, `isAdding` | `addToFavorites`, `removeFromFavorites`, `checkIfInFavorites`, open, close, tap | no operation undoes another; no city twice; `"null"` stays; the button tells the truth; spinners end |
| Firebase client (vendored `FPersistentConnection.m`, `FRepo.m`, `FSyncTree.m`) | outstanding writes and reads, connection | `getData`, `setValue`, acknowledge, time out, disconnect, restore | acknowledgements complete the write they are for |
| Registration: `FirebaseAuthHandler.register` | account, record in two writes | `createUser`, `setValue({email})`, `updateUserInfo(...["null"])` | a finished registration leaves a decodable record |
| Session: `MainView`, `LoginView`, `RegisterView`, `NavigationManager`, `ContentView` | shared `isAuthenticated`, `navigateToLogin` | start-up check, log in, register, quit | screens shown agree with who is signed in |
| Lists: `UserMainView`, `FavoritesView` | `cities`, `isLoading` | `getAllCities`, `getFavorites` (a group of reads) | "No data" only when there is none |
| Profile: `UserProfileView` | form fields, `isSaving` | `getUserInfo`, `updateUserInfo`, quit | saving never replaces what was not loaded |

### Android (`src/KotlinLab/app/src/main/java/com/example`)

| Part | State | Operations | What makes it correct |
|---|---|---|---|
| Session: `MainActivity`, `LoginActivity`, `RegisterActivity`, log-out in `UserInfoActivity` | FirebaseAuth's user, the task of activities, callbacks under way, progress dialogs | start, check, log in, register, Back, log out | only accounts with a record get in; screens of a user only while one is signed in; dialogs close; `!!` never fails |
| Favourites: `UserMainActivity`, `CityActivity`, `AdapterCity` | list `Users/<uid>/favs`, lists shown, listeners, button | toggle of list, toggle of a favourite, value events | list and label follow the data; changes are built on earlier ones |
| Profile: `UserInfoActivity` | form fields, dialog | `detail`, `save` | as on iOS |

### Flutter (`src/Flutter/lab2/lib`)

| Part | State | Operations | What makes it correct |
|---|---|---|---|
| Favourites: `firebase_app_data_handler.dart`, `city_page.dart`, `city_entity.dart` | map push id -> city at `users/<uid>/favorites`; `_isInFavorites`, `_isAdding` | add, remove, check, open, close, tap | removal removes every copy; no copy twice; button and spinner as on iOS |
| Session: `auth_guard.dart`, `login_page.dart`, `register_page.dart`, `firebase_auth_handler.dart`, `custom_menu_bar.dart` | stream of auth states, routes, spinners | log in, register, sign out, push of pages | spinner ends; pages agree with the session |
| Profile: `user_profile_page.dart`; lists: `user_main_page.dart`, `favorites_page.dart` | one read each | load, save | - |

### Storage engine (`src/Swift/lab3/Pods/leveldb-library`)

| Part | State | Operations | What makes it correct |
|---|---|---|---|
| `db_impl.cc`: `DBImpl` | `mem_`, `imm_`, log, `writers_`, `pending_outputs_`, `bg_error_`, flags of the background thread, files on disk | `Write`, `MakeRoomForWrite`, `BackgroundCall`, flush, compaction, `RemoveObsoleteFiles`, iterators, close, recovery | what was promised is stored; batches are whole; readers keep their state; no needed file goes; calls return |
| `version_set.cc`: `VersionSet`, `Version`, `Compaction` | files of the levels, compaction pointers, file to compact | `PickCompaction`, `SetupOtherInputs`, merge, `LogAndApply`, `Get`, `CompactRange` | files of a level are disjoint; newer entries above older ones; a merge is invisible |
| `db_iter.cc`, `merger.cc`, `two_level_iterator.cc` | position, direction, saved key and value | `Seek`, `SeekToFirst`, `SeekToLast`, `Next`, `Prev` | a cursor over what the snapshot shows |
| `log_writer.cc`, `log_reader.cc` | block offset; buffer, scratch | `AddRecord`, `ReadRecord` | synced records come back, nothing is made up |
| `table_builder.cc`, `block_builder.cc`, `block.cc`, `table.cc`, `filter_block.cc`, `bloom.cc` | blocks, index, filter | `Add`, `Finish`, `InternalGet`, block iterators | what was added is found |
| `coding.cc`, `version_edit.cc`, `write_batch.cc`, `format.cc`, `memtable.cc` | - | encode, decode | decoding undoes encoding, truncation is noticed |
| `skiplist.h`, `arena.cc` | links, height; blocks | `Insert`, search; `Allocate` | lock-free readers miss nothing |
| `cache.cc`, `table_cache.cc`, `Limiter` | LRU lists, reference counts, hash table, permits | `Lookup`, `Insert`, `Release`, `Erase`, `FindTable`, `Evict` | a table in use is open; limits are kept |
| `PosixEnv`, `PosixWritableFile` | queue of works; buffer of a file; table of locks | `Schedule`; `Append`, `Flush`, `Sync`; `LockFile`, `UnlockFile` | works run once in order; what `Sync` reports is on disk; one holder |
| `filename.cc`, CURRENT, MANIFEST | directory | `SetCurrentFile`, `NewDB`, `ParseFileName` | CURRENT names a whole MANIFEST |
| `repair.cc`: `Repairer` | logs, tables, the new descriptor | find, convert, scan, copy, archive, install | nothing readable is lost |

Records and their JSON (`CityEntity`, `UserEntity`, `ModelCity`), galleries and
styling, generated configuration and what is left of the vendored libraries
complete the list in `PROJECT.json`.

### How the parts interact

Every app talks to the two services through a client library that calls back on
the app's main thread. Screens start operations and keep no handle on them:
nothing is cancelled when a screen is left, no request carries a number, no
write is conditional. So the hard behaviours are: answers used after the state
they describe has changed (favourites, all three apps); callbacks that act for
an activity or a user that has gone (Android session); connections that break
between a write and its acknowledgement; a process that ends between two steps
of one operation (registration); labels and spinners set by whichever callback
comes last.

In the engine, threads that call `Write` queue behind one of them, which writes
for all; the background thread flushes and merges with the mutex released, and
both wait for each other through two condition variables. Readers take
references to what they need under the mutex and then go without it. Everything
may fail or stop between any two calls of the file system, and what is on disk
then is what recovery, or a repair, starts from. `DBImpl` has this protocol;
what it relies on of each part is the property of that part's module: that a log
gives back its synced records (`LogFile`), that merging changes nothing a reader
sees (`VersionSet`), that `Sync` means durable (`WritableFile`), that CURRENT is
replaced in one step (`CurrentFile`), that work scheduled is done (`WorkQueue`).

`PROJECT.json` lists each hazard at its line, with the properties that would
catch it, or the reason why none does; section 7 has those it leaves out.

## 2. Plan

Done: the favourites of the three apps, the link below the iOS one, the Android
session, the storage engine, and the proofs of section 6.

What remains is proof, in this order:

1. `TablesStayOpen` (references and permits add up).
2. `VersionSet`: that `LevelsDisjoint` and `NewerAbove` are kept by every step when
   `BusyManual = FALSE`, and that reads find the last write as long as no merge has
   parted a key (`parted`).

Of the apps, the sessions of iOS and Flutter, the profiles and the records'
conversions could still be modelled (`SwiftSession`: the shared binding
`isAuthenticated`; `Profile`: load, edit and save of a form, against "a save
changes only what the user has changed"; `FlutterSession`: guard, routes,
spinners). Section 7 says why they come last.

The runs are kept few: modules that share an instance share a run, and the parts
of the engine are put side by side in `Storage`.

## 3. Modules and code

### Favorites

`fav` is a set of cities; a step adds one or removes one. It is what README.md:19
of the repository asks for, and the favourites modules of all three apps are
checked to implement it with `fav` the set of cities in the database.

### RtdbClient

`store` is the value at the server; per device `puts` holds unacknowledged
writes (`FPersistentConnection.outstandingPuts`), `waitingGets` the reads asked
for while offline, `toServer`/`toClient` the connection, `main` the queue of
callbacks. `GetData` and `SetValue` are what apps call; the caller passes the
rest of its main queue, so that a callback and the call it makes are one step.

- `FRepo.getData` first asks `FSyncTree.getServerValue`: with unacknowledged
  writes at the location, the read is answered from them at once
  (`AnswerFromPendingWrite`). Otherwise it is sent, or kept until a connection
  is there or it has timed out.
- `Disconnect` loses what travels. Writes are sent again on `Reconnect`, in
  order, before the waiting reads; reads that had been sent are lost with their
  callbacks.
- Any request may be denied. `KillApp` loses the process; nothing is on disk,
  since the app never enables persistence.
- Not modelled: listeners, transactions, a server that still works through the
  bytes of an old connection while the new one is up.

### SwiftFavorites

| Definition | Code |
|---|---|
| `OpenCity`, `CloseCity` | `CityView` appears (its `onAppear` checks) and goes; state of a view that is gone takes no effect (`OfThisScreen`) |
| `TapFavorite` | `_addToFavorites`: `isAdding = true`, then a read for an add or a removal, as the label says. The button is not disabled while it spins |
| `AddRead`, `RemoveRead` | the `getData` callbacks: write the edited copy, or complete at once when the read failed or there is nothing to do |
| `Written` | the `setValue` callbacks; success and failure complete alike, and the completion checks again (`Refresh`) |
| `Checked` | `checkIfInFavorites`' completion in `_updateInFavoritesState` |
| `FreshAccount`, `RegistrationWritten` | the two writes of `register`: `{email}` (no favourites), then the rest with `["null"]` |
| `KillAndRestart`, `BreakConnection`, `Link` | the platform, the connection, `RtdbClient` |

Two history variables say what became of answers for the screen that is open:
`unanswered` is set when one has failed, timed out or was lost, and then the label
may be an old one; `lostAnswer` only when a broken connection took one that
travelled, and that alone may leave the spinner on. A city screen left through another tab counts as closed; its
closures still run. `Overlap = FALSE` restricts the *opening* of a screen to
moments when nothing is under way; taps are never restricted.

### KotlinSession

`account[u]` says what the two services hold: nothing, `halfway` (Authentication
only) or `complete`. `stack` is the task, each activity with an `id`, and for
`UserMain` the user it was opened for; `requests` are the callbacks under way,
named by the activity that waits. A request outlives its activity: its callback
still runs `startActivity` and `finish` (`Without` does nothing then). An
exception nobody catches (`!!` on null, `TODO()`) is the step `Crash`.
`Hasty`, `Cancelling` and `Refusals` say what users and the database may do:
tap "Login" before `MainActivity` has checked, cancel a progress dialog with
Back, refuse reads and writes. Signing in and its success callback are one step;
identical taps repeated in one activity count once.

### KotlinFavorites

`UserMainActivity` leaves a listener on `Users`, so the client keeps a copy
(`known`) under its own unconfirmed writes (`pending`); reads are answered from
it (`ReadRuns`) and writes show at once (`WriteRuns`), each of which may produce
`favs` events. `client` and `main` are the queues between the two threads.
Every `loadCities` adds a listener that answers with the list it was made for
(`CitiesArrive`). `Turn` states how the account is used in this module: a user is
slower than the device, though not than the network, waits for a tap the client
could not answer yet, and takes up another device only when the last one is
through and the other has heard of it. The database may refuse a write
(`Refuse`): it tells only the writer, whose client takes the write back and goes on
with those behind it, which were built on it. Nobody looks at the outcome of
`setValue`. `overtaken`, `repeats` and `broken` are history variables: what the
device sees of the open city has changed by other than its own taps, as another
device changed it or a write was refused; so many of the writes that were sent
again the database has had before; a write was refused and lists built on it may
be on their way. While the database takes repeated writes it goes back through
older lists, and `Newest` is the one it comes to in the end.

### FlutterFavorites

`store` is a map, modelled as a set of pairs; the number of a tap stands for the
push id it makes. `TapFavorite` is `onTap`: `_addToFavorites` up to its first
`await`, then a check beside it; the button is never disabled, so the page that is
open may be tapped again before the first tap is through, and the removals and
adds of one page overlap in every way. `Overlap = FALSE` only lets the user wait
before opening another page. `RemoveRead`, `WriteReturns` and `CheckReturns`
continue the suspended functions, from answers that wait in `inbox` (platform
messages) and so may be old. `setState` of a page that has gone throws; nothing
changes (`OfThisPage`). A write whose confirmation is lost is sent again
(`ConfirmationLost`): a push is idempotent, a replacement is not.

### DBImpl

A section of code that holds `mutex_` is one step; a thread that goes on holding
it over several steps is in `mutex`. A batch is a number with `BatchSize`
entries, since only their being together matters; keys are in `VersionSet`.

| Definition | Code |
|---|---|
| `Write`, `BuildBatchGroup`, `Awakened` | `Write`: enqueue, wait to be first, group, and wake those that were served and the next one |
| `MemFull`, `Delaying`, `NeedsSwitch` and the steps at `"room"` | `MakeRoomForWrite`, each branch of its loop |
| `AppendFails`, `Hole` | an append that fails: `Write` reports it and uses the log on, with a hole in it; `bg_error_` is set for failed syncs only |
| `StartFlush` ... `EndOfBackgroundCall` | `BackgroundCall`: flush, merge with flushes in its middle, install, errors at every call, `RemoveObsoleteFiles` |
| `MaybeScheduleCompaction` | the same; every place that calls it in the code calls it here |
| `ObsoleteFiles`, `DeleteFiles` | decided under the mutex, deleted after it |
| `StartRead`, `EndRead` | `NewInternalIterator`, `Get`: references taken under the mutex |
| `Close`, `Kill`, `Outage` | the destructor; the end of a process; of the machine, which loses what is not synced and any of the edits after the last synced one |
| `Recover`, `RecoverRecord`, `RecoverLogFile`, `Open`, `FinishOpen` | `DB::Open`: the MANIFEST, the logs record by record with the tables they fill, the new log, the new MANIFEST and CURRENT |
| `SkipRecord`, `ReadFails` | `RecoverLogFile`, where the reader finds a hole and may drop what follows it, or cannot read the file on, which is taken for its end |

`manifests` is the set of what CURRENT and its MANIFEST may say after a crash,
so an edit whose write or sync failed leaves two, and one that was read after a
kill may still be lost by an outage: `Recover` keeps the older ones. A recovery
may be killed, or the machine fail, after every record; `replay` is what it has
read and written so far. `promised` is a history variable: what `Write` has reported
done, until an outage takes what was not synced, the process ends with a hole
before the record of the write (`Lasting`), or a recovery cannot read the rest of
the log that alone has it (`Unread`). The last two are what the code loses although it
was synced. `Budgets` are the combinations of bounds a behaviour may begin with.

### VersionSet

A file is the set of its entries and its size their number; a level is a set of
files. `Write` and `SwitchMemTable` fill memtables, `CompactMemTable` picks the
level of the flush (`PickLevelForMemTableOutput`), `AutomaticCompaction` picks
by score or by the seek that `ChargeSeek` has charged, `CompactRange`,
`RegisterManual` and `ManualCompaction` are a manual one, part by part.
`StartMerge` fixes inputs and the oldest snapshot, `FinishCompaction` installs
what `DoCompactionWork` has kept, cut into files where `ShouldStopBefore` and
the file size say so. Between the two, memtables may be flushed. `BusyManual`
says whether they may also while the compaction is a manual one. `parted` is a
history variable: a merge took a file of the level it writes to without the file
behind it that goes on with its last key, which `SetupOtherInputs` never looks for
(finding 2).

### Iterators and Cursor

`Cursor` is what an iterator promises: asked for the first, last, next, previous
pair or the first at a key, it answers with that pair of those the snapshot
shows. `Iterators` has `DBIter`'s loops step by step over the two children with
their own positions and the merging iterator's direction. Every call returns a
pair through `returned`, and `C!Spec` is a property of the run. A writer inserts
newer entries between any two steps.

### The parts on their own

- `LogFile`: bytes are `<<physical record, position>>`, which is what a checksum
  tells apart. `EmitFails`, `CrashAndRead` and `WriteOn` give torn, zero-filled
  and continued files, and the read of any block may fail (`ReadFails`), which ends
  the log there; of a header put together from two writes the reader may
  take anything but a valid record.
- `TableFile`: keys of a few bytes whose last one stands for sequence number and
  type; blocks share prefixes and restart every `RestartInterval` entries. Each
  block, and the index, is then read by an iterator in every order of calls, and
  the finished table is asked for every key.
- `Coding`: one edit, batch, footer or memtable is encoded, perhaps cut off or
  damaged, and decoded. A byte holds `Base` payloads.
- `SkipList`: the writer's stores have an order, and a reader has seen a prefix
  of them that loads may extend; `max_height_` is relaxed, links are
  release/acquire.
- `Arena`: pieces of blocks, with their alignment.
- `TableCache`, `HandleTable`: each call of the cache is one step (it holds a
  mutex); opening a table is several. `HandleTable` is the hash table inside,
  bucket by bucket.
- `WorkQueue`, `WritableFile`, `FileLock`: one action per section of
  `env_posix.cc`; every `write` may fail after a part, and `refused` is what had
  been appended when a call last failed: all that comes after it is promised again; `FileLock` knows that closing any descriptor of a file drops
  the process's lock.
- `CurrentFile`: directories from the durable one to the one that is seen, files
  with what is written and what is safe of them.
- `FileNames`, `Base64`: the two conversions, on made and on arbitrary texts.
- `Repair`: files with the entries that can be read of them; every call may fail
  once, the process may end at any point, also in the middle of a table that is
  being built, and the repair be run again, and again. After an I/O error a third
  run may give a table the number of one in lost/ and archive it over that one, so
  after an error the property is about two runs. With two errors the second run can
  do that too, if it is a table whose size it cannot get that it archives
  (`givenUp`, repair.cc:248-254); there the property ends as well.

`StorageParts` instantiates those with crashes, failures or threads, `Storage` adds
the others. Its variable `part` says which one a behaviour
is of; the others stay as they began. So it has no interleaving the modules do
not have, and its properties are theirs, joined where they serve one question.

## 4. Runs

| Run (configuration) | Instance and bounds | What it shows |
|---|---|---|
| `swift_favorites` (`SwiftFavorites.cfg`) | 1 device, 2 cities, lists with and without `"null"`, fresh registration or not, 2 screens one after the other, 3 taps, 1 break or kill; fair | `TypeOK`; `WritesTravelInOrder`; `ButtonSettles`; `OneCityAtATime`: the list implements `Favorites`; `SpinnerEnds`, unless a connection broke and took an answer (`lostAnswer`). Taps may be repeated without waiting |
| `swift_two_devices` (`SwiftFavoritesTwoDevices.cfg`) | 2 devices, overlapping screens, 1 screen each, 2 taps, 1 break; symmetry; 2.0 million states | `NeverTwice`, `PlaceholderStays` whatever is lost or overwritten |
| `android_sessions` (`KotlinSessionPatient.cfg`) | 2 accounts, 8 activities opened by hand, patient users, no refusals; fair | `OnlyCompleteAccounts`, `DialogEnds` |
| `android_impatient` (`KotlinSessionImpatient.cfg`) | 2 accounts, everything allowed, 3 activities opened by hand; symmetry; 1.2 million states | `TypeOK`, `StrandedForGood` |
| `android_late_check` (violation, `KotlinSessionLateCheck.cfg`) | hasty users, 8 activities | `NeverNoRecord` fails: finding 1 |
| `android_favorites` (`KotlinFavoritesTurns.cfg`) | 2 devices in turns, 2 cities, one of them in the list at first, 4 acts, 1 reconnect, kill or refused write; symmetry; 1.06 million states | `TypeOK`, `ListMatchesButton`, `ButtonFollows`, `OneCityAtATime` |
| `flutter_favorites` (`FlutterFavorites.cfg`) | 1 device, 2 cities, refused reads and writes, 2 pages, 2 taps, also both on one page, 1 lost confirmation or kill; fair; 697,000 states | `TypeOK`, `ButtonSettles`, `OneCityAtATime`, `RemovalIsComplete`, `SpinnerEnds` |
| `db_impl` (`DBImpl.cfg`) | 2 writing threads, 1 reader, batches of 2 entries, groups of 2, a memtable full after 2 entries, triggers 2/2/3; the eight `Budgets` of `Mixed`: up to 4 writes with a fault, 3 with two outages, or with an outage, a kill or a read and a fault, 2 with a kill, an outage and a fault, or with a forced flush, a fault and a read or a close; a fault is any call that fails, an append and the read of a log among them; 478,000 states; fair | `TypeOK`, `ReadersSeeTheirSnapshot`, `PromisedIsStored`, `BatchesWhole`, `DatabaseOpens`, `WritersReturn` |
| `iterators` (`Iterators.cfg`) | 3 users, 3 entries of 2 of them, values and deletions, every split between memtable and a table of one or two blocks, every index key, 2 snapshots, any calls, 1 insertion; fair | `IsCursor`: the iterator implements `Cursor`; `CallsReturn` |
| `storage_parts` (`Storage.cfg`) | the parts, 1.17 million states together: logs of 3 physical records in blocks of 6 bytes, 1 append or read that fails, 2 crashes; 5 user keys with 2 versions; 3 keys in a skip list of height 2; 2 threads on 2 tables; 4 works; 9 bytes through a buffer of 3; 2 processes of 2 threads; 3 repairs of 3 directories with 1 error; up to 5 writes over 2 keys and 4 levels with files of 2 entries, the six `Budgets` of `ShortAndLong`; 3 openings with 1 outage | `LogIsRead`, `TableIsRead`, `CodeIsRead`, `TablesStayOpen`, `WorksRun`, `OneInProcess`, `RepairKeepsData`, `LevelsInOrder`, `ReadsFindLastWrite`, `TypeOK`, `MissesNothing`, `FileKeepsWord` |
| `versions_boundary` (violation, `VersionSetBoundary.cfg`) | the constants of dbformat.h; 2 keys, 4 writes of which 1 is a deletion, 1 snapshot, 2 manual compactions of all keys | `ReadsFindLastWrite` fails: finding 2 |
| `lock_file` (violation, `FileLock.cfg`) | 2 processes of 2 threads | `OneHolder` fails: finding 3 |

Why the bounds suffice: the interesting behaviours are an operation overtaken by
another operation (2 taps), an operation built on the result of two (3), a
screen whose predecessor's callbacks are still under way (2 screens), one
interruption at any point, and one other device. The lists grow to at most two
cities and `"null"`, enough for "first, middle, last" in every position a removal
can hit. Three activities opened by hand reach a registration that was cut off,
and every retry of it, from either screen; eight reach two complete sessions
with a log-out. Callbacks that start activities are not bounded. A bound stops
users, never the system, so `CHECK_DEADLOCK FALSE` is set for the apps: users need
not do anything, and an app where all is answered stands still. So does an engine
nobody calls.

In the engine, the smallest instances that have the case are taken. Two entries
fill a memtable and two tables trigger a merge, so three writes reach a merge
with a flush in its middle and four a writer that waits for both; a group of two
is one of different kinds; a second outage, or one after a kill, ends a recovery. Four levels have one
that is merged into, one below it that grandparents are counted in, and one that
`IsBaseLevelForKey` asks for. A block of six bytes has records that fit, that are
cut in three, and trailers. `Budgets` take the place of one large bound: each
combination lets some of the rare events happen with as many writes as they
need, where all of them at once would be out of reach. The larger instances that
were run by hand, `Budget(4, 1, 1, 0, 2)` of `VersionSet` with the small constants of
`Storage.cfg` (3.5 million states, `LevelsInOrder`, and `ReadsFindLastWrite` as long as
`parted` is false), four physical records and two failures of `LogFile` (8.7 million)
and a repair of two damaged tables and a log, showed nothing else.

Symmetry is used for devices and accounts, in runs without liveness only;
the configurations treat those constants alike.

### Fairness

- `SwiftFavorites`: weak fairness of the main queue (`RunCallback(d)`) and of
  server and library together (`Link(d)`) per device. Main queues are drained by
  the platform, and a device offline reconnects or lets its reads time out
  (`FPersistentConnection.m:864-881`). Users and failures are not fair.
- `KotlinSession`: weak fairness of the answers to each activity. Which answer
  comes is free: `SignInFails` and `RegistrationFails` stay enabled beside the
  successes.
- `FlutterFavorites`: weak fairness of Dart's event loop, of reads and of writes
  per device. Reads and writes need one condition each, since the client issues
  them independently.
- `DBImpl`: weak fairness of the background thread and of what each thread does
  inside `Write`. Both are threads of the operating system; condition variables
  are signalled as the code signals them, and a thread that is not woken has no
  step to take. Faults, kills and outages are not fair.
- `Iterators`: weak fairness of the steps inside a call.

## 5. Findings

1. **A late check crashes the app** (`android_late_check`, `MainActivity.kt:43`).
   `MainActivity` asks for the record of one user; before it is answered the user
   logs in as, or registers, another, whose registration was cut off. The answer
   opens `UserMainActivity` for that account, whose `favs` are asserted with `!!`.
2. **A deleted key comes back** (`versions_boundary`, `version_set.cc:1387`). A
   compaction under a snapshot may cut its output between two entries of one user
   key. The comment at version_set.cc:1346-1350 says why a later compaction must
   not take the first of two such files without the second, and `AddBoundaryInputs`
   sees to it for the files of the level; those of the next level are taken by range
   alone (`SetupOtherInputs`). In the run level 2 holds a file with key 1 and a
   deletion of key 2, and one with the older value of key 2; the snapshot is
   released and key 1 written again. Compacting level 1 takes the first file only,
   no deeper level has key 2, so the deletion is dropped, and a read of key 2 finds
   the old value.
3. **A refused lock drops the lock** (`lock_file`, `env_posix.cc:637`). A second
   `LockFile` in one process opens the file, finds the name in the table and
   closes the file; that close gives up the process's `fcntl` lock, and another
   process can open the database.

Also seen, in the models but not in a run of their own:

- Adds that overlap drop each other (iOS, `FirebaseAppDataHandler.swift:155`):
  tap in one city, open a second and tap there before the first answer. Both
  callbacks append to the list their own read returned, and the second write
  drops the first city after "City added to favorites successfully" was printed.
  `OneCityAtATime` is refuted with `Overlap = TRUE`, `Registering = FALSE` and no
  breaks in `SwiftFavorites.cfg`, and with two devices.
- A removal drops an add of another device (Flutter,
  `firebase_app_data_handler.dart:109`), since it writes back the map it read:
  `OneCityAtATime` is refuted with two devices in `FlutterFavorites.cfg`.
- A flush into the middle of a manual compaction (`version_set.cc:724`). Files
  {a} and {c} of level 2 and newer ones of level 1 are merged by `CompactRange`;
  meanwhile a memtable with key b is flushed. Nothing of the current version
  overlaps b, and with `kMaxMemCompactLevel = 2` its table goes to level 2, where
  the merge then puts a table a..c: "Must not overlap", asserts `MaybeAddFile`.
  `LevelsDisjoint` is refuted with `BusyManual = TRUE`, three keys, five writes, one
  manual compaction and the other constants of `VersionSetBoundary.cfg`. Automatic
  compactions do not have the problem in the instances checked.
- A favourite refused by the database (Android, `CityActivity.kt:57`): the client
  takes the write back, the label set before it stays, and writes that were built
  on the refused one are still sent. The first of them that is taken changes two
  cities at once, so a change the database had refused is made after all.
  `ButtonFollows` exempts the open city from then on, `OneCityAtATime` that one write
  (`Resumes`).
- Back after logging out (Android, `UserInfoActivity.kt:51`): `UserMainActivity`
  stays in the task and is shown although nobody is signed in, against README.md:11
  of the repository. `AuthorizedOnly` is refuted with the constants of
  `KotlinSessionPatient.cfg`.
- A registration cut off half-way strands its e-mail address (`StrandedForGood`
  states exactly that); a refused check ends the Android app through `TODO()`; a
  refused check in `LoginActivity` leaves its dialog up. A broken connection that
  takes the answer of a read leaves the iOS spinner until the screen is opened
  again.
- A failed append leaves a hole in the log that is written on (`db_impl.cc:1225`:
  no `bg_error_` is set, as it is for a failed sync), and what is synced behind it
  may not be recovered. `PromisedIsStored` counts those writes as promised only
  until the process ends. The same holds behind a torn record with `reuse_logs`;
  `SyncedIsRead` of `LogFile` asks for a record only if nothing had gone wrong with
  the file when it was written.
- A log that cannot be opened or read on during recovery is taken to end there
  (`log_reader.cc:197`, `db_impl.cc:412`): without `paranoid_checks`, which are off
  unless asked for, `DB::Open` succeeds, and deletes the log with the synced writes
  it has not read. `PromisedIsStored` exempts them from then on.
- A second error during a repair may cost a table (`givenUp`, section 3).
- The first MANIFEST is not synced by `NewDB` before CURRENT names it
  (`OpensAgain` of `CurrentFile` excepts it).

## 6. Proofs

What is proved holds for every value of the constants that the named assumptions
of the modules admit: every set of devices, cities, users, threads and readers,
every bound and option, every initial list. The assumptions say that constants
that stand for "none" are none of the others, that bounds and sizes are naturals,
that the initial lists are lists the apps write, and that a repair finds finitely many
files with names of their own, of each of which finitely many entries can be read;
TLC evaluates them in every run.

| Module | Theorem | Statement |
|---|---|---|
| `SwiftFavorites_proofs` | `TypeCorrect` | `Spec => []TypeOK` |
| | `NeverTwiceHolds` | `Spec => []NeverTwice` |
| | `PlaceholderStaysHolds` | `Spec => PlaceholderStays`, if `Registering = FALSE` |
| | `WritesTravelInOrderHolds` | `Spec => []WritesTravelInOrder` |
| | `ButtonSettlesHolds` | `Spec => []ButtonSettles`, if `Overlap = FALSE` and there is one device |
| | `OneCityAtATimeHolds` | `Spec => OneCityAtATime` (the refinement of `Favorites`), likewise |
| `KotlinSession_proofs` | `TypeCorrect` | `Spec => []TypeOK` |
| | `StrandedForGoodHolds` | `Spec => StrandedForGood` |
| | `OnlyCompleteAccountsHolds` | `Spec => []OnlyCompleteAccounts`, if `Hasty = Cancelling = FALSE` |
| `FlutterFavorites_proofs` | `TypeCorrect` | `Spec => []TypeOK` |
| | `RemovalIsCompleteHolds` | `Spec => RemovalIsComplete` |
| | `ButtonSettlesHolds` | `Spec => []ButtonSettles`, if `Overlap = FALSE` and there is one device |
| | `OneCityAtATimeHolds` | `Spec => OneCityAtATime` (the refinement of `Favorites`), likewise |
| `KotlinFavorites_proofs` | `TypeCorrect` | `Spec => []TypeOK` |
| | `ListMatchesButtonHolds` | `Spec => []ListMatchesButton` |
| | `ButtonFollowsHolds` | `Spec => []ButtonFollows` |
| | `OneCityAtATimeHolds` | `Spec => OneCityAtATime` (the refinement of `Favorites`) |
| `DBImpl_proofs` | `TypeCorrect` | `Spec => []TypeOK` |
| | `DatabaseOpensHolds` | `Spec => []DatabaseOpens` |
| | `ReadersSeeTheirSnapshotHolds` | `Spec => []ReadersSeeTheirSnapshot` |
| | `PromisedIsStoredHolds` | `Spec => []PromisedIsStored` |
| | `BatchesWholeHolds` | `Spec => []BatchesWhole` |
| `Storage_proofs` | `OneInProcessHolds` | `Spec => []OneInProcess` |
| | `WorksRunHolds` | `Spec => []WorksRun` |
| | `FileKeepsWordHolds` | `Spec => FileKeepsWord` |
| | `RepairKeepsDataHolds` | `Spec => []RepairKeepsData` |

The hypotheses are the configurations of the runs: without them the statement is
false, and section 5 has the behaviours that refute it (`Hasty` is finding 1,
overlapping screens or a second device are those that follow). What a property
exempts is part of its definition and of its comment, is decided by a history
variable that only the step in question sets, and is listed in section 5: an answer
a broken connection took, a refused write, a hole in a log, a log that cannot be
read. No step is kept from happening by it.

### The arguments

**iOS favourites.** No list is ever made from two: a list comes from the database
or from an outstanding write, travels unchanged through requests, answers and
queues, and is edited by one callback from one copy. So instead of an invariant
about the database alone, which is not inductive (the next value comes from a
queue), the proofs use `LinkOver(L)`: *every* list anywhere is in the set `L`.
The lemmas `...Keeps` show, once and for all `L` closed under the two edits
(`Closed(L)`), that each step of `RtdbClient` and each callback preserves it. A
theorem then only chooses `L`: all lists; lists without repetitions; lists that
hold the placeholder, or, for an account that never had it, lists that do not.
While a registration is being written lists of both kinds are about, which is why
the third theorem excludes it: an add on another device that reads between the
two writes and writes after them does take `"null"` out.

**The iOS link, and one device on it.** `OrderInv`: while the device is online, the
writes among the messages that travel, answers before requests, are the outstanding
writes in their order, each once (`InOrder`, by an increasing map from the
outstanding writes to those messages); while it is offline nothing travels, and
on restoring the outstanding writes are sent in that order again. So an
acknowledgement that arrives is for the oldest of them, which is
`WritesTravelInOrder`. `SettleInv` is for one device whose user does not open a
second screen too early: all calls under way are of the open page or the
registration (`OfPage`); while a registration is the newest outstanding write no
list anywhere holds a city (`FreshInv`), so an answer taken from it is as true as
one of the database; and once nothing changes any more, the read that is
answered last, or the button when none is, says what is stored (`LastWord`).
`OneCityInv` says why the refinement holds: there is a city such that every call
under way is for it and every list anywhere differs from the stored one in it at
most. So each write the database takes changes one city, in whatever order and
however often it is sent; and opening the next screen needs nothing to be under
way, when another city may take its place.

**Android session.** That the main screen is only opened for complete accounts is
not inductive: the check that opens it asks for one user and lets in whoever is
signed in. `SessionInv` adds that flows exclude each other: a request other than
the first check belongs to the dialog on top of the task, there is at most one of
them (`OneAtWork`), its user is the one signed in, and while the first check is
under way no other flow can have begun (`ChecksAlone`). This is what waiting
users give; each of the twenty-odd steps is then shown to keep it.

**Flutter favourites.** `DeviceInv` says that all reads, writes and answers of a
device are of the visit and the city of the page last opened (`AboutCity`), however
many taps are under way: a push adds that city alone, and the map a removal has
read, or writes back, agrees with what is stored about all *other* cities. It may
be an old one about the city itself, so overlapping taps on a page may undo each
other, and do; but whatever order the database takes them in, each step adds or
removes that one city, which is the refinement. Once no change is under way any
more, the answer that comes last, or the button if none is to come, agrees with
what is stored (`LastWord`).
`RemovalIsComplete` needs no such restriction: what a removal writes is the map it
read without any entry of the city.

**Android favourites.** `Kind` describes each queue by the kinds of messages it
holds and the order they may be in; `NewsInv`, `KnownInv` and the like say that
the last update under way is what the database holds, and the last list that
will be built the one the button tells of. From it the two properties of lists
and labels follow. For the refinement, `Chain` adds that at most one device is
active and that its unconfirmed writes form a chain: the first differs from what
the database holds, each from the one before, in one city; the writes under way
are the unconfirmed ones without those whose confirmations are coming; `repeats`
of them the database has had. A broken connection puts it back to the beginning of
that chain, so what goes forward one city at a time is `Newest` and not the
database. A refused write leaves a link out of the chain (`broken`): the next write
is one city away from the refused one, not from the database, until it is taken;
and one that is still being made when no other is left is built on a list that was
taken back (`Detached`).

**The engine's writers, readers and recovery.** Three layers, each inductive only
with those below. `Inv1` is about the queue of writers and the memtables: each
caller is in the queue once, only its head acts, the leader's group numbers its
entries behind `last_sequence_`, and only what it inserts lies above that number.
`FilesInv` is about tables: what a MANIFEST names, a version, a compaction or a
reader needs exists, new numbers are those of no table, and what is about to be
deleted is needed by none of them, although it was chosen before; without an error
the MANIFEST says what the current version is, with one it may say what it was
before or after the edit, and both are kept (`SameFiles`, `CommitInv`).
`DataInv` follows entries through log, memtable, flush, merge and replay: a table
that replaces others has all of their entries, logs are deleted only when a
synced MANIFEST no longer needs them, and no table has a number above what the
process counts. `PromisedInv` then says, for each batch that was reported
written, where it is: in memory and, for every MANIFEST that may be found after a
crash, in a table that one names or in a log it does not skip, behind no hole in it, and in
the synced part if it was written with a sync; during a recovery, in what has been replayed or is
still to be. Proving it needed two things the model had not had at first: that an
older MANIFEST may come back after a process was killed, and that the records of a
log are replayed one by one, each of which may be the last. All layers were
checked with TLC on the instance of `db_impl` before they were proved.

`BatchInv` is the layer for `BatchesWhole`, which is not about where a batch is but
about what may be found together. Its `Parts` are the sets of entries that are lost
and found as one: each record of a log, each table a MANIFEST or a version needs,
what counts of each memtable, what has been replayed. They are coherent when in
each of them a batch is there with all its entries or not at all, a batch that is
in two of them is the same in both, and a number is that of one entry. Every step makes its parts from parts that
were there: a flush or a merge by union, a replay by adding one record, a crash by
dropping some. The one step that makes a new part writes a group's record, with
numbers above all that were given out and batches nobody has written (`NewInv`,
`TodoInv`); a memtable that holds half of a group does not count, as
`last_sequence_` is still below it.

**Lock, queue, files, repair.** `LockInv`: a thread between its insertion into the table of
locks and its removal has its process in that table and is alone there. `WorkInv`:
what ran, runs and waits is what was scheduled, in order, and a sleeping thread
has an empty queue or a signal under way. `OutputInv`: what is in the
file and then in the buffer are appended bytes in their order, none twice, and
all of those that were appended after the last call that failed; so what a `Sync`
makes durable is what it promises, also in a file that an earlier call has damaged.
`CurrentInv` says of every directory that an outage may leave behind, and not only
of the newest, that its CURRENT names a whole MANIFEST, and what each step of
`SetCurrentFile` and `NewDB` knows of the files it has just made (`Known`). That
every one of these directories is sound is needed because an outage takes the
journal back to any point behind the last that is durable.
`RepairInv` has four parts. Names: files have names of their own, a running repair
gives out numbers above all it has found, and what it has still to do is there
(`NamesInv`). The copy of a damaged table has the entries of the table, which is in
the directory or in lost/ (`CopyInv`). What is in lost/ is not archived over
(`LostInv`): as long as no call failed, because a table there lies below some table
of the directory; after an error only in the first two runs, because what the first
leaves damaged has no namesake in lost/ and the second archives damaged tables only
if it found them, which is where the limit in `KeepsReadable` comes from. An entry is, without errors and kills,
in a file that is still ahead or has been scanned (`KeptInv`), so the descriptor
names it (`EndInv`). The parts are proved in their own variables; `Storage_proofs` adds that a behaviour of one leaves the others
as they began.

What all of this needs of sequences is in `SequenceFacts`: heads and tails,
positions that hold a kind of message (`At`, `LastOf`, `CountOf`, `Of`), least and
greatest elements, and numbering a finite set. The models were written so that
they can be reasoned about: `Without`, `View`, `Look` and `GroupEntries` say what
they return instead of computing it by recursion or `SelectSeq`.

### Only model-checked

- Liveness (`SpinnerEnds`, `DialogEnds`, `WritersReturn`, `CallsReturn`), which is
  beyond the prover.
- What recursive functions compute for every input, in `LogFile`, `TableFile`,
  `Coding`, `FileNames`, `Base64` and `HandleTable` (`LogIsRead`, `TableIsRead`,
  `CodeIsRead`, part of `TablesStayOpen`): induction over data is beyond it as well.
- `LevelsInOrder` and `ReadsFindLastWrite` of `VersionSet`, the implementation of
  `Cursor` by `Iterators`, `MissesNothing` of `SkipList`, `TypeOK` of `Storage`.
- The rest of `TablesStayOpen`: section 2.

## 7. Not modelled

Of the apps:

- Sign-up, log-in and navigation of iOS and Flutter. What can go wrong there
  hangs on the order in which SwiftUI calls `onAppear`, and on what Navigator and
  StreamBuilder do, none of which is in the repository.
- The profiles and the lists: one read and one write of one screen each.
- The contents of a city, conversions of records, passwords, validation of forms,
  texts, layout.
- Two processes of one app on one device; clocks. A timeout is a step that may
  be taken whenever the code has it armed.
- Changes of the catalogue and of an account by others than its own devices.
- Security rules: a request may be denied at any time, which is all an app can
  know of them.

Of the engine:

- Compression, checksums as arithmetic (one notices every change), hashing (any
  function), statistics, logging, properties, the C interface, `DestroyDB`.
- A table builder whose file fails: it stops, and `DBImpl` has the outcome.
- The names tables had in old databases (`table_cache.cc:53-58`, `repair.cc:250`):
  a table is opened under one name.
- A batch that was read from a log and cannot be decoded (`db_impl.cc:432`): the
  checksum of its record notices every change first.
- Compaction threads other than the one there is; file systems that reorder
  changes of a directory. `DBImpl` and `CurrentFile` let them become durable in
  the order they were made.
- Of the Firebase client, listeners, transactions, merges and persistence: the
  apps use none of them.

Hazards seen in code that is not modelled, or that a property would only repeat:

- `LoginView.swift:84`: three views share and reset `isAuthenticated`, in an order
  SwiftUI decides, so a session that exists can end on the log-in screen.
- `FirebaseAuthHandler.swift:20` shows the main screens before the record is
  written; `FavoritesView.swift:68` resets `isLoading` on the next line instead of
  in the callback; `FirebaseAppDataHandler.swift:120` drops cities whose read
  fails without telling.
- `MainActivity.kt:48` runs `TODO()` when refused.
- `register_page.dart:139` returns with the spinner on, 151 does not wait for the
  record; `firebase_auth_handler.dart:39` swallows other errors;
  `city_entity.dart:26` swaps description and country.
- `db_impl.cc:1297`: a request to switch the memtable that is joined to another
  writer's group is reported done without a switch. `db_impl.cc:1538`: `DestroyDB`
  ended half-way may leave a CURRENT that names nothing.
- `log_reader.cc:261`: with an initial offset, which nobody uses, a record begun
  before it may be reported as corruption.
- `repair.cc:371`: all tables go to level 0 and are searched by number, which
  says nothing of their entries' age; `repair.cc:173`: the comment above says
  checksums are on, the argument turns them off.
- `format.cc:87`: blocks are checked only with `verify_checksums`.
- `NSData+SRB64Additions.m:23`: the buffer is too small for 1, 2, 4, 5, 7, 10 and
  13 octets; the callers encode 16 and 20.
