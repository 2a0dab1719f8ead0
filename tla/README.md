# A TLA+ model of react-native-nitro-file-system

This directory models the parts of the library in which several actors meet: the
callback API on the event loop, the two stream classes, the polling watcher, the
native watcher over a directory that is being changed and listed, the directory
iterator, the document pickers of Android; and the one pure part whose
boundaries matter, the views that buffers become. TLC checks the models on small instances; TLAPS
proves the main safety properties for every value of the constants.

Paths below are relative to the repository's root (`src/index.ts` is the
TypeScript entry point, `cpp/`, `ios/` and `android/` the native code).

## 1. Inventory

| Component | State it keeps | Operations | What is hard | What makes it correct |
| --- | --- | --- | --- | --- |
| Callback API (`src/index.ts`) | none of its own: the queue of immediates, the kernel's descriptor table, the files | about 60 functions that queue one `setImmediate` each; `appendFile` chains three | the callback runs inside the library's `try`; chains interleave; descriptor numbers are reused; native failures between two links | every call is answered; success is told once; no descriptor leaks or has two owners; queued operations keep their file; a file that is appended to is a log |
| ReadStream (`src/ReadStream.ts`) | `_fd`, `_fileClosed`, `_pos`, `bytesRead`, `pending` | constructor, `_open`, `_read`, `close` | `close` before the open, `_read` put off to `'ready'`, short and failing reads, throwing listeners | pushes the range of the file asked for; comes to its end; gives its descriptor back |
| WriteStream (`src/WriteStream.ts`) | `_fd`, `_fileClosed`, `_pos`, `bytesWritten`, `pending` | constructor, `_open`, `_write`, `close` | the same, short and failing writes, several streams on one file | writes in sequence; `'finish'` means written; gives its descriptor back |
| Polling watcher (`src/index.ts`, `watchFile`) | map from path to watcher: listeners, interval, previous stats | `watchFile`, `unwatchFile`, the interval, the callback of `stat` | a stat outlives its watcher; listeners join, leave and throw during a round | dropped watchers tell nobody; whoever stays hears the last change; intervals can be stopped |
| FSWatcher (`src/FSWatcher.ts`, `cpp/HybridFileWatcher.cpp`) | `_watcher`, `_closed`; the native handle | constructor, `close`, `onChange` on another thread | events cross threads while the watcher is closed or destroyed | nothing is told after `close`; no call on a destroyed watcher |
| Names of a directory (`readdir`, `rename`, `mkdir`, ... in `src/index.ts`) | none of its own: the directory | one native call per function; `readdir` with file types one call and one `lstat` per name | other processes change the directory between those calls | a listing is true name by name; a program that lists on every event catches up |
| Directory iterator (`src/Dir.ts`, `cpp/HybridDirIterator.cpp`) | native iterator, bookmark token | `read`, `close`, async iteration | several loops on one Dir, each suspended at its own `await`; close during iteration; the access of a bookmark | no name is skipped or lost; the access is given back once |
| iOS bookmarks (`ios/NitroFileSystemUtils.mm`) | access count of a URL (kept by the system) | start, stop, open, scoped operations | starts and stops of concurrent users | stops balance starts |
| Document pickers (Android, iOS) | pending promise pointer, shared listener | pick files, pick directory, results | a second pick while one is pending; cancelled activities; import copies | every promise is settled once |
| `content://` files (Android) and the native object (`cpp/HybridFileSystem.cpp`) | none beyond one call | whole-file reads and writes, `readv`/`writev`, asset copies | one `fstat` and one `read`/`write` per file, partial failures | whole content or an error |
| Flags, modes, buffer views (`src/index.ts`) | none | `getFlags`, `Dirent`, `Stats`, argument overloads, `readv` copy-back | boundary values | the same answer as the reference definition |
| Promise API (`src/index.ts`) | none | one promise around each callback function | two invocations of one callback | settled by the first |
| Rust library (`cpp/rust_c_file_system.h`) | only a header is in the repository | native calls | short and failing transfers | external |

How they meet: `index.ts` calls the native object synchronously on the
JavaScript thread, from an immediate for the asynchronous functions. The streams
call the synchronous functions of `index.ts` (`openSync`, `readSync`,
`writeSync`, `closeSync`) from immediates and from the hooks that the base
classes of the readable-stream package call. `watchFile` calls the asynchronous
`stat` from an interval. All of that is one thread: the interleavings are those
of immediates, intervals, listeners and the program's own code. Only FSWatcher,
the pickers and the Rust library bring in further threads.

`PROJECT.json` lists the hazards of this code line by line, those that no
property covers yet included.

## 2. Modules

| Module | Models | Extends |
| --- | --- | --- |
| `FileData` | what a write and a truncation make of the data of a file | |
| `AsyncFs` | the callback API and the promises over it, `openSync`, `writeSync`, `closeSync`, `appendFileSync` | `FileData` |
| `AppendLog` | the abstract specification of `appendFile`, without immediates or descriptors | `FileData` |
| `StreamHandle` | the descriptor side of both stream classes, from whose actions theirs are built | |
| `ReadStream` | `ReadStream.ts` over an external `Readable` | `StreamHandle` |
| `WriteStream` | `WriteStream.ts` over an external `Writable`, several streams on one file | `StreamHandle` |
| `StatWatcher` | `watchFile` and `unwatchFile` for one path | |
| `Directory` | the functions that change, look up or list the names of a directory, among other processes | |
| `FsWatcher` | `FSWatcher.ts`, `HybridFileWatcher` and the library's thread | |
| `WatchedDirectory` | the two together: a program that lists a directory on every event | `Directory`, `FsWatcher` |
| `Dir` | `Dir.ts`, `HybridDirIterator` and the access to a bookmark it holds | |
| `Views` | the memory that buffers, offsets and lengths become; `Stats` and `Dirent` | |
| `Picker` | `pickFiles` and `pickDirectory` on Android, two threads | |
| `MC*` | the constants of the instances | |
| `*_proofs` | theorems about the module they are named after; `AsyncFs_proofs` also that `AsyncFs` is an `AppendLog`, `Watchers_proofs` about `WatchedDirectory` and `StatWatcher` | |

Definitions called slips (their comment begins with "Slip:") are not part of a
specification. Each is a variant of the definition below it with one plausible
mistake; putting it in the place of the original must violate a property, which
shows that the property notices that mistake.

### AsyncFs

A call is a member of `Calls` and is made at most once. `queue` is the event
loop's list of immediates, first in first out. `step[c]` names the immediate
that call `c` has queued. `Issue` is the synchronous part of every function
(queue one immediate, return); `RunOpen`, `RunRead`, ... are the immediates:
native call, callback inside the `try`, and the callback once more from the
`catch` if it throws (`Finish`). `appendFile` is the chain open, write, close of
`index.ts` 1412-1433 (`Chain`): its write result only decides the error that is
reported after the close. Functions on a path that open, transfer and close in
one native call (`readFile`, `writeFile`) or touch no descriptor (`stat` and its
like: `PathOp`) are one immediate.

`Truncate` and the functions on a descriptor (`FtruncateAsync`; `FdMetaAsync` for
`fsync`, `fstat`, `fchmod` and their like) are one immediate as well. When the
native call throws instead of returning an error, the callback is invoked from
the `catch`, where what it throws is caught by nobody (`Refuse`).

Calls in `Promised` are made through `promises`: the callback only settles a
promise and does not throw (`OnlySettles`), so nothing is called twice (`Again`).

The kernel is part of the model: `desc` gives out the lowest free number, as
POSIX does, which is what makes stale numbers dangerous. `data` records, per
file, which call wrote each unit. A write lands where its descriptor stands
(`offset`), at the position it was given (`place`), or at the end of the file
(`Landing`), as the flags of the open (`flag`) decide; an open may empty the file
(`Empties`). `Plain` are the files that the Rust library opens, where `'a'` appends
and `'w'` truncates. A `content://` path is opened with the mode `"w"` for `'a'`
(`cpp/HybridFileSystem.cpp` 178), and a `bookmark://` path hands the numbers that
the flags have on Linux to the `open` of Darwin (`ios/NitroFileSystemUtils.mm`
227), where `'a'` truncates and does not append: for both, emptying is left open and
writes go where the descriptor stands. Assumed of `rn_fs_write`, which is not in the
repository: a position makes it a `pwrite`, which on a descriptor that only appends
goes to the end on Linux and to the position on Darwin.

`ReadAsync` and its fellows take descriptors
from `held`, what the program has been given and not given back: the program is
assumed to use a descriptor only while it owns it, and to call `closeSync` only
when nothing it queued on the descriptor is waiting. Without that assumption no
library could keep the properties; `close` (queued) needs no such care, and
`QueuedOpsKeepTheirFile` says why.

`AppendLog` is what a user of `appendFile` may rely on: appends land in the order
they were asked for, each at most once and in one piece, and what the program is
told is true of the file. One that asked for the end of its file (`atEnd`: flag
`'a'` on a file in `Plain`) lands there; one whose `options.flag` or path opens the
file otherwise lands somewhere. `AsyncFs` implements it under a refinement mapping
(`Standing`, `Target`, `AtEnd`): an append is asked for until its write has run,
landed or failed until its close has run, and then what its callback was told
first. Other calls are `Others`: they may overwrite what landed, cut the file, empty
it or leave holes in it, but no unit of an append is anywhere but where it landed,
and none comes back. That files are named by paths that keep their meaning is an
assumption here; `Directory` drops it.

### StreamHandle, ReadStream, WriteStream

The constructor queues `_open` (`Construct`) or adopts `options.fd` (`Adopt`).
`OpenSucceeds` is the immediate up to `emit('open')`; `EmitReady` or
`ListenerThrows` ends it. The split lets a listener call `close`, or anything
else, before `'ready'`. In that interval nothing else runs but what a listener
may call. `_open`'s `catch` also catches what a listener throws, so the stream
counts as closed while holding a descriptor; `emit('error')` throws when nobody
listens for it, which leaves `_fileClosed` as it was (`GivesUp`).

The base classes are external and modelled from how the two files use them:
`_read` is called when nothing is being read; pushes to a destroyed stream are
dropped; `'end'` follows `push(null)` and an empty buffer; `_write` is called
for one chunk at a time; an error given to its callback destroys the stream;
`'finish'` follows `end()` and the last chunk; the stream is destroyed after
either event (autoDestroy). The constructor's listeners for these events are
part of the action that emits them.

`ReadStream` names a byte by its position in the file, so `pushed` is compared
with a range. Native reads return between one byte and all that was asked for, 0
at the end, or -1. `WriteStream` names a unit by its stream and its place in
what was written to it; `Place` is where the kernel puts a write (the end for
`'a'`, `_pos` with a `start` option, else the descriptor's offset), and
`WrittenAt` leaves holes as a file does.

### StatWatcher

One path. Watchers are numbered in the order they are made; `current` is the one
in the map. A dropped watcher lives on in the closures of its interval and of
the stat it has queued. `round` is one `forEach` over the listeners inside the
stat's callback, taken apart so that listeners can watch, unwatch and throw in
between. The file is its mtime, 0 for absent: mtimes are all `watchFile`
compares. When a listener throws, `stat`'s own `catch` calls the callback again
with the exception as its error (`RoundAfterThrow`), since the callback runs
inside `stat`'s `try`. `Without` is the `filter` of `unwatchFile`, written as a
recursive function so that it can be reasoned about; that it filters is an
ASSUME of `MCStatWatcher` (`WithoutIsFilter`), which TLC evaluates. The names of
the specification begin with `Stat`, so that one module can hold the proofs about
both kinds of watcher.

### Directory, FsWatcher, WatchedDirectory

`entries` says what each name of one directory is. `Outcomes` gives what a native
call may make of it: one set of directories per function, empty when the call
must fail. `exists` hands `access` a closure that turns an error into an answer
(`RunExists`). `readdir` with `withFileTypes` is the one function of several
native calls: `List`, `LookAt` for each name in any order, `AnswerListing`;
between them other processes act (`Elsewhere`, bounded by `MaxElsewhere`), the
program does not. `during` remembers what each name has been while the listing
ran, which is what its answer is compared with. An `lstat` may fail for a name that
is there (`refused` remembers which): for want of permission, for every entry of
`asset://`, where `lstat` has no branch of its own, and for a link under
`bookmark://` that leads nowhere, since `lstat` is `stat` there. `readdirSync` makes
mode 0 of every failure. Which of a directory's functions
fail on what is POSIX; `cp` of a directory may leave the names it copies to out
of this directory, which `Outcomes` allows for by changing nothing.

`FsWatcher` has two threads. `Notice` and `Post` are the Rust library's: it may
tell of several changes at once (`noticed` is a flag), and each telling posts one
callback. `Emit` runs it on the JavaScript thread, whatever has become of the
FSWatcher since. `Watch` may get a null handle, which nobody checks. Assumed of
the library: `rn_fs_unwatch` returns only when no call is under way, and none
follows. A callback of the program that throws has left its event behind.

`WatchedDirectory` composes them: every change of `entries` is noticed, and the
program asks for a listing after `watch` and on each event unless it has one
queued. A listing that fails is asked for again.

### Dir

Dirs of one directory, read by `for await` loops, `read` and `close` of the
program. The iterator reads within the call and hands over its answer through a
promise, so a loop is in one of two suspensions (`awaiting`, `body`); between
them any other may run. `takers[d][i]` is who was handed the i-th name. The
loop's `finally` closes the Dir in every way out (`EndLoop`, `BreakLoop`). The
garbage collector destroys a Dir no loop uses (`Collect`). `token` follows the
lambda that the iterator runs when it is closed, and `granted` counts the
accesses to the bookmark's URL, which the system keeps; `others` of them were
begun by someone else.

### Views

One call of `read`, `write`, `readv`, `writev` or `writeFile` on views of a store
that other Buffers may share, made in one step. `store` and `sent` say which cell
was given which byte and which cells were written. `NativeRuns` is the bounds
check of `HybridFileSystem::read` and `write`; `CopyBack` the loop of `readvSync`,
`CopyInto` one round of it.
The mode tests of `Stats` and `Dirent` are operators on the bits of a mode, and
what they tell apart is an ASSUME, which TLC evaluates.

### Picker

JavaScript runs `pickFiles` of `NitroFileSystemUtils.java` statement by
statement (`PickStored`, `StoreMode`, `AddListener`, then `StartActivity` or
`StartFails`); the UI thread runs `onActivityResult` (`ResultArrives`,
`ClearPending`, `ProcessPickedFile` for each file, `Settle`). Between any two of
these steps the other thread may take one of its own, so the shared fields
(`pending`, `pendingMode`) and the shared listener are exposed to both.
`settled` lists how each promise was settled; since `nativeOnFilesPicked` and
its fellows free the promise's pointer, a second entry means that a pointer was
used after it was freed. A program may have several picks under way;
`overlapped` remembers those that were. Whether a user ever finishes an activity
is left open.

## 3. Runs

| Run | Instance | Shows |
| --- | --- | --- |
| `async_fs` | 3 calls, one of them through `promises`, 1 file, 2 descriptors, flags `r+`, `w` and `a`, writes of 2 units with and without a position | `NoDescriptorLeak`, `OneOwner`, `QueuedOpsKeepTheirFile`, `SuccessIsToldOnceAndFirst`, and that `AsyncFs` implements `AppendLog` |
| `async_fs_live` | 2 calls, 2 files, one of them not in `Plain`, every flag and 2 positions | `EveryCallIsAnswered`, and `AppendLog` once more |
| `read_stream` | 2 streams, a file of 3 bytes, reads of at most 2 | `PushedIsARangeOfTheFile`, `EndMeansComplete`, `EndReleasesTheFile`, `EveryOpenedStreamEnds` |
| `write_stream_alone` | 1 stream, any options, 3 chunks of 2 units | `LoneStreamWritesInSequence`, `FinishMeansWritten`, `FinishReleasesTheFile`, `EveryEndedStreamFinishes` |
| `write_stream_shared` | 2 streams on one file, 2 chunks each | `AppendersKeepEachOthersData`, `StreamsUseTheirOwnFd`, `NoFdForgotten`, `StrandedOnlyByEarlyCloseOrThrow` |
| `stat_watcher` | 3 listeners (one may throw), 2 watchers, 2 registrations each, 2 changes | `IntervalsAreReachable`, `OnlyTheWatchedAreTold`, `ListenersHearTheLastChange`, `WatchersCatchUp` |
| `directory` | 1 call besides the listing, 2 names, 2 changes by others | `ReaddirTellsWhatItSaw`, `ClosedWatcherLearnsNothing`, `ListingCatchesUp` |
| `dir_reader` | 2 Dirs, 2 loops, 2 names | `LoopsShareTheNames`, `ClosedDirsGiveBackAccess` |
| `views` | every call on up to 3 views of a store of 4 cells | `CallsKeepToTheirViews`; evaluates `DirentsKnowFilesAndDirectories` |
| `picker` | 3 picks of either kind and mode, 1 file each | `OnlyFailedStartsSettleTwice`, `LonePicksGetTheirOwn`, `LonePicksAreSettled`, `ImportsKeepTheirFiles` |
| `picker_imports` | 2 picks | a counterexample to `ImportsAreLocal` (section 6) |
| `stat_watcher_gone` | 2 listeners (one may throw) | a counterexample to `GoneMeansGone` (section 6) |

Each module's type invariant is checked in one of its runs.

Why these bounds are enough. *AsyncFs*: three calls are the fewest with two
chains and a third party between their links, or open, use and close of a
descriptor whose number is taken again. Two descriptors make the numbers run out
(an open fails for want of one) and come back. Units per write matter only as
"none, some, all", so two. Three calls meet on one file, since what disturbs an append
happens on its file: position 1 is in the middle of the first write, `'r+'` overwrites
and `'w'` empties. The second file and the one that is not in `Plain` are in the run
with two calls, with every flag and position. The calls that are not promised are
interchangeable, hence the symmetry set, used in the run without liveness only. *ReadStream*: a file of three bytes and
reads of two make the last read short and put the end option in the middle of a
read; one stream reads to the end of the file and closes itself, the other has
`start` and `end` set and no autoClose. *WriteStream*: `MaxChunks` and
`ChunkLen` bound what a program writes; two chunks are the fewest with one
written before and one after something else happens to the file. A stream with a
start option is checked alone, since two streams at fixed positions overwrite
each other by request. *StatWatcher*: two watchers are one old and one new;
`MaxListeners` bounds registrations so that a listener may be registered twice;
two changes let a file go and come back. `MaxChanges` also makes "the last
change" meaningful. *Directory*: two names are what a rename needs and let one
name's lookup fail while the other's succeeds, whether it is gone or not; two changes by others fall one
before and one after a lookup, or make a name come and go between two of them.
One call of the program is enough because it cannot run inside a listing; the
proofs hold for any number. *Dir*: two loops on one Dir with two names take one
each, or one takes both; the second Dir is the other user of the bookmark.
*Views*: a store of four cells holds two views that overlap, touch, contain one
another or lie apart, empty ones included; with a third, a view whose bytes were
placed over is itself placed over, and a short read can end in any of them. *Picker*: two picks under way and a
third before or after them; one file per pick is enough for two imports to
compete for one name.

Deadlock is not checked, because a program may stop calling: a state in which
nothing more happens is legal. What must not get stuck is stated by the liveness
properties.

**Fairness.** The event loop runs the immediates it has and the intervals that
are due; the two threads of a picker go on with what they have begun; listeners
return or throw; the base classes of the streams keep asking for data, handing
over chunks and emitting their last event, and the consumer of a read stream
keeps taking data (without which `'end'` cannot come); the event loop runs the
callbacks posted to it, and the file watcher's library tells of what it has
noticed. Nothing is assumed of the
program: it need not make calls, write, end or close. Weak fairness is enough,
since a queued immediate stays queued until it runs.

## 4. Proofs

| Theorem | For every | From |
| --- | --- | --- |
| `AsyncFs_proofs!TypeCorrect`, `OwnersAreUnique` | set of calls, files, descriptors, flags and positions, chunk length | inductive invariant `IInv` = types, `FdsInUse`, `OneOwner` |
| `AsyncFs_proofs!DescriptorsAreNotLeaked` | the same | `NoDescriptorLeak` relative to `IInv` |
| `AsyncFs_proofs!AppendFileIsALog` | the same | `AInv` and one lemma per shape of step |
| `AsyncFs_proofs!SuccessIsNotRepeated`, `NoCallIsLost` | the same | `AInv`; `OverMeansTold` relative to it |
| `AsyncFs_proofs!OpsKeepTheirFile` | the same | `AInv`, strengthened by `OpsInOrder` |
| `StreamHandle_proofs!StreamsNeverShareFds`, `StreamsForgetNoFd`, `OnlyTwoWaysToStrand` | set of streams and descriptors | inductive invariant `IInv`, with `Prepared` |
| `ReadStream_proofs!ReadStreamTypes`, `ReadStreamPushesARange` | start, end, file size, buffer size | `RangeInv` |
| `ReadStream_proofs!EndedStreamsHoldNoFd` | the same | `EndHasClosed` and the theorems of `StreamHandle` |
| `ReadStream_proofs!EndedStreamsAreComplete` | the same | `EInv` relative to `RangeInv` and to the `IInv` of `StreamHandle` |
| `WriteStream_proofs!FinishedStreamsHaveWritten`, `FinishedStreamsHoldNoFd` | options, chunk length, number of chunks | `ChunkInv` |
| `WriteStream_proofs!WriteStreamTypes`, `LoneStreamsWriteInSequence` | the same | `TInv` (types, `ChunksAreCounted`), `LInv` |
| `WriteStream_proofs!AppendersLoseNothing` | the same, any number of streams on the file | `AppendersHold` relative to `TInv` |
| `Dir_proofs!LoopsSkipNothing` | set of Dirs and loops, number of names | inductive invariant `IInv` |
| `Dir_proofs!DirsGiveBackAccess` | the same, Dirs finitely many | `AInv` relative to `IInv` |
| `Watchers_proofs!WatchedTypes`, `ReaddirIsTruthful`, `ClosedMeansClosed` | set of calls and names, number of changes by others | inductive invariant `IInv` |
| `Watchers_proofs!WatcherTypes`, `NoIntervalIsLeftBehind`, `OnlyRegisteredListenersAreTold` | set of listeners, throwing or not, number of watchers, registrations and changes | inductive invariant `StatInv` with `RunningIsOfAWatcher` |
| `Watchers_proofs!UnwatchRemovesOneListener` | the same | `WithoutRemovesOne`, by induction over the registrations |
| `Views_proofs!CopyBackFillsTheViews` | size of the store, number of views | induction over the views (`CopyIntoCopiesMore`, `FilledMore`) |
| `Views_proofs!BuffersKeepApart` | the same, any offsets and lengths | inductive invariant `IInv`, one lemma per kind of call |
| `Picker_proofs!PickerTypes`, `PromisesAreSettledOnce`, `LonePicksAreServed` | set of picks, number of files and cache names | inductive invariants `IInv`, `LInv` |
| `Picker_proofs!ImportsAreKept` | the same | `CInv` relative to `IInv` |

*AsyncFs.* `OneOwner` is not inductive on types alone, because a
`close` that ran with `fdOf[c] = NoFd` would write outside the table; `FdsInUse`
excludes that. `NoDescriptorLeak` then follows step by step: an open hands its
number to the program or to the chain that will close it, a failed write still
queues the close, and a close frees only what its call is responsible for.

*AsyncFs as an AppendLog.* What makes three immediates look like one append is
the queue. `AInv` says, beside `IInv`: no call is in the queue twice, and the
calls in it are the ones with an immediate to run (`CallsInStep`); a call that is
done was told something (`DoneWereTold`); nothing of a call that was not made is in
a file (`DataOfCalls`); the descriptor of a chain is the one its own open made
(`ChainsKeepTheirFile`); and, the heart of it, of two appends that are both at
their open or both at their write, the one asked for first is first in the queue,
and no append is at its write while an earlier one is still at its open
(`NoOvertaking`). Hence the append whose write runs is the first that is
undecided, which is what `AppendLog!Turn` asks. Every immediate and every call
has one of four effects on the queue (enters, leaves, moves on, passes), and each
is shown to keep the order once, instead of action by action. Of the data, every
step is shown to change one file at most, where each unit afterwards is the acting
call's, a hole, or what stood there before (`MayWrite`): this is all that
`AppendLog!Others` asks, whichever flags and positions are used. That an append that
asked for the end lands there needs that its write has no position
(`CallsInStep`). The same invariant
gives the safety half of `EveryCallIsAnswered` (`NoCallIsLost`): what liveness adds is
only that the queue goes on.

*Queued operations.* That the file behind a descriptor is still the one the
program meant cannot be shown of the next operation alone: an earlier one could
have been a close. `OpsInOrder` says that a waiting operation's descriptor is open
on its file, and is either still held by the program or given back by a close
that stands later in the queue.

*Streams.* A stream whose open is still queued has no
descriptor and is not being told of one (`Prepared`). With it, `fd` and the
kernel's table stay inverse to each other. Both stream classes are built from the actions of
`StreamHandle` (a lemma of each proof module says so), so its theorems carry over by
temporal logic alone, without being proved again. For a read stream, `RangeInv` adds that nothing is dropped
before the stream is destroyed, so the next byte pushed is the one after the
last. For a write stream, `ChunkInv` counts units: while no native write was
short, what landed is `ChunkLen` times what was answered, and `'finish'` needs
all accepted chunks answered. Two more invariants say where a stream stands.
`EInv` gives every `push(null)` a reason: a descriptor that is missing once the
open is over was closed (`OpensAreSettled`), what is closed before its end was
closed by the program or by an exception (`ClosedForAReason`), and otherwise the
position has passed the end option or the file (`EndIsEarned`), from which the
count of the delivered bytes follows. `LInv` says of a write stream that has the
file to itself that its own position or its descriptor's offset is where its data
ends, so the next write continues it, and that opening with `'w'` comes before
anything is written.

*Streams that append to one file.* `AppendersKeepEachOthersData` compares what a
stream has landed with the units in the file that bear its name, by their rank
among those units (`Mine`, `Holds`): a cardinality, where a filtered sequence would
need recursion. `AppendersHold` says so of every stream, also of those not made
yet, which have nothing in the file: a stream that is made later joins with
nothing lost. A write of one stream puts all its units behind the file
(`AppendKeepsAll`), so that the ranks of its own go on from the last and those of
the others stay (`OthersAddNothing`, `OwnUnitsAreCounted`).

*Dir.* A loop's names are those it took, except the one it awaits, and that one is
the last it took (`AwaitedWasTakenLast`), so yielding it keeps the order. That a
loop sees null only at the end needs `ClosedIsSpent`: a Dir that is closed was cut
short or has no more names. `AInv` counts accesses by the Dirs that hold one: it
needs that a token exists only while its iterator is open (`OpenDirsHoldTokens`),
so that the second of two closes finds none.

*WatchedDirectory.* `ListingInv` splits the names of a listing under way into those
looked at, for which what it will tell is already true, and the others; `during`
and `refused` only grow, so it stays true. `JobsToDo` keeps calls from being answered
twice, on which the type of `told` depends. `DeafUnlessOpen` says that the library watches for open
watchers only, so that nothing is noticed for a closed one.

*StatWatcher.* The types do not carry themselves: `unwatchFile` clears the interval
of the watcher in the map, and that the map has no watcher afterwards while no
interval runs needs the rule that an interval is always that watcher's
(`IntervalsAreReachable`). A round that goes on is that of a watcher that was made
(`RunningIsOfAWatcher`), even after it was dropped, so that `EndRound` writes to a
`prev` that exists. What `Poll` begins is begun for the head of `polls`, which may
be a dropped watcher: it has no listeners, by the same rule, and so tells nobody.
`unwatchFile` leaves the listeners that `filter` leaves. That the recursive
function `Without` exists, is a sequence, and holds everybody but its listener is
proved by induction over the numbers. The library states that induction over an
operator; `InductionOverNat` states it over a set, which is proved from the least
element that a well-founded order gives (`WFMin`).

*Views.* `CellsOf` joins the runs of the views and `CopyBack` walks through them.
`CopyBackFillsTheViews` shows by induction over the views that after each of them
the loop of `readvSync` is where reading into the joined cells would be: its offset
is the number of bytes placed (`Copied`), and the store is that of the first so
many cells. The step, `CopyIntoCopiesMore`, has two cases, bytes left and none, and
rests on `FilledMore`: a run of cells filled last has the new bytes, whatever
overlaps it. For `read` and `write`, the cells meant are a run within the store
(`ScalarMeaning`), and the arithmetic of the overloads asks for that run or, in
the named cases only, for another one.

*Picker.* A promise's pointer is freed by the result that took it or by a refusal
in the call it belongs to, and by nobody else: a pointer stands in the field of
its kind (`PointersHaveKinds`), and the handler that takes it clears that field
before it settles. `FreedPointers` says of a pointer that was freed who
can still reach it: another pick's result that had taken it before its own start
failed, or the call it belongs to when another result freed it first; either can
happen once, and both need two picks under way, which `Together` turns into a fact
about `overlapped`. For a lone pick, `LoneFields` says that the field of its kind
holds its own pointer or none and that the mode it stored is still the one the
result will read. For imports, `CInv` relates the cache to every file of every
answer and of the result being handled: a name that is taken is never given
away, also not after a copy that stopped half-way.

Assumptions: only the named ones in the modules (descriptors are numbers,
`Nobody` and `NoCall` are no stream, no listener and no call, an argument that is
left out is no length, chunks are not empty, other sizes and bounds are natural
numbers, options have their types, the Dirs are finitely many). The fairness
conjuncts of the specifications are not used.

Every safety invariant and every action property of the passing runs is stated by
a theorem. Model-checked only: the liveness properties, since fairness is beyond
the prover, and that `Without` equals `SelectSeq`, a RECURSIVE operator of the
standard modules, of which nothing can be proved.

## 5. What the properties do not promise

The code does not provide these, and the models contain the behaviour:

- `appendFile` and `WriteStream` report a short native write as success; the
  rest of the data is lost. `appendFileSync` drops the result of its write, so
  even a failed one looks like success.
- What an append means is settled when its immediates run: between the links of
  one `appendFile` a rename may give its path to another file, and `appendFile`
  follows the descriptor. `AppendLog` does not order an append against the
  synchronous calls of the program either: `appendFileSync` overtakes.
- Nothing keeps an append from being overwritten, cut off or thrown away by another
  call of the program: a write with a position, one through a descriptor opened with
  `'r+'` or `'w'`, an open that truncates, also the one of an `appendFile` whose
  `options.flag` says so. On a `content://` or `bookmark://` path even a plain
  `appendFile` may empty the file or write at its beginning. `AppendLog` promises
  the end of the file only where the Rust library opens it with `'a'`; an unknown flag
  string opens for reading, so that the append fails (and `appendFileSync` reports
  nothing).
- A native read error looks like the end of the file to a read stream
  (`EndMeansComplete` excepts `lost`). A short write of a write stream is followed by
  `'finish'` (`FinishMeansWritten` excepts `short`).
- `close()` before the open has run, or an exception from an `'open'` or
  `'ready'` listener, leaves a descriptor that no later `close()` frees. A write
  stream that gets `end()` and no data comes to the same.
  `StrandedOnlyByEarlyCloseOrThrow` says that there is no third way.
- `destroy()` and a failed write free nothing: the classes have no `_destroy`. The
  program can still `close()` (`NoFdForgotten`, `StrandedOnlyByEarlyCloseOrThrow`).
- `watchFile` notices a change only if the mtime differs; the model gives every
  modification a new one. The rest of a round may bring an old watcher's news to
  a listener of a new one, and an exception ends the round for the listeners
  after it. `ListenersHearTheLastChange` is stated where no listener throws.
- A closed FSWatcher may still emit events that were on their way, although the
  comment on `close` says "Stop watching for changes."; a handler has to expect
  them. A watcher whose `rn_fs_watch` returned null is open, silent and reports
  no error: `ListingCatchesUp` is stated while the library watches.
- The callback of `exists` that throws on "yes" is called again with "no".
- A `Dirent` of a symbolic link also answers `isFile()`; one of a block device
  `isDirectory()`. A name whose `lstat` fails is a `Dirent` of mode 0, which
  no test recognises: one that has vanished since the names were listed, and just as
  well one that is there all along, such as every entry of `asset://`. A program
  cannot tell these apart, and no event tells it to look again:
  `ReaddirTellsWhatItSaw` and `ListingCatchesUp` except the names whose own `lstat`
  failed (`refused`), and no others.
- A loop over a Dir that another user closes ends as if the directory had ended.
  Access to a bookmark that was refused is ended all the same, at the cost of
  whoever began one (`overreturned`).
- `write` with an offset and an undefined length, and `writeFile` of a buffer
  that is a slice, write what lies beyond the view; a length of 0 writes the rest
  of the view (`WritesBeyond`, `WritesWhatIsLeft`).
- Two picks under way at once disturb each other: the second takes the first
  one's place in the field, the first result removes the listener of both, and a
  result that finds no listener is lost with its promise. In one order of events
  a promise is settled twice (`OnlyFailedStartsSettleTwice` names it): the UI
  thread gives an earlier activity's result to the pointer the new call has just
  stored, and then the new call's activity cannot be started.

## 6. Findings

`stat_watcher_gone` (a bug). The interval of `watchFile` treats any error of
`stat` as a deletion: "It was there, now gone." (`src/index.ts` 1955). The error
may be a listener's own exception, which `stat` catches and hands to its
callback. Then all listeners are called with empty stats for a file that the
same `stat` has just found. `GoneMeansGone` states the comment; the run shows a
listener that throws and is called again, told that the file is gone.

`picker_imports` (documentation and code disagree). README.md says of the mode
`'import'`: "Copy file to app cache and return local path." When the copy fails,
`processPickedFile` only logs it, and the pick succeeds with the original
`content://` URI as its path. The run shows one import whose copy fails while no other
pick is under way (`ImportsAreLocal` leaves overlapping picks out, which may be given
each other's mode).

## 7. Plan

Done: `FileData`, `AsyncFs`, `AppendLog`, `StreamHandle`, `ReadStream`, `WriteStream`,
`StatWatcher`, `Directory`, `FsWatcher`, `WatchedDirectory`, `Dir`, `Views`,
`Picker`, and the proofs of section 4. Left:

1. A byte source that `ReadStream` implements: an abstract reader that delivers a
   prefix of a range and says at the end whether it is complete.
2. The safety halves of the other liveness properties, as `NoCallIsLost` is that of
   `EveryCallIsAnswered`: that a stream which has not ended has something queued or
   is asked for data, that a posted event is there until it is told.
3. Several paths in `StatWatcher`: watchers of different paths share nothing but
   the map, so that one path shows what can go wrong with one; two would only
   show that they are kept apart.

## 8. Not modelled

- *`content://` files*: straight-line calls of a ContentResolver inside one native
  call. Nothing is kept between two calls, and what a provider does is not in the
  repository.
- *iOS document pickers*: one delegate object per call, kept alive by the picker
  it belongs to. Picks share no state, and the order of UIKit's callbacks is not
  in the repository.
- *Scoped bookmark operations* (`withBookmarkPath` and the bookmark file
  functions): access begins and ends inside one native call; the tokens that
  outlive a call are those of `Dir`. Creating and resolving bookmark data is
  Foundation's.
- *The native object*: apart from the bounds check of `read` and `write`, the flags of
  `open` and the whole-file functions, each method forwards one call to the Rust library, which
  is a binary here. Its calls are success, short transfer or error.
- *Module registration and generated interfaces*: no behaviour.
- *Conversions* of times, paths and encodings, which no property depends on, and
  the recursion of `cp`, `rm` and the copying of assets below the names of the
  one directory.
