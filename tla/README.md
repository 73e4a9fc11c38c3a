# TLA+ model of the automatic updater

The repository holds a Windows program that keeps the files of a shop display
up to date: `autoupdate` (a C++ service that runs a Lua script) fetches new
files from a server into `.\downloaded`, and `autocover` copies them over the
installed ones. This directory models both, the service that runs the script, and the two library
classes everything runs on, the message queue and the timer.

Sources below are relative to `src/autoupdate/`, but for
`src/autocover/autocover/main.cpp`.

## 1. Inventory

| component | state | operations | interacts by |
|---|---|---|---|
| update session `work/lua/autoupdate.lua`, `utmsender/sessionobject.cpp` | next function, `g_downloadList`, `g_downloadedCount`, file names | one Lua function per timeout | HTTP to the server; starts the download thread; files; flag |
| download thread `httpdownload/CDownloadCTL.cpp` | position in `WriteToLocalFile`, `m_iSize`, file handle | connect, create file, read block, end | parameters in the session object, file system, thread handle |
| `autocover` | position in `main`, open files | kill, copy, delete, clear flag, start main program | files, flag, processes |
| `BoundedQueue`, `Event` (`cacti/util`, `cacti/kernel`) | ring, two events | put/get at either end, blocking, timed, trying | threads |
| timer wheel `cacti/util/Timer.cpp` | five wheels, tick count, free ids; what the clock showed last | set, enlarge, cancel, tick; read the clock | `MessageTimer` posts a message |
| session engine `utmsender/{sessionobject,rule,sessionmanager,DataSource}.cpp` | rule of the session, timer id, table of sessions | StartTimer, StopTimer, SetNextState, match rule, create, delete | queue, timer, Lua |
| service `utmsender/utmsenderSrv*.cpp` | init state, sessions | onCreateSession, onTimeOut, onKillSession, start, stop | dispatcher |
| MTL `cacti/mtl/{ServiceSkeleton,ServiceManager,MessageDispatcher,MessageTimer}.cpp` | queues, hooks, pull threads | hook, init, post, pull, stop | queue, timer |
| `PeersManager`, sockets | connections to peers | activate, poll, clear | sockets |
| startup `startup/Main-postutm.cpp`, `utmsender/utmsenderSrv.cpp` | where the main thread stands | start, console commands, quit | starts and stops the service |
| `timeschedule`, Lua binding, logging, alarm, md5 | – | – | – |

The files `common/3rd`, `common/common/libcurl`, the database drivers and the
luasocket sources are third-party code.

**What is hard.** Two processes without a common lock share a directory and a
flag file, and either can be killed at any step. A background thread shares its
parameters with the script. Most results are ignored (`copyFile`, `DeleteFile`,
`rar`, `C_CopyFile`, `_beginthreadex`). The network cuts downloads and answers.
The session is only alive while each of its functions arms the next timer, and
its timer's message is not dropped at a full queue. A session keeps the id of a
timer that has fired, and cancels it later. The main thread deletes the sessions
while the pull thread may be in one of their functions. The queue unlocks before
it waits. The wheel moves timers between levels with a 32-bit tick count, driven
by a 32-bit clock that can be set and that wraps. `PROJECT.json` lists each hazard with its line.

**What makes each part correct.** The session: downloads do not overlap, only
whole and closed files are handed over, the server hears of the end only when
everything was handed over, and it hears of it at last. The machine: a file
reported as finished is installed, or waits with the flag set; only installed
files are deleted; the main program comes back. (Each of the three rests on conditions
the code does not ensure; sections 3 and 4 name them.) The queue: a bounded deque on
which never all getters sleep on a message, nor all putters on a free slot. The timer: each timer fires in exactly
its tick, and the ticks follow the clock. The service: the functions of a session
run one at a time, each when and only when the one before it named it, no
session takes the timer of another, and the program ends when it is told to.

## 2. Modules

    UpdateSession ──EXTENDS── UpdateSystem ──INSTANCE── AutoCover
         │                        │
    UpdateSession_proofs ──── UpdateSystem_proofs
    MCUpdateSession           MCUpdateSystem

    BoundedQueue ──refines── Deque          MCBoundedQueue
    BoundedQueue_proofs
    ClockDriver ──EXTENDS── TimerWheel ──refines── AlarmClock    MCTimerWheel
    ClockDriver_proofs      TimerWheel_proofs ──EXTENDS── ListLemmas
    UpdateService ──refines── ScriptChain                        MCUpdateService
    UpdateService_proofs ──EXTENDS── ListLemmas

**UpdateSession** – the script and the download thread. `state` is the function
the next timeout calls, which the script passes to `C_SetNextState`; each Lua
function is an action of the same name. Three refinements of that rule:
`stCheckVersion` is `NothingToDo` or `UpdateAnnounced`; a call of
`stDownloadOne` or `stNotifyServerOver` at the end of another function is
`StartDownload` or `NotifyServer`; and `stIsDownloadOK` is cut where another
process can see the middle of it: `HandleDownoadedFile` (the file is good, not
handled), `unrar` (rar runs), `OpenFlag`, `WriteFlag` (the flag file is empty).
The thread is `Connect`, `Read`, `ReadEnds`, `ConnectFails`. `rar` holds the archives
that a `rar.exe` is unpacking: it is a process of its own, which `os.execute` starts
(`BeginUnrar`) and waits for (`EndUnrar`), which ends by itself (`RarEnds`), and which
may go on when the updater is gone. `Unpacking` is what it has open.

A file is `[rel, len]`: the release it came from and the number of blocks in it.
`rel` is not known to the program; it serves the properties. `locked` is the set
of files this process holds open: `CreateFile` uses share mode 0, so a file
whose handle was not closed can be neither opened, created nor removed until
the process ends. `SavedSize`, a set, is what `GetFileSize` may return: 0 for a locked file.
An announced size may be 0 (`AddFile` accepts it), and then a locked or an absent
file passes for the downloaded one.

The server is not in the repository. It is modelled from what the script takes
for granted: it announces its newest release to a client that has not reported
it (`UpdateAnnounced`), delivers what it holds now (`Connect`), and records
`updateFinish` for the release it announced last (`NotifyServer`). It may
publish a release at any time (`Publish`). `Received` gives what the script sees
of the list: all of it, or what fits in the first block.

`Faults` names what may fail: `refuse` (no connection, or status other than
200), `drop` (cut download), `disk`, `nolength` (no Content-Length, `m_iSize`
uninitialised), `nothread`, `cut` (answer longer than a block), `rar`, `nil`
(empty heartbeat answer: Lua error, exit), `lost` (answer to `updateFinish`),
`config` (BEGIN returns without a timer), `crash`, `outlive` (rar goes on when the
updater has ended).

**AutoCover** – `main.cpp`, one action per file operation: `StartCover` to
`StartProgram`. A search is `due` (what was there when it began) and `seen`: all
of `due` is returned unless deleted meanwhile, files that came later may be.
`copying` is the file being copied, `leaked` the sources that a failed
`copyFile` leaves open until the process ends. `held` is what the updater and rar have
open, `locked` the part of it they do not share; both are filled in by the composition.
A copy fails in three ways: the target cannot be opened (`open`) or `fwrite` fails
(`write`), and the source stays open; or `fread` ends early (`read`) or the last buffer
is lost when `fclose` flushes it (`flush`), and `copyFile` sees nothing and closes both.

**UpdateSystem** – both processes over one directory and flag. `KillsUpdater`
says whether the `[kill]` section of the configuration names the updater. Nothing in
the repository says who starts the updater, or keeps the programs apart: the
fault `started` is that it is started while autocover works, and the main program
may be started (`StartMain`) whenever it does not run. While autocover has a file
open, the steps of the updater that would change that file wait: the real calls
would fail and, on the script's paths, be repeated. A rar that has the file
open already goes on writing it.

**BoundedQueue** – the body of each method between lock and unlock is a step; a
thread that must wait is `unlocked`, then `asleep` (or `timed`), then `retry`.
`EventKind = "auto"` is the Win32 event (a flag that a wait resets), `"cond"` the
POSIX one (only threads asleep at the moment of the signal are let through).
**Deque** is what it implements, through `contents`.

**TimerWheel** – `insert`, `erase`, `cascade`, `set` with `enlarge`, `cancel` and
one tick of `clockDriver`, parameterised by the sizes of the wheels. `down[n]` is
`vec` when the loop over the levels has come to level n; `Turning` are the levels
it comes to. `expires` is set to 0 when a timer has fired or is canceled: nothing
reads it then, and the states stay few. **AlarmClock** is what it implements:
time, and for each timer the tick it is due.

**ClockDriver** – the thread that drives the wheel: `Wake` reads a clock that may
show anything (`calcEscTime` is `Reads`), `Turn` is one of the ticks it then
does while it holds `m_mutex`; `Set` and `Cancel` wait for the mutex. `Ms` is
arithmetic in 32-bit milliseconds.

**UpdateService** – the service with its three threads. `main` is where the main
thread stands: `hook`, `init`, `start`, then the console, and on quit `uninit`
(`ClearAll`), `stop` (of the service, then of the dispatcher, `StopDispatcher`, which
joins the timer thread), `join`, and the destructor, which calls `uninit` again.
`pull` is where the pull thread stands in `pullMessage`: at the test of the
flag, in `getMessage`, in the handler of `utm`, or in a script function. The timer
thread is `Timer(id)`; when a timer fires is left open, because **TimerWheel**
says when. What the script does in a function is `Body`: it arms a timer and
names the next function, returns without, calls `C_Exit`, or fails with a Lua
error; or it arms the timer and `C_SetNextState` refuses, because `evtmsg.h` was not
loaded (`Unruled`). `queue` is the deque that **BoundedQueue** implements, with `tryPut` at
either end.

The C++ objects and the C functions of the script have their names here:
`StartTimer`, `StopTimer`, `SetNextState`, `ClearRule`, the handlers `onStartWork`,
`onCreateSession`, `onTimeOut`, `onKillSession`. The rules of a session are a list
of at most one function: every call of `C_SetNextState` in the script passes the
event `_EvtTimeOut` and the status -1, and `AddRule` refuses a second rule of that
kind. `deleted` are the sessions whose object is gone; a script function that
goes on in one of them may end the process (`Dies`), and so does a step of the
loop in `ClearAll` over an iterator that was erased.

**ScriptChain** is what the service promises a script, and the rule by which
`UpdateSession` is written: one function at a time, `BEGIN` first, then each
function that was named, once.

## 3. Runs

| run | asks | instance | result |
|---|---|---|---|
| `session` | safety of the session under all faults | 4 files, 2 releases, one empty, 70,582 states | holds |
| `session_live` | progress and truth of the report when connections are refused and answers lost | 4 files, one unchanged in length, 243 states | holds |
| `redownload` | can a failed download be repeated? | as `session` | **no** |
| `cut_list` | is the finished list the announced one? | as `session` | **no** |
| `system` | no reported file is lost, either process dying anywhere | 3 files, 2 releases, autocover ends the updater, 1,034,956 states | holds |
| `system_return` | every error path of autocover | one release, 118,284 states | holds |
| `system_copy` | and when a copy fails? | as `system`, faults `open` and `flush` | **no** |
| `system_race` | and with the deployed configuration? | as `system`, updater not ended and startable at any time | **no** |
| `queue` | order, lost wakeups, progress on Win32 | 2 putters, 1 getter, 3 slots, 67,369 states | holds |
| `timer_wheel` | exact firing, and ticks that follow any clock | 4 wheels of 2 slots, 2 timers, a clock of 10 ms, 118,400 states | holds |
| `service` | one wake-up for each session, the chain of functions, start and end | 2 sessions, 3 timers, a queue of 2, 245,541 states | holds |
| `service_quit` | does the program end in good order? | as `service` | **no** |

The runs that end in a violation correspond to the findings in `PROJECT.json`,
each with the comment or document line it contradicts.

**Properties.** Session: `OneThread`, `HandedOverWhole`, `FlaggedBeforeFinished`
(all faults), `FinishedIsInPlace` and `EventuallyUpToDate` (`session_live`). The first of
these two promises the reported release where the length tells it from the older ones,
and some whole release where it does not; the second excuses a session that stands
for ever at an item whose announced length the server no longer has (`Outdated`).
`HandedOverWhole` and `FinishedIsInPlace` promise nothing of items announced with length 0.
System: `NoLostUpdate`, `DeletedOnlyWhenInstalled`, `EventuallyInstalled`,
`MainRestarted`. Queue: `DequeSpec` (refinement), `NoSleepThrough`, `HandedOver`,
`PuttersMove`. Wheel: `OnePlace`, `ExactFiring` (refinement). Clock: `InStep`,
`SleepTicks`, `NoTimeLost`. Service: `OneWakeUp`, `ChainSpec` (refinement),
`WorkBegins`, `SessionGoesOn`, `StopEnds`; `QuitsNormally` is the one that fails.
Every module has one type invariant besides.

**Bounds.** Session: an archive, its payload, a medium and a file without
extension are the three branches of `HandleDownoadedFile`; two releases with two
items each give a superseded release, a list with a next item, and a file whose
length changes. In `session` the file without extension comes out empty, length 0, in
release 2. In `session_live` it is in both releases in the same length, so that the old
one is accepted after a refused connection (the hazard at autoupdate.lua:374), and the
archive changes its length, so that a list can go out of date while it is worked on.
`MaxLength = 3` exceeds every file, so that a false
Content-Length can be too small or too large. In `system` the lengths are chosen
so that a file of release 1, or a part of one, never has the length release 2
announces: the length is all the script looks at.
`system_return` has one release because its questions are about one round of
autocover with all its errors; liveness over two releases adds states and no
new path. The queue with three slots wraps at both ends and has room for a
message while both putters wait. The four wheels of 2 slots have 16 ticks,
so that TLC goes through the cascades and the wrap of the tick count. Timers of
up to 7 ticks reach all levels but the last, and 2 · 7 < 16 is the same condition
that 2^32 ms at 50 ms a slice gives for the real counter (`WheelAssumption`).
Wheels of 2, 4 and 4 slots, where timers of up to 15 of the 32 ticks reach every
level, were checked too, without the clock. One timer is allocated at
the start and one by `enlarge`. The clock has a slice of 2 and wraps at 10, and
catches up 2 slices where the code catches up 8: it is read before, at and after
each of the limits. All these numbers are only TLC's: the proofs are about the
code's wheels and about any slice, limit and wrap.

The service has one session from the start and one from the console, so that one
can hold the id of a timer that the other is about to get; with 3 timers an id
comes round again soon, and the id 0, which counts as no timer, is handed out too. The queue of 2 can be full, so that
messages are dropped. The script of the instance ends in each of the ways of `Body`;
the deployed `autoupdate.lua` never reaches `C_Exit`. With three sessions
for a table of two, where one is refused, and no other command, the same
properties hold; it is not a run, because it takes too long beside the others.

**Fairness.** Session: every armed timer fires, the thread is scheduled, rar
ends (`Rar`); these are weak fairness. Strong fairness is asked of `UpdateAnnounced`,
`Connect` and `Notified`: a server that is reachable again and again is reached
at last, which is the reason why the script repeats at all. The crash and the
faults are never fair. System: `Cover` and `KillOthers` run (it is the user, or
the start of the machine, that starts autocover again), and a search that may
fail does not fail for ever; nothing is asked of the updater, whose fate must
not matter to `EventuallyInstalled`. Queue: threads are scheduled, and the pull
thread always comes back for the next message (`pullMessage` is a loop).
Service: the three threads are scheduled, the functions of the script return and
timers that are set fire (weak fairness of each step of the main thread after
quit, of the pull thread and of each timer); nobody has to type a command or to
quit, and a message that a full queue dropped is an excuse the properties name.

## 4. Proofs

`UpdateSession_proofs` proves, for every set of files, every list, every length
and every combination of faults that satisfy `ConstantsAssumption`:
`TypeCorrect`, `AtMostOneThread`, `OnlyWholeFilesHandedOver` and
`FlagBeforeFinish`, the four properties of the run `session`.

They rest on `Invariance`: `TypeOK /\ SessionInv` is inductive. `SessionInv` is
`BaseInv`, about the list, the thread and rar, and `FilesInv`, about the file in
hand and the flag. Each lemma proves that a step keeps `BaseInv`, and `FilesInv`
if it held: the composed system needs the first alone, because `BaseInv` holds
even where autocover changes the files under the session. None of the
properties is inductive alone. `OneThread` needs to know that a count within the
list stays within it (`ListInv`) and that a thread runs only in
`stIsDownloadOK` (`ThreadInv`). `HandedOverWhole` is about the step into
`HandleDownoadedFile`, and `HandInv` keeps its result until the file is handled;
both are about items announced with a length above 0, because `GetFileSize` returns 0
for a locked or absent file too: with length 0 such a file is handed over, and neither
the code nor the theorem promises anything. `FlaggedBeforeFinished` needs
`FlagInv`: once an item is counted the flag is set, but in the two steps that
rewrite the flag file, where no report can be sent. The proof follows `Next`:
one lemma for the end of the process (`DieInv`), of rar (`RarInv`), for a started download, for the
report, for what a timeout calls, for what handles a file, for the thread.
`ReceivedType` shows that a list cut in any way is still a list of items.

`UpdateSystem_proofs` proves, for any files, lists and number of releases:

- `SystemInvariance` and `SystemTypeCorrect`, with no hypothesis: `SystemTypeOK`
  and the session's `BaseInv`, whatever fails and whether or not autocover ends
  the updater.
- `DeletesOnlyInstalled`: `DeletedOnlyWhenInstalled`, if autocover ends the
  updater and nobody starts it meanwhile (`UpdaterEnded`), rar ends with the
  updater (`RarEndsFirst`), and no copy fails in a way `copyFile` does not see
  (`ReadsWhole`: no `fread` ends early and no `fclose` loses its last buffer).
  Searches, deletions, the opening of targets and `fwrite` may fail.
- `NothingLost`: `NoLostUpdate`, if besides no target refuses the copy
  (`CopiesSucceed`), each list and length arrives whole and rar unpacks
  (`AnswersWhole`), and a file grows from release to release and is never empty
  (`LengthsTell`).
  Connections that fail, end early, bring nothing or lose a report, a full disk on the
  updater's side, a thread or a configuration that cannot be had, searches and deletions
  that fail and the death of either process at any step are all allowed: the faults of
  the run `system`. The main program may be started at any time.

The hypotheses are what the code depends on without making sure of it. Without
`UpdaterEnded` the run `system_race` loses a file; without `CopiesSucceed`, or
without the second half of `ReadsWhole`, the run `system_copy` does: on a full disk a small
file fits in the buffer, every `fwrite` succeeds, `fclose` fails unseen (main.cpp:251), and
the source is deleted. A `ReadFile` that fails ends `copyFile` in the same way. A rar
that goes on after the updater was ended can write its file between `CopyDir` and
`DelDir`, so that `DelDir` deletes what was never copied. With `flush`,
`outlive` or `started` as the only such fault added to the small instances TLC finds each of these
losses in seconds. The script looks at no result
of rar and does not know a list that is cut (`cut_list`); and a length is all it compares.

The argument goes over four invariants. `MachineInv` needs the
hypotheses of `DeletesOnlyInstalled` only: rar runs only while the script waits for it
(`RarAlone`); after `KillOthers` no updater runs and nothing is being copied
outside `CopyDir` (`AloneInv`), where every file seen is installed as it is or is
being copied or leaked, so that in `DelDir` every file present that autocover can
delete is installed as it is (`SearchInv`). `ListedInv` is about a round of the
session: the list is the announced one (`RoundInv`), a file newer than the list is
whole or still held (`NewerInv`; with `LengthsTell` this is why the length the
script compares proves the release), and what was counted is there, but for the
file in hand (`HandledInv`). A report therefore finds every file of the release in
place with the flag set. `SettledInv` then follows the reported files from
`.\downloaded` to the installed ones, and `FlagKept` says why a set flag is not
lost on the way: while autocover is between its look at the flag and the clearing
of it, only an updater with an unfinished list can have truncated the flag file.
`NextHandled` is the long lemma: fetching or unpacking one item must not undo
another that has been counted, twice the same item in the list included.

The same invariants give a theorem about the session alone. `ReportIsTrue` is
`FinishedIsInPlace` under `AnswersWhole`, `LengthsTell`, `RarEndsFirst` and `MediaCopied`
(the disk takes what is copied to `../video`; the script does not look), with cut downloads,
refused connections and the death of the process at any step. Its instances are not
those of `session_live`. There a file keeps its length from one release to the next,
and no download is cut off; here each version is longer than the one before, and the
release in place is the one that was reported.

`BoundedQueue_proofs` proves for every size of the ring, every number of threads
and every set of messages: `QueueTypeCorrect`; `QueueIsDeque`, that
`QueueSpec` implements `Deque` with `contents` as the refinement mapping; and
`NothingMissed`, `NoSleepThrough` for the Windows event. The invariant is
`QueueInv`: the types, `RingInv` (the tail is `m_buffered` slots behind the head,
without which a put at the tail could fall anywhere), and `ArgInv` (who waits has
a message to put). `PutTailRefined`, `PutHeadRefined` and `TakeRefined` compare
the ring with the sequence slot by slot, the wrap of the index in each.
`NothingMissed` assumes `EventKind = "auto"`, the Windows event; the other three
hold for both kinds.

`TimerWheel_proofs` proves, for the wheels the code has (`CodeWheels`: 256 slots
and four times 64, a count of 32 bits), any number of timers and any distance:
`WheelTypeCorrect`, `OnePlaceHolds`, and `WheelFiresExactly`, that `WheelSpec`
implements `AlarmClock`. TLC cannot come near this instance. The invariant is
`WheelInv`. Its heart is `Rightly`: a timer for tick e that stands in a slot of
level n, when the count is t, stands in the slot that the bits of e name, is less
than a turn of that wheel away, and at least as far away as e is from the
beginning of its slot. So it is looked at in the cascade at the beginning of that
slot, and not a turn too early. `HandsOK` says where each hand is at t, from which
`Aligned` finds that the levels that cascade are those of which a slot begins
now. `Moves` shows that a timer a cascade finds in the current slot is less than a
slot away, so that `Placed` puts it on a finer level and never back into the slot
that is about to be emptied; `Stays` and `Later` that the others keep standing
rightly; `Root` that under the hand of the root wheel are exactly the timers that
are due. `CascadeStep` puts this together for one level and `AllDown` for the
loop. The free list is followed by `Available` and, of `ListLemmas`, `Joined` and
`Taken`: no id is in it twice, and `enlarge` adds new ones. Other sizes are left to
TLC: products of symbolic sizes are beyond the prover's arithmetic.

`ClockDriver_proofs` proves for every slice, limit of catching up and wrap that
satisfy `ClockAssumption`: `ClockTypeCorrect`, `WheelInStep`, `TicksInTime` and
`NothingRoundedAway`, from the invariant `ClockInv`; and `DriverDrivesWheel`, that
the thread does nothing to the wheels but tick, set and cancel, so that
`DrivenTimersFireExactly` carries the theorems about the wheels over.

The proof modules use the assumptions on the constants that TLC evaluates in the
runs, and `CodeWheels` and `EventKind = "auto"` where a theorem says so.

`UpdateService_proofs` proves for every script, every number of commands, and any
size of the queue and of the session table, if there are more timers than
sessions: `ServiceTypeCorrect`; `OneWakeUpHolds`, that a session that waits has
one wake-up to come, or a full queue dropped it; and `ServiceIsChain`, that the
service implements `ScriptChain`. The condition on the timers is part of
`ServiceAssumption`: the timer object has 4096 ids, and each session but the
first is typed at the console. Something of the kind is needed: the code calls
`cancel` with the id of a timer that has fired, and what makes this harmless is only
that the id is not yet in use again. One timer more than sessions is what the
argument below takes; with just as many, TLC still finds `OneWakeUp` true in the
instances of two and three sessions, and with fewer the ids run out, which the model
leaves to **TimerWheel**.

The invariant is `ServiceInv`. `BudgetInv` bounds the session ids: what exists,
what the queue, the handler and the timers are about to create, and what may
still be typed. `FreeInv`, `OwnerInv` and `SingleInv` say that an id is in use or
in the free list, that a running timer belongs to the session that remembers it,
and that the wake-up of a session is in one place, once. The heart is `StaleInv`:
while a timeout of session s is in the queue or in hand, the id that s still
remembers is in the free list, and in front of it are at least as many ids as there
are sessions that can take one before s is through (`MayArm`). Ids are given back at
the end of the list and taken at its head; the id of a timer that fires is put
behind all the others that are free, and these are enough (`FreeIds`, an argument by
counting); and each session that takes an id before s leaves the set
`MayArm(s)`, because the queue is served in order and a session takes at most one
id for each of its timeouts. So `StopTimer` finds nothing to cancel
(`NothingCancelled`), no session loses its timer to another, and `WaitInv`
follows: a session that waits has a timer running or a message coming, unless it
is in `lost`. For the refinement, `ChainSteps` goes through the actions: an
enqueued timeout is still waiting, its handler runs the function, whatever ends
the function returns from it. `ListLemmas` has the lemmas about putting to and
taking from a list that may hold an element once.

All invariants, action properties of the safety kind and refinements that the runs
check are proved. Only model-checked: liveness, under fairness (not provable
here), and the runs that end in a violation. `NoSleepThrough` is proved for the
Windows event only, as it is checked, and the wheels for the sizes of the code
only.

## 5. Limits of the model

- `TerminateProcess` is taken to have ended the process when autocover goes on;
  it is asynchronous, but the call comes before a directory search.
- On its error returns autocover waits for a key (`getchar`) and keeps its mutex
  and leaked handles until then. The model merges this wait with the end.
- Subdirectories of `.\downloaded`, file names that differ only in their path,
  and files without extension that are archives are left out.
- A length of 0 is modelled, but the properties about whole files except items
  announced with it, because the code cannot tell such a file from a missing or
  locked one. `LengthsTell` excludes it.
- `FinishedIsInPlace` is about a session in which rar and the copies succeed and
  lists are whole: the script looks at no result of rar and of the copy. A
  length is all it compares: a release can be reported whose file is still an older
  one of the same length, and then only some whole release of it is promised.
- `EventuallyUpToDate` excuses a list that went out of date: if a release changes
  the length of an item while the list is worked on, the download is repeated until
  the process is started again.
- `NoLostUpdate` and `DeletedOnlyWhenInstalled` are checked and proved for an
  environment that the repository does not contain: a configuration that names
  the updater in `[kill]`, nobody who starts the updater while autocover works, and a
  rar that ends with it (no fault `outlive` or `started`). Of the rest, a rar that
  goes on is only part of the run `session`.
- That `CreateProcess` fails to start the main program (the fault `start`) is not in
  `system_return`: `MainRestarted` cannot hold then.
- A half-unpacked file can be copied by autocover; `NoLostUpdate` is about
  reported files only.
- Timers of one tick fire in an order left open. `MaxTimers` bounds how often
  `enlarge` is called; in `UpdateService` it is never called, there being fewer
  sessions than timers.
- Session ids begin again at 0x0FFFFFFE: out of reach of the sessions one starts
  at a console, and left out. A message without a session carries the id 0, and
  no session has it.
- `m_timerID` is not initialised by the constructor. It is read before the first
  timer only by a script that calls `C_Exit` in `BEGIN`; the assumption on `Body`
  excludes that.
- `SignalStop` sets the flag and posts the message that wakes the pull thread in
  one step. Whatever another thread does in between it can as well do before or
  after.
- The lists of active services that the main thread and the pull thread both
  read are told only to peers, and there are none.
- The queue's threads start a call at any time; `size()` is a read without a
  lock and is left out.
- Files, sizes and the network are `UpdateSession`'s, the engine is
  `UpdateService`'s; they are not composed. `ScriptChain` is what joins them: the
  service is shown to implement it, and `state` in `UpdateSession` is `waiting`.

## 6. Not modelled

- `PeersManager`, the sockets and the listener: `MessageDispatcher::start` has
  the calls that would start them commented out
  (`MessageDispatcher.cpp:173-247`). In this program they hold no state that
  changes, and no message comes from outside the process.
- `timeschedule`: compiled in, but its only use is commented out
  (`utmsenderSrvservice.cpp:99`, `utmsenderSrvservice.h:91`).
- The Lua binding, logging, alarm, the encoding of messages, the configuration,
  md5: input, output and formatting, with no state the properties tell apart.
- `cacti/statemachine`, `dbconnect`: in the tree, not in the updater's project.
- Vendored code: boost, tinyxml, two copies of libcurl, luasocket, Lua, and the
  headers and samples of database drivers. They are nearly all of the 918,636
  lines of C and C++ in the tree; the updater's own code is a few thousand, and
  the part of it that keeps state is what is mapped. A share of the whole tree
  therefore says little here, and 30% of it cannot be reached by modelling this
  program.

## 7. Plan

1. *(done)* UpdateSession, AutoCover and their composition, the queue, the timer.
2. *(done)* The engine and the service: timers and rules of the sessions, the
   message handlers over a bounded queue, hook, init, quit, and the abstract chain
   of functions.
3. *(done)* `calcEscTime` with wrapping milliseconds, and `enlarge`.
4. *(done)* Proofs of the session, the queue, the wheel and the clock.
5. *(done)* Proofs of the service: its types, `OneWakeUp`, `ChainSpec`.
6. *(done)* Proofs of the system: its types, `NoLostUpdate`,
   `DeletedOnlyWhenInstalled`, and of the session's `FinishedIsInPlace`.
7. The safety half of the liveness properties, as far as it can be said without
   `ENABLED`: in each state of the session and of the queue that is not at rest, a
   step that leads on has its guard true.
