# TLA+ models of the ECE344 labs

Specifications of the programs in this repository, the TLC runs that check
them, and TLAPS proofs about the thread library, the web server and the shell
pipe. Paths are relative to the
repository, so `src/threads/thread.c:644` is line 644 of that file.

## 1. The system

Four independent programs, one per lab.

**Thread library** (`src/threads`). A process with one kernel thread runs up to
`THREAD_MAX_THREADS` user-level threads.

| Part | State | Operations | Interacts with |
|---|---|---|---|
| Threads and scheduling, `thread.c:77-592` | `array_of_threads` (state, exit code, `waiting_on`, own wait queue), `r_q`, `current_running_thread`, `nums_existing_threads` | `thread_create`, `thread_yield`, `thread_exit`, `thread_kill` | every other part changes the queues and the counter |
| Wait queues, `thread.c:599-784` | a queue per client `wait_queue`, one per thread | `thread_sleep`, `thread_wakeup`, `thread_wait` | `thread_exit` wakes, `thread_kill` takes out |
| Locks and condition variables, `thread.c:786-955` | `lock`, `thread_holding_lock`, two queues | `lock_acquire`, `lock_release`, `cv_wait`, `cv_signal`, `cv_broadcast` | built on sleep and wakeup |
| Timer, `interrupt.c` | the signal mask, the interval timer | the handler calls `thread_yield(THREAD_ANY)` | can strike wherever the mask is open |

Hard: preemption between any two library steps; code that tests with the timer
enabled and acts later (`thread_wait`, `cv_wait`); a counter kept by hand;
freeing the stack of threads that have exited while others come back from the
same point; killing a thread in each of its states.
Correct when: every thread is in one place, the counter is exact, no stack or
queue in use is freed, queues are first in, first out, a ready thread runs, a
lock excludes, no wakeup is lost.

**Web server** (`src/webserver`).

| Part | State | Operations | Interacts with |
|---|---|---|---|
| Accept loop, `server.c` | the listening socket, the exit fifo | `accept`, the exit request | `server_request`, `server_exit` |
| Connection queue and workers, `server_thread.c:362-491` | ring buffer `conn_buf`, head, tail, `exiting`, two condition variables | `server_request`, `do_server_thread`, `server_exit` | the workers call `do_server_request` |
| File cache, `server_thread.c:55-86, 200-360` | hash table of files, `occupied_cache` | `cache_lookup`, `cache_insert` | `request_readfile` between the two |
| LRU list, `server_thread.c:91-197` | a doubly linked list | enqueue, pop, clean-up | nothing uses it |
| Requests and Rio, `request.c`, `common.c` | a read buffer per connection | `request_init`, `request_readfile`, `request_sendfile`, `rio_*` | the cache, the client |
| Client, `client.c` | what it has counted of an answer | `client_send`, `client_print` | the server, over a connection |
| Simple client, file set generator | none | print what comes, write random files | |

Hard: signals to condition variables, the exit while connections are queued,
the file read outside the lock, files that change meanwhile, bytes that come in
any pieces, a peer that is gone.
Correct when: the ring buffer is a bounded queue, each accepted connection is
served once, whoever else is stuck in a request, the server exits only when it has drained the queue,
the cache stays within its size, holds no file twice and does not change its
answers, and each client gets the whole file that it asked for.

**Shell pipe** (`src/pipe/pipe.c`). State: processes, pipe descriptors.
`recur_pipe_call` forks, recurs and waits. Hard: end of input and `SIGPIPE`
depend on who has closed what by when; failures of some commands.
Correct when: it terminates and returns the exit code of the first failure.

**Warmup** (`src/warmup`). Word count, `wc.c` (state: a hash table with chains;
`wc_init`, `wc_output`, `wc_destroy`; hard: the borders of words, words that share
a chain, buffers without an end; correct when each word of the array has its number and all memory is given back), and
small sequential programs.

## 2. Modules

| Module | Models | Runs |
|---|---|---|
| `Threads` | `thread.c:77-784`, `interrupt.c` | `MCThreads`, `MCThreadsWait` |
| `TidQueue` | what the library promises itself of a queue | `MCWaitQueue` (`ImplementsTidQueue`) |
| `WaitQueue` | `thread.c:76-182, 598-626`, the linked list behind every queue | `MCWaitQueue` |
| `Locks` | `thread.c:786-955` on top of `Threads` | `MCLocks` |
| `LibraryHistory` | `Locks` with history variables, for what `thread.h` promises of `thread_wait` and `cv_signal` | `LibraryPromises` |
| `BoundedFifo` | what a bounded queue promises | `MCConnQueue` (`ImplementsFifo`) |
| `ConnQueue` | `server_thread.c:362-491`, `server.c:84-108` | `MCConnQueue` |
| `FileCache` | `server_thread.c:55-86, 200-360`, `request.c` as far as the cache depends on it | `MCFileCache`, `FileIsSentWhole` |
| `Exchange` | `request.c`, `client.c:9-72` and the Rio functions of `common.c` between them | `MCExchange` |
| `WordCount` | `wc.c` | `MCWordCount`, `WordCountPromises` |
| `Pipe` | `pipe.c` | `MCPipe` |
| `ThreadsProofs`, `WaitQueueProofs`, `LocksProofs`, `ConnQueueProofs`, `FileCacheProofs`, `ExchangeProofs`, `WordCountProofs`, `PipeProofs` | the proofs about the module of that name (section 4) | |

`MC...` modules only give the constants their values. A definition whose name
ends in `_M...` is the definition after it with one plausible mistake, for
trying whether a property notices; no specification uses it.

### Threads

One processor, so a stretch of code with `SIGALRM` blocked is one action. `pc`
names the points where a thread may be when it loses the processor and where
that matters; the header of the module lists them. `Preempt` is the handler, which
may run at any of them. The state variables are the library's own, except `pc`,
`target` (the argument of the `thread_wait` a thread is in), `held` and `halted` (how
the process stopped, if it did: `"exit"`, a failed assertion `"abort"`, an
access out of bounds, through NULL or to freed memory `"wild"`).

`thread_wait` reads the queue of its target in line 747 and goes to sleep in it in line 646,
with the timer enabled in between, up to line 631. `held` says what has become of that queue: `"live"` while
it is the target's, `"freed"` after a sweep of the target's slot, `"dropped"` after
`thread_create` has used the slot again without a sweep, which overwrites `wq`. A thread
that holds a queue which is not live falls asleep all the same (`WaitSleepLost`), where no
`thread_exit` looks; only a kill brings it back (`KillLost`, if its node
is still found in the freed queue). If the freed bytes are in use again, `enqueue` follows
whatever they are, and nothing can be said of the process (`WaitSleepWild`). With one
thread left, `thread_sleep` returns before it touches the queue (`WaitSleepNone`).

`Switch` is the second half of `thread_yield`: the sweep of EXITED slots, the
requeueing of the caller, the grant, and the second sweep which the new thread
runs when its own `getcontext` returns. The client is the most general one: any
operation of `Ops` with any argument at any time. Calls that fail their argument
checks change nothing and are left out. `THREAD_MIN_STACK` bytes of stack are
represented only by who has one.

What the model shows of the code besides the properties: a thread killed while
READY exits with code 0 (`thread.c:370`), one killed in `thread_wait` with 9
(`thread.c:771`); a thread that sleeps on a client's queue or for a lock cannot
be killed, the process fails (`thread.c:262-264`, `KillSleeperFails`); a slot
EXITED when `thread_kill` hits it is lost until the process ends (`thread.c:583`);
`thread_wait` with a NULL pointer on an EXITED thread crashes (`thread.c:732`).

### WaitQueue

`Threads` has sequences where the code has linked lists; `WaitQueue` has the list:
nodes, `head`, `tail`, `next`. A freed node keeps its content and `malloc` may hand out
any free node, so a pointer that should have been cleared or moved shows. The list
that a loop from `head` visits, read as a sequence, implements `TidQueue`, whose
actions are the sequence operations of `Threads` (`Append`, `Head` and `Tail`, `RemoveFirst`)
with the results that the callers test (`THREAD_NONE`, `THREAD_INVALID`). Threads may
be queued more than once there, which `Threads` rules out (`OnePlace`).

### Locks

`Locks` extends `Threads`: `ThreadStep` is any step of `Threads`. `lockQ` and `cvQ`
are two wait queues of the client. `lock_acquire` keeps the timer
blocked, also across its sleep, so a thread resumed in its loop (`"lockWait"`)
goes on at once; `cv_wait` does not, and has three points where it can be
preempted. `inside` only observes who is between `lock_acquire` and
`lock_release`. `Disciplined` clients release only what they hold and do not
acquire twice; all that is said of mutual exclusion is about them, since
`lock_release` checks nothing (`thread.c:863`, though `thread.h:155` asks for it).
An owner that dies leaves the lock taken, and `thread_holding_lock` at its tid. A
disciplined client can free it only after that tid has been given to a new thread, which
`cv_wait` (924) then takes for the owner, although `thread.h:167` asks it to check.

### ConnQueue, FileCache, Pipe

Code between a `pthread_mutex_lock` and the next unlock or wait is one action.
`ConnQueue` lets condition variables wake spuriously and choose any waiter.
A call of `do_server_request` there ends (`Serve`), never returns (`Stick`: the client sends
nothing, takes nothing, or left and `request.c:64` goes round for ever, which `Exchange`
shows), or ends the process (`Die`: SIGPIPE, `unix_error`, a wild chain). Which it is, is a free choice
of each call. `FileCache` models its inside:
the lookup, the read without the lock, the insertion. What `malloc` leaves in
memory that is read before it is written (`server_thread.c:78, 255`) is a choice,
`wild`. `halted` says that a worker crashed.

`ConnQueue` chooses in `Init` how many workers were created, possibly none (then
`server_request` serves by itself, `ServeAlone`, or sticks, `StickAlone`), and the size of the ring buffer,
possibly without a place (`server.c:74` admits `max_requests = 0`, and then the first
connection waits for ever). `AcceptedIsServed` names all that can keep an accepted connection from being
served: that its own call does not return, that the buffer has no place, or that nobody is
left to serve it, because every worker (or the main thread, without workers) is stuck
or the process died. `ExitCompletes` likewise: `server_exit` joins all workers, so one that is
stuck keeps it waiting for ever, but all others have then left.

`FileCache` knows of the content of a file which version it was on disk when it was
read, and whether all of it is there. `Rewrite` is somebody who replaces a file
by one of the same size. `strdup` copies up to the first zero byte, or, when a
buffer has none, on behind its end (`MayOverrun`).

`Pipe` has one process for the parent and one per command, and the kernel's
descriptors: `rd[p]` and `wr[p]` are the processes that have the ends of pipe p.
Commands are filters: each reads units of input, keeps or drops them, writes,
and may stop early with any exit code.

### Exchange

One request over one connection, between the client thread that sends it and the
worker that answers. `wire` is what the kernel has on the way to each side, `rioBuf`
the unread part of `rio_buf`, `line` the line that `rio_readlineb` is filling, `out` what
`rio_write` has still to write. `at` says where each side is; the reading and writing
actions (`Write`, `ReadSome`, `FillLine`, ...) are common to both. The kernel takes
and gives any part of what it is asked for. Closing a socket with unread input,
or writing to a closed one, resets the connection; after that reads may fail,
and writes do, which ends the process (`unix_error`, or SIGPIPE).

Bytes come in units: a word of a request, a line end, a byte of a file. Buffers
that the code reads before it has written them (`request.c:64, 119` at the end of the
input) hold anything. The 0 that `rio_readlineb` writes behind a line that fills its
buffer (`common.c:163`) may do no harm, or `Overrun` ends what can be said of the
process. A system call that is interrupted is repeated and is no step.

### WordCount

`wc_init` takes one step for each character, `wc_output` and `wc_destroy` one for each place
of the table. The hash is the code's, with its width as a parameter. `Tails` is what
`malloc` may leave behind the end of a word in a buffer (`wc.c:79-82` write no end);
`dirty` observes whether it did. `heap` counts what is allocated and freed.

The words of an array are defined without a scan (`Occurrences`): stretches without white
space between white space or the ends of the array, the last one included. `CountsExact`
compares the table with those that have ended before `index`, at every step of the scan.
`PrintedOnce` compares the output with the whole report for arrays that end in white space (`Closed`)
and memory that held zeros; that no key is printed twice holds without these conditions. Without
the first the last word is missing (`EveryWordIsCounted`), without the second a
word is printed with a tail (`OnlyWordsArePrinted`). `ItemsFreed` says that
each item in the table is freed once; the keys, the `next` items of `create_items` and the
buffers are not (`NoMemoryLoss`). `WordCountPromises` shows an array that breaks all three.

## 3. Runs

| Run | Instance | What it shows |
|---|---|---|
| `MCThreads` | 3 slots, two wait queues, all operations but `thread_wait`, fair timer | counter, queues, slots, stacks, first in first out; ready threads run, killed ones end or sleep |
| `MCThreadsWait` | 3 slots, `create`, `exit`, `kill`, `wait`, timer | a waiter is forgotten only when its target's slot is given up between lines 747 and 631; no ready thread is lost |
| `MCWaitQueue` | 3 threads, 4 nodes with symmetry | the linked list is sound, and a queue as `Threads` has it |
| `MCLocks` | 3 threads, one lock, one condition variable, `create`, `kill`, `cv_destroy` | mutual exclusion, no lost wakeup for the lock, hangs only after the death of an owner |
| `MCConnQueue` | up to 3 workers, up to 2 places, 6 connections | refinement of `BoundedFifo`, conservation; service and exit, whichever requests do not return |
| `MCFileCache` | 3 workers, 6 names in 2 chains, room for 4 units, one replaced file | limit, no duplicates, stable answers |
| `MCExchange` | 5 units on the way, 2 in a Rio buffer, 3 in a line; six files | nothing lost, the client's assertions, who gets hurt, termination |
| `MCWordCount` | all arrays of up to 6 characters out of two letters and a space | exact counts during the scan, the report of closed arrays, items freed once |
| `MCPipe` | 3 commands, pipes of one unit, 2 units of input | order of closing, exit code, termination |

Three runs end in a violation. A sentence of a header is a definition of its own in
`LibraryHistory` and `WordCount`; the run checks the disjunction of those of one header
(`SomePromiseKept`, `SomeWordPromiseKept`), which is weaker than each of them. So the one
counterexample, a program or an array that comes to a state where all are broken,
refutes each sentence.

`LibraryPromises`, by three threads that only create, exit, wait, acquire, signal and `cv_wait`:

* `OneWaiterSucceeds`: `thread.h:126`, "At most one thread can successfully wait on a
  target thread". Lines 730-733 run with the timer enabled.
* `NobodyAwaitsTheDead`: `thread.h:125`, "If the target thread has already exited, then
  thread_wait() returns immediately". The target can exit, and its slot be swept, between the
  test (736) and the sleep (747); the caller then sleeps in the freed queue, and no exit will wake it.
  `LostOnlyInRace`, which holds, says that this is the only way to be forgotten.
* `SignalReachesWaiter`: `thread.h:173`, `cv_signal` will "Wake up one thread that is
  waiting on the condition variable cv". It is lost between lines 926 and 927.

`WordCountPromises`, by an array of two words and a space:

* `EveryWordIsCounted`: `wc.h:14`, "initialize your data structure with the words in the array". A
  last word without white space behind it is not inserted (`wc.c:76, 139`).
* `OnlyWordsArePrinted`: `wc.h:20`, "unique words that have been inserted in wc". `strncpy` copies no
  end and `strcat` of an empty string adds none (`wc.c:81-82`), so a key goes on with what was in the
  buffer before. Memory that was never used is zero as a rule; memory that was freed,
  such as that of an earlier table, is not.
* `NoMemoryLoss`: `wc.h:36`, "Destroy all the data structures you have created, so you have no
  memory loss". `wc_destroy` leaves a buffer for each word and a key and a `next` item for each entry.

`FileIsSentWhole`:

* `client.c:66`, `assert(orig_csum == csum)`. A file with a zero byte
  inside comes damaged from the cache (`server_thread.c:247, 329`).

Other sentences that the code does not keep, seen in the models:

* `thread.h:81`, "When a thread is killed, it should not run any further". A victim
  that was READY runs on to its next yield; if it calls `thread_sleep` first, line
  644 overwrites KILLED and it lives on. `KilledEnds` says what is left of it.
* `thread.h:155`, "be sure to check that the lock had been acquired by the calling thread,
  before it is released". Line 863 does not; what is said of locks is about `Disciplined` clients.
* `thread.c:779`, "other threads should clear their waiting on id as well". Line 780 clears
  `waiting_on` of the target (`WaitTooLate`); if the target is itself in `thread_wait`, a
  `thread_kill` of it then looks in front of the array (263, `KillSleeperFails`).
* `README.md:19` speaks of "page eviction"; nothing is ever evicted
  (`server_thread.c:239`). `SameOnceCached` shows what follows: a file that changes on
  disk is never served anew.

### Bounds

Three threads are enough for each race of `thread_wait` and of the monitor: a
waiter, its target, and a third that kills, waits or reuses the slot. With three
slots the table is full, and slots are reused; the proofs cover every number of
them. Two wait queues let threads sleep in different places;
`MCThreadsWait` needs none. In `MCConnQueue` six connections go around the three
slots of the ring twice; with two places both the empty and the full
buffer occur with workers waiting, and three workers are more than the
buffer has places. In `MCFileCache` the sizes 1, 2, 3 against 4 make some pairs fit
and others not; one name is empty, one too large, one missing, one has a zero
byte inside; two chains have three names each; one replacement makes two
versions, so that a stale and a fresh copy meet. In `MCWaitQueue` four nodes hold a
list with two inner nodes, and every node is freed and used again. In `MCExchange`
the request just fits on its way (`RequestFits`, which the sizes of the program
grant), while every answer fills it or is longer, and is longer than the Rio
buffer and than a line; files are empty, without line ends, longer than a line, and begin
with or contain an empty line. In `MCWordCount` the letters a and m are 12 apart, so
that two words share a chain, and six characters are enough for the second of
them to come twice. In `MCPipe` the middle command has both neighbours, and
two units of input through pipes of one unit block a writer. `Conns`, `Rewrites`, `MaxText`, `Input` and `Commands` bound the length of a run; nothing else is cut off.

### Fairness

* `Threads`: weak fairness of `Tick`. The handler arms the timer again each time
  before it yields (`interrupt.c:174`), and the signal stays pending while it is
  blocked. Nothing is assumed of the client.
* `Locks`: that, weak fairness of a thread resumed in `lock_acquire`, which nothing
  can interrupt, and, an assumption about the client, strong fairness of leaving the
  monitor: who holds the lock and gets the processor again and again releases it
  some time.
* `ConnQueue`: weak fairness of the main thread and of each worker while the process lives, which the
  kernel schedules. Nothing is assumed of the clients: a worker with a connection
  comes to the end of its call or to `"stuck"`. No connection and no exit request
  need ever come.
* `Exchange`: weak fairness of the client and of the worker, whose kernel threads and
  connection make progress when they can. Nobody has to interrupt the client.
* `Pipe`: weak fairness of the parent and of each child that is not blocked.
  Stopping early is never forced.

`CHECK_DEADLOCK` is off for `MCExchange` and `MCWordCount`, which come to an end (that they
come to the right one is `Completes`, and `ItemsFreed` and `PrintedOnce`), and for
`WordCountPromises`, and on
everywhere else; a process that has stopped stutters by an action of its own.

## 4. Proofs

Every invariant and safety property that a passing run checks is proved for every
value of the constants: any number of threads, slots, nodes, workers, commands, files
and connections, any sizes of buffers, any array of characters, any client.
A proof uses the assumptions that the modules declare about their constants, and a
further hypothesis only where the table has one.

A leaf that one of the provers finds, but not in a second or two, names that prover and
thirty seconds (`SMTT(30)`, `ZenonT(30)`), so that a slow or busy machine does not decide
whether the proofs are found.

| Module | Theorem | Property | Under |
|---|---|---|---|
| `ThreadsProofs` | `TypeCorrect` | `TypeOK` | |
| | `NumsCorrect` | `NumsExact` | |
| | `SleeperLeavesAlways` | `SleeperLeaves` | |
| | `OnePlaceAlways` | `OnePlace` | |
| | `StackSafety` | `ResumableHasStack` | |
| | `OnlyRaceLosesWaiters` | `LostOnlyInRace` | |
| | `FirstComeFirstServed` | `Fifo` | |
| | `ReadyAreQueued` | `ReadyIsQueued` | no failing `malloc` |
| | `KilledGivesUp` | none: the safety part of `KilledEnds` | |
| `WaitQueueProofs` | `ListIsSound` | `ListSound` | |
| | `ListIsQueue` | `ImplementsTidQueue` | |
| `LocksProofs` | `NoLostWakeup` | `NobodySleepsForFreeLock` | |
| | `Exclusion` | `MutualExclusion` | `Disciplined` |
| | `HangsOnlyWhenAbandoned` | `HangsOnlyAbandoned` | `Disciplined`, no `thread_wait` with the lock |
| `ConnQueueProofs` | `TypesHold` | `TypeOK` | |
| | `RingIsExact` | `RingExact` | |
| | `NothingIsLost` | `Conserved` | |
| | `DrainedWhenFinished` | `DrainedAtExit` | |
| | `RingIsFifo` | `ImplementsFifo` | |
| | `NoSignalIsLost` | none: `AwakeEnough` of the proof module | |
| | `SomebodyAlwaysComes` | none: the safety part of `AcceptedIsServed`, `ExitCompletes` | |
| `FileCacheProofs` | `TypesHold` | `TypeOK` | |
| | `CachedOnce` | `OneEntryPerFile` | |
| | `LimitHolds` | `WithinLimit` | |
| | `CachedIsSent` | `SameOnceCached` | |
| `ExchangeProofs` | `TypesHold` | `TypeOK` | |
| | `StreamArrives` | `StreamIntact` | |
| | `OnlyAQuitterHurts` | `OnlyQuittersHurt` | |
| | `NoMutualWait` | none: the safety part of `Completes` | |
| | `AssertionsHold` | `ClientAssertions` | `MaxLine > 1` |
| `WordCountProofs` | `CountsAreExact` | `CountsExact` | |
| | `EachWordOnce` | `PrintedOnce` | |
| | `EachItemFreed` | `ItemsFreed` | |
| `PipeProofs` | `EndOnlyFromProducer` | `EndIsProducersEnd` | |
| | `SigpipeOnlyFromReader` | `NoEarlySigpipe` | |
| | `ResultOfPipeline` | `ResultIsFirstFailure` | |
| | `EndOfInputComes` | none: the safety part of `Terminates` | |

Each module has one lemma per action, in the order of `Next`, then the theorems.
The properties are seldom inductive by themselves; `IInv` in each module is what they
need besides.

**Threads.** `IInv == Typed /\ NumsExact /\ DozerLeaves /\ OnePlace /\ PcInv`.
The parts need each other. A thread sleeps only if `nums # 1`; that this leaves
somebody to run is `NumsExact`, since the caller counts one and the ready queue
the rest; `NumsExact` survives a wakeup only if the awakened were not already in
the ready queue, which is `OnePlace`; and `OnePlace` survives a sleep or a yield
only if the caller was in the state that its place in the code says, which is
`DozerLeaves` for the running thread and `PcInv` for the others: a thread in a
queue has a point to come back to, and a slot without a thread has none.
`Typed` and `DozerLeaves` are `TypeOK` and `SleeperLeaves` with room for the places in the code
and the halts that `Locks` adds, so that its steps keep the same `IInv`.
Four theorems stand on top of it. That only the race of line 747 loses a waiter (`LostOnlyInRace`) needs
`NoneForgotten`: a queue that is still its target's when the sleep begins is that of a thread
that has not exited, although the test of line 736 may be old by then. Whoever comes back to
`thread_wait` has swept first, so a target that exited meanwhile is UNINITIALIZED and
its queue is marked as freed (`Seen`, `Unswept`); and a target that exits later empties its
queue first (`Found`).
`Fifo` is an action property, followed through every form of `Switch`; so is `KilledGivesUp`, which
says that a kill is kept until the victim has the processor, and that the victim then exits
instead of yielding; only line 644 may forget it. `ReadyIsQueued` is false
after a `malloc` that fails in `thread_create`, which leaves a READY slot in no queue
(`thread.c:237-246`); the hypothesis is `"nomem" \notin Ops`.

**WaitQueue.** `IInv` says that some sequence of nodes without repetition is the list: it has
exactly the allocated nodes, `head` and the `next` fields follow it, `tail` is its last. That
the loop of the code visits this sequence (`ListIs`) is an induction over its steps,
carried out as a smallest counterexample (`LeastOf`), since the induction
theorems of the library are out of reach. Each operation is then followed on the sequence,
and its image under `tnumber` makes the step of `TidQueue`.

**Locks.** A lock is one more place to sleep: `LockInvariance` carries `IInv` of the library over to
every step of `Locks`. No lost wakeup rests on `thread_sleep` inside `lock_acquire`
leaving the processor at once. A client that releases a lock that it does not hold breaks
mutual exclusion (`thread.c:863` does not look), so two theorems are about
`Disciplined` clients. `HangsOnlyWhenAbandoned` needs one more condition: an owner that calls
`thread_wait` sleeps with the lock, and if everybody else wants the lock the last of them
goes round in `lock_acquire` for ever, though the owner is not dead. The hypothesis
is `[][Wait => current \notin inside]_lvars`, and the invariant that it gives is that an owner never sleeps.

**ConnQueue.** `IInv == TypeOK /\ RingExact /\ Places /\ Apart /\ Conserved`. `Conserved` counts;
that a worker which serves a connection adds one to `served` needs the connection to be in
no second place (`Apart`), that main loses none when it fills a slot needs the slot to
be free (`RingExact`), and that `server_exit` leaves none behind needs every worker that has
left to have left an empty buffer that nobody fills any more (`Places`). The remainders
of the indices are settled once (`Around`).
`AwakeEnough`, on top of it, is why no signal is lost: while a worker waits, there are
as many workers on their way to the buffer as connections in it. A connection that is put in
adds one to both sides, a worker that takes one leaves both by one, and nobody begins
to wait before the buffer is empty; a worker that finds the mutex later than another
one, or wakes for no reason, only makes the awake more. So a connection in the buffer, or one
that main holds back from a full buffer, has a worker that comes for it unless all are stuck
(`SomebodyComes`).

**FileCache.** `WithinLimit` speaks of a sum over a set of files. The sum is defined by taking
files out one by one; that it exists (`SumsExist`), does not depend on the order and grows by
the size of a file that is added (`SumAdd`) are again smallest counterexamples. `SameOnceCached` says nothing of the time between request and
answer; `Promised` does: the entry that a request was promised is still where `cache_lookup` finds
it, although others are put in front of it, and that worker does not read the file.

**Exchange.** `IInv` has, besides types and sizes, who can still be there (`Ends`: while the
client stays, the server is the first to close, so nothing it reads or writes
fails), that the client was told nothing while the server reads (`Silence`), and
`StreamIntact`, which is inductive: each step moves the front of one part of the
stream to the end of the part before it (`Moved`). `OnlyQuittersHurt` follows.
That the two sides are never both in a system call that waits for the other needs
`Pending`: while the server reads, it has not been given the whole request, since the
line that completes the request is the empty one (`LastLine`), and with that it answers.
A client that writes is never stopped, since its request fits (`RequestFits`). The
assertions of `client_print` need a second invariant, `Parsed`, that follows both sides
through the lines of the request and of the header. `MaxLine > 1` leaves out lines of one
unit, in which a header field and its line end are never in one line; the program's
lines have 8192 bytes.

**WordCount.** `IInv == Typed /\ Scanned /\ Filled /\ Allocated /\ Reported`. White space
ends exactly one word, and only because of what the scan has in hand: no white space
since `head_of_word`, and white space or nothing in front of it (`Scanned`). The word is
counted in the right entry because the keys of a chain are different and are where
their hash leads, and while no tail has spoilt a key the entries are the words of the array
seen so far, with their counts (`Filled`: `Chained`, `Clean`). That what the scan has seen are the
words that have ended, as the array defines them, is `SeenIsEnded`; the keys of different
chains differ because their hashes do (`KeysApart`). `Reported` follows the output
along the places, and `Allocated` relates the heap to the entries. The properties count without
sums: the entries of a table and the times that each was counted are sets (`Entries`,
`Counted`), to which a step adds one element. The hash is a recursive function; that
there is one for every key and that it stays in the table are smallest
counterexamples over the key's characters.

**Pipe.** `IInv == Types /\ Order /\ Open /\ Ends /\ OnTheWayBack`. Why a command gets its end of
input when the one before it has exited, and not earlier, is in the order in which the
parent makes pipes, forks and closes: which ends it has open in which phase (`Open`), and
which its children therefore have (`Ends`). `OnTheWayBack` says what the returned calls
have combined.

Only model-checked:

* Liveness, which is beyond the prover, as is ENABLED: `ReadyRuns`, `KilledEnds`, `WaiterRetries`,
  `AcceptedIsServed`, `ExitCompletes`, `Completes`, `Terminates`.
* The sentences of section 3 that the code does not keep.

## 5. Not modelled

* The LRU list, `server_thread.c:89-197`: dead code, no file ever enters it.
* Names: file names and types, URIs, the tests of `request_readfile` on names (a file that
  they refuse is a missing one), arguments and usage errors.
* `open_clientfd`, `open_listenfd`, the exit fifo, the random numbers of `common.c`, the
  simple client, the file set generator, the client's index of the file set: I/O and
  set-up without states that meet.
* Files whose size changes while the server runs, and a file that shrinks between
  `stat` and `read` (`request.c:191-196`, a short `Rio_read` is not noticed).
* The value of `hash_function` in the server: a constant function into the chains.
* Failing `fork` and `pipe`; threads that use a condition variable after `cv_destroy`.
* Composition of `ConnQueue`, `FileCache` and `Exchange`: a worker that serves takes the
  steps of the other two, which share only the end of a call or of the process (`halted`, `Spins`, `"died"`)
  with the queue, where `Serve`, `Stick` and `Die` stand for them. The product is out of TLC's reach.
* The factorial, the point library, the recursive copy (`cpr.c`, I/O only) and the
  printing programs of the warmup.
* Tests and demonstrations of the thread library are clients of it; the models have
  the most general client.

## 6. Plan

1. Done: `Threads` and its invariant; `WaitQueue`, `Locks`, `ConnQueue`, `FileCache`, `Pipe`.
2. Done: servers without workers or places, `cv_destroy`, versions and contents of files,
   `Exchange`, `WordCount`.
3. Done: all safety properties proved; the refinements of `TidQueue` and
   `BoundedFifo`; the safety parts of `KilledEnds` and of the liveness properties of
   `ConnQueue`, `Exchange` and `Pipe`.
4. Left: action properties on top of the invariants, such as that an exit code, once
   collected, is not collected again but in the race of `thread.c:732`.
