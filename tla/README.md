# Manwe in TLA+

A specification of the concurrent parts of Manwe: the Yarn runtime (work-stealing pool,
coroutine tasks and their cancellation, synchronisation, combinators, three builds of the
reactor, signals), the channels and signals of Wire, the descriptor life cycle of Soccer and
Embedded, and the connection protocols of Soccer (TLS, HTTP/1, HTTP/2, WebSocket, servers and
pools). TLC checks each part on a small instance; TLAPS proves the central results for every
instance.

- [1. The system](#1-the-system)
- [2. Modules and code](#2-modules-and-code)
- [3. Runs](#3-runs)
- [4. Fairness](#4-fairness)
- [5. Proofs](#5-proofs)
- [6. Where code and documentation disagree](#6-where-code-and-documentation-disagree)
- [7. What is not modelled](#7-what-is-not-modelled)

## 1. The system

| Part | State | Operations | What is hard | What must hold |
|---|---|---|---|---|
| `AsyncSync` (mutex, semaphore, rw-lock, event, notify, once, barrier) | a `std::mutex`, a flag or count, an intrusive wait list | lock/acquire/wait, release/set/notify, cancel, destruction of a parked frame | the lock is dropped between the two passes of `park`; a grant is handed over before its receiver runs, and the receiver may be cancelled or destroyed in between | exclusion, permits add up, nobody parked beside a free resource, FIFO, every waiter is served or returns |
| Tasks and cancel hooks | chain of awaiting frames, one registry of hooks per chain, pins | `requestCancel`, hook, disarm, fire, finish | the callback may resume and unwind, on its own stack, the chain whose hooks it is firing | no frame is touched after it is gone, a cancelled chain hears of it, nobody waits for itself |
| `WaitProxy` | state word, reference count | wake, cancel, retire | three parties meet in one word | one winner, freed once |
| `WorkStealingDeque`, `MPMCQueue` | indices, slots, sequence numbers | push, pop, steal, enqueue, dequeue, size | every atomic access interleaves | each item once, in order, honest "full" and "empty" |
| `Yarn`, `Fiber` | fibers, inboxes, deques, injection queue, park words, watchdog | submit, run, steal, park, grow, retire, reap, stall detection, shutdown | lost wake-ups, tasks in retiring fibers, tasks blocking on tasks behind them, a shutdown at any moment | no task lost or run twice, no lost wake-up, stalls are seen and resolved, a shutdown ends |
| `WhenAny`, `WhenAll`, `Timeout`, `JoinHandle`, `Select` | an outcome, a winner flag, counters, an awaiter word | spawn, finish, time out, await, cancel, destroy | several finishers race with the awaiter; spawning fails half-way | one complete outcome, published once, everybody returns |
| `Channel`, `BoundedChannel`, `Signal` | buffer or handler list, parked senders, receivers, awaiters | send, receive, put back, close, emit, connect, next | a value in flight to a receiver that goes away; a handler list that is edited while it is read | values conserved and in order, nobody parked idly, an emission reaches whom it must |
| `Reactor` (epoll, Windows, io_uring), `IoAwaiters`, `Timers` | timer table, kernel timer, descriptor waiters, ring, proxies and gates | register, cancel, poll, fire, die | cancels before and after registration; addresses and descriptor numbers are reused; system calls fail; the loop dies | a registered handle is resumed exactly once, and only by a cancel meant for it; no deadline or readiness is missed |
| `SocketSlot`, `FdSlot`, `IoDeadline`, `TlsStream`, `TlsListener`, `SignalSet` | descriptor, use count, deferred closes, deadline entries, handler table | begin/end, wait, interrupt, close, adopt, arm, sweep, handshake, deliver | a descriptor is closed and its number reused while somebody uses it | nothing foreign is closed, woken, shut down or written to; nothing leaks; `close()` ends |
| HTTP/1, HTTP/2, WebSocket, `tcpServe` | connections, streams, pools, slots, deadlines | request, serve, flush, close, accept, shed | a peer that may send, stall or leave at any point; one writer for many | whole messages of the right exchange, books that balance, an end to every exchange |

How they interact: every awaiter parks through a `WaitProxy` and is resumed by a task of
the pool; scopes cancel through stop sources and cancel hooks; combinators spawn tasks and
are resumed by the last or the first of them; sockets wait through the reactor's awaiters
and hold their descriptor through a slot; `IoDeadline` shuts descriptors down from a
coroutine of its own, which is how every protocol above bounds its waits. Where one module
rests on another it does so through what that one was shown to promise: `GatedWait` runs
against `ReactorService`, which all three reactors implement; `WebSocket` takes its write lock
as the FIFO lock that `AsyncMutex` implements; the protocols take `IoDeadline` by its effect on
the connection. `PROJECT.json` lists every component, and every hazard with the line where it
bites and the properties that would catch it.

## 2. Modules and code

| Module | Source | State and actions |
|---|---|---|
| `ParkBase` | `AsyncSync.h` | `phase[t]` is where a task stands in `park`/`abandon`; `waiters` the intrusive list; `stop` the scope's stop flag. `Arm` is the gap between the two passes, `CancelNote` a cancel that finds the node not queued (`earlyCancel`), `AbandonGranted` a frame destroyed while its wake is under way |
| `FifoLock` | | what a lock promises: one owner, served in order of arrival, waiters may leave |
| `AsyncMutex`, `AsyncSemaphore`, `AsyncRwLock`, `AsyncWakeups` | `AsyncSync.h`, `AsyncSync.cpp` | `AsyncWakeups` holds four specifications, those of `AsyncEvent`, `AsyncNotify`, `AsyncOnce` and `AsyncBarrier`; one action per critical section; the dispatches that follow it happen through the phase of the woken task |
| `TaskChain` | `Coroutines.h`, `Cancellation.h` | a chain of two tasks below a detached root; `hooks` is the root's registry, a thread in `requestCancel` goes through store, pin, look, take, call, unpin; the coroutine may run on that thread's stack |
| `WaitProxy` | `Cancellation.h` | one action per atomic access of `state` and the reference count |
| `WorkStealingDeque`, `MPMCQueue` | the headers of the same name | one action per atomic access, program counters per thread |
| `FiberPool` | `Yarn.cpp`, `Fiber.cpp` | `wpc` is a worker's place in `process()`/`park()`, `dpc` a thread's place in `dispatch`, `wdpc` the watchdog's, `down` the place of `shutdownWorkers`; queues are sequences with their capacities |
| `Combinators`, `JoinHandle`, `Select` | `WhenAny.h`, `WhenAll.h`, `Timeout.h`, `JoinHandle.h`, `Select.h` | `Combinators` holds the specifications of `whenAny`, `whenAll` and `withTimeout`; runner, awaiter, timer and caller as program counters; one action per atomic exchange |
| `Channels` | `Channel.h`, `BoundedChannel.h` | `PlainSpec` is the unbounded channel, `Spec` the bounded one; receivers follow `ParkBase`; each critical section is one action |
| `Signal` | `TelegraphSignal.h` | the handler list and who else reads it, emissions with their snapshots, awaiters of `next()` |
| `ReactorService` | contract in `Reactor.h` | `pending`, `flight` and the history variable `owed` (registrations not resumed yet) |
| `ReactorTimers`, `ReactorFds` | `Reactor.cpp`, epoll | tables, timerfd or interest mask, the events of one `epoll_wait`, the loop's place |
| `ReactorPoll` | `Reactor.cpp`, Windows | the shared list, the poll thread's private copy, cancel requests with the sequence number they were made at; a timer the table has no room or no memory for, or already has, is scheduled at once |
| `ReactorUring` | `Reactor.cpp`, io_uring | operations queued, submitted and completed; one kernel timeout for all sleeps; `Submits` is a submission that succeeds, fails or is cut short (`CutShort`), `NoSlot` a full submission queue |
| `GatedWait` | `IoAwaiters.h`, `Timers.h`, `Cancellation.h` | an awaiter against `ReactorService`: gate, pin, proxy references, scope and chain stops |
| `SocketSlot`, `FdSlot` | `NetUtil.h` with its users, `FdSlot.h` | the use count and the retired descriptors, one action per atomic access or critical section; open files have an identity besides their number |
| `IoDeadline` | `IoDeadline.h` | entries (a re-arm leaves the one before it behind, `over`), the `running` flag, the sweeper and the spawn that may fail; `Current` is the entry a connection now stands behind |
| `TlsStream`, `TlsHandshake` | `TlsStream.cpp`, `TlsListener.cpp` | waiters counted around each wait, the descriptor live, retired or closed; the half-built connection that owns socket and context until it is handed over; `Lock`, `Look`, `Use` are an accept that comes back to a listener, and its context, under the lock `close()` takes |
| `SignalSet` | `SignalSet.cpp`, self-pipe build | the slot table, handlers in flight, shared dispositions, pipes whose numbers are reused |
| `Http2Flush` | `Http2.cpp` | `writing` and the frames queued in the session: one action per section under `sessionMu` |
| `Http2Client`, `Http2Server`, `Http2Pool` | `Http2.cpp`, `Http2.h` | streams and their objects, the driver's feed and its callbacks, deadlines, close; body, stream and orphan accounts with their caps; the table of connections |
| `Http1Client` | `HttpClient.h` | requests, their hosts, pooled connections with their age, the unread pieces on each with the request they belong to |
| `Http1Server` | `TcpServer.h`, `ConnectionLimiter.h`, `HttpServer.h` | the accept loop and its ends (stop, wake, a failure of the listener), one handler per connection, the descriptors of the process, slots |
| `WebSocket` | `WebSocket.cpp` | one receiver, senders, a closer, the write lock, deadlines, the message under assembly; a write throws before it begins, finds no memory, or begins and may be torn |
| `MCSync`, `MCQueues`, `MCFiberPool`, `MCReactor`, `MCSockets`, `MCProtocols` | | instances for TLC |

Modelling decisions:

- A critical section is one step. What happens after the unlock is a step of its own
  wherever another thread could see the difference.
- Atomics are sequentially consistent. The code's fences make the deque, the park
  handshake and the watchdog so; `JoinHandle.h:217` uses weaker operations, and the
  reordering they would allow is outside the models.
- Values are numbers in order of sending; exceptions and results are flags that say
  whether they are written. A message of a protocol is its framing and whose it is.
- The peer of a connection, the kernel, nghttp2 and libtls are external: they do whatever the
  code has to be ready for, and owe no progress.
- A destroyed frame is an explicit action, enabled wherever the owner of a suspended
  coroutine could drop it.
- Duration, allocation failure and system call failure are nondeterministic. The bounds
  (`MaxFaults`, `MaxItems`, `MaxCloses`, `MaxUses`, `MaxFeeds`, ...) appear only in guards.

## 3. Runs

Each MC module composes independent systems: `sys` is chosen in the initial state and never
changes, so that one run asks one kind of question of several components. A system that is
not running rests.

| Run | Systems | Shows |
|---|---|---|
| `sync` (`MCSync`) | the seven primitives with three tasks (the mutex also with owners that unlock), `whenAny` and `whenAll` over three branches, `withTimeout`, one join, three selects over two channels, two cancellers of one chain of tasks, a `Signal` with two handlers and an awaiter | `MutualExclusion`; `NothingLost`: no grant, permit, notification or selected value; `NobodyParkedIdly`; `OutcomeComplete`; `ChainIsThere`: `requestCancel` touches nothing that is gone; `StepsAreSafe`; `ImplementsFifoLock`; `EverybodyReturns`; `MutexInv`, the invariant that is proved |
| `queues` (`MCQueues`) | deque with two thieves, MPMC ring with two producers, two consumers and an observer of `Size`, proxies of three coroutines, bounded, rendezvous and soft-capped channels | `OnceOnly`, `KeepsOrder`, `ParksNobodyIdly`, `RefusalsAreHonest` |
| `pool` (`MCFiberPool`) | a task that blocks on one it spawned; a filling injection queue with growth and retirement and no watchdog thread to be had; saturation with inline runs; two workers; a pool that is shut down at any moment | `OnePlaceEach`, `NoLostWakeup`, `StallIsWatched`; `EveryTaskRuns`: in the blocking pool all tasks run and the watchdog rests, and a shutdown ends |
| `reactor` (`MCReactor`) | epoll timers of two handles, waits of two handles on a descriptor that is closed and reopened, two awaiters, the Windows poll thread, the io_uring build | `TimerNeverLate`, `NoLostReadiness`, `ImplementsService`, `BackendsImplementService`, `ProxiesAreAccounted`, `NoForeignWake`, `WaitersWake` |
| `sockets` (`MCSockets`) | a `SocketSlot` with two operations, a closer and a refill; an `FdSlot`; deadlines of two connections on two numbers; a `TlsStream` with a reader, two writers and its owner; an accept, a completed and a dialled handshake; two `SignalSet`s, once with a table that has room for both and once with room for one | `HeldStaysOpen`, `NothingLeaks`, `ActsOnItsOwn`, `ClosingEnds` |
| `protocols` (`MCProtocols`) | an HTTP/2 client with two requests and one with a deadline and a close, an HTTP/2 server that allows one stream and one whose two streams share a budget for bodies, the HTTP/2 pool, the HTTP/1 client with its pool, with two hosts and stale connections, and without the pool, `HttpServer` and `tcpServe` with two clients, a WebSocket with a receiver, a sender and a closer, and one whose peer sends longer messages | `OneWriter`, `NothingStranded`, `WholeMessagesOnly`, `BooksBalance`, `PeerIsWatched`, `ExchangesEnd` |

`TypesOK` (in `pool`: `TypeOK`) is the type invariant of each. The remaining six runs
(`ring_of_one`, `pool_behind`, `join_again`, `slot_race`, `http_body_cut`, `http2_deadline`) each
exhibit one disagreement, see section 6.

Bounds. Three tasks give an owner, a granted successor and a queued third. Rings of two slots
are filled and wrapped around at least twice by four items. One slot in each pool queue
makes every "full" branch happen. `MaxNow = 3` with durations 1 and 2 lets a later
registration be earlier, equal or later than an armed one; one fault lets each system call
fail once at any point, two poll or submission failures let one follow the other. One retired
descriptor beside a refilled slot makes the deferred list overflow. A pipe of one byte is full
after one signal. Two tasks in the closing pool leave one queued while the other runs. Two
requests share a connection, or a pool with one place, so that one finds what the other left.
One slot and two clients make the limiter shed; two descriptors make `HttpServer`'s `accept` run out of them.
Each cap of a protocol is met and exceeded by what a peer may send in some system: the stream cap,
with orphaned handlers in it, and the body of one stream in the server of one stream (`MaxFeeds = 2`
against `MaxBody = 1`); the bodies of a connection in the one of two (`MaxConnBody = 1`); connections
per host, hosts and age in the client of two hosts (one place each, two ticks of the clock against an
age of one); interim responses there and without the pool; the message, its empty fragments and the
pings between them in the longer WebSocket (three frames, in halves, against a limit of two
bytes, one empty fragment and one ping). A deadline is armed `MaxArms` times, so that an entry that is over lies beside the current
one when both are swept. A put-back of `Select` fails for want of memory once.
Liveness is left out where two requests or long messages only multiply what a smaller system
shows (two HTTP/2 requests, shared bodies, the HTTP/2 pool, two hosts, the longer WebSocket).
`queues` uses symmetry over interchangeable threads; it checks no liveness. Deadlock is not
checked where all callers may have returned for good.

Every property is paired with a mutant of the code (`PROJECT.json`, "mutants"; the operators
stand beside the definitions they change): a dropped re-check, a missing revoke, a swapped
read order. TLC refutes the property on the mutant.

## 4. Fairness

Weak fairness is given to steps that a running thread takes by itself: a worker's loop, a
dispatched wake-up, an armed cancel callback, the reactor's loop, the passing of time, a
spawned branch once it can go on, the watchdog, a coroutine of a connection between two waits,
the sweep that makes a deadline act. Nobody is obliged to call `set`, `notify`, `send`, `close`,
to make a descriptor ready, to stop a scope, or, as a peer, to send, read or leave. For the
mutex the holder gives no promise to unlock, yet a cancelled waiter returns; for the semaphore
and the rw-lock holders release in the end, which is what their users owe. Since `sys` never
changes, fairness of a disjunction over systems is fairness in each.

Strong fairness stands in for a lock or a gap that comes round again and again: a request, its
deadline or a handler that asks for `sessionMu` gets it in the end, although the reader takes it
for every feed (`Http2Client`, `Http2Server`); and a teardown of a `SignalSet` that spins until no
handler is in flight finds such a moment, because signals do not arrive without a pause
(`SignalSet`).

## 5. Proofs

| Module | Theorems |
|---|---|
| `ParkBaseProofs` | lemmas on the wait list: appending, removing and taking the head keep it free of duplicates and equal to the set of queued tasks |
| `AsyncMutexProofs` | `MutexInvariant`, `MutexIsExclusive`, `MutexLosesNoGrant`, `MutexImplementsFifoLock` |
| `AsyncSemaphoreProofs` | `SemaphoreInvariant`, `SemaphoreConservesPermits`, `SemaphoreParksNobodyIdly` |
| `AsyncRwLockProofs` | `RwLockInvariant`, `RwLockExcludes`, `RwLockParksNobodyIdly`, `RwLockServesInOrder` |
| `ReactorTimersProofs` | `TimersInvariant`, `TimerIsNeverLate`, `TimersResumeOnce`, `TimersImplementService` |

Assumptions: the set of tasks is finite (`TaskAssumption`, which the mutex proofs do not use);
the semaphore has any number of permits up to its bound (`PermitsOK`, a hypothesis of its
theorems that `MCSync` evaluates for its instance); any tasks may be writers of the rw-lock; for the
timers, durations and bounds are natural numbers (`TimersAssumption`) and handles are arbitrary.

*Mutex.* Exclusion alone is not inductive: a grant travels while its receiver is in phase
`granted`, and a destroyed receiver still owns it while it revokes. `MutexInv` therefore joins
to exclusion that `held` is set exactly while some task owns the mutex in this wide sense
(`NoLostGrant`), that the list holds exactly the queued tasks, each once (`QueueOK`), and that
nobody is queued while `held` is false (`NoIdleQueue`); the last is what makes `unlock` on an
empty list safe. The refinement maps the FIFO lock's owner to the owning task; every action
is an acquire, a hand-over, a join, a leave or a stutter.

*Semaphore.* `SemInv` says that free permits and owning tasks add up to the total, by
cardinality of the set of owners, and that a free permit excludes a queued task.

*Read-write lock.* `RwInv` says that `state` counts the owners (`StateCountsOwners`), that the
head of the list cannot run (`HeadIsBlocked`) and that the list holds exactly the queued tasks.
The core is `PromoteKeepsInv`: `promoteLocked` may start from any list, phases and state that
agree with each other, which is how a release, a cancelled waiter and a destroyed one all reach
it. It rests on `LeadingReadersEnd` (the readers at the head end at the first writer, from the
well-ordering of the naturals) and on counting the tasks it takes. `HeadIsBlocked` is needed for a
reader's release that promotes nobody: the head must then be a writer. That nobody
overtakes follows because `promoteLocked` takes a prefix of the list and `tryNow` fails while
the list is not empty.

*Timers.* `TimerNeverLate` needs `ArmedIsSet`: an armed timerfd expires at `timerArmedFor`,
except between reading it and serving the table. Without it, registering behind a stale
`timerArmedFor` would break the property. That `owed` stays a natural number needs
`OwedIsComing`: the registrations of a handle that are not resumed are the one in the table
plus those on their way. Refinement takes the table's domain for the pending handles.

Only model-checked: everything in the other components; liveness everywhere; whatever
rests on induction over data.

## 6. Where code and documentation disagree

1. `ring_of_one`: `MPMCQueue` accepts capacity 1, where a full slot looks free to the next
   producer; `enqueue` then succeeds on a full queue (`MPMCQueue.h:102`, against line 133).
2. `pool_behind`: two pushes into the inbox of a worker that still reads as parked arm no
   stall detector; if the first task blocks on the second, nobody runs it (`Fiber.cpp:229`,
   against `Yarn.cpp:723-724`).
3. `join_again`: the thread suspending a cancelled join can take a second join out of the
   latch when the proxy's address is reused (`JoinHandle.h:220`, against 183-186).
4. `slot_race`: `end()` flushes after another operation has begun (`NetUtil.h:80`, against
   53-54 and 82). `HeldStaysOpen` is the property that does hold: it leaves out the operations
   that began in this window.
5. `http_body_cut`: a body that ends with its connection and is cut off by the body deadline is
   returned as a success (`HttpClient.h:1095`, against 674-675 and the test quoted in
   `PROJECT.json`).
6. `http2_deadline`: a request in its own write outlives its deadline when its stream is already
   done or the write is young (`Http2.cpp:908`, against `Http2.h:248-249`).

Observed while modelling, and left out of the properties that hold:

- A frame destroyed between the proxy's exchange and its transfer (`Cancellation.h:109`) is
  resumed after its destruction, although lines 32-34 exclude it. `queues` separates the two
  cases (`racy`) and checks there only that the proxy itself lives as long as it is used.
- A pull that wins after its select was destroyed drops the value (`Select.h:117`, against
  81-83).
- A deadline entry added while another thread's spawn of the sweeper is failing has no sweeper
  until the next entry comes (`IoDeadline.h:102`).
- A worker blocked on a task that is still queued at shutdown is never released: the join of
  the workers precedes the failing of queued tasks (`Yarn.cpp:273-344`). The closing pool of
  `pool` therefore has no task that waits for another.
- A `send` that passed its check of `open` can put a data frame after the Close frame
  (`WebSocket.cpp:1339`).
- The io_uring loop does not retry its own submission after a wake (`Reactor.cpp:800-810`); when
  it fails, what was queued waits for the next caller. `WaitersWake` leaves this state out.

## 7. What is not modelled

- The kqueue builds of the reactor and of `SignalSet`, and the Windows build of `SignalSet`:
  other builds of an interface modelled here, over different kernel calls.
- Byte contents: parsing, chunk arithmetic, HPACK, masking, TLS records, formatting of
  addresses and logs. What bytes mean is a free choice of the reader that takes them.
- nghttp2 and libtls: taken as able to do anything their interface allows.
- In the pool: a `Yarn` destroyed on one of its own workers, `awaitQuiescence`, which waits for a
  quiet interval and so promises nothing without real time, and the metrics hooks.
- In `requestCancel`: the extra chunk of memory for more than sixteen hooks.
- In the io_uring build: cancels that ask for no resumption.
- `wsServe` and `wsServeConnection`: `tcpServe` with a WebSocket as its handler, each modelled apart.
- Allocation failure where the code has no answer but to end the process or the operation: the
  re-arming of a deadline in the destructor that ends an HTTP/2 call, a registration of the Windows
  reactor that is `noexcept`, arming the read deadline of a frame.
- `deadlineToken`, `ManualResetEvent` and `syncWait`, `Waitable`: one timer or condition variable
  around a flag, whose parts appear in `GatedWait`, `TaskChain` and `FiberPool`.
- `SmallObjectPool`: an allocator, correct or not by addresses that no model here has.
- `Stream`, `BufferedReader`: one producer and one consumer on one thread of control.
- `FileIo`, `Metrics`, `Log`, `Trace`, `PlatformNet`, `IcmpEcho`, `SocketAddress`, `Overlapped`,
  `SerialPort`, `Gpio`: single calls or observation only.
- Weak memory: see section 2.
