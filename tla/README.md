# A verification of the MMAL framework in TLA+

The Raspberry Pi `userland` repository holds the ARM side of the VideoCore
libraries. Its own core logic, beside wrappers of remote procedure calls and
parsers, is MMAL, the Multi-Media Abstraction Layer (`src/interface/mmal`), on
the threading layer vcos (`src/interface/vcos`): components with ports, ports
that exchange reference counted buffer headers, pools and queues of such
headers, connections and graphs that make buffers flow, a media clock, and
components that run on the VideoCore behind a message channel. Everything in it
is called by several threads at once, and most of what can go wrong in it takes
several of them. This project models that logic, checks it with TLC on small
instances and proves the safety invariants of those runs with TLAPS, for instances
of any size.

Contents: [inventory](#inventory) - [modules](#modules) - [runs](#runs) -
[what the code does otherwise](#what-the-code-does-otherwise) -
[bounds](#bounds) - [fairness](#fairness) - [abstractions](#abstractions) -
[proofs](#proofs) - [not modelled](#not-modelled) - [plan](#plan)

## Inventory

The parts of the system, the state they keep, and what makes them correct.

| part | state | operations | correct when |
| --- | --- | --- | --- |
| `core/mmal_queue.c` | a linked list, its length, a semaphore, a lock | put, put_back, get, wait, timedwait, length | a reader past the semaphore finds a buffer; none is lost, duplicated or overtaken; no reader sleeps beside a buffer |
| `core/mmal_buffer.c` | per header: a reference count, the header it is a replica of, a pre-release callback | acquire, release, release_continue, replicate | a header is recycled exactly when its last holder and replica are gone |
| `core/mmal_pool.c` | headers, payloads, the queue of free headers, a release callback | create, destroy, resize, release of a header | a header in the queue is nobody's |
| `core/mmal_port.c`, a port | enabled, paused, the client's callback, an internal queue, buffers in transit with a semaphore, four locks | enable, disable, send, flush, pause, resume, buffer callback, event | a disable returns, and then the port is empty and no callback runs; the count is exact |
| `core/mmal_port.c`, a connection | the other port, a pool, on both ends | connect, disconnect, enable, disable, the callbacks that carry buffers | both ends agree; the pool outlives its buffers; every call returns |
| `core/mmal_component.c` | references to the component and to its ports, a pending destruction, enabled, an action thread | create, acquire, release, enable, disable, action trigger | destroyed once, after everybody has left it, and then always |
| `core/mmal_clock.c` | media time, wall time, speed, requests ordered by media time, a worker with a timer | start, stop, scale, set and get the time, add and flush requests, destroy | a request is called back once and in time; time never runs ahead; a destroy returns |
| `util/mmal_connection.c` | a pool, a queue, flags, a callback | enable, disable, reconfigure, destroy, the callbacks of ports and pool | a header is in one place; nothing is destroyed under a callback |
| `util/mmal_graph.c` | connections in order, a worker with a semaphore, a stop flag | enable, disable, destroy, the pass of the worker | the worker never sleeps beside work; a disable returns; a graph can be enabled again |
| `vc/mmal_vc_client.c`, `vc/mmal_vc_api.c` | a pool of waiters, a lock for bulk transfers, a use count, per port a pool of contexts, a queue of callbacks | create, destroy, enable, disable, flush, send, the VCHIQ callback, the callback loop | a reply wakes the waiter that asked; message and data stay together; a disable finds every buffer |
| `components/` | a queue per port, flags | send, flush, disable, the action | each buffer sent comes back once; the data are in order |
| `vcos/generic/vcos_generic_event_flags.c` | events, a list of waiters, a lock | set, get with or without a wait and a timeout | a set amounts to one step; no waiter is woken twice or forgotten |
| `vcos/generic`, the rest | message queues, block pools, named semaphores | send, wait, peek; alloc, free | no lost wakeup |
| `vcos/pthreads` | threads, semaphores, mutexes, timers | | primitives of the models; the task timer is modelled with the event flags |
| `vmcs_host`, `vchiq_arm`, `khronos`, `containers`, `host_applications`, `helpers` | see [not modelled](#not-modelled) | | |

How they interact. A client takes a header from a pool (a queue), sends it to a
port with `mmal_port_send_buffer`, which counts it as in transit and calls the
component's `pf_send`. The component works on its action thread, under its
action lock, or inside `pf_send`, and gives the buffer back with
`mmal_port_buffer_header_callback`, which calls the client's callback with no
lock held and then decrements the count. `mmal_port_disable` waits until the
count is zero. On a port connected by the core the client's callback is one of
the core: the output's sends the buffer on to the input port, the input's
releases it, the release puts it back in the pool, and the pool's callback sends
it to the output port again. A payload that the pool allocates on a port is a
reference to that port and so keeps its component alive.

A connection of the client library does the same from the outside: its callbacks
put full buffers in a queue and the worker of a graph moves them on, handles
format changes by stopping and restarting the connection, and feeds empty
buffers back. A component on the VideoCore has ports whose `pf_enable`,
`pf_disable`, `pf_flush` and `pf_send` are messages; what comes back arrives on
the VCHIQ thread, which only queues it, and is delivered by the action thread or
by the disable that waits for it.

What makes this hard:

* **Interleaving.** Ports are used from client threads, from the action threads of
  both components of a connection and from the callbacks that run on either.
  Several fields are tested without their lock.
* **Locks.** A port has four locks (connection, port, sending, transit), the
  component has two more, and callbacks are made under some of them.
* **Failure.** Every step of an enable or a disable can fail after the earlier
  ones have had their effects; most error paths have no test.
* **Waiting.** A disable waits for buffers that other threads must return; a join
  waits for a thread that may be inside a callback; a request waits for a reply.
* **Timers.** A timer expires while the thread that armed it has just been woken,
  and its routine points into the stack of that thread, or into a clock that is
  being destroyed.
* **Order.** Messages and bulk transfers are two channels that meet on the other
  side; one set of event flags wakes several threads that consume the same event.

The repository persists nothing, so recovery after a crash is no concern. VCHIQ
delivers what it accepts; it may refuse a message, which the models do.
`PROJECT.json` lists each hazard at its line, with the properties that watch it
or the reason why none does yet.

## Modules

| module | models | state and actions |
| --- | --- | --- |
| `BufferQueue` | what a queue promises (`mmal_queue.h`) | the abstract queue: `contents` and the number of readers `promised` a buffer |
| `MmalQueue` | `core/mmal_queue.c` | `items`, `length`, `sem`, `lock`; one action per access to one of them, so writers and readers interleave inside every operation |
| `BufferHeader` | `core/mmal_buffer.c` and the release of `core/mmal_pool.c` | `refcount`, `reference`, `pool`, `delayed`, what each thread holds, and the stack of nested releases of each thread; a count is loaded in one step and stored in another |
| `MmalPort` | a port that is not connected, `core/mmal_port.c`, with the action thread of `core/mmal_component.c` | every lock, the transit count and its semaphore, the internal queue of a paused port; the calls of the clients are sequences of actions, one per lock, wait, callback or call of the component |
| `PortConnection` | connections in `core/mmal_port.c` | both ends with their locks, the pools with their generations, the callbacks that carry buffers as stages of the thread that makes them, and the error paths of enable and disable |
| `MmalComponent` | `core/mmal_component.c` | references as sets of pairs, `destruction_pending`, the action thread and its quit and join, a connection as an owner of payloads |
| `MmalClock` | `core/mmal_clock.c` | real time and the counter that wraps, the three times a clock keeps, the list of requests, the worker by what it does next, the timer by what is left of it; what users do under the lock is one action, the wake after it another |
| `ClientGraph` | `util/mmal_connection.c`, `util/mmal_graph.c`, the pools they use | a stack of frames per thread (callback, release, send, disable, enable), because callbacks nest in releases and releases in failed sends; the worker's pass as a program counter over the connections |
| `VcClient` | `vc/mmal_vc_client.c`, the ports of `vc/mmal_vc_api.c` | one record per caller (operation, place, port, header, waiter), the waiters, the locks, four channels (messages and bulk, each way), the callback queue, the VideoCore by its contract |
| `EventFlags` | what event flags promise (`vcos_event_flags.h`) | the events, who waits, what each get returned; a set is one step |
| `VcosEventFlags` | `vcos/generic/vcos_generic_event_flags.c`, the task timers of `vcos/pthreads/vcos_pthreads.c` | events, list of waiters, lock, the walk of a set one waiter at a time, per thread a semaphore, a timer and the timer's thread |
| `*_proofs` | | the theorems about `MmalPort`, `PortConnection`, `MmalComponent`, `MmalClock`, `ClientGraph`, `VcClient` and `VcosEventFlags`, and in `MmalBuffers_proofs` those about `BufferHeader` and `MmalQueue` |

`MC*` modules give the constants of the runs where a definition is needed for
that; the other modules need nothing but model values and numbers and are run
directly. The map in `PROJECT.json` names the lines each definition stands for.

The composition is by abstraction: each module takes from the one below only
what that one has been shown to promise. `MmalPort` and `BufferHeader` treat the
queues of components and pools as sets or sequences, which is what `MmalQueue`
implements. `PortConnection`, `ClientGraph` and `VcClient` make
`mmal_port_send_buffer` one action with an exact transit count, which `MmalPort`
establishes (`TransitExact`), and a disable of a port waits until nothing of it
is in transit (`DisabledIsEmpty`, `DisableReturns`). `MmalComponent` treats a
connection as an owner of payloads that are freed by a disconnect from either
side, whose pool `PortConnection` shows to be whole by then. The component
behind a port is given by its contract: it keeps what it accepts and returns each
buffer once. The contract is read off `components/copy.c`, the smallest component
that follows it.

## Runs

Runs that pass:

| run | instance | states | shows |
| --- | --- | --- | --- |
| `queue` | 2 writers, 2 readers, 3 buffers | 6,600 | `ClaimsBacked`: each unit of the semaphore, each reader past it and each writer before its post is matched by a linked buffer, hence `ClaimFindsBuffer`, the assertion in `mmal_queue_get_core`. `LengthExact`, `OneOwner`. `AbstractQueue`: it implements `BufferQueue`, a put taking effect when the buffer is linked. `NoLostWakeup`: a thread asleep in `mmal_queue_wait` beside a buffer implies that some reader takes one |
| `header` | 3 threads, a chain of 3 headers, one with a pre-release callback, 2 references per header, updates of a count do not overlap | 312,000 | `RefcountExact`: holders and replicas are counted. `NoEarlyRecycle`: a header in its pool, or on its way, is used by nobody and is recycled by one thread. `NothingLeaked`: a header that is not in its pool has somebody to give it back |
| `port` | 2 clients of 4 calls, 2 buffers, `pf_send` and `pf_disable` may fail | 153,000 | `TransitExact`: a buffer in the port is counted once, through flush, failed send, pause and disable, and the semaphore that a disable waits on says whether the port is empty. `CallbackSet`: no buffer is handed back through a cleared callback. `DisabledIsEmpty`. `DisableReturns`: no order of these calls leaves a disable waiting |
| `component` | 2 clients of 4 calls, one further reference each, 2 payloads, 2 ports | 135,000 | `DestroysUnreferenced` and `NoUseAfterFree` (freed once, used by nobody after) however the last references to the component and to its ports are dropped, also from inside the disconnect that a release makes; `EnabledRuns` when a resume fails; `EventuallyDestroyed` |
| `connection` | a client on each end, 3 calls each, 2 buffers, sends and enables may fail, one format change | 1,950,000 | `PoolOutlivesBuffers`, `EndsAgree` between calls, `NoBufferLost` while sends are refused on the way |
| `connection_live` | 2 clients on one end, 2 pools in turn, enables and disables may fail | 100,000 | `CallsReturn`: every call on the connection returns |
| `event_flags` | 2 threads that get and set, one that sets, 2 events, 4 kinds of get | 62,000 | `WokenOnce`: a sleeper has exactly one wakeup coming, whoever of a set and its timer comes first, nobody else has one left over, and nobody sleeps on events that are set. `TimerInsideGet`: no timer looks at the request of a get that has returned. `AtomicFlags`: it implements `EventFlags`, a set taking effect when it takes the lock. `GetsReturn` |
| `graph` | a queued and a direct connection in a row, a header each, a graph enabled twice, one fault | 526,000 | `HeadersAccounted`: a header is in one place, and a pool is whole when it is resized (the assertion in `mmal_connection_disable`). `DestroyedIsQuiet`. `NoLostWakeup` of the worker. `DisableReturns` once the worker has been joined |
| `vc_client` | 2 callers, one with a component of 3 ports, 3 headers, 1 waiter, 3 calls, one failure | 245,000 | `WaitersMatch`: a waiter is free when the semaphore says so, a caller gets the reply to its own request. `TransfersInOrder`: data meets the message that announced it, a flush does not overtake data. `ServiceKept`, `DisableFindsAll` (the assertion of `mmal_vc_port_disable`), `NoneStranded`: a returned buffer always has a thread to deliver it. `CallsReturn` |
| `clock` | 2 callers, 4 calls, 2 times, speeds 0 and 1, 2 slots, a counter that wraps at 4, 5 ticks | 900,000 | `TimerInTime`: beside requests of a running clock the worker sleeps no longer than until the first is due, or has a wakeup coming. `EarliestFirst`. `CalledBackOnce`, also when the clock is destroyed. `NotFast`: the clock never runs ahead, also when the counter wraps. `DestroyReturns` |

Every property of these runs is violated by one of the mutants that stand beside
the definitions they change: a forgotten decrement, a lost post, a dropped test,
a missing join, a timer that is not cancelled.

## What the code does otherwise

Two runs end in a counterexample. Each states what a comment or a declaration in
the repository says and shows what the code does.

* **`connection_locks`** (`CallsReturn`). Connect, disconnect, enable and disable
  lock the port they are called on and then the other one. Calls from both ends
  block each other, for instance when two connected components are destroyed by
  two threads.
* **`graph_again`** (`EnabledGraphWorks`). `graph_stop_worker_thread` sets
  `stop_thread` and nothing clears it. A graph that is disabled and enabled again
  reports success, and its worker ends at its first wakeup.

These were seen in the source while modelling it and have no run of their own:

* *Queue.* The length is incremented before the semaphore is posted and is read
  without the lock, so a get after a length above zero can find nothing, although
  the comment in `mmal_queue_put` (`mmal_queue.c:107`) says it succeeds.
* *Headers.* The reference count is a plain integer, changed with no lock
  (`mmal_buffer.c:63`), while the replicas of one buffer are released by threads
  of different components. With `Serialised = FALSE` the module `BufferHeader`
  shows the decrement that is lost and the header that never comes back; `header`
  shows that nothing else is wrong.
* *Port.* `mmal_port_event_send` tests the callback and calls it two lines later,
  and events are not in the transit count, so a disable in between clears the
  callback (`mmal_port.c:922`). A resume that falls into a disable which then
  fails clears `is_paused` without sending the internal queue (1471).
* *Connection of the core.* A format change is made under the action lock and takes
  the lock of the port, a disable takes them in the other order (667, 1321);
  `PortConnection` with `MaxEvents = 1` and `CallsReturn` deadlocks. A disconnect
  after a disable that failed half way leaves the other end enabled and forgets
  its pool (1045, against `mmal_port.h:238`).
* *Component.* `mmal_component_disable` does nothing on a component that was never
  enabled (`mmal_component.c:424`), so ports of it that were enabled go on running,
  although "Components will only process data when they are enabled"
  (`mmal.h:298`). A component released from its own action thread joins itself.
* *Client connections and graphs.* The error path of `mmal_graph_enable` leaves the
  earlier connections enabled with the worker stopped. An output port that is
  enabled but refuses a header leaves it in the pool until the next event: the
  worker does not try again (`refused` in `ClientGraph`). `flags == DIRECT` at one
  place (`mmal_graph.c:106`) is `flags & DIRECT` at another (624). The test for
  the 20 ms slice may skip a queue with `run_again` at 0. The assertion in
  `mmal_connection_disable` is false when a component further on keeps a replica.
  It is also false, and a resize frees headers that a port holds, when a component
  reports a format change between the enabling of its output port and the end of
  `mmal_connection_enable` (`mmal_connection.c:341` to 381): the worker reconfigures
  a connection whose `is_enabled` is not set yet, `mmal_connection_disable` returns
  at once (390), and `mmal_pool_resize` takes the pool for whole. With
  `EarlyEvents = TRUE` the module `ClientGraph` shows it (`HeadersAccounted`); `graph`
  shows that nothing else is wrong.
* *VideoCore client.* A failure of `vchiq_use_service` is ignored, and the count of
  uses goes off. The returns for a bad handle (`mmal_vc_client.c:641`) keep their
  context. When the bulk transfer of an announced message is refused the reply
  comes for a waiter that has been released. A failed version query makes the
  client think for ever that the VideoCore knows no zero-length buffers and no
  flush by message. The error path of the enable deletes the contexts and keeps
  `has_pool`; the disable deletes them even if the request failed. A request made
  on the VCHIQ thread never returns.
* *Clock.* The list is in order only as long as the speed does not change sign, so
  "Earliest request is always at the front" fails for a clock that turns (hence
  the speeds of the run and the hypothesis of `EarliestAtFront`).
  `media_time_at_timer` stays what it was when the list runs empty, so that after
  a jump back a new request can be called back at once as part of a
  discontinuity. The media time advances while the clock is stopped. Between two
  updates more than one wrap of the counter is lost, which is why `NotFast` is
  one-sided.
* *Pools, splitter, copy, message queues.* `mmal_pool_resize` ignores the status of
  its second initialisation (`mmal_pool.c:257`). The splitter never looks at the
  flags of an input it has already sent, puts an unfinished input back at the tail
  and leaves an output waiting when another thread has the input in its hands
  (`splitter.c:177`); copy drops two buffers when the output is too small
  (`copy.c:105`). `vcos_msg_sendwait` leaves `msg->waiter` set.

## Bounds

* `MaxCalls` bounds the calls of each client (in `VcClient` and `MmalClock` of all
  of them), and for the clients of a connection `MaxPools` the pools ever created.
  Four calls let one thread enable, send, pause or flush and disable while another
  does the same; every pair of calls meets in every order, which is where the
  hazards lie. On a connection the calls of the two ends are three each: connect,
  enable and then a disable, a disconnect or another enable on both sides at once.
  After the calls are used up the modules allow a stutter (`Rest`, `Done`), so
  that a deadlock is still a deadlock.
* `MaxEvents` bounds the events of a component, and in `MmalPort` also the times
  its action runs for another port.
* `Buffers`: two or three, since order and "some but not all" need two, and the
  queue's list, a reader and a writer can each have one of three.
* `Refs` and `Payloads` name the references in `MmalComponent`: with one name a
  client holds at most one reference, and the payloads are held by a client and
  by the connection at the same time.
* `MaxRefs`: two references to a header for the threads, beside those of its
  replicas. `Level` orders headers by their stage of a pipeline: three levels
  have a release nested in a release nested in a release.
* `NumPorts` is two, so that an enable can fail on the second port after it has
  resumed the first.
* `Requests` of the event flags: one event consumed with a timeout, both of two
  without, either of two kept with one, and a get that does not wait. So two
  waiters compete for an event, and one of them can time out meanwhile. Nothing
  bounds the number of gets and sets.
* `ClientGraph`: one connection moved by the worker and one that is direct, joined
  at a component; `MaxEnables = 2` lets a graph start again on queues that are not
  empty; `MaxFaults = 1` is a refused header, a failed enable or a format change
  at any point (two hold as well, 1,500,000 states); `MaxSema = 2` counts posts up to the second, beyond which the
  worker's behaviour is the same. A thread runs each component: the last two
  connections share the one between them. `EarlyEvents = FALSE`, see above.
* `VcClient`: one waiter for two callers makes them queue for it; three calls are a
  send, a flush or disable of the same port and one call of the other thread, or
  the creation and destruction that close the service. Four calls (2,070,000
  states) hold as well but take too long to run every time.
* `MmalClock`: times 0 and 4 in steps of 10 ms are at and past the end of the
  counter, which wraps once in the five ticks; two slots fill up; four calls are
  for instance a request, a start, a jump and a destroy. Times 0, 3 and 5 with six
  ticks (3,060,000 states) hold as well.

`connection` turns the deadlock check off because `connection_locks` shows that
its clients can deadlock; what it checks are invariants, which a deadlock does
not hide. `connection_locks` turns it off so that the deadlock shows up as the
violation of the property that names it.

## Fairness

A thread that is inside an operation goes on with it: weak fairness of the steps
within calls, of the callbacks and of the action, worker and timer threads. A
call itself, an event, a timeout or a failure is never forced. Beyond that:

* `SF(ActionReturn)` in `MmalPort`: a component whose action keeps running while it
  holds a buffer returns one in the end. It is the contract of a component, strong
  because the action lock is taken and given back in between and a component may
  run its action for another port.
* `SF(TimerUnlink)` in `VcosEventFlags`: a timer that waits for the mutex of the
  flags gets it although others take and release it for ever.
* In `VcClient` the VideoCore answers what it is asked and VCHIQ delivers what it
  accepted: the code waits without a timeout and relies on it.
* In `ClientGraph` nothing is assumed of the components' returning what a flush or
  a disable does not make them return, and nothing of the worker: `DisableReturns`
  starts from the join. That the worker is joined depends on
  `graph_do_processing` running out of work, which the code does not guarantee.
* `NoLostWakeup` of the queue needs no fairness toward a particular reader and
  claims none.

## Abstractions

* Buffers and headers are model values; their payload, flags and time stamps are
  left out, and with them `mmal_buffer_header_reset` and the memory locks. Log
  messages, names and statistics are left out. Sections under the lock of a
  component (`private->lock`), of the event flags' timer and of the clock are one
  action where nothing inside them waits or calls back.
* The conditions of the code that are tested without a lock are separate steps
  from what is done after the test: `EventCheck` and `EventCall`, `CallbackTest`
  and `CallbackForward`, `WorkerLook` and `WorkerLock`, `ReadLength` and the get
  that follows.
* In `PortConnection` and `ClientGraph` ports are used only through the
  connection, and `mmal_port_send_buffer` is one action; its inside is the subject
  of `MmalPort`. Connections that a component manages itself (`pf_connect`) and
  clock ports are left out.
* In `ClientGraph` the pool fits the ports until a first enable or a format change
  (`fits`); what the two ports require is left to that. Event callbacks other than
  format changes are left out, and so is a port whose disable fails: an enable may
  fail at either port.
* In `VcClient` a failure is a message that VCHIQ refuses or a component that is not
  created; a bulk transfer that fails after its message was queued is left out,
  since the code asserts it away.
* In `MmalClock` time is counted in steps of the shortest timer delay (10 ms). A
  speed is -1, 0 or 1. A new media time within the update threshold is averaged by
  the code over the last updates: in the model it either is ignored or moves the
  clock by at most that threshold. Callbacks do not call the clock.
* The clients of the models follow the interface where it is documented: they do
  not disable a port from its own callback, they release what they hold, and
  nobody else uses a clock that is being destroyed.
* Reads and writes of single words are atomic, except for the reference count,
  where the point is that ++ and -- are not. Memory is sequentially consistent.

## Proofs

The `*_proofs` modules hold theorems that TLAPS proves for every value of the
constants that the named assumptions of the module allow: any finite sets of
threads, buffers, references and ports, any number of calls. Four hypotheses go
beyond them, each in the statement of its theorems: `Serialised` for the headers,
`~DisableMayFail` for the connection of the core, `~EarlyEvents` for the graph, and
the sign of the speeds for one theorem about the clock. Without them the theorems
are false, as said above. `TypeOK` (for the queue `QueueTypeOK`) is proved for the
nine modules and is not among the invariants of their runs.

**`MmalBuffers_proofs`, the queue.** The inductive invariant (`QueueInv`) adds two facts to what the run
checks: the lock is held exactly by the thread in a critical section, and a writer
has its buffer until it links it. With them `ClaimsBacked` is inductive: the
semaphore, the readers past it and the linked buffers change by one in each step,
which `MoveCount` derives for the number of threads at a set of labels.
`ClaimAlwaysFindsBuffer` is the assertion of `mmal_queue_get_core`, `LengthIsExact`
its other one. `EachBufferOnce` says that a buffer is in the list once or in the
hands of one thread. `ImplementsQueue` is the refinement of `BufferQueue`:
`contents` is the list, `promised` the number of readers past the semaphore; the
link is the abstract put, the claim the promise, `GetCore` the take, all else a
stutter. That a take removes the head needs the first theorem.

**`MmalPort_proofs`.** `CountCorrect` (`TransitExact`), `CallbackCorrect`
(`CallbackSet`) and `DisableEmpties` (`DisabledIsEmpty`) for any number of clients.
The invariant has two halves.

* `ControlInv` says what holds at each place of a thread: who has which lock
  (`LockInv`); a sender or a flush under its lock finds the port enabled, and who
  is past the stop of a disable finds it disabled (`OpenInv`); nothing is in
  transit from the wait of a disable to the end of the next enable (`ClosedInv`);
  the semaphore is one exactly when nothing is in transit, but for a disable
  between its wait and its post (`SemaInv`); the callback is set while a buffer can
  come back (`CallbackInv`).
* `PlaceInv` and `CountInv` say that a buffer is in one place and that the count is
  the number of buffers in the port, of callbacks not yet counted as done and of
  sends that have counted and not delivered. The count can only be exact if no
  step puts a buffer where it already is; each of the ten `Move...` lemmas is one
  way a buffer changes its place, and each `Count...` lemma what it does to the
  sum. `NobodyEmptying` is the argument why the list that a disable walks with no
  lock is touched by nobody: who would touch it needs an enabled port, or the
  connection lock.

The two halves need each other: that nothing is in transit when a disable
returns follows from the semaphore, the semaphore from the count, and the count
from the places of the buffers.

**`MmalBuffers_proofs`, the headers.** `CountsExact` (`RefcountExact`), `RecycledOnce`
(`NoEarlyRecycle`) and `NoneLeaked` (`NothingLeaked`), for any headers, any depth of
replication and any threads, under the hypothesis that the updates of one count
exclude each other; without it they are false, see above. `CountInv` says what a
count counts in the middle of calls: the references the threads hold, the replicas
that show the header, the releases that have not stored the count yet, and the
pool. `LoadInv`: a count that has been loaded is still the one in memory when it is
stored, which is where the hypothesis is used. `EndInv`: the count is zero exactly
while one thread is in the last release of the header or that release is
postponed; so only one thread recycles it. `StackInv`: releases nest in recycling
only, each of another header, because a replica is of a higher level than its
source.

**`PortConnection_proofs`.** `PoolSafe` (`PoolOutlivesBuffers`), `EndsAlike`
(`EndsAgree`) and `BuffersKept` (`NoBufferLost`), for any clients on the two ends,
any buffers and number of pools, with sends and enables that fail anywhere. The
hypothesis is that no `pf_disable` fails: after one that does, the ends differ, as
said above. `LockInv`: a client past its second lock holds both and is alone in a
call (`Alone`), however the calls of the two ends overlap. `PhaseInv`: what is
enabled, and which pools exist, at each place of that call, and between calls
(`Quiet`, which is `EndsAgree`). `PlaceInv`: a buffer is in one place. `CountInv`: the
transit count of a port is the number of buffers in its component and of callbacks
it has made. `CloseInv`: nothing is in transit at a disabled port, but for one that
is being disabled. When the pool is freed both ports are disabled, hence both
counts are zero, hence no component has a buffer and no port has made a callback
that is still out; `SourceInv` excludes the callbacks that no port has made (the
event, and the buffer that populating could not send). The lemmas `TakeIs` to
`DoneIs` are the ways a buffer moves.

**`MmalComponent_proofs`.** `CountInv`: the two counters are the numbers of
references. `OneInv`: one thread finishes the component, which nobody refers to
then. `ConnectionInv`: whoever frees the payloads of a connection holds its lock,
and is through before the last release gets past its own disconnect. `QuietInv`:
ports are closed and the action thread has been joined before the end. From these
`DestroyedUnreferenced`, `FreedWhenUnused` and `EnabledPortsRun` follow.

**`MmalClock_proofs`.** `ClockNotFast` rests on the counter having seen no more time
than has passed. `LifeCorrect`: the worker exists from the first request on, the
timer runs only while it sleeps or has just been woken, a destroyed clock has
neither. With that `TimerInTime` is inductive (`TimerNeverLate`), because an update
of the local time does not move it (`NowKept`) and a tick brings timer and first
request nearer by the same step. `EachCalledBackOnce` rests on `RequestInv`: the
requests accepted are those in the list and those called back, once each.
`EarliestAtFront` has the hypothesis that no speed is negative, without which it is
false.

**`VcClient_proofs`.** All the invariants of the run, for any callers, ports, headers,
waiters and contexts. `WaitersAlwaysMatch` rests on `RequestInv`: a request that is
waited for is in exactly one place, on its way, with the VideoCore, in the reply or
in the waiter, and whoever waits has a waiter of his own (`WaiterInv`, `PoolInv`).
`ServiceAlwaysKept` rests on `UseInv`: the two counts are the numbers of components
and calls that need the service. `TransfersAlwaysInOrder`, on `TransferInv`: the
transfers queued, and the one whose sender has the bulk lock, come in the order of
the messages that announce them, and on `SweepInv`: no header that was sent before a
flush is behind it. `DisableAlwaysFindsAll`, on `PlaceInv`, `ContextInv` and
`DisableInv`: the reply to a disable is behind the headers it sends back.
`NoneStranded` is inductive by itself (`NoneEverStranded`). Order in a queue is
`Before(s, a, b)`; that it is a strict order, and what `Append`, `Tail`, `\o` and
`SetToSeq` do to it, are lemmas about sequences at the head of the module.

**`VcosEventFlags_proofs`.** `EachWokenOnce` (`WokenOnce`) and `TimerEndsFirst`
(`TimerInsideGet`) for any threads, events and requests. `LockInv`: the lock is held
by the thread that links a request or walks the list, and by nobody else.
`TimerInv`: a timer and its routine belong to the get that armed it. `ListInv`: a
thread has one request in the list. `OneWakeup`: a thread in a waiting get is linked,
has its semaphore posted, or has a timer about to post it, one of the three; a
timer's unlink keeps it because it posts only for a request it found in the list.
`WalkInv`: what the walk of a set has passed is not satisfied by the events. The
last one is needed for `ImplementsFlags`, the refinement of `EventFlags`: while a set
walks, the threads it is still going to wake (`Doomed`) already count as answered,
and what they consume as gone, so that `SetBegin` is the abstract set and the steps
of the walk are stutters. The unlink of a request by its timer is the abstract
timeout.

**`ClientGraph_proofs`.** `HeadersCorrect` (`HeadersAccounted`), `DestroyCorrect`
(`DestroyedIsQuiet`) and `WakeupCorrect` (`NoLostWakeup`), for any number of
connections, direct or not, any headers, component threads and faults. The
hypothesis is that a format change is reported once the connection is enabled.
The invariant has eight parts.

* `FrameInv` says which call may stand on which in the stack of a thread
  (`Ordered`), and on which thread. The components' threads are in a callback that
  returns a header, the client's is in a call of its own; all frames of a thread
  are at one connection.
* `PlaceInv`: a header is in one place (`Alone`), and in some place once the pool
  fits or the connection is enabled (`Somewhere`).
* `CallInv` and `PortInv` tie the calls in progress to the flags: what each has done
  and what it has waited for, and that a port is enabled, holds a header or is
  returning one only while the connection is enabled, being enabled or in the call
  that waits for it. So no two threads are in calls at one connection
  (`OthersApart`), although a reconfiguration by the worker and the calls of the
  client take no common lock.
* `PhaseInv` gives the reason: the client and the worker are never at one
  connection. The worker is gone when the client disables, and a connection that
  the client has yet to enable is in no hands of the worker's (`Untouched`). Here
  the hypothesis is used: an early event would put it there.
* `DestroyInv`: a connection that is destroyed has been disabled by then.
* `WakeInv`: whatever waits in a queue has a post, a callback or a place of the
  worker's pass that will see to it, and the queue of a direct connection is no
  longer than the number of callbacks on their way.

There is a lemma per action and part (`...Place`, `...Calls`, `...Phase`,
`...Destroy`, `...Wake`), and one per action that puts them together (`...IInv`). A
resize is safe because `CleanIs`: at an enable with a pool that does not fit no
header of it is anywhere.

Only model-checked: liveness under fairness, which is beyond the prover, and with
it the runs' properties `NoLostWakeup` (of the queue), `DisableReturns`,
`EventuallyDestroyed`, `CallsReturn`, `GetsReturn` and `DestroyReturns`. The
counterexamples of the two runs that expect one are TLC's.

## Not modelled

* **In MMAL:** clock ports (`mmal_port_clock.c`), which turn calls of the clock into
  buffers and back; the splitter, the scheduler and the other components beyond
  their contract (the splitter does not hold to what one would state of it, see
  above); pool creation and resize with their layout; building a graph, the
  component made from a graph and the component wrapper; of the clock the request
  threshold and its setters; shared memory and opaque images of `vc/`. Components
  that are glue to FFmpeg, SDL or Android, and the utilities for parameters,
  formats and rationals, have no protocol of their own.
* **vcos:** the message queues, whose send and wait are the protocol of
  `mmal_queue`; block pools, free lists under one lock, in `VcClient` a count;
  mutexes, semaphores and threads on pthreads, taken as atomic primitives;
  logging, commands, strings and memory, which have no protocol.
* **VideoCore services** (`vmcs_host`), **vchiq**, **Khronos client libraries:** remote
  procedure calls under a lock per service; the peer that gives them a meaning is
  the firmware or the kernel driver, outside the repository.
* **Containers:** 45,000 lines of sequential parsers of media formats.
* **Host applications and libraries, device tree overlays:** command line programs,
  examples, wrappers of ioctls, and a sequential transformation on a vendored
  library.

By size most of the repository is in the last three: the models cover the code
with state shared between threads, which is a small part of its lines.

## Plan

Done: every module of the first plan except the pool's layout, the splitter and
the message queues, for the reasons above, and a proof of every safety invariant
that a run checks. Next, in order of worth:

1. Models of the clock ports, of the pool's resize with its layout, and of calls
   that wait for the thread they are made on (a disable or a release from a
   callback, a request on the VCHIQ thread).
2. Early format changes: a run of their own beside `graph`, and a change of
   `mmal_connection_enable` to check that keeps the worker out of it.
