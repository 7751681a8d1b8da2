# A TLA+ model of rlib

rlib is a C library: threads and task queues, data structures, an event loop
with TCP, UDP and resolver sources, TLS and DTLS, HTTP, SRTP, the transports of
WebRTC, and the cryptography and codecs these need. This directory models it.
The modules are translated from `src/rlib` and `src/include/rlib`; `PROJECT.json`
says under `map` which lines each definition stands for, under `hazards` what can
go wrong where and which property would notice, and under `components` what is
modelled of every part of the library.

    tlc -config X.cfg M     # a run; the table in section 3 names X and M
    tlapm M.tla             # the proofs of module M, section 5

## 1. The system and its parts

| Part | Source (`src/rlib/`) | Modules |
|---|---|---|
| Task queue | `concurrency/rtaskqueue.c` | `TaskQueue`, `TaskQueueProofs`, `TaskQueueWakeProofs` |
| Thread pool, thread objects | `concurrency/rthreadpool.c`, `rthreads.c` | `ThreadPool`, `ThreadPoolProofs` |
| Event loop, clock, wakeup | `ev/revloop.c`, `rclock.c` | `EvLoop`, `EvLoopProofs` |
| Timeout list | `data/rtimeoutcblist.c` | `TimerQueue` (abstract), `TimeoutCBList` |
| Watchers | `ev/revloop.c`, `ev/rev-private.h` | `EvIO` |
| TCP, UDP, resolve sources | `ev/revtcp.c`, `revudp.c`, `revresolve.c` | `EvTCP`, `EvTCPProofs`, `EvUDP`, `EvUDPProofs`, `EvResolve` |
| References, hazard pointers | `rref.c`, `data/rhzrptr.c` | `Reclaim`, `ReclaimProofs` |
| Ring queue | `data/rqueuering.c` | `RingQueue` (with the abstract FIFO), `BoundedProofs` |
| Other containers, strings | `data/`, `rstr.c` | `Containers`, `Str` |
| Memory and buffers | `rmemallocator.c`, `rbuffer.c` | `Buffer` |
| TLS | `net/rtlsclient.c`, `rtlsserver.c`, `net/proto/rtls*.c` | `TLSCommon`, `TLSClient`, `TLSServer`, `TLS` |
| DTLS 1.3 | the same files | `ReplayWindow`, `DTLS13`, `BoundedProofs` |
| Session tickets | `net/rtlssessiontickets.c` | `SessionTickets`, `BoundedProofs` |
| HTTP | `net/rhttpclient.c`, `rhttpserver.c`, `net/proto/rhttp.c` | `Http` |
| ICE and TURN | `rtc/rrtcicetransport.c` | `Ice`, `IceTurn` |
| SRTP, transports, listener | `net/rsrtp.c`, `rtc/` | `Media` |
| RTP, RTCP, STUN packets | `net/proto/` | `Wire` |
| Big integers | `data/rmpint.c` | `Mpint` |
| Ciphers, digests, public keys | `crypto/` | `CryptoNum`, `Symmetric`, `PublicKey` |
| ASN.1, X.509, PEM, trust | `format/`, `crypto/` | `Asn1`, `X509` |
| JSON, Unicode | `format/`, `charset/` | `Json` |

`MCNet`, `MCRtc`, `MCData`, `MCCodecs` and `MCFormats` compose these for TLC.

How the parts interact. A task queue is one pool of workers plus one queue per
group. The event loop owns a task queue; a task's completion comes back from a
worker through a mutex-protected list and the wakeup handle. The loop keeps its
timers in a timeout list and calls the watchers whose handle epoll reports. A TCP
connection is a watcher with up to two callback nodes and puts its deferred work
(stop a node, finish a close) in the loop's callback queues; a UDP source is a
watcher with one node, or overlapped operations with the kernel. HTTP and TLS run
on a connection, DTLS and ICE on datagrams, and SRTP takes its keys from DTLS. All
of these call the program back, and the program may call any of them from there:
most of what is interesting happens in such calls.

## 2. Modules

An action or operator has the name of the C function it stands for where there is
one. A critical section that does not block is one action; a condition variable is
the set of threads asleep on it; where threads share memory without a lock
(`Reclaim`) every atomic access is one action. Variables called *history* are not
in the code: they record what a property speaks about. A definition under a comment
`mutant:` is not part of the model. It is a plausible mistake in the definition that
follows it, and shows that a property can be violated.

**TaskQueue.** `state`, `group`, `dep` are the fields of `RTask`; `q`, `running`,
`threads`, `mutex`, `cond` those of `RTQCtx`; `waiters` the sleepers on
`wait_cond`. A worker goes through the stretches of `r_task_queue_loop` between two
points at which another thread can run. Clients add dependencies, dispatch, wait and
cancel; then the last reference is dropped, and `r_task_queue_free` stops each group
and joins the pool. A task is dispatched once, as its header asks.

**ThreadPool.** `waiting`, `active`, `done`, `running` are the pool's fields, `refs`
the reference count of every `RThread`. Starting is cut at `r_cond_wait`, joining
after it has copied and released the lists. Starts do not overlap (section 4); joins may.

**TimerQueue, TimeoutCBList.** `TimerQueue` is the promise: entries in order of
their deadlines, from which an update removes a prefix. `TimeoutCBList` is the linked
list with `next` and `prev` of every entry; the entry being fired stays linked while
its callback inserts and cancels. `ImplementsTimerQueue` is the refinement.

**EvLoop.** `pc` goes through the stages of `r_ev_loop_run`; `incb` says that a
callback made at this stage has not returned, and then the program may call the loop
(`Calls`). `acbs` and `bcbs` are the callback queues, `calling` the list detached by
`r_cbqueue_call_pop`, `lcall` and `lkeep` the progress of `r_cbrlist_call`. Workers run
`r_ev_loop_task_proxy`.

**EvIO, EvTCP, EvUDP, EvResolve.** `EvIO` has one watcher: its nodes, its epoll
subscription, and whether the kernel has it in the ready list (edge-triggered: a
handle enters the list when something happens to it, and a wait that reports it takes
it out). `EvTCP` adds the connection, the kernel's socket and the peer; a buffer has
`BufSize` chunks, so that a kernel that takes a part of one can be told from one that
takes all. `EvUDP` has the readiness and the completion backend: `s` is the struct with
its references, `k` the kernel with the operations in flight, `pc` where the loop thread
is in the handlers. `EvResolve` has the creating thread, the worker and the loop.

**Reclaim.** `r_ref_unref` and the weak references of `rref.c` with their lock bit and
list, and the hazard records of `rhzrptr.c`, one atomic access per step.

**RingQueue, Containers, Buffer.** `RingQueue` has the two indices as the code keeps
them (they may rest one past the end) and `ImplementsFifo` the bounded FIFO. In
`Containers` an operation maps a container's record to the record after it: probing,
tombstones and growth of the hash table, links of the lists, ranges of the arrays, words of
the bit set, nodes of the tree. `Buffer` is a heap of chunks with references, views and lock bits, and
buffers as sequences of chunks.

**TLSCommon, TLSClient, TLSServer, TLS, DTLS13, ReplayWindow, SessionTickets.**
Cryptography is symbolic: a secret is a tuple of its label and what it was derived
from. A client or server is a record; an operator gives it after the function of that name.
`TLS` puts the two ends on a stream under configurations of versions, resumption,
early data, retry and authentication, and adds the application's calls. `DTLS13` is the
datagram layer: reassembly, epochs, acknowledgements, retransmission, key updates, over a network
that loses, repeats and reorders.

**Http.** Message framing (length, chunks, until close), the client with its pool,
retry and timeouts, and the server with pipelined and deferred requests. A body is
a sequence of pieces that may arrive one by one.

**Ice, IceTurn, Media.** `Ice` has two agents with check lists, role conflicts,
retransmission, nomination and framed TCP; `IceTurn` the TURN client against a server that
expires what is not refreshed; `Media` the SRTP contexts with packet index,
replay window, MKI, rekey and EKT, and the listener that routes packets.

**Mpint, CryptoNum, Symmetric, PublicKey, Asn1, X509, Json, Str, Wire.** Pure algorithms as
operators. `Mpint` has digits of 3 bits and keeps the stale digits past `used`. The schemes of
`PublicKey` compute with integers on toy keys and curves; block ciphers,
compression functions, carry-less multiplication and random draws are parameters.

**MC modules.** `MCNet`, `MCRtc` and `MCData` have a variable `which`: a behaviour is about
one part, and the variables of the others keep one value, so the states of a run are
the sum of those of its parts. In `MCData` a ghost `g` beside each container is
what a plain sequence, set or function would hold. In `MCCodecs` a behaviour
takes one case of one kind and answers it; the `Right` operators compare the answer of the code
with the reference definition. `MCFormats` holds the cases of the formats. The ASN.1 decoder is also walked: its caller
goes in, out and on over every short input.

## 3. Runs

| Run (`cfg`, module) | Properties | Shows |
|---|---|---|
| `taskqueue` (`TaskQueue.cfg`, `TaskQueue`) | `DepsFinished` | a callback runs only after its task's dependencies |
| | `NoMissedCompletion`, `NoLostWakeup` | no waiter sleeps on a finished task, no group of workers on a task it can pop |
| | `FinishedStays` | finished tasks stay finished and are not started |
| | `CallersServed`, `FreeTerminates` | dispatched tasks finish and calls return; `r_task_queue_free` ends |
| `evloop_tasks` (`EvLoopTasks.cfg`, `EvLoop`) | `WokenForDone` | the loop never sleeps on a completion it was not woken for |
| | `DrainsSafely` | a loop that returned as drained has no task out; a worker never uses a freed loop, even when the program gives the loop up while tasks are out |
| | `QueuedRuns`, `StopReturns` | done callbacks and queued callbacks run; a stop from a callback ends the run |
| `evloop_timers` (`EvLoopTimers.cfg`, `EvLoop`) | `NoAbort`, `PassServes` | the loop's assertion on the deadline holds; timers fire or are cancelled, and a hook is called until it returns FALSE, whatever hooks add while their list is walked |
| `evtcp` (`EvTCP.cfg`, `EvTCP`) | `DataInOrder`, `ClosesCleanly` | bytes in order and flushed before the FIN; one callback per accepted close, none after it, no freed node used |
| | `Progresses` | sends and closes complete, input is delivered |
| `net` (`Net.cfg`, `MCNet`) | `Agreement`, `Authenticated`, `NoSpuriousFailure` | TLS ends agree on version, suite, protocol and secrets, through key updates; who counts as authenticated has proved a key; fitting ends do not abort |
| | `InOrderOnce`, `Completes` | TLS and DTLS data in order and once; handshakes and requests do not stall, a lost DTLS datagram included |
| | `OwnResponse`, `PoolSound` | a request gets its own response whole; a pooled connection owes nothing |
| | `Served` | a UDP source accounts for each datagram and reference and does not sleep on work; a lookup is answered once |
| | `ReplayRefused` | a 0-RTT hello is not accepted twice before its expiry but after an overflow; tickets open as long as promised |
| `rtc` (`Rtc.cfg`, `MCRtc`) | `Established`, `Delivered`, `NoDangling` | two ICE agents connect in opposite roles under loss and conflict, deliver, and use no freed socket or context |
| | `Relayed` | the TURN client's allocation, permissions and channels are alive at the server; payloads keep their peer |
| | `ExactlyOnce`, `Routed` | SRTP takes each packet once across wraps, rekeys and EKT; only running receivers are called, each for its SSRC |
| `data` (`Data.cfg`, `MCData`) | `ContainersAgree`, `ChunksAlive` | containers and buffers hold what plain values would, notifiers ran once, chunks are referenced exactly |
| | `HandedOver`, `PoolAlive` | weak references are notified once, hazard records have one owner; the thread pool never uses what is gone |
| | `ImplementsFifo`, `ImplementsTimerQueue` | refinements of the ring queue and of the timeout list |
| `codecs` (`Codecs.cfg`, `MCCodecs`) | `CryptoRight`, `CodecsRight`, `KeysAndTrust`, `WalkSound` | algorithms against their references: arithmetic with every aliasing, schemes, modes, digests; codecs read back what they write; names and chains; the decoder stays inside what it entered and ends |

Four runs expect a violation; they are in section 4.

**Bounds.** Two tasks have a dependency, a chain across the queue and a cancel of
either; two workers, one that sleeps while the other works; two clients, one that waits
while the other cancels. Four list entries allow a head, a tail, one between them and one
inserted while another fires. Two tasks of the loop let one complete while the loop
handles the other's completion or sleeps. Two prepare hooks let one add the other while their list is walked, and the
callback beside the timer can schedule it between the timers of a pass and its wait. `MinDelay` keeps a timer's callback from asking
for another timer at once, which would keep one update going for ever. Room for one chunk makes
every second send block, and three buffers leave one queued behind it. `BufSize` is 1
in `evtcp`: that the kernel takes a buffer whole is an assumption there, and
`evtcp_short_write` shows it is needed. The plans of `TLS`, `DTLS13`, `Http`, `Ice` and
`Media` are the configurations a behaviour may start in (versions, what is lost, answers,
scripts of calls); each is one feature or one pair that meets in the code, and the
networks lose, repeat and reorder within them. UDP has three datagrams, room for one, one failure.
Containers see every sequence of five operations, with a table that grows within them. The constants that bound are commented where they are declared.
Where a theorem of section 5 states the property, the bound of its run does not matter.

**Deadlock** is checked in the TCP runs. The other systems really stop: all tasks done
and the queue freed, the loop returned, every plan carried out, a case answered.

**Fairness.** `TaskQueue`: strong fairness of every worker and of every call in
progress, since they compete for a mutex and a thread that keeps asking for it gets it in
the end; clients need not make calls. `EvLoop`: weak fairness of the loop thread, the
workers and the clock; callbacks return. `EvTCP`: weak fairness of the loop (`Dispatch`), whose wait
has to end only for an event of the socket or when `acbs` is not empty, and of the kernel sending what it has taken (`Drain`), that is, a peer that reads; the
program's own calls, the peer's data, end of stream and reset are never forced. The other runs state
progress as safety: in a state where nothing is under way and no timer runs, what was asked for has
been answered (`Completes`, `Established`, `Relayed`).

## 4. Where code and documentation disagree

Four disagreements have a run in which TLC finds the quoted statement violated. The
quotations are in `PROJECT.json` under `findings`.

| Run (`cfg`) | What the code does |
|---|---|
| `taskqueue_cross_group` (`TaskQueueCross.cfg`) | finishing a task never wakes another group, so a dependent there can stay queued for ever |
| `evtcp_short_write` (`EvTCPShortWrite.cfg`) | the rest of a buffer the kernel took in part is dropped |
| `tls_split_record` (`TLSSplit.cfg`) | the server forgets the first part of a record that arrives in two |
| `sha512_pad` (`SHA512Pad.cfg`) | SHA-384/512 padding leaves room for one word of the length, and stores two |

Others are kept as specifications of the modules. To see one, check the property under
the specification with the constants of the configuration named.

| Specification, property (constants) | What the code does, and what it is said to do |
|---|---|
| `TaskQueue!Spec`, `CancelTrueMeansNotStarted` (`TaskQueue.cfg`) | `r_task_cancel` returns TRUE for started tasks; `rtaskqueue.h:103` says FALSE |
| `ThreadPool!ConcurrentSpec`, `PoolAlive` (as in `Data.cfg`) | overlapping starts fail the assertion of `rthreadpool.c:124` |
| `TimeoutCBList!EarlyInsertSpec`, `NoStalePointer` (4 entries) | a callback that schedules before its own deadline loses the entry and leaves the head at a freed one (`rtimeoutcblist.c:128`) |
| `TimeoutCBList!SelfCancelSpec`, `FiredNotCancellable` (4 entries) | a callback can cancel its own entry, which has fired |
| `EvLoop!StopOutsideSpec`, `StopReturns` (`EvLoopTasks.cfg`) | a stop from another thread does not wake a sleeping loop (`revloop.c:849`; `revloop.h:89`) |
| `EvLoop!NestedPrioritySpec`, `CallbackRuns` (two callbacks, no tasks) | a priority callback queued by one waits until the loop wakes; `revloop.h:109` says the next iteration |
| `EvLoop!AnyDeadlineSpec`, `NoAbort` (`EvLoopTimers.cfg`) | a deadline in the past fails the assertion of `revloop.c:819` |
| `EvLoop!CancelTaskSpec`, `DoneRuns` (`EvLoopTasks.cfg`) | a cancelled task has no done callback and keeps the loop from draining |
| `EvTCP!AnyPlaceSpec`, `ClosesCleanly` (`EvTCP.cfg`) | a close in a callback frees the next node of the dispatch, which was captured before (`rev-private.h:182`; the comment at `:173`) |
| `EvTCP!RestartSpec`, `Progresses` (one buffer) | data that came while receiving was stopped is not delivered after a restart (`revloop.c:1221`) |
| `EvTCP!CloseFailedSpec`, `Progresses` (two buffers) | a close after a failed send never completes |
| `EvTCP!LateSendSpec`, `LateSendRefused` (`EvTCP.cfg`) | a send is accepted between the flush and the teardown |
| `EvTCP!Spec`, `NoRecvAfterStop` (`EvTCP.cfg`) | the writable watch delivers data after receiving was stopped |
| `MCNet!FairUdpSpec`, `SendResumes` (`Net.cfg`, udp) | a datagram that met a full kernel buffer is never sent; `revudp.h:102` says `done fires on completion` |
| `MCNet!AnyThreadSpec`, `Served` (`Net.cfg`, resolve) | a lookup created on a thread other than the loop's may be answered before its creator holds it |
| `DTLS13!OvertakeSpec`, `NoGiveUp` (`Net.cfg`) | a client that gets a protected record before the ServerHello fails; `rtls-private.h:136` speaks of buffering the next epoch |
| `Http!Spec` with `SplitPlans`, `ResponseParsed` | a response head that arrives in two parts is refused (`rhttpclient.c:615`) |
| `MCData!Spec`, `GetFindsNode` (`Data.cfg`, tree) | `r_dir_tree_get` misses the leaf that insertion has made |
| `Reclaim!Spec`, `Reclaimed` (as in `Data.cfg`) | a displaced value that no record guards is dropped from the retired list, and `notify` is not called on it; `rhzrptr.h:91` says it is |

Because of these the passing runs use the parts under a discipline, stated in `Program`,
`Calls`, `Operation` or `Next` of each module: starts do not overlap, callbacks of the timeout
list neither cancel themselves nor schedule before their own deadline, the loop is stopped
from its own callbacks, priority callbacks queue no others, a connection is not closed from the callback of its first node while
another follows, UDP receiving is not stopped in the receive callback, and so on.

Smaller places where the model follows the code and a reader might expect otherwise; the
properties leave them out by name or the cases avoid them.

- *Event loop.* `r_cbrlist_call` puts back the hooks that returned TRUE when it has called all, and a hook
  added to that list meanwhile is forgotten: `HooksRun` speaks of the hooks added from anywhere else. A program
  that drops its reference to the loop before a task completes leaves the done callback uncalled, so `QueuedRuns`
  asks for a loop that runs.
- *Timeout list.* While an update runs the list is not well linked, so `ImplementsTimerQueue` is about what the
  program sees of it: `NoStalePointer` and `WellLinked` speak of the pointers under the discipline below.
- *HTTP.* An error response may overtake the answers of deferred pipelined requests;
  `keepalive` belongs to the connection and a pipelined request overwrites it; end of stream
  right after a request closes before its deferred response; a retried request may be handled twice.
- *TLS, DTLS.* Early data accepted before a HelloRetryRequest ends in an alert; a closed
  server drops a KeyUpdate; a lost acknowledgement of a last flight and a lost KeyUpdate are not
  made good; TLS 1.3 sends no CertificateRequest in the handshake when one is required.
- *ICE, TURN.* A 487 switches the role whatever it is by then; `nominated` stays set; a
  lost CreatePermission and an unbound channel are not retried; after close an agent may still touch
  a borrowed socket, so `NoDangling` ends there.
- *SRTP.* A packet exactly the window's size behind the newest is accepted again; a roll of
  the SPI resets the replay window, and a late EKT field can reinstall an older key.
- *Containers.* Clearing a run of more than 8 bits sets it (`rbitset.h:110`); fast removal of a
  range assumes that enough entries follow; `r_string_reset` leaves the length.
- *Buffers.* Shrinking cuts a chunk other buffers share; appending a view of given size
  is right from offset 0; taking more chunks than fit releases some twice; a write map over
  several chunks is a copy that is lost. `MCData` calls these only where they are right.
- *Numbers and text.* A 64-bit numeral out of range is not noticed (`rstr.h:85`); splitting with
  `max` 0 (`rstr.h:409`); the value returned for RANGE (`rstr.h:498`); where a conversion from UTF-16
  may be resumed (`runicode.h:55`); `r_mpint` operations are exact for non-negative values, shifts of
  less than a digit or whole digits, and inverses of numbers other than 0; an HMAC accepts updates
  after it was finished (`rhmac.h:126`).
- *Formats.* JSON accepts leading zeros and a trailing comma, and malformed input can meet an
  assertion; an ASN.1 child may overrun its parent; X.509 export omits a path length of 0, policy
  constraints and anyEKU, and writes RSA only; the trust path is built greedily; STUN needs a
  first attribute before integrity can be verified.

## 5. Proofs

Checked by TLAPS for every value of the constants that satisfies the named assumption.
TLC evaluates the assumptions of the run modules; the inductive invariants were checked
by TLC on the instances of section 3 before they were proved.

| Module, theorem | Statement |
|---|---|
| `TaskQueueProofs` `TypeCorrect` | types; `ctx->threads` never goes below zero |
| `OneShotCorrect` | no task's callback is entered twice |
| `DepsFinishedCorrect` | `DepsFinished` |
| `OverlapCorrect`, `BusyOwnersCorrect` | a dependency executing next to its dependent was cancelled; a running task has one worker |
| `NoMissedCompletionCorrect`, `FinishedStaysCorrect` | `NoMissedCompletion`, `FinishedStays` |
| `TaskQueueWakeProofs` `QueueOrderCorrect` | a queued task is behind its queued dependencies of the same group |
| `NoLostWakeupCorrect` | `NoLostWakeup`, with one group |
| `EvLoopProofs` `LoopTyped`, `LoopWokenForDone`, `LoopNeverAborts`, `LoopDrainsSafely` | the shape of the state; `WokenForDone`, `NoAbort`, `DrainsSafely` |
| `ThreadPoolProofs` `PoolAlwaysAlive` | `PoolAlive` |
| `ReclaimProofs` `AlwaysHandedOver` | `HandedOver` |
| `BoundedProofs` `RingImplementsFifo` | `ImplementsFifo`: every ring implements the bounded FIFO |
| `WindowExact` | the DTLS 1.3 window takes a number exactly when it was not taken before and is not too old to tell |
| `ReplaysRefused` | `ReplayRefused`: strike register and ticket keys of every size |
| `EvTCPProofs` `ClosesOnce` | each accepted close or abort is answered once or superseded by an abort, no callback follows a close callback, no freed node is used; whatever the kernel takes |
| `TcpDataInOrder`, `TcpClosesCleanly` | `DataInOrder`, `ClosesCleanly`, when `BufSize` is 1 |
| `EvUDPProofs` `UdpSendAccounted` | `SendAccounted` of `EvUDP`: each datagram is sent at most once and in order, is one of queued, done and dropped, and is notified exactly once |
| `UdpServed` | `Served`, `RefsExact` and `QuietAfterStop` of `EvUDP` |
| `UdpFreedLast` | a freed source has nothing queued, in flight, registered or running, and every datagram was notified |

**Assumptions.** `TaskQueueAssumption` (finitely many workers, each in a group, distinct
names), `EvLoopAssumption` (finite sets of tasks, timers and watchers, known modes),
`ThreadPoolAssumption` and `RefAssumption` (finitely many threads), `WindowAssumption`,
`TicketAssumption`, `SizeAssumption`, `ItemsAssumption` (sizes are positive, the null item is no
item), `EvIOAssumption` and `EvTCPAssumption` (node ids are positive, bounds are numbers). `EvUDP` is
only instantiated by its run, so `UdpAssumption` (a node id exists, `MaxFail` and `Room`
are numbers) is a hypothesis of its theorems; `MaxSend` and `MaxIn` are not restricted at all.
Theorems speak of the initial states and steps of the runs, with the same discipline of the program;
fairness is not needed for any of them.

**Arguments.** None of the properties is inductive alone.

- *Task queue.* `IntTypeOK` has `threads` an integer; that it is natural follows from
  `ThreadsExact` (the count is the number of workers of the group between start and exit).
  `TaskInv` adds to single execution that a task not started has not run and that no two
  workers hold one task; `TaskEffect` says once what a step can do to a task. `WaitInv`
  ties the sleepers on `wait_cond` to unfinished tasks. `QueueInv` orders each queue by
  dependency and makes `WakeInv` inductive: when all workers of the group sleep, its queue is empty. A worker that
  finds nothing to pop in the only queue leaves it empty or leaves a colleague busy with the
  dependency the head waits for (`SleepFact`), who will look at the queue again. With two groups this
  fails, as `taskqueue_cross_group` shows.
- *Event loop.* `LoopType` is the shape of the state. `Woken` says that completions not yet
  taken have their wakeup pending at every stage but the one that has just read it and is about to take them.
  `PassInv`: between the timers of a pass and its wait no deadline is before `loop->ts`. `DrainInv`: `tqitems` counts
  the tasks out, the references are those of the workers plus the program's own while it holds the loop, and a finished
  task has its done callback in one list, once.
- *Thread pool.* `PoolInv`: every thread is in the place its program counter names (`Placed`),
  whoever starts a worker is alone and waits for it (`Starting`), the copy of a join has every worker
  still there (`Joining`); `Counted` adds up the references, over lists without duplicates.
- *References.* `RefInv`: the count is exact (`RefCounted`), the lock bit has one writer whose reading of the
  list is current (`Locked`), and the registrations that stand are in the list, then in the hand of the last
  `r_ref_unref`, then called (`Standing`). `HzrInv`: a record with an owner is in use and has only one.
- *Ring, windows, tickets.* `RingInv` places the indices; the contents are computed
  from them and compared with the FIFO's after each step. `Remembers` relates the bits to the set
  of accepted numbers. `KeysInv`: the store holds the newest keys, newest first; `StrikeInv`: a
  hello accepted and not expired is still in the register (`Kept`), or a full register pushed it out (`Evicted`).
- *TCP.* `CloseInv` = types, that nothing closes unasked (`Requested`), that the FIN
  finds the queue empty and a close left with buffers has failed (`Flushed`), that the captured next node is
  registered (`NextAlive`), that nothing is left to call when the close callback is queued (`Quiet`), and the
  account of callbacks. `DataInv` adds to `DataInOrder` that the queue holds no more buffers than were accepted.
- *UDP.* `UdpInv` = types, where callbacks return to (`Returns`), the watcher and the overlapped
  receive (`Watched`), one active sender on the completion backend (`OneSender`), the exact
  references (`RefsExact`) and the account of datagrams (`Datagrams`). The account is a predicate of
  plain sequences (`Accounted`: the queue holds the last numbers, those before it are done or dropped,
  all notified but the one whose callback runs), and each way to change it is a lemma without state
  (`Queued`, `Posted`, `Completed`, `Notified`, `Dropped`, `HeadDropped`, `Cleared`). `RefsExact` is what shows that the
  last reference is dropped with nothing in flight, and so that `Cleared` loses no datagram that is on its way.

**Only model-checked.** Liveness under fairness and `ENABLED` are outside the prover, so
`CallersServed`, `FreeTerminates`, `QueuedRuns`, `StopReturns`, `PassServes` and `Progresses` stay with TLC. What a recursive
definition computes for every input needs induction over data, which the installed provers cannot do: this leaves the
refinement of the timeout list (its walks are recursive functions), the containers and buffers, and all of the
codecs and cryptography to TLC. `TLS`, `DTLS13`, `Http`, `Ice`, `IceTurn` and `Media` are large record
machines with recursive operators over their queues and are model-checked on their plans.

## 6. Left out

Not modelled: SDP, sockets and addresses, the poll set, atomics and locks as such, `ROnce` and
thread-specific storage, binary formats, files and the operating system, random numbers, logging,
argument parser, test framework, library initialisation. Each is a wrapper of system calls, a sequential
text or layout reader, or a single instruction; `PROJECT.json` has the reason for each. Of the modelled parts:

- *Task queue*: reference counts of tasks; pinned constructors; a last reference dropped by a worker.
- *Thread pool*: names, affinity, a thread that cannot be created.
- *Event loop*: the kqueue, poll and IOCP waits; the test clock; what `r_ev_loop_free` tears down (the count that leads to it is modelled).
- *Sources*: TCP connect, listen, accept and its overlapped backend; the references of a connection.
- *TLS*: DTLS 1.2 has no network of its own; field parsers are abstracted to the values they carry.
- *HTTP*: virtual hosts, name checks, settings, URIs. *RTC*: parameters and descriptions.
- *Numbers*: text and binary forms of big integers, `swap_ct`, secure flags.
- *Ciphers*: AES rounds, compression functions, Keccak, carry-less multiplication (parameters).

Some 220 mapped definitions, standing for about 3,460 of 44,000 mapped lines, are translated but
reached by no run: accessors, wrappers and variants in `Str`, `Containers`, `PublicKey`, `X509`, `Wire`, `Json`,
`Asn1`, `Mpint`, `Buffer`, `RingQueue` and `Symmetric` (among them the rest of the hash set, `strcpy`-like functions of
`rstr.c`, key getters and binary constructors, `r_mem_mergev`, the random prime search, the `_dup` forms of UTF conversion). Nothing
is claimed about these.
