# Verification of potential-carnival

potential-carnival is an experiment in MMO design: a UDP server and a terminal
client, both built on one class that watches a UDP port. This directory holds a
TLA+ model of the program, the TLC runs that check it on small instances, and
TLAPS proofs about it. Paths in this file and in the modules are relative to the
root of the repository (`src/util/...`); in `PROJECT.json` they are below the
directory the repository was checked out in.

## 1. Inventory

### Components, their state, how they interact

| component | source | state | operations |
|---|---|---|---|
| `udp_port_watcher_t` | `src/util/udp_port_watcher.h` | socket, `m_rx_deque`, `m_tx_deque`, two strands, `m_running`, two threads | constructor, destructor, `set_running`, `do_receive`, `handle_receive`, `do_send`, `handle_send`, `packet_to_event_loop`, pure virtual `on_packet_received` |
| `blocking_deque` | `src/util/blocking_deque.h` | a `std::deque` under a mutex | each member function is one critical section |
| packets | `src/util/packet.h` | 1024 bytes and an endpoint | type, client ident, full client ident, bodies |
| `server` | `src/server/server.h` | `m_sessions` | `on_packet_received`, `get_or_create_session` |
| server main | `src/server/main.cpp` | - | constructs the server, spins on `get_running()`, destroys it |
| `connection_to_server_t` | `src/client/main.cpp:103` | `ident`, `chat_messages` | `send*`, `on_packet_received` |
| client main loop | `src/client/main.cpp:178` | position, `move_queue`, `last_tick` | input, ticks, moves, heartbeat, position update |
| chat window | `src/client/main.cpp:347` | - | reads the last five of `chat_messages` |
| rendering | `src/client/main.cpp:48`, `315` | - | output only |
| asio `scheduler` | `ext/asio/.../detail/impl/scheduler.ipp` | operation queue, work counters, wakeup event, `stopped_` | `run`, `stop`, posting, work counting, waking |
| asio strands | `.../detail/impl/strand_service.ipp`, `.hpp` | per implementation: lock, ready and waiting queue | post, dispatch, completion |
| asio `epoll_reactor` | `.../detail/impl/epoll_reactor.ipp` | per descriptor: waiting operations, registered events | start, wait, perform, deregister |
| the rest of asio, BearLibTerminal | `ext/` | external | - |

Four parties act on a watcher: the *owner* (the thread of `main()`), the *io
thread* inside `m_io_context.run()`, the *packet thread* that calls
`on_packet_received`, and the *kernel* that completes socket operations. They
meet in the two deques, the two strands and `m_running`. Server and client
derive from the class and meet only on the network.

### Behaviour that is hard to test

- Two chains of asynchronous calls keep themselves alive: `do_receive` /
  `handle_receive` and `do_send` / `handle_send`. Each must go on after an error
  and must never fork.
- `empty()`, `front()`, `pop_front()` are three critical sections; another thread
  can act between any two of them.
- The threads start before the derived constructor runs, and are joined after
  the derived destructor has run.
- The constructor may throw half way, and swallows it.
- Datagrams are lost, duplicated and reordered; packets have no sequence number.
- Asio wakes threads by a signal sent after the unlock or by interrupting the
  reactor instead; counts work in several places; links operations into
  intrusive queues, once at a time; and hashes strands to shared locks.
- The session key mixes three integers of different width and wraps.
- A login changes the client's ident, hence its session key.

`PROJECT.json` lists every such hazard with its line and the properties that
would catch it, or why none does: of what the code simply lets happen (a position
that wraps, a login that is lost, an object destroyed under its callback) the model
has the behaviour, but nothing in the repository says that it should be otherwise.

### What makes each component correct

- *watcher*: each direction is a FIFO channel; one receive and one send at a
  time, for ever; the receive buffer is exclusive; threads end before the object;
  queued packets are handled and sent; destruction comes to an end.
- *asio underneath it*: no wakeup is lost, no operation is queued twice or
  forgotten, strands exclude, work never runs out, epoll's edges are not missed,
  and `stop()` ends every thread's `run()`.
- *packets / server*: different senders have different sessions; replies answer
  the sender; sessions and characters are not lost.
- *client*: moves are made one per tick and announced in order, after the login;
  once it stamps the ident of its login it never goes back to an older one; the
  loop never waits for the server; the chat window shows existing messages, the
  newest ones, leaving none out.
- *clients + network + server*: the server only knows positions that were
  announced to it; no chat message is lost, doubled or misdirected on its way back
  to its author; a login completes on a network that does not lose packets.

## 2. Modules

| module | models | status |
|---|---|---|
| `FifoChannel` | abstract: what a direction of traffic promises | done |
| `UdpPortWatcher` | `udp_port_watcher_t` with its deques, threads and owner | done |
| `UdpPortWatcherProofs` | theorems about `UdpPortWatcher` | done |
| `Scheduler` | asio's `scheduler`, open to any program | done |
| `SchedulerProofs` | theorems about `Scheduler` | done |
| `StrandService` | asio's `strand_service` | done |
| `EpollReactor` | asio's `epoll_reactor` with one datagram socket, and the kernel | done |
| `IoContext` | composes the three with the watcher's handlers and owner | done |
| `Counting` | how many entries of a queue are in a set | done |
| `CountingProofs` | lemmas about `Counting` | done |
| `MCIoContext` | instance for TLC (strand implementations) | done |
| `IoContextProofs` | theorems about `IoContext` | done |
| `Packet` | packet types, fields, full client ident | done |
| `PacketLayout` | the bytes of a packet | done |
| `ChatLine` | one packet byte for byte on its way into the chat window | done |
| `MCChatLine` | instance for TLC (packets, texts) | done |
| `Server` | `server::on_packet_received`, sessions | done |
| `MCServer` | instance for TLC (endpoints) | done |
| `ServerProofs` | theorems about `Packet` and `Server` | done |
| `GameClient` | `connection_to_server_t` and the client's `main()` | done |
| `MCGameClient` | instance for TLC | done |
| `GameClientProofs` | theorems about `GameClient` | done |
| `ChatWindow` | `size()` / `at()` against the packet thread | done |
| `ChatWindowProofs` | theorems about `ChatWindow`, `PacketLayout` and `ChatLine` | done |
| `Carnival` | composes `GameClient`, a network and `Server` | done |
| `MCCarnival` | instances for TLC: one client, two clients | done |
| `CarnivalProofs` | theorems about `Carnival` | done |

### UdpPortWatcher

Every locked operation of a deque, every handler of a strand and every
statement of the constructor or destructor that another thread can observe is
one action, named after the function; `packet_to_event_loop_front` is the
`front()` of `packet_to_event_loop`. The correspondence of state:

| variable | code |
|---|---|
| `owner`, `ownerPacket` | program counter of the owning thread; its `shared_ptr` inside `send()` |
| `running`, `stopped` | `m_running`; `m_io_context.stop()` was called |
| `ioc`, `sendPacket` | the io thread; local `packet` of `do_send` |
| `readStrand`, `writeStrand` | handlers posted through a strand, in order |
| `receiveOps`, `sendOps` | outstanding asynchronous operations |
| `rx`, `tx` | `m_rx_deque`, `m_tx_deque` |
| `worker`, `packet`, `reply` | the packet thread; its locals |
| `wire` | what the kernel took from a send operation last |

A packet is the identity of a `packet_t` object. `Referenced` is the set of
objects some `shared_ptr` refers to; `make_shared` takes an object outside of
it, so the model sees when an object is freed and reused.

The derived class is abstracted to what it can do with the watcher: use the
packet, send it back, or send a new one; `Server` says which. The virtual call
(`packet_to_event_loop_call`) and the callback (`on_packet_received`) are two steps:
the derived destructor may run between them. A call before the derived part
exists, a call after it is gone, and a callback that goes on when it is gone, end
the model's process (`"terminated"`), for their behaviour is undefined; so does
`join()` of a thread that was never started. The constructor's three throwing
places (socket, `set_option`, `std::thread`) each have a branch. Of asio this
module only says what it promises: `run()` takes a handler from either strand,
returns when stopped or out of work; an operation completes with or without an
error; `async_send_to` may complete at once. `IoContext` says how asio does it.

Not distinguished: the two strands could in principle run on several threads;
there is one, so at most one handler runs. Reading `m_running` and the atomic
store to it are single steps.

### Scheduler, StrandService, EpollReactor, IoContext

Asio is vendored in `ext/asio` and compiled into the program; every guarantee
the watcher rests on is made there. The build modelled is the one on Linux:
threads, locking concurrency hint (`one_thread_` is false), epoll, eventfd.

`Scheduler` is the queue and the threads in `run()`. A step is what is done under
`mutex_`; variables carry asio's names, and `pc` says where a thread is in
`do_run_one`. `unlock_and_signal_one` unlocks before it signals, so the signal is
a step of its own (`cond_signal`; `signalling` holds who owes one), and a
condition variable may wake for nothing (`spurious_wakeup`). What handlers do is
left open: `Calls` lets a completing thread, and the owner, make any call at any
time. So its theorems hold for every program, and `IoContext` is one of them
(`SchedulerUsed`, a lemma of `IoContextProofs`). `shutdown` empties the queue when nobody runs.

`StrandService` has only the operators: each is a critical section of an
implementation's mutex together with the `ready_queue_`, which belongs to the
holder. `EpollReactor` has one descriptor and the kernel's view of the socket:
`readied` is the edge-triggered entry of epoll's list, set by an arrival, by room
to send if EPOLLOUT has been asked for, and by `EPOLL_CTL_MOD`; `epoll_wait` takes
it. `start_op` tries at once (`start_op_done`), or fails to (`start_op_blocks`) and then
registers and queues (`start_op_waits`). These are two steps, for the kernel does not
care about the descriptor's `mutex_`: room or a datagram may come between them, and
another thread may hear of it. `tried` holds the operation in between and stands for
the locked `mutex_`, for which `perform_io` and `deregister_descriptor` wait
(`Unlocked`). `perform_io` completes what can be done when the descriptor,
itself an operation, is completed by a thread.

`IoContext` composes them with the watcher's constructor, four handlers and
destructor. `step` is where a thread is in completing an operation: `enter`,
`body` (a handler dispatched in place), `leave` (`on_dispatch_exit`), `finish` (the
`handler_work` goes), `cleanup` (`work_cleanup`, and everything outside an
operation). `due` is the operation a caller has decided to post and has not
yet; between the two any other thread may act. The deques are not there:
`do_send` may find `m_tx_deque` empty or not. The socket holds at most
`SocketBound` datagrams, and what the kernel drops is not a step.

### Packet and Server

`Packet` keeps the widths of integers: `U16` stands for 2^16 and the other widths
are powers of it, so that the shifts of `get_full_client_ident` (by 48 and by
32) become products with `U16 * U32` and `U32`, and the sum is taken modulo
`U64`. In `Server` one call of `on_packet_received` is one step (the packet thread
alone touches `m_sessions`), and its cases are one operator each. The input is
any packet with any type, ident and body from any of the endpoints, as the
server may be tested with `nc` (`src/server/main.cpp:8`). `users` is a history
variable: who was given a session. `do_send` stands for the sending half of the
watcher, which `UdpPortWatcher` shows to be a FIFO channel.

### PacketLayout and ChatLine

`PacketLayout` writes and reads integers at byte offsets as `ref<T>(index)` does,
little-endian, modulo the width. A byte has `U8` values. `ChatLine` follows one
packet after the other from constructor through `set_client_ident` and `set_type`
to the getters, and appends what arrives as a chat message to `ChatWindow`'s
deque; `given` remembers what the packet was made of. `Carries` says what a packet of
each type can be given. Texts longer than the buffer, for which `ref` would write
past its end, are not constructed: the behaviour is undefined.

### GameClient

Every variable is a function of the client, so that `Carnival` can have several.
`main` is the program counter of `main()`, `closing`, `character` (`c`),
`move_queue` and `greeted` are its locals; `call` and `packet` are the program
counter and the packet inside `send()`; `ident`, `chat_messages` and
`m_tx_deque` are the connection's members. `send()` is three steps, for the packet
thread may write `ident` between its two reads; `on_packet_received` is that
thread's step. `ident` starts with any value: the constructor does not
initialise it. Adding -1 to a coordinate is adding 2^32 - 1 modulo 2^32. A key
that changes no state (space, for `cast_spell` is empty, and all others) is the
choice that leaves everything as it is. Drawing and sleeping are not steps: a turn
of the loop ends after its tick (`NextTurn`). `main_exit` throws away the packets that
have not been sent; `main_start` runs the program again at the same endpoint.
On a data race of `ident` (the build reads and writes an aligned `uint16_t`) a
read returns the old or the new value.

### ChatWindow

A message is its index in `chat_messages`, which is never shortened, so the
deque is the number `arrived`. Each of `size()` and `at()` is one locked step.
`before` is a history variable: the size when the frame began.

### Carnival

`Carnival` extends `GameClient` and instantiates `Server` (its `m_tx_deque` is
`server_tx`). Its steps are the clients' own, and those that carry a packet over a
border: `client_sends` is a client's `do_send` together with the network taking the
packet, and so on. `to_server` and `to_client` are bags: any datagram may be
delivered next. `Network` says whether it may also lose and repeat them. The
strands, deques and threads between socket and `on_packet_received` are left
out on the receiving side, for `UdpPortWatcher` shows them to be a FIFO channel,
and the network in front of it reorders anyway. The server's endpoint is not one
of the clients'. `main()` of the client connects to 127.0.0.1 and binds port
4445, so on one machine there is one client at a time; the class takes any
address, so two clients run on two hosts. `announced` is a history variable.

`ChatIsConserved` counts the copies of a message that its author waits for: in its
own deque, on the network each way, among the server's replies and in its
`chat_messages`. On a network that loses nothing there are never fewer than the
author has said, and on one that repeats nothing, with clients that run once,
never more; on one that does neither, just as many.

## 3. Runs

| run | question | instance | result |
|---|---|---|---|
| `watcher` | types, chains, check-then-take, receive buffer, destruction; both directions implement `FifoChannel`; progress under fairness | 2 packets | 33,368 states, holds |
| `watcher_send_buffer` | is the buffer of a send kept alive? | 2 packets | violated: see findings |
| `io_context` | asio under the watcher: wakeups, queues, strands, work, epoll's edges | 2 threads, strands with one implementation or two, 1 datagram | 977,563 states, holds |
| `io_context_liveness` | progress under fairness, and after `stop()` | 1 thread, otherwise the same | 15,617 states, holds |
| `server_sessions` | replies, separation of endpoints, sessions persist | 3 endpoints, 2 idents, 2 replies waiting | 168,108 states, holds |
| `server_shared_key` | does the key tell all senders apart? | 3 endpoints, 2 idents | violated: see findings |
| `client_game` | what a client sends, and in which order; does its loop go on without the server? | 1 client, 3 keys, 2 moves and 3 packets waiting, a field across the wrap | 282,200 states, holds |
| `chat_window` | fields of packets read back; the window against appends | 5 rows, 7 messages; bytes of 8 values, all types, texts up to 9 bytes | 132,090 states, holds |
| `carnival_lossy` | positions and idents over several runs of the client | 1 client, 2 datagrams each way, lost and repeated | 3.4 million states, holds |
| `carnival_chat` | is a message lost, doubled or misdirected? | 2 clients with colliding keys | 1,231,770 states, holds |
| `carnival_login` | progress under fairness | 1 client, 2 datagrams each way | 65,524 states, holds |
| `carnival_ident` | does the login's ident find the session? | 1 client | violated: see findings |

Deadlock is checked in every run: a watcher may stop only in a final state, and
the whole program only when every client is closed and nothing is on its way
(`Terminating` in both modules).

*Bounds.* `Packet` bounds the heap of the watcher, hence the length of both deques.
With two packets a deque holds one while a receive is outstanding, or both when
none is; a freed packet is reused. The theorems of section 4 hold for every heap;
three and four packets have been checked as well (391,011 and 4,168,640 states for the
safety part) and take longer than they tell. `U16 = 2` makes a key of
four bits; the three endpoints are two ports of one address and an address
whose upper half meets the ident, so that keys collide and wrap. Two waiting
replies suffice to tell the order and the mix of replies.

Two threads in `io_context` are one more than the program has, and the fewest that
can miss each other's wakeups, hold a strand against each other or complete the
socket's two operations at once; the proofs about `Scheduler` are for any number.
Both ways to assign two strands to implementations are initial states. One
datagram in the socket separates ready from not ready; a second one would only
be received by the next `do_receive`. `U8 = 8` keeps texts that overflow the length
byte short enough for a buffer of 14 bytes, which is the longest text that is
constructed plus its header; the coordinates take all four of their bytes.

With `U16 = 2` a coordinate has four values; the client of `client_game` starts next to
the end, so its moves wrap. Three packets in its deque are the heartbeat and the
update of one tick and the heartbeat of the next, which `OneMovePerTick` tells
apart. In the runs of `Carnival` the player walks within `Field`, one step from
where he starts, for the position is only carried around there; two datagrams each
way overtake each other, one is the repetition of the other, or a late one of an
earlier run of the client. The two clients of `carnival_chat` have addresses that
differ in the bit the ident covers, so one's key with ident 0 is the other's with ident 1; each says
something else, so that the model can tell whose message it is (in the program
all say the same).

*Fairness* (`UdpPortWatcher!Fairness`). Weak fairness for the constructor and
destructor steps, the packet thread and the steps inside `do_send`: the
operating system schedules every thread that can run. Strong fairness for the
handlers of each strand: both strands share one queue of `io_context`, which is
first in first out, so a handler is not passed over for ever although each
strand disables the other's handler while it runs; `IoProgresses` shows this of
asio itself, also when both strands share one implementation. Weak fairness for the
completion of a send. None for the arrival of datagrams, for `set_running`,
`send`, or for the decision to destroy the object.

`IoFairness`: weak fairness of each thread, of each caller's signal and post, of the
owner once it is destroying, and of the kernel making room to send. None for the
arrival of datagrams, for spurious wakeups or for `stop()`. That `do_receive` is not
starved needs no strong fairness here: it follows from the order of asio's queues.

`GameClient!Fairness`: weak fairness for `main()` and for `do_send`; strong fairness for
the tick, since every turn of the loop takes 33 ms and 400 ms pass again and
again however the turns fall. Nothing is assumed of the player or of what
arrives. `CarnivalFairness` adds the server's sending and, for `LoginCompletes`
and `ChatComesBack` only, what "a network that loses nothing" means: a datagram of
the rare types (login, chat) that keeps being deliverable is delivered, and
one of the others likewise, so neither starves the other. That is an assumption
on the network and not something UDP gives; the runs with loss show what holds
without it.

## 4. Proofs

`UdpPortWatcherProofs` proves, for every set `Packet` (its only assumption is
that a null pointer is not a packet):

- `TypeCorrect`, `ChainsNeverFork`, `FrontIsTaken`, `BufferIsExclusive`,
  `LifeEndsInOrder`: the safety invariants of run `watcher`;
- `ReceivingRefines`, `SendingRefines`: its two refinements of `FifoChannel`.

`OneReceiveOneSend` is `ReceiveChain` and `SendChain`, `ThreadsLiveWithObject` is
`RunsUntilStopped` and `QuietAfterDestruction`; the proofs treat the parts. The
inductive invariant `IInv` is the conjunction of the checked invariants with
`LifeCycle`. None of them is inductive alone:
`ReceiveChain` needs to know that nothing has been posted before the constructor
posts (`LifeCycle`); `ReceiveBufferExclusive` needs `ReceiveChain` (when a handler
is queued no operation is outstanding) and `TakesTheFront` (what a thread picks
up was in the deque); `TakesTheFront` needs the types; `QuietAfterDestruction`
needs `LifeCycle` (the io thread is joined first). `ReadFrame`, `WriteFrame`,
`ThreadFrame` and `ControlFrame` say once which actions touch which part of the
state, so each preservation proof treats only those. The refinements use
`IInv` to know that at most one datagram is between socket and deque
(`OneReceive`) and at most one packet between deque and kernel (`OneSend`).

`SchedulerProofs` proves, for every set of threads and operations, whatever calls
handlers and owner make (assumed is `SchedulerAssumption`: the owner is no thread of
`run()`, the task is no ordinary operation):

- `SchedulerTypeCorrect`, and `TaskIsOnce`: the reactor is queued once or run once;
- `WakeupsAreKept`: `NoLostWakeup`, the invariant of run `io_context`.

`NoLostWakeup` is not inductive: a queue with something in it may rest on a thread
in `epoll_wait` that has been interrupted, or on a signal that is still owed. Its
first half is `QueueAttended`. `TaskPlace` is `TaskOnce`; the step that puts the task
back needs it. `Interrupted`: while a thread is in `epoll_wait`, the flag that spares
others the interruption is only set when the interrupter's event is there.
`StopIsSeen`: after `stop()` the event stays signalled and the flag set, so that no
thread goes to sleep afterwards. TLC checked the four on a bounded instance before
they were proved.

`IoContextProofs` proves, for every finite set of threads, every set of
implementations and way to assign the strands to them, and every capacity of the socket
(`IoContextAssumption`, and `SchedulerAssumption` of what it makes `Scheduler` of):

- `IoTypeCorrect`: `IoTypeOK`;
- `IoWakeupsAreKept`: `NoLostWakeup`, of the scheduler inside the program; what
  `SchedulerProofs` shows carries over because every step here is one that
  `Scheduler` allows (`SchedulerUsed`);
- `OperationsLinkedOnce`: `LinkedOnce`;
- `ChainsStayWhole`: `ChainsAreWhole`;
- `StrandsExclude`: `StrandExclusive`;
- `WorkIsKept`: `WorkLasts`;
- `EdgesAreKept`: `NoEdgeIsLost`.

The inductive invariant `IoSafe` is `IoTypeOK`, the scheduler's invariant, and `IoInv`.
`IoInv` has two halves. `PlaceInv` says where things are: what a thread holds at each
place of completing an operation (`ThreadPlaces`), that only it holds that
(`PrivateParts`), where the owner is and what it has made (`OwnerPlace`), in which
queues a handler may be (`HandlersPlaced`), that an implementation nobody has
locked has nothing ready (`UnlockedEmpty`), and that the descriptor is queued once and
ahead of the task, so that `epoll_wait` finds it dequeued (`DescriptorFirst`). `CountInv` counts: an
implementation is locked just when one caller holds it or it is queued
(`StrandLocks`); a chain has one operation in all of the queues together
(`ChainsAreWhole`); the shared and the private parts of the work counter add up to
the operations there are (`WorkCounted`), and `WorkLasts`. Each of these is a sum
over all callers, and a step changes it in the acting caller's part and in the
queues that it touches, so the proof of a step is a balance of a few terms. The
lemma that ties the halves together is `WorkThere`: while the watcher runs there is
work, and a thread that gives work back never gives back the last of it. What such sums need to know of queues is in `CountingProofs`
(`CountAppend`, `CountTail`, `CountConcat`).

`NoEdgeIsLost` has an invariant of its own, `EdgeInv`. It speaks of the operation that
has been tried in vain as well as of those that wait: if one of them could now be
performed, its event is in epoll's list or on its way to the descriptor, or it is a
write whose EPOLLOUT has not been asked for, so that the registration still to come
looks at the socket again. That the descriptor in the queue keeps its events while
`epoll_wait` takes new ones rests on `DescriptorFirst`; that a thread does not act on
them too early, on `Unlocked`.

`ServerProofs` proves, for every width `U16` above zero, every set of clients
and every bound on waiting replies:

- `SameIdentInjective`: packets with the same client ident have the same key only
  if they come from the same address and port. Address and port are the two
  digits of a number below `U64`, so no two endpoints give the same number, and
  adding the ident's summand modulo `U64` is injective, overlap or not;
- `ServerTypeCorrect`, `SessionsSeparateEndpoints`, `RepliesAnswer`,
  `SessionsAreKept`: the properties of run `server_sessions`.

The inductive invariant is `TypeOK`, `UsersKeyed` and `RepliesAreAnswers`.
`UsersKeyed` (each user's own key is the key of the session it was given) is only
needed for the proof: `EndpointsSeparated` compares users with each other and
says nothing of the one that arrives next; with `UsersKeyed` it follows from
`SameIdentInjective`. The lemmas `SessionStep` (what a call does to the map of
sessions) and `Handlers` (which character and which reply a call leaves behind)
divide the step; `SessionsPersist` follows from both. Assumed are
`U16Assumption` and `ServerAssumption` (clients are endpoints, the login ident is
an ident, a null pointer is not a character).

`ChatWindowProofs` proves `TypeOK`, `WindowIsCurrent` (`AtInRange` and
`RowsAreCurrent`) and `NoMessageSkipped` for every number of rows and messages
(`ChatWindowTypeCorrect`, `ChatWindowInRange`, `ChatWindowIsCurrent`,
`ChatWindowSkipsNothing`). The inductive invariant adds `FrameInv`: the rows still to
be drawn are no more than the messages there were when the frame began, so the index computed from a later size cannot underflow, and the index
main() holds was right when it was computed, which later appends do not change.

It also proves `FieldsReadBack` (`PacketsReadBack`), for every size of a byte above one
value and every buffer with room for a position update (`LayoutAssumption`,
`LineAssumption`).

`BytesOfInteger` is the arithmetic: the bytes of an integer of 1, 2 or 4 bytes,
weighed and added up, are the integer. `PutGet` makes of it that `ref<T>(index)` reads what
it wrote; `PutElsewhere` and `BodyIsApart` that header and fields do not overlap;
`TextReadsBack` is the case of a text, cut to its length modulo the byte. The
inductive invariant `LineInv` says of the packet on its way that each field reads back; that
the server's answer to a ping still does rests on a ping's having no body.

`GameClientProofs` proves, for every width, set of clients, greetings, keys and
bounds, `ClientTypeCorrect`, `UpdatesWalk`, `MovesArePaced` and `LoginIsFirst`: the
invariants of run `client_game`. Assumed are `U16Assumption` and
`ClientAssumption`. `ClientInv` says of each client that the sequence of packets it
has still to send is `Good` (the three properties, `Walk`, `Parted` and `Ordered`,
of a sequence and a place) and fits where `main()` is (`Stage`). `Stage` is what the
three lack to be inductive: before the login and after the end nothing is
pending, among the greetings nothing but login and chat, and when a move is about
to be made the last packet is no update, for a heartbeat has just been queued. A
step changes the sequence in four ways only: a packet is appended, an ident is
stamped into one (`IdentsDoNotMatter`), the oldest leaves (`TailIsGood`), or all are
thrown away. `MovedIsNear` is the arithmetic of a step over the edge of `uint32_t`.
The lemmas speak of a client that receives anything it can read (`Readable`),
so that they hold inside `Carnival` too.

`CarnivalProofs` puts the two together, for every number of clients and restarts,
every capacity of the network, and whatever it loses, repeats and reorders:

- `CarnivalTypeCorrect`: `CarnivalTypeOK`;
- `ClientsStaySound`: what `GameClientProofs` shows holds of the clients in it;
- `PlacesWereAnnounced`: `PositionsWereAnnounced`;
- `IdentsRise`: `IdentsNeverGoBack`;
- `MessagesAreConserved`: `ChatIsConserved`.

The inductive invariant `CarnivalInv` adds to the invariants of client and server
`TrafficInv` (a position update on its way was announced by the endpoint it
comes from; a login reply, waiting or on its way, carries `LoginIdent`) and
`Marked` (a packet inside `send()` that is not stamped yet carries ident 0). With
them a login reply that comes late or from an earlier run of the client can only
write the ident that is there, and the packet that `send()` leaves unstamped meets
none stamped before it, for the ident it read was 0 and `LoginIdent` is not. That,
`ServerAssumption` and the assumptions of the clients are assumed
(`CarnivalAssumption`); `ServerAssumed` shows that `Server` is given what it asks for.

`ChatIsConserved` is its own induction hypothesis, together with `Counted`: in each
direction there are finitely many datagrams of every kind, without which their
number would mean nothing. `Balance` states the principle once: if the five terms of
`Copies` change by p, s, t, r and h, it is their sum that counts. Then each action
is a transfer between two of the terms (`ClientSendsConserves`,
`ServerReceivesConserves`, `ServerSendsConserves`, `ClientReceivesConserves`), a
message said (`MainSays`, `ClientStepConserves`), or the network's doing
(`NetworkConserves`). That the answer goes to the author whatever session the
packet met (`EchoCounts`) is why the keys of two clients may collide.

Model-checked only is everything under fairness, since ENABLED and liveness are
beyond the prover: `NoPacketIsStranded`, `KeepsListening`, `DestructionCompletes`,
`IoProgresses`, `StopEndsRun`, `KeepsTicking`, `LoginCompletes` and `ChatComesBack`. Every other
property of the passing runs is also proved.

## 5. Findings

1. `do_send` (`src/util/udp_port_watcher.h:96-101`) does not keep the packet
   alive until the send completes, as asio demands
   (`ext/asio/include/asio/basic_datagram_socket.hpp:604-606`). `do_receive`
   does. Run `watcher_send_buffer`.
2. `get_full_client_ident` (`src/util/packet.h:90`) shifts the address by 32
   where the comment above it describes a 16 + 32 + 16 bit key, so address and
   ident overlap and different senders can share a session. Run
   `server_shared_key`. Senders with the same ident are still told apart
   (`EndpointsSeparated`).

3. Every login is answered with ident 4444 (`src/server/server.h:81`), which the
   client stamps on its later packets ("Ident + Session tracking",
   `src/client/main.cpp:174`). The ident is part of the session key
   (`src/server/server.h:57`), so those packets reach another session, one without a
   character, and position updates are dropped - unless the uninitialised ident
   happened to be 4444. Run `carnival_ident`.

## 6. Not modelled, and why

- Rendering, spells, the world array and build files have no state the program
  reads back. BearLibTerminal is external and binary. `last_update` and
  `m_characters` are never read.
- Most of the repository's lines are asio's headers: timers, resolvers, stream
  sockets, TLS, serial ports, coroutines, other reactors and the templates that
  select between them. The program never runs them, and a model of them would
  say nothing about it. Of the parts it does run, timers in the reactor (there
  are none), errors of `epoll_ctl`, `try_speculative_` (a datagram operation never
  reports `done_and_exhausted`, so it stays true) and more than one descriptor are
  left out.
- `Scheduler` takes the counter's reaching 0 and the `stop()` that follows as one
  step; `WorkLasts` shows that in this program it does not reach 0 before `stop()`.
- Memory is not modelled below what the hazards need: the lifetime of packets is
  (`UdpPortWatcher`), that of asio's operations is their place in a queue.
- The specifications are sequentially consistent. The program's and asio's shared
  state is under mutexes or atomic, except `ident` (see `GameClient`) and the
  operation counter's relaxed parts, which a thread owns.

## 7. What is left

Everything the program does has its module, and every safety property that a run
checks its theorem. A further step would be to join the layers: `UdpPortWatcher` and `IoContext`
model the same handlers, one on what asio promises and one on what it does, and that
the second implements the first is argued here and not stated as a refinement.
