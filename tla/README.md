# A TLA+ development of libcutils

This directory specifies the worker pool, the event registration, the state
machine, the allocator, the bus and its blobs, the stream servers and the containers of
libcutils in TLA+, model-checks them with TLC and proves their most important
properties with TLAPS.
All source paths are relative to the repository's root directory; the C files are
in `src/`, written `src/src/...` in `PROJECT.json`.

- [The system](#the-system): its components, their state and their hazards
- [The modules](#the-modules): what is modelled, and how it maps to the code
- [The runs](#the-runs): what TLC checks, with which bounds and fairness
- [The proofs](#the-proofs): what holds for every value of the constants
- [Deviations found](#deviations-found)
- [What is not modelled](#what-is-not-modelled), [What could come next](#what-could-come-next)

## The system

libcutils is a library that programs link against. Constructors run before
`main` create, in this order, the default allocator, and a *global worker pool*
(`concurrent_constructor`): one master thread and `g_slave_amount` slave threads,
each in a libevent loop. Sockets, timers, the state machine, servers, clients
and the bus are all built on this pool:

    application threads ---- add / del event ----> new_ev_que + command pipe
             |                                          |
             | post                                     v
             |                                    master thread  <--- sockets, timers
             v                                          | post
       message_que (one, shared)  <---------------------+
             |  + one notification pipe per slave
             v
       slave threads: work functions (callbacks), which may post, add and del

### Components

| Component | State | Operations | Interacts with | Hard behaviour | Correct if |
|---|---|---|---|---|---|
| **Worker pool** `libconcurrent/concurrent.c` | shared `message_que`, `assignment_count`, a pipe per slave, start flags | `add_task`, `add_message`, `choose_slave`, `notify_slave`, the slave's handler | posters are the master's handlers and application threads | push and write are two steps; a slave detaches whatever is in front; the counter is updated with and without its lock; pipes fill | bytes and messages match; each message is run once; nothing is stranded |
| **Event registration** `concurrent_add_event_to_master`, `concurrent_del_event_of_master`, `io_user.c`, `tmr_user.c` | `new_ev_que`, command pipe, the event base, the objects' memory | create, reuse, stop, destroy; the master's `r` and `d` arms; firing; the callback | callers in any thread, the master, the slaves | requests are applied late; the command is paired with the request by order alone; objects die while their del is queued | a command meets its request; the last request decides; no freed object is touched |
| **Slab allocator** `liballoc/ctr_alloc` | pools, `depth`, free and used lists per class, `alloc_count` | alloc (free list, pool, new pool, malloc), free | everything | failure of malloc, repeated free, size boundaries, unsigned comparison | blocks are large enough and apart; nothing is lost; leaks are reported |
| System allocator `liballoc/sys_alloc` | a counter | malloc, free | alternative of the above | - | - |
| **Linked list** `link_list.c` | circular list, `begin`, count, lock | push, insert, delete, pop, detach at both ends, destroy | every queue above | some looks are taken before the lock; `begin` is kept apart from the links | it is a deque |
| **Hash map** `hash_list.c`, `__hash_map.c` | buckets, a shared pair, `begin`, lock | insert, search, delete, first and next, destroy | tasks of the pool, requests and objects of the bus | the shared pair is not locked; a search compares only as far as its own key goes | it is a map of entries |
| **Vector** `vector.c` | block, begin, end, capacity | push, pop, insert, delete, set, get | state machine, allocator lists | end and capacity are read before the lock; growth moves the block | it is a sequence |
| **Ring buffer** `ring_buffer.c` | two indices and a flag | read, write of messages with a length header | none in the library | full and empty look alike; the wrap of a message and of a header | it is a bounded queue of messages |
| **Red-black tree map** `rbtree_map.c`, `rbtree.c` | nodes with parent, children and colour, `begin` | insert, delete, search, first, next, destroy | none in the library but its test | the cases of recolouring; `begin` when the first node goes | it is a balanced search tree |
| **Array stack** `array_stack.c` | a counter over an array | push, pop | blob | a push that is refused goes unnoticed | a stack |
| **State machine** `state_machine.c` | current and last state, a timer per entry | `change_state`, timers' callbacks, destroy | timers, hence the pool | no lock; a timeout may be posted before its state is left | a timeout acts only in its own state |
| **Servers and clients** `libipc/net` | listening and data sockets, libevent's map of events, epoll's set | accept, post, register, read, error and end of a stream | the pool, `io_user` | descriptors closed while registered, their numbers given out again | a connection is read by one handler and closed only for its own errors |
| **Bus** `libbus/bus.c`, `busd.c` | requests by method name, objects by name, one blob per bus | add object, lookup, invoke, `invoke_sync`, forward, reply | servers and clients, hash map, blob | messages that arrive together; replies late or for another call; processes that end | an invocation is run at most once, by its object's bus, and answered to who made it, or lost |
| **Blob** `libblob` | a buffer with nested attributes, a stack of open tables | add, open and close a table, copy, reset, walk, look up | bus, array stack | a table's length is written late, at a kept address; widths of lengths; names that begin alike | what is read was written |
| Locks and threads `libthread` | mutex, or nothing | lock, unlock | everything | lock type 0 is no lock | - |
| System V wrappers, protocol analyser, configuration, arguments, debug, buffers, applications | - | - | - | - | - |
| Vendored: libevent, cJSON, iniparser, the red-black tree, `list.h`, libiw | - | - | - | - | - |

`PROJECT.json` lists the same components with their sources, and under
`hazards` each line that is hard to test, with the properties that cover it.

## The modules

| Module | What it is |
|---|---|
| `WorkPool` | abstract: messages are submitted, taken once by a worker, in order, and finished |
| `Concurrent` | the pool of `concurrent.c`, at the grain of its locks, loads, stores, reads and writes |
| `EventRegistry` | abstract: requests for events are applied in the order they are made |
| `EventQueue` | registration through `new_ev_que` and the command pipe; sockets and timers |
| `StateMachine` | the state machine over the timers of `EventQueue` |
| `MemBlocks` | abstract: blocks are handed out large enough and apart, and given back |
| `CtrAlloc` | the slab allocator with its size classes, pools and free lists |
| `Rpc` | abstract: an invocation is run at most once after it is sent, and answered after that, or lost |
| `Bus` | the buses of the applications and the daemon between them |
| `BlobDocument`, `Blob`, `BlobReader` | a document of values and tables; the attributes of a blob, its stack and the functions that read them; the document they give, and what must hold of it |
| `Server` | the connections of a stream server, with libevent's map and epoll's set |
| `Deque`, `LinkList` | a double-ended queue; the linked list, at the level of links, by one thread or by several |
| `EntryMap`, `HashMap` | a map of entries, met in an order of its own, with searches by prefix; the hash map with its chains and its pair |
| `Fifo`, `RingBuffer` | a bounded queue of messages; the ring buffer, byte by byte |
| `Vector` | the vector, checked against sequences |
| `RbTree` | the red-black tree, one turn of its loops at a time |
| `MCConcurrent`, `MCEventQueue`, `MCStateMachine`, `MCCtrAlloc`, `MCBus`, `MCBlob`, `MCServer`, `MCContainers` | what the configurations instantiate |
| `SequenceFacts` | lemmas about the elements of sequences, for the proofs about queues and streams |
| `ConcurrentProofs`, `EventQueueProofs`, `StateMachineProofs`, `BusProofs`, `ServerProofs`, `ContainerProofs` (vector, ring buffer, list, blob, allocator), `MapProofs` (hash map, red-black tree) | the theorems |

Operators named `...Without...`, `...Ignored`, `PushedFront` and the like, and those whose
comment says "Variant for mutation", are
variants of a definition as a plausible mistake would make it. The
specifications do not use them; putting one in the place of the definition
must break a property, which is how each property is shown to have teeth.

### Concurrent

*State.* `message_que` is the list shared by master and slaves;
`notify_pipe[s]` holds the unread bytes of a slave's pipe. All bytes are `'c'`,
but the model names each by the message it was written for, which lets
`Owed` say which messages still have a detach due; no action of a slave uses
the name. `pstate`, `pmsg` and `pcount` are a poster's program counter and
local variables, `sstate`, `sbyte` and `smsg` a slave's. `log`, `by`, `runs`
and `sent` are history and guard nothing but the bound: each message is posted
once.

*Steps.* A step is what one thread does between two points where another may
act: `concurrent_master_add_task` takes `admin_lock` and loads the counter
(`UserAddTask`), stores it and unlocks (`StoreCount`); the master's handlers
load and store without the lock (`MasterLoadCount`); tests also post without
counting (`UserPost`). Then, for all, `PushMessage` (one step, under the
list's mutex), `ChooseSlave` (reads the counter again) and `NotifySlave`
(a write that blocks on a full pipe). A slave is `SlaveStart`, `ReadByte`,
`DetachMessage` and `FinishWork`; `DetachMessage` on an empty queue is the
dereference of NULL that the code would make.

`concurrent_master_create_slaves` spins on one flag that *any* slave sets, so
posting begins when one slave has started; bytes written to the others wait in
their pipes.

### EventQueue

*State.* `new_ev_que` and `command_pipe` as in the code; `mem[o]` is whether the
object's memory is allocated; `added` the events in the master's event base,
`posted` the objects whose callback waits in the pool's queue (the order in
which the pool runs them is `Concurrent`'s subject). `fault` records the first
undefined thing that happens, after which the process stops: a command applied
to a request of the other kind, an event assigned while its base holds it, a
freed object touched. It is a variable rather than a predicate because the
steps that commit the fault consume its evidence.

*Steps.* `io_user` and `tmr_user` are `Create`, `tmr_user_reuse` is `Reuse`,
`tmr_user_stop` is `Stop`, `io_user_destroy` and `tmr_user_destroy` are
`Destroy`. Each begins a call that goes on with `PushRequest`, `WriteCommand`
and, for destroy, `FreeObject`. The master reads the letter and takes the front
request in one handler, `MasterAdd` or `MasterDel`. libevent itself is
external: `EventAdd` and `EventDel` put into and take out of a set, as the
callers rely on. A persistent event stays when it fires, a timer leaves.

*Discipline of callers.* Calls for one object are not concurrent (`InUse`),
and a timer is reused only after a stop, as the state machine does it
(`state_machine_stop_entry_timer` before `tmr_user_reuse`). Calls for different
objects may overlap, since the interface offers them to every thread.

### StateMachine

*State.* The machine's `current_state` and `last_state`, the step its
thread is in, and, through `Timers == INSTANCE EventQueue`, all of the timers:
the timer of an entry is the object named by its state. `wild` are the entries
whose timer field holds what the memory held before; `state_machine` does not
set it.

*Steps.* `RunTimeout` is the callback of a fired timer, `RunMessage` any other
work the slave does for the application; both run to the two stores of
`state_machine_change_state` (`ChangeTo`). Then `StopLastTimer`,
`SetupCurrentTimer` and `Act` are its three remaining calls, the first two with
the push and the write of their request in between, in which the master and
the timers act. `change_state_force` differs only in that it accepts the
current state.

*Composition.* `EventQueue` restricts `Reuse` to timers that were stopped,
as an obligation of its callers. Here the reuse is what the machine does, without a
guard, and `TimerDiscipline` checks that the machine meets the obligation.

### CtrAlloc

*State.* A pool is its number; an address is a pool and an offset. `depth[p]`
is what is left of a pool, `slab` the headers, `free_slabs` and `used_slabs` the
lists by class. The list `pool` is modelled as a set: pools are attached to its
front, in the order of their numbers, and never put back, so that walking it
is walking from the newest down. `free_slabs` is a stack, as in the code.

*Steps.* `allocator_mem_alloc` and `allocator_mem_free` hold the allocator's
lock, so an operation is a step; there is one for each way it can go:
`AllocFree`, `CarveFromPool`, `CarveFromNewPool`, `NewPoolFails`, `AllocHuge`,
`AllocHugeFails`, `Free`, `FreeHuge`. Every carve and every failure also puts
aside the full pools the search passes. `Fits` models the comparison of
`int depth` with an unsigned number: a negative depth compares as a huge one.
`Free` has both arms, also the one for a size of just the capacity, where
`__free` and `__alloc` disagree (`>=` and `>`).

### Bus

*State.* Of a bus: `table`, the table at the head of its blob, which all its
requests send because the blob is never reset; `call`, where the application's
thread is in a request; `obj_hmap` and `req_hmap`; `found`, the request its
slave has looked up for a reply and not yet written to. Of the daemon:
`objects`. The streams `to_busd[b]` and `to_bus[b]` are the messages written
and not read. `invoked`, `ran`, `answered` and `returned` are history.

*Steps.* The application's thread makes a request in the steps of the code,
between which the slave may handle a message: `AddObject`, `EnterObject`;
`InsertRequest`, `InvokeForRequest`, `ReturnFromSync`; `LookupOrInvoke`. A read
(`BusdRead`, `BusRead`) returns the first message and any number of those
behind it, and only the first is handled: how many arrive together is the
network's choice. `BusdAddObject`, `BusdLookup`, `BusdInvoke` and
`BusdForwardReply` are the daemon's handlers, `LogReply`, `HandleForward`,
`HandleReply` and `StoreReply` those of a bus; the last two are one handler, with
the search for the request and the write to it as two steps, since
`bus_invoke_sync` deletes its request in between without a lock. `Leave` is the
end of an application's process, whose objects stay with the daemon.

*Faults.* `fault` is the first undefined thing that happens, after which
nothing moves: an attribute the table does not have, an object or a method
that is not found and is used all the same, a reply stored in a request that
is gone, and SIGPIPE.

`MethodsOf`, `Result` and `Asks` are the applications'. The descriptors are
numbers, since they travel in a byte. `Prefix` is what `strncmp` with the size
of a pointer sees of a method's name.

### Server

*State.* `client[c]`, `sent` and `inbox` are the client's side and what the
kernel holds for the server; `file[fd]` the connection that a descriptor
number stands for. `message_que` and `notified` are the pool's queue and its
bytes, as proved of `Concurrent`. `nread[s][fd]` is libevent's count of read
events of a descriptor in slave `s`, `epoll[s]` what the kernel watches for it,
`active[s]` the handlers of the current turn of the loop.

*Steps.* `Accept` is the listening handler: it takes the lowest free number, as
`accept` does, and posts it. `Register` is the slave's work function with
`evmap_io_add`. `Dispatch` is a look at epoll. The connection's handler is
`ReadError` (closes, does not delete the event), `ReadEnd` (deletes the event,
does not close), `ReadData` and `NoMemory`. The kernel forgets a closed
descriptor, so that a later connection with the number of one that had an
error is registered with libevent but never with epoll in the same slave.

### Containers

`LinkList` keeps `next`, `prev` and `begin` as the code does. An insertion
allocates before it locks; the looks that `llist_pop_back` and the others take before
the lock are steps of their own. It is used either by one thread, with every operation but
`llist_pop_front`, which nothing calls, or by several, with those the queues of `concurrent.c` use and
`llist_push_front`. `HashMap` has an insertion in two parts, because the pair
it fills is the map's and not locked, and a search that compares as many
characters as its key has. `RingBuffer` keeps each byte of each message, and
its indices run from 0 to the length, both included. `Vector` includes
the insertions and assignments that write past a full block (`overrun`).
`RbTree` makes each turn of the loops that restore the colours a step, so that
each of their cases is an action that must occur.

`Deque`, `EntryMap` and `Fifo` are what these promise; the refinement mappings
walk the links, the chains and the bytes. The code promises less than one would expect in three
places, and the abstract modules say so: a hash map's search may find
an entry whose key only begins with the one looked for; a ring buffer gives up
a byte, and promises nothing after a header was read where the end of the
buffer cuts it off; a vector accepts positions after its end.

### Blob

*State.* `attr` is the memory: the attribute that was written at each offset,
its two lengths with their width, its value in bytes, integers with the most
significant first. `tail` and `tbl_stack` are the code's; `nesting` counts what
the callers have opened and not closed, which is their program text and not in
the blob, and guards only the callers' steps. Names are values with a length and a
set of the names that begin with them, which is all `strncmp` tells apart.

*Steps.* Each function of `blob.c` that writes is an action; each that reads is an
operator, with what the types of C do to its result (`DataLen`, `GetInt`).
`Catenate` copies an attribute of the same blob: in `busd.c` it is one of the
blob that was received, which was composed by the same functions. `BlobReader` reads the whole
memory with these operators (`Read`, `FrameRead`) and so maps it to `BlobDocument`; an open table
reaches to the next one, or to the tail. The integers callers add are those an
`int` holds (`Int32`), as all callers in the repository keep what they read in one;
of one byte or two, the document has what fits (`Held`).

`Bus` does not contain `Blob`: that what it sends arrives as the table that was
composed is what `DocumentSpec` says of each blob by itself.

## The runs

| Run | Asks | Bounds |
|---|---|---|
| `concurrent_safety` | do bytes and messages match under every interleaving; is each message run once and with bounded overtaking | 4 messages, master and 2 users, 2 slaves, a counter that wraps at 4, pipes of 1 byte |
| `concurrent_live` | is every queued message run; does the pool implement `WorkPool` | 3 messages, master and 1 user, 2 slaves |
| `event_one_caller` | with one calling thread: do commands fit their requests, does the last request win, are all requests applied, does it implement `EventRegistry` | a socket and a timer, 6 requests, a command pipe of 1 byte, 2 callbacks pending |
| `event_two_callers` | the first of these with two threads (violated) | 4 requests, no destroy |
| `event_destroy` | is a destroyed object left alone (violated) | 4 requests, one thread |
| `state_machine` | does the machine keep just its state's timer armed, use its timers well, act on a timeout only in its own state, never stall | 3 states, 5 changes, 3 callbacks pending |
| `state_machine_fresh` | is a timer used that was never created (violated) | 3 changes, entries in memory of any content |
| `ctr_alloc` | are slabs apart, is no byte, slab or pool lost; are leaks reported, pools created only when needed; does it implement `MemBlocks` | 3 classes of 1, 2 and 4 bytes, header 1, requests of 2, 3 and 5 bytes, 3 pools of 8 bytes, 1 block of malloc |
| `bus` | are invocations and replies routed; is only what was asked for run; are answers of a synchronous call its own; does the bus implement `Rpc`; does every invocation end | 3 buses and the daemon, one of which may end, 2 names, 3 methods, of which two compare equal, 1 or 2 requests each, descriptors up to 255 |
| `bus_sync` | does `bus_invoke_sync` return an answer or its time-out (violated) | the same |
| `server` | which descriptors leak, and only those; is each read by one handler; is only a broken connection closed; is data read | 3 connections, 2 descriptors, 2 slaves, 1 message each; one connection may be reset, for one memory may run out |
| `containers` | do list, hash map, ring buffer and vector implement their abstract modules; is the tree a balanced search tree; is a blob read back as the document it was composed as, with attributes that nest and a lookup that finds its own | 3 nodes and 2 threads; 3 entries and keys, one of them the beginning of another; messages of 2 and 5 bytes in 11; up to 4 elements; 7 keys; 2 names, one the beginning of the other, 6 kinds of value, 34 bytes and 2 open tables in a stack that just takes them |

### Why the bounds are enough

*Pool.* Two slaves and three posters give every pair of racing roles: master
with user, user with user, poster with slave, slave with slave. A full pipe of one byte
blocks a second post; four messages let two bytes wait in the two pipes
while a third is being served and a fourth is posted, and let the counter wrap (at 4
instead of 256; 4, like 256, is divided by the number of slaves). The liveness
run has one message and one user fewer and no symmetry, which is not sound there.

*Registration.* Six requests allow create, stop, reuse, stop, destroy of one
object interleaved with the other's life; the command pipe of one byte makes
callers block; two pending callbacks let a timer and a socket wait.

*State machine.* With three states there is one to be in, one that was left and
one to come back to; five changes allow a state to be entered, left, entered
again (its timer reused), forced into itself and left.

*Allocator.* Three classes give a smallest, a middle and a largest; the sizes
fall on a class (2), between classes (3) and above all (5). The default capacity
is 8 bytes and the slabs are 3 and 5 bytes long with their headers, so pools end
with a rest that is too small for one class and large enough for another, with
an exact fit, and with a rest that no class fits. Three pools are one put
aside, one in the middle of the list and a new one.

*Bus.* Two buses that make requests and one that adds an object are the least with
which a reply can reach the wrong one; the third also adds the object
of the first under the same name. Two requests by one bus show the table of
the first sent for the second, and let a reply come in for the second
that was meant for the first. Two messages can wait in a stream, so that one read loses one. A descriptor of 255 is
the largest a byte holds.

*Blobs.* A stack that just takes the two tables that are opened shows the limit of
`array_stack_push`; 34 bytes hold two tables, one in the other, with a value in each, a
table with a value and its copy, or three values of which two have the same name. -1 and 300 need all the bytes of
their types, or more.

*Server.* With three connections and two numbers a number is given out
again after an error, while its old event is in the same slave or in the other,
and numbers run out after the ends of two streams.

*Containers.* Three nodes have a first, a middle and a last; two threads meet
at an empty list and at one with a single node. Eleven bytes hold two long messages and leave
one byte, or wrap a long one, or its header, at the end. Seven keys reach
every case of the recolouring in insertion and deletion, both sides.

### Fairness

Safety runs have none, except where the same configuration also checks
liveness. `Concurrent!Fairness` is weak fairness of each poster *within* a post
and of each slave: the scheduler runs every thread, libevent is level-triggered
so that a readable pipe is served, a work function returns, and a write to a
pipe that has room succeeds. Nothing makes a poster begin. A blocked write is
weakly fair only while there is room; that suffices because a pipe has, at any
time, room unless the slave has bytes, and the pipe's readers drain it: the
liveness run has pipes of one byte to show it. `EventQueue!Spec` is weakly fair for the
master's loop, for callers inside a call and for callbacks; neither firing nor
calling is fair. `StateMachine!Spec` adds that an armed timer fires in the end,
as libevent's do; messages remain unfair. `Bus!Spec` is weakly fair for the
slave of each bus that is alive and for the daemon's one slave: they wait in
libevent loops, and a stream with data is readable. Nothing makes an application ask,
return from a call or end. `Server!Spec` is weakly fair for the master's accept and for running
active handlers; registering and dispatching are strongly fair, per slave
and per descriptor, because a slave alternates between them: epoll reports all
ready descriptors in one look, in turn, and the pipe of the slave is one of
them, so that none is passed over for ever.

### What the properties say

- `QueueMatchesNotifications`: one message per detach owed, so
  the test for NULL that `slave_event_handler_process_message` lacks is not missed.
- `RunAtMostOnce`, `BoundedOvertaking`: any slave may take any message, yet a
  message is overtaken by at most `SlaveAmount - 1` others, and with the default of one slave
  by none.
- `EveryPostRuns`, `PoolSpec`: nothing is stranded; the pool is a `WorkPool`.
- `CommandsFitRequests`, `NoAssignWhileAdded`, `LastRequestWins`,
  `FreedLeavesBase`, `RequestsDrain`, `RegistrySpec`: what a caller may rely on
  when all requests come from one thread.
- `ArmedIsCurrent`, `StateIsLeft`, `TimerDiscipline`: whatever mixture of
  timeouts and messages came before, the state machine neither stalls nor is
  driven by a state it has left; `TimeoutInOwnState`: without messages it never
  sees a stale timeout. With messages it does, since a stop does not reach a
  callback that is already posted; nothing in the code promises otherwise.
- `SlabsApart`, `NothingLost`, `LeakReported`, `NewPoolOnlyIfFull`,
  `BlocksSpec`: the accounting of the allocator. `NothingLost` is that a
  pool's slabs lie back to back, that each slab is in one list, also after it was
  freed twice, and that each pool is in one of the two lists `__destroy` walks.
- `Routed`, `RanAsAsked`, `SyncAnswerOwn`: no mixture of requests, processes
  that end and messages that are lost leads to a method run at the wrong bus, a
  method nobody asked for or someone else's answer.
- `RpcSpec`, `InvocationEnds`: each invocation is run at most once, and is
  answered or lost, not left in a stream, unless memory is damaged.
- `WellNested`, `LookupFindsOwn`, `DocumentSpec`: no order of
  opening, closing, copying and adding makes a length cut through an
  attribute, and the readers give back what was composed. The lookup does so
  only for a name no other name in the table begins with.
- `Descriptors`, `OnlyResetClosed`, `DataIsRead`: what the two missing calls of
  the server's handler cost, and that they cost no more: the only descriptors
  unwatched are those named, healthy connections are not closed, and
  data waits only for the reasons in `NotServed`.
- `ListIsDeque`, `HashMapIsMap`, `RingIsFifo`, `VectorIsSequence`,
  `RbTreeIsMap`: each container, under every sequence of its operations up to
  the bounds (of the list's all but `llist_pop_front`), is what its users take it for.

Three of these hold with a margin one should know. `RanAsAsked` speaks of the
*first* request of a bus: later ones send its table, which is the behaviour of
the code and surely not its intent. `LeakReported` is an
inequality, because `alloc_huge_slab` counts before `malloc` and keeps
the count when it fails: then a leak is reported that is none. `LastRequestWins` says
nothing while requests are pending: a timer may fire after its stop returned.

## The proofs

### The pool (`ConcurrentProofs`)

For every finite set of messages, any number of users and slaves, any width of
the counter and any size of pipe:

- `TypeCorrect`: `SafeSpec => []TypeOK`, in particular the index into
  `snd_notify_fd` is in bounds whatever races do to `assignment_count`;
- `PoolInvariant`: `SafeSpec => []IInv`;
- `SlaveNeverDetachesNull` and `NoMessageStranded`: its two consequences
  `NoNullDetach` and `QueueMatchesNotifications`;
- `NeverRunTwice`: `SafeSpec => []RunAtMostOnce`;
- `OvertakingBounded`: `SafeSpec => []BoundedOvertaking`.

The equality of queue length and detaches owed is not inductive alone: from
a state in which two posters post the same message, or a byte is both in a
pipe and being served, one step breaks the count. `IInv` adds that posts under
way are distinct, that a message is in the log exactly from its push on, that
bytes are written only for queued messages, and that a message's byte is in
one place at a time. The proof goes action by action: a push adds one message
and one owed detach, a write and a read move a byte without changing
`Owed`, a detach removes one of each. It rests on `ConcurrentAssumption`
only.

`NeverRunTwice` needs `RunInv` on top: a message in the queue has not run and
is in no slave's hands, and no two slaves hold the same. `OvertakingBounded`
adds `OrderInv`: messages are taken in the order of the log. Those after a
message that have been taken while it is not finished are in the hands of other
slaves or were finished by them since; `FewerThanSlaves` counts them.

`PoolImplemented` is the safety part of the refinement `PoolSpec`: `SafeSpec`
implies that `WorkPool` starts as it may and that each step is one of its steps or a
stutter. A push is a submission, a detach hands the front message to a worker
that is idle, and the end of the work function finishes it. What it needs
beside the invariants above is `IdleHoldsNothing`: the message a slave's local
variable still names is not counted as held once the slave is back in its loop.

### The registration (`EventQueueProofs`)

For any objects, any number of requests, any size of the command pipe and any
finite number of callers:

- `EventTypes`: `SafeSpec => []TypeOK`, with `CallInv`: the number of requests
  queued is that of the commands in the pipe and of those still to be written,
  so that no command finds the queue empty;
- `NeverAssignedWhileAdded`: `SafeSpec => []NoAssignWhileAdded`, with
  `RequestInv`: of two adds of one object there is a del in between, in the queue as in
  the calls that are made.

Under the hypothesis `OneCaller`, that all calls come from one thread:

- `OneCallerInvariant`: the commands in the pipe, and the one still to be
  written, are those of the queued requests, in order;
- `CommandsFit`, `LastRequestDecides`, `FreedObjectsLeaveBase`: the three
  invariants of the run `event_one_caller`;
- `RegistryImplemented`: `SafeSpec => RegistrySpec`, the refinement of
  `EventRegistry`: a push is a request, the master's handler applies the first
  of them, everything else stutters.

`event_two_callers` is a counterexample to `CommandsFit` without the
hypothesis. Nothing in the library enforces it.

### The state machine (`StateMachineProofs`)

For any states, any number of changes and any size of the command pipe:

- `TimersDisciplined`: `SafeSpec => []TimerDiscipline`;
- `ArmedCorrect`: `SafeSpec => []ArmedIsCurrent`;
- `TimeoutsCorrect`: `SafeSpec => []TimeoutInOwnState`;
- `MachineUsesTimers`: under the hypothesis `MemoryZeroed`, that no entry's
  timer field holds anything at first, `SafeSpec => Timers!SafeSpec`: every step of the
  machine is a step of `EventQueue` with one caller or leaves the timers alone. `Reuse`
  has guards in `EventQueue` that are its callers' obligations; here they are
  a consequence, so what is proved of a registration with one caller holds
  of the machine's timers.

The machine instantiates `EventQueue`, and its proofs instantiate
`EventQueueProofs`: `CallInv` and `OneCallerInv` are kept by every step that is
a step of the timers, which is proved there once. `StepInv` and `UseInv`
say what the machine adds: in which step of a change it
is, the call in progress is for the timer of the last state (its stop) or of the current
one (its start), and of all timers at most these two have a request pending
or an event in the base. With memory that is not zero, `Wild` takes over once a
timer is used that was never created: the process has stopped then. `TimeoutsCorrect` needs
`TokenInv`: without messages there is one thing that can move the machine, the
change in progress, the request for the current timer, its event, or its
callback, and never two of them.

### The allocator (`ContainerProofs`)

Under the hypothesis `ClassesFit`, that every class with its header
fits into a pool, for any number and size of classes, any requests and any
number of pools:

- `SlabsStayApart`: `Spec => []SlabsApart`;
- `NeverOverdrawn`: `Spec => []DepthNotNegative`;
- `NothingEverLost`: `Spec => []NothingLost`;
- `LeaksReported`: `Spec => []LeakReported`;
- `AllocatorTypes`: `Spec => [](TypeOK /\ fault = "none")`: `alloc_count`, unsigned
  in the code, never goes below zero, and no address of a pool reaches `free`;
- `PoolsAreFilled`: `Spec => []NewPoolOnlyIfFull`;
- `BlocksImplemented`: `Spec => BlocksSpec`, the refinement of `MemBlocks`.

The invariant is `AllocInv`: pools are typed and those not yet created
untouched, no depth is negative, and every slab ends at or before the point
where the depth of its pool begins. A carve starts at that point, so that it
meets no slab, and `Fits` or `ClassesFit` bounds its end; all other steps leave
addresses and sizes alone. `IndexIsClass` and `LatestFit` say that the two `CHOOSE`s of the model
(least class, newest pool that fits) choose something.

`NothingEverLost` and those after it stand on `AllocInv` and on `SlabLists`: a slab has a class, is in the
`used_slabs` of that class just when its flag is set, and otherwise once in
the `free_slabs` of that class and in no other list. What keeps it is
`ClassOfRealSize`: a slab is given the size of its class, so that the class free
computes from the size is the one the slab was carved for. `NothingLost` needs in
addition that a carve begins where the last slab of the pool ended, and that a pool
leaves `pool` as it enters `empty_pool`. `LeakReported` needs `CountInv`:
the count is at least the number of slabs and blocks in use. A repeated free
does not lower it, because a slab whose flag is clear is returned early.
`PoolsAreFilled` is about the pools put aside (`FullAside`): each has less left
than the smallest slab takes, so that a search that skips them passes over nothing.
`BlocksImplemented` needs `SlabsServe`: a slab's size is that of its class, and
what was asked of the one in use is no more. A block that is got is then apart
from those in use, because slabs are and a list holds no slab twice; a
block of malloc is apart from pools, since it is an area of its own.

The default capacity, 2^12 * 8 bytes, meets `ClassesFit`: the largest class is
half of it and the header is far below the other half. (That a class size is a
natural number no smaller than the least is part of the hypothesis, because
powers of 2 are beyond the provers; TLC evaluates it.) A capacity of 1024 bytes,
which `allocator_ctr_init` accepts, does not: then a new pool is too small for
the slab it was made for, and the hypothesis cannot be dropped.

### The bus (`BusProofs`)

For any buses, names, methods, results and requests, and any descriptors
below 256 that differ:

- `RoutedCorrect`, `RanAsAskedCorrect`: `SafeSpec => []Routed` and
  `SafeSpec => []RanAsAsked`, from `RouteInv`: every message of every stream
  carries the name, the method and the descriptor of the invocation it
  belongs to, every object of the daemon is that of the bus whose descriptor
  it has, and a reply's state is the result of a method that ran;
- `SyncAnswerOwnCorrect`: `SafeSpec => []SyncAnswerOwn`, from `RouteInv`,
  `ObjectsNamed` and `SyncInv`: a reply that is found for a request is of the method the
  request was made with, and so is what was stored in it;
- `RpcImplemented`: `SafeSpec => RpcSpec`, the refinement of `Rpc`, from
  `InvocationInv`: a message is in one stream once, one that is forwarded was
  sent and not run yet, and a reply is of an invocation that ran. `Moves`
  describes for each handler what it takes from a stream and what it puts in
  another, so that each step of `Rpc` is established from that alone;
- `BusTypesCorrect`: `SafeSpec => []TypeOK`. It includes that a request is in
  `req_hmap` only while `bus_invoke_sync` runs, one at a time.

A message that a read loses only shortens a stream: the lemma about the rest of a
sequence does for all handlers at once what the model checker does by
choosing how many are lost.

### The servers (`ServerProofs`)

For any connections, descriptors, slaves and messages:

- `DescriptorsCorrect`: `SafeSpec => []Descriptors`;
- `OnlyResetClosedCorrect`: `SafeSpec => OnlyResetClosed`.

`ServerInv` says that a connection is accepted once, a descriptor posted once
and not while it is watched, that what epoll watches is open, has one event and one slave, and
that a slave's turn has at most one handler, of a descriptor that it watches
and that is still readable. The last is what makes `ReadError` close nothing but
a connection with an error. The guard `message_que # <<>>` of `Register` is
the theorem `SlaveNeverDetachesNull` of the pool.

### The containers and blobs (`ContainerProofs`)

Each container implements its abstract module, whatever its sizes:

- `VectorCorrect`: `VectorSpec => VectorIsSequence`. `VectorInv` keeps the end
  within the block; each operation's step is shown to be that of a sequence.
- `RingCorrect`: `RingSpec => RingIsFifo`, for any lengths of messages, heads
  and buffer. The invariant says of some function of offsets (`Offsets`) that
  each byte of each unread message is where its offset puts it (`Stored`), that
  `write_index` is where the last of them ends, and that the flag is `WRITE`
  whenever the buffer is full: what a read before it is
  filled again would otherwise take for empty. A read of a head that the
  buffer's end cuts off ends the promise (`wild`), as in `Fifo`.
- `ListCorrect`: `ListSpec => ListIsDeque`, for one thread with all operations
  but `llist_pop_front` and for any number with those the queues of `concurrent.c`
  use and `llist_push_front`. `IsRing` says
  of some sequence that the links join just its nodes, both ways and to the
  head; `ThreadsInv` that a node a thread has prepared is allocated, in no list and
  no other thread's. `WalkIs` shows that the walk of the refinement mapping
  gives that sequence.
- `AlwaysWellNested`: `BlobSpec => []WellNested`, for any names shorter than
  250 characters, any values, buffer, stack and depth with `MaxDepth * Step <
  StackLen` (with the code's 100 and 8 bytes: 12 tables; the bus opens 3).
  `TablesPaired` and `ExtentsNest` are inductive together with the types
  (`BlobInv`). A table that is closed takes in all that was added since, which lies between
  its head and the tail; that no complete attribute reaches over the head of an
  open table is what keeps the new length from cutting one. A copy is the image
  of a nested interval, shifted to the tail. That `blob_fault` stays "none" is
  part of it.
- `LookupAlwaysFindsOwn`: `BlobSpec => []LookupFindsOwn`, and
  `ReadsWhatWasComposed`: `BlobSpec => DocumentSpec`, the refinement of
  `BlobDocument`, under the same assumptions. That extents nest does not say
  that a reader meets every attribute: a gap would end its walk. The
  invariant is therefore `DocInv`. Beside `BlobInv` it says that every closed table, and every
  open one up to the next or to the tail, is a chain of attributes, each
  beginning where the last ended (`TablesChained`, `FramesChained`); that an
  attribute that lies in another comes after that one's name, and only tables have any
  (`OnlyTablesFilled`); and that each head is shorter than 256
  bytes, so that `blob_get_data_len` loses none of it (`Headed`). `StepsAre`
  shows that `blob_for_each_attr` goes through just the chain, which gives the
  lookup (`LookupDoc`). For the refinement, `SameRead` says that attributes that
  stay as they are, or are all moved by the same distance, are read as the same
  items, table within table. So an addition extends the innermost frame (`AddIsAdd`), the end of a
  table turns a frame into an item of the one around it (`CloseIsClose`), and a copy is
  the item that was copied, which `BlobDocument` finds at some depth of some frame
  (`CatenateIsCopy`). `IntReads`, `StringReads` and `BufferReads` say that each
  getter gives back what was added.

### The maps (`MapProofs`)

- `MapCorrect`: under the hypothesis `OneInserts`, that there is not more than one
  inserting thread, `MapSpec => HashMapIsMap`. The invariant is an order of the
  entries with a bucket for each (`IsChained`): the buckets ascend, `first`
  leads to the first entry of each and `hnext` from each to the next of its
  bucket; and `begin` is at the first of all (`BeginsAt`). `EntriesIs` and `ChainIs`
  show that going through the map, and through a chain, meets that order. Two
  inserting threads overwrite each other's pair, so that the hypothesis cannot be dropped.
- `RbTreeCorrect`: `RbSpec => []RbTreeIsMap`, for any number of keys. Nothing
  in the state says what the tree is made of, so the invariant `RbInv` supplies it:
  there are a set `U[n]` of keys for each node, its own and those
  of its children's sets, smaller ones to the left and larger to the right, the
  root's set being `present` (`IsTree`), and a black height `H[n]` that both
  children of a node agree on. Between operations both hold and no red node has a red parent
  (`Sound`). While `rb_insert_color` runs they hold but for one red node, which
  may have a red parent or be the root (`Inserting`). While `rb_erase_color`
  runs one side of one node is one black short (`Erasing`). Each loop body is
  a few recolourings and rotations: `RotateTree` and `TurnHeights` say once what
  a rotation does to the sets and to the heights, and each case of the loops is
  then a lemma (`RedUncleStep`, `InnerStep`, `OuterStep`; `SiblingStep`, `BothBlackStep`,
  `NephewStep`, `FarStep`). The removal of a node with two children is the splice of the next
  node followed by giving that one the place and the colour of the
  removed one (`SpliceStep`, `RenameStep`). `begin` is the first node in all this
  (`IsFirst`), except during an insertion, which sets it at its end.
  `InOrderIs`, `PathIs`, `NextIs`, `OutermostIs` and `BalancedIs` show that
  iteration, search and the lengths of paths are what the invariant promises.

### Walks

What the code reads by following links is a recursive function over the
naturals. The library's induction theorems cannot be used, so such a walk is
described by a statement about all numbers up to a bound, and the least
number for which it fails leads to a contradiction (`LeastNatural` in
`SequenceFacts`). It is for these walks that `MapNode` and `Node` are assumed
to be finite, which memory is. In the tree the walks are bounded by the number of keys.

### Only model-checked

- Liveness, which is out of the prover's reach: `EveryPostRuns`,
  `RequestsDrain`, `StateIsLeft`, `InvocationEnds`, `DataIsRead`, and the fairness
  that `PoolSpec` contains.

Every invariant and action property of the passing runs is stated by a theorem, and so
is the safety part of each refinement.

## Deviations found

1. `concurrent_add_event_to_master` and `concurrent_del_event_of_master` push
   and write without a common lock. Two threads that call them at the same
   time can have their requests in one order and their letters in the other: an
   add is performed as a del, and a del, whose request is uninitialised except for its event, as
   an add (`event_two_callers`).
2. `tmr_user_destroy` and `io_user_destroy` free the object as soon as its del
   is queued. The master then reads the freed event, and a callback already
   posted reads the freed object (`event_destroy`). `FreedLeavesBase` bounds the window.
3. The timer field of a state machine's entries is tested for NULL and never
   initialised (`state_machine_fresh`): if the entry's memory was used before,
   the first change of state takes what it finds there for a timer.
4. `bus_invoke_sync` sets the `short` state to 0xffff and waits while it equals
   0xffff, which a `short` never does: it returns -1 at once, without the
   answer and without its time-out (`bus_sync`).

What follows was met on the way and is kept out of the runs by an assumption:

- A capacity of 1024 bytes, which only code that is compiled out passes to
  `allocator_ctr_init`, makes pools that are too small for the larger classes
  (`ClassesFit` above).
- `llist_pop_front` unlinks a node after it has moved `begin` past it, through
  a pointer to `begin`. Nothing calls it, and `LinkList` leaves it out.
- Two threads that insert in one hash map overwrite each other's pair:
  `HashMapIsMap` holds with one `Inserter`, not with two.
- `llist_pop_back` and `llist_detach_back` by several threads act on a node another has
  taken. The queues use neither, and `LinkList` has them in the use by one thread only.

Some hazards are covered by a property only in part. The `note` of each in
`PROJECT.json` says what remains:

- lost updates of `assignment_count` change which slave is chosen, and no property
  depends on that: `TypeOK` shows only that the slave exists;
- `HashMapIsMap` is about one inserting thread;
- `TimeoutInOwnState` is about a machine driven by its timeouts alone: after a
  message has changed the state, a callback already posted does change it again;
- `MaxDepth` and `HasRoom` keep the stack of open tables from being full, so that
  `WellNested` says nothing of a push that is refused;
- `LookupFindsOwn` excuses a name that another begins with;
- `SyncAnswerOwn` allows the late reply to an earlier call of the same method;
- `InvocationEnds` allows everything after a write into a deleted request;
- `DataIsRead` counts exhausted descriptors among its excuses: that they are
  never given back is in the model and contradicts no property;
- no class is as large as a pool with the default capacity or under
  `ClassesFit`, so that `NothingLost` and `BlocksSpec` never meet a slab of just the
  capacity, which `__free` would give to `free`.

Hazards of the code that no property covers, beside the master and a slave that
block on each other's full pipes (`concurrent.c:631`), which `PROJECT.json` lists:

- `concurrent_destroy` frees master, slaves and queues at exit while their
  threads still run (`concurrent.c:546`);
- `vector_push_back` reads end, capacity and memory before it takes the lock
  (`vector.c:153`), so that two pushes may write one element;
- `change_state` takes no lock (`state_machine.c:200`): two threads interleave
  their stop, store and setup;
- nothing compares an attribute with the 512 bytes of its blob (`blob.c:85`), and
  a bus never resets the blob that all its requests are composed in;
- the search of `concurrent_master_add_task` returns with `admin_lock` held if it
  does not find the task just added (`concurrent.c:490`), which then blocks every
  later caller;
- `blob_get_data_len` takes the offset of the value for a `uint8_t` (`blob.c:206`):
  after a name of 250 characters the length it returns is too large.

## What is not modelled

`PROJECT.json` gives the reason per component. Of the modelled ones:

- *Pool.* `concurrent_destroy` (process exit), the task hash map behind
  `concurrent_master_add_task` (its failing search, which a key inserted
  just before does not meet, returns with the lock held), the slaves' own event bases, tags and other diagnostics,
  the Windows variants of threads and pipes.
- *Pool with registration.* The master that posts to a full slave pipe while
  that slave requests on the full command pipe: each pipe is modelled, but
  not both at once; the product is beyond the bounds of a run.
- *State machine.* Its destroy and changes by several threads. The first change,
  which in the test is made by the main thread, is
  taken to be over when the timer it armed fires (one second later at the least).
- *Blob.* Attributes that do not fit: nothing checks them, and the model lets
  callers add what fits. Names of 250 characters and more, for which
  `blob_get_data_len` is wrong.
- *Bus.* Arguments and policies of methods and the bytes of blobs: the model
  keeps of a table which kind of request it is for. The maps of objects and
  requests are searched by the exact key, though the code's search takes
  any key that begins with it, as `HashMap` has it. The failures of malloc, the destruction of a bus.
- *Servers.* Their destruction, UDP, and clients as a module of their own: a
  client's socket is an `io_user` of `EventQueue`, and its read handler appears
  in `Bus` as the way a bus reads.
- *Containers.* Values beside keys; `rb_prev`, `rb_last`, `rb_replace_node` and
  the augmented trees, which nothing calls; the generic `map`, a table of
  function pointers.

Memory ordering is sequentially consistent: the flags and the counter are
plain variables, and what a weaker memory would add to the lost updates is not
explored.

Not modelled at all are the system allocator, the System V wrappers (the shared
queue is a stub), the protocol analyser (tables of field formats), configuration,
arguments, debug output and applications: sequential input and output whose
state is a buffer. Most of the repository's lines are vendored: libevent, cJSON,
iniparser, libiw and two copies of the kernel's `list.h`. Of those the models take in what the
library's own correctness turns on, libevent's count of events per descriptor
(`evmap.c`, in `Server`) and the red-black tree (`rbtree.c`, in `RbTree`).

## What could come next

1. `StateMachine` with several changing threads, with its destroy.
2. `Concurrent` composed with `EventQueue`, with as few messages and requests as fill both pipes.
3. The task hash map of the pool over `HashMap`, with the lock its failing search keeps.
