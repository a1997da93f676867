# fdcpp in TLA+

fdcpp wraps Linux file descriptors in C++ classes. `fds/` holds one class per
kind of descriptor, all derived from `descriptor`, which owns the number and
closes it. `easy/` builds on them: a socket with buffers and operators, a timer
that can be paused, the passing of descriptors between processes, a memory
mapping and socket factories. This directory holds TLA+ modules of the parts that
keep state over several calls, and of the two programs' shapes they are put
together to - a process full of objects, and a server around an epoll loop -
with the TLC configurations that check them and TLAPS proofs about them.

To check a run: `tlc -config out_any.cfg BufferedOutput.tla`. To check the
proofs of a module: `tlapm BufferedOutput_proofs.tla`. `PROJECT.json` gives for every
definition the source lines it stands for, and for every property a wrong variant
of the code that violates it; the variants are in the modules, marked `Wrong variant`.

Paths below are relative to the repository's `src/` unless they start with
`tests/` or `README.md`.

## 1. Inventory

| Component | State | Operations | Interacts with | What is hard |
|---|---|---|---|---|
| `buffered_socket`, output (`easy/buffered_socket.cpp`) | `_buffer_out`, `_out_size`, `_out_capacity`; `n` inside `send_all` | `operator<<`, `write_output_buffer`, `flush`, `send_all`, destructor | blocking `socket::send`, the peer through the kernel's buffer | sends that take a part, fail after a part, block; values as large as the buffer |
| `buffered_socket`, input | `_buffer_in`, `_in_rd`, `_in_size`, `_in_capacity` | `operator>>` for values and strings, `read_input_buffer`, `recv_if_possible` | `socket::recv` with `MSG_DONTWAIT` and `MSG_WAITALL` | receives that return a part, the end of the stream in a value, `strlen()` over memory not received into |
| both ends of a connection | the two halves and the kernel's bytes | as above | each other | everything between insertion and extraction, in any interleaving |
| `buffered_socket`, moves | all of the above, and the heap | construction, move construction and assignment, destructor | the halves, whose buffers change their owner | counters are copied where buffers are swapped: an object that was moved from has the counters of one connection and the buffers of another, or none |
| `fdpass` (`easy/fdpass.cpp`, `.hpp`) | `_socket`, `_path`, `_ready`; the loop's vector and `msg_controllen` | `send`, `recv`, static pair | other processes through a path and datagrams | several senders, receivers that take a path over, processes that die, batches |
| `timer` (`easy/timer.cpp`, `fds/timerfd.cpp`) | `_spec`, `_remaining`, `_state`, the descriptor | `settime`, `start`, `pause`, `resume`, `stop`, `timeouts`, moves | the kernel's timerfd, another thread in `timeouts()` | pausing at the moment of an expiration, moves |
| descriptor ownership (`fds/base/descriptor.cpp` and the constructors and `dup`s of the derived classes) | `_fd` | construction, moves, destruction, `dup`, `dup2` | the kernel's table, which hands numbers out again | numbers of the past, owners of one number |
| `epoll` (`fds/epoll.cpp`) | none but `_fd`; the kernel's interest list | `ctl`, `add`, `mod`, `del`, `wait`, `dup` | any descriptor of the process | descriptors closed, duplicated and numbered again while they are watched |
| `eventfd` (`fds/eventfd.cpp`) | none but `_fd`; the kernel's counter | `read`, `write` | other threads | a counter at its limit, calls that are interrupted |
| event loop (`tests/epoll_test.cpp`) | `conn_map`, `events[]`, `loop` | the branches of the loop around `epoll.wait()` | `epoll`, `signalfd`, `eventfd`, a socket factory, `accept`, clients, other threads | batches of events against numbers that change their meaning, death and restart |
| `mmap` (`easy/mmap.cpp`) | `_addr`, `_size` | construction, moves, destruction | the descriptor it is made from | two fields that must stay together |
| `signalfd`, `socket`, `file`, `memfd`, `inotify`, `idescriptor`, `iodescriptor` | none besides `_fd` | one system call per member function | - | error results, which their callers see |
| `tcp_socket`, `unix_socket`, `udp_socket` | none; an address that outlives the process | straight sequences of calls | the server that has, or had, the address | an address that is still in use |
| `util/throw.cpp` | none | throws | - | - |

What makes each correct:

* output half: bytes leave in the order of insertion, none is lost while a call
  fails, what was flushed is with the kernel, calls return;
* input half: the application gets the bytes of the stream, each once, in order,
  and only those; a failing call loses none; calls return;
* connection: a FIFO of bytes;
* moves: every allocation has one owner, and bytes follow their connection;
* `fdpass`: lists arrive whole, in order; every descriptor the kernel opens is
  owned once; `send()` neither loses a list nor hangs;
* `timer`: the state it reports is the kernel's; pausing moves no expiration;
* descriptors: each number has one owner, each owner the file it was made for,
  and no open number is without an owner;
* `epoll`: the number an event names is that of the object the event is about;
* `eventfd`: what is written is read, once;
* `mmap`: a region is unmapped once, whole;
* event loop: map, descriptors and interest list agree; no connection and no
  event is lost; every client is served; SIGTERM ends it; it can be started again.

## 2. Modules

| Module | Models | Built on |
|---|---|---|
| `BufferedOutput` | output half of `buffered_socket` over a kernel buffer of `SockCapacity` bytes | - |
| `BufferedInput` | input half: values of fixed sizes | - |
| `StringInput` | `operator>>` for values and strings | extends `BufferedInput` |
| `ByteStream` | abstract: a FIFO of bytes | - |
| `BufferedStream` | two ends and the kernel between them; implements `ByteStream` | instances of `BufferedOutput`, `BufferedInput`, `ByteStream` |
| `BufferedMoves` | construction, moves, use and destruction of `buffered_socket` objects | - |
| `ListChannel` | abstract: a FIFO of lists | - |
| `FdPass` | `fdpass::send` and `recv` of several processes; implements `ListChannel` when one of them sends | instance of `ListChannel` |
| `Timer`, `MCTimer` | `timer` over the kernel's timerfd | - |
| `Descriptor`, `MCDescriptor` | owners of descriptor numbers | - |
| `Epoll` | interest lists | extends `Descriptor` |
| `Mapping` | `mmap` objects and the regions of a process | extends `Descriptor` |
| `Process`, `MCProcess` | all that the objects of one process own | extends `Epoll` and `Mapping`, instance of `BufferedMoves` |
| `EventFd` | `eventfd` and the threads that share it | - |
| `EventLoop`, `MCLoop` | the server of `tests/epoll_test.cpp`, its clients and its restarts | extends `EventFd` |
| `BufferedOutput_proofs`, `StringInput_proofs`, `BufferedStream_proofs`, `BufferedMoves_proofs`, `FdPass_proofs`, `Timer_proofs`, `Process_proofs`, `EventLoop_proofs` | theorems | each extends the module it is about; `StringInput_proofs` covers `BufferedInput`, `Process_proofs` covers `Descriptor`, `Epoll` and `Mapping`, `EventLoop_proofs` covers `EventFd`; `BufferedStream_proofs` has instances of the proofs of both halves, `Process_proofs` one of those of `BufferedMoves` |

**BufferedOutput.** A byte is a number: the k-th byte the application ever offers
is k, so order, loss and repetition can be told apart and the value of a byte
cannot. `out` is `_buffer_out[0.._out_size)`. An insertion is one of
`InsertDirect`, `InsertDrain` and `InsertBuffered`, the three ways through
`write_output_buffer()`. `send()` blocks, so a call that sends lasts several
steps: `pc` says from where `send_all()` runs, `SendSome(k)` is one round of its
loop, and `DirectReturns`, `DrainReturns`, `FlushReturns` are the last round with
what the caller does behind it. `SendFails` is a `send()` that throws, from any
of the three: `n` is lost, `_out_size` keeps its value; when a part had been sent the
call is torn, and `since` keeps how much was sent by then. The byte order conversions
(`htobe16` and the others) permute the bytes of one value and are abstracted.

**BufferedInput.** The k-th byte of the stream is k. `mem` is the whole
allocation, both buffers, because `strlen()` and `memmove()` can leave the first;
memory nobody has written holds any members of `Junk`. One call of
`read_input_buffer()` is `recv_if_possible()` and then `Local`, `Exact` or
`Block`, in one step, since nothing else uses the object; after `Block` the
thread sits in `recv(MSG_WAITALL)` while `WaitSome`, `WaitDone`, `WaitCut` and
`WaitFails` say how that ends. `recv_if_possible()` may take any part of what has
arrived. `WaitCut` is the code's ignored return value: the rest of the value is
junk.

**StringInput.** `StringStart` is `recv_if_possible()` and `strlen()`;
`StringChar` one round of the loop, a `read_input_buffer()` of one byte with its
own `recv`; `StringEnd` the step over the `'\0'`. A `strlen()` that finds no zero
in the allocation, and a `_in_rd` beyond `_in_size`, are undefined behaviour: the
variable `undefined` is set and the behaviour ends. The `'\0'` that is skipped is
appended to `read`, so that the properties of `BufferedInput` hold over strings
too. A string that is not whole when it is measured sets `short`, as a value that
was cut does: from then on the position in the stream is not to be relied upon.

**BufferedStream.** `taken` of the input half is the `drained` of the output half,
so what one end receives makes room for the other; `Deliver` moves bytes through
the kernel, `Finish` the end of the stream. The refinement mapping: what was
written are the bytes of insertions that returned and, of a value on its way
straight from the caller's memory, those already sent; what was got are the bytes
behind the positions the far end read; the promise is broken when a call was torn
or cut short, or a value overtook.

**BufferedMoves.** The two capacities (a record, `[in, out]`), indexes and sizes of
several objects, and a heap
of allocations that hold the bytes of both buffers. A byte is `<<connection, i>>`,
so bytes under the wrong connection show. `MoveConstruct` and `MoveAssign` are the
two member functions, literally; the kernel and the split of calls into steps are
left to the other modules, and values are single bytes, because what matters here
is only which memory and which counters a call finds. An object that was moved
from (`stale`) is destroyed, moved or assigned to, and not read or written.

**FdPass.** Each process has one object, or two of them are the ends of a stream
over which they use the static functions (`stream`, chosen in `Init`; a message
with descriptors is received by itself there too, so the queue is the same).
`RecvEnds` is the end of that stream: `recvmsg()` returns 0, `CMSG_FIRSTHDR` is
null and is followed (`crashed`), unless the `size` that nobody has set happens to
be 0. `SendStart` is `connect()` unless
`_ready`, `SendBatch` one `sendmsg()`. `RecvStart` goes straight to the static
`recv()` (`RecvEnter`) when `_ready`; else it is `unlink()`, and `RecvBind` or
`RecvBindFails` is the `bind()` behind it: another process can unlink or bind the path
between the two, and a `bind()` that throws leaves the object not `_ready` and the path as it is.
`RecvBatch` is one `recvmsg()` with what the loop makes of it.
`room` models `msg_controllen`, which is set once and is then what the last
message left: the rounding to pairs of ints is the kernel's alignment of control
messages. What lies behind the descriptors a message brought is `Garbage`, and
wrapping it is a step the model takes. `Die` ends a process; the path stays.
The refinement mapping to `ListChannel`: what was offered are the lists whose
`send()` returned, what was got is what `recv()` returned in the processes that
only receive, and the promise is broken when a call fails in the middle of a list.
A FIFO returns one list once whoever asks, leaves none out, and ends behind the
last; batches, queues, paths and `_ready` do not occur in it.

**Timer.** Time advances in units (`Elapse`). An expiration that is due is
noticed by the kernel in a step of its own (`Fire`), so every call can come
before it; the setting `timerfd_settime()` returns then has a value of 0, which
is why `resume()` normalises. A blocked `timeouts()` is `Timeouts` and later
`TimeoutsReturns`, with calls of another thread between them. `ideal` is a
history variable: the same timer, had it never been paused.

**Descriptor.** `table` is the kernel's table; the lowest free number is handed
out, as POSIX demands. `meant` follows an object through moves and names the file
it was made for. The classes differ in one thing, `dup()`: `file` copies the
number.

**Epoll.** The kernel keeps an entry per list, number and open file, and forgets it
when no number leads to the file any more (`Sweep`, a part of every action that
changes the table). The program puts the number into the event's data, as
`add(fd, events, fd)` does, and finds the object by it. Regular files are refused,
lists of lists are left out.

**Mapping.** `mapped` is how many pages of a region are left; `munmap()` takes off
as many as it is told, so a `_size` that parted from its `_addr` shows. A region
does not end with the descriptor it was made from.

**Process.** Steps of `Epoll`, `Mapping` and `BufferedMoves` in any order in one
process. `Within` is a bound and nothing else: a process has as many files, lists,
regions and sockets as its record in `Bounds` allows.

**EventFd.** A call is two steps, `Write` and `WriteReturns`, `Read` and
`ReadReturns`, so that threads wait in both. The kernel transfers eight bytes or
none, so the loops around the system calls end after one round; `Interrupted` is
the exception out of a round that transferred nothing.

**EventLoop.** `Start` is a new process up to the factory - a signalfd, an eventfd,
and `unlink()` of the path - then come `socket`, `bind`, `listen` (`UnixServer`,
`InetServer`) and `Setup`. `Wait` takes a snapshot of what is ready into `events`;
each event is one action for its branch of the loop, in any order, and the branch
of a connection stays in `recv()` (`HandleConn`, `RecvSome`, `RecvEnd`) until the
client closes, as the code does. `Inserted` is `unordered_map::insert`, which
leaves an entry that is there alone. Meanwhile clients connect, send and close,
other threads write to the eventfd, and SIGTERM arrives. `Die` is a SIGKILL or an
exception in any place, `Gone` what the kernel does behind a process: connections
reset, descriptors closed, the file of a unix socket left behind, an inet address
in use for a while (`Expire`). The test has a timerfd where the module has the
eventfd; its inotify and its epoll descriptor stay open all the time and are left
out, so numbers begin at 1 with the signalfd.

## 3. Runs

In `loop_any` deadlock is checked: a server can always go on or be started again.
The other systems come to rest when the bounds on bytes, lists or files are used
up or the object is destroyed, so there it is not; calls that hang are the matter
of liveness properties.

| Run | Question | Bounds |
|---|---|---|
| `out_any` | Does the output half keep order, lose nothing, send nothing twice between torn calls, and return? (`TypeOK`, `SentInOrder`, `NothingLost`, `FlushDurable`, `SentOnce`, `CallsReturn`) | buffer 3, kernel 2, values of 1, 2, 4 bytes, 7 bytes in all, 2 failures |
| `out_overtaken` | Is the order kept unconditionally? **No** (finding 1) | values of 1 and 4 |
| `in_any` | Does the input half return the stream, drop nothing, survive failures, and return; are strings that arrive whole taken apart right, mixed with values? (`StringTypeOK`, `ReadInOrder`, `NothingDropped`, `WholeSkipsTerminator`, `ReadReturns`) | buffer 3, values of 1, 2, 4, 3 strings, stream of 7 with `'\0'` at 2, 5 and 6 (strings of 1 and 2 characters and an empty one), 2 failures |
| `in_truncated` | Are all bytes of a value received? **No** (finding 2) | buffer 3, values of 2, stream of 4 |
| `str_split` | Is what is skipped behind a string its `'\0'`, when strings arrive in pieces? **No** (finding 3) | `'\0'` at 3, 4, 6; memory nothing was received into holds 0 |
| `stream_fifo` | Do two ends implement a FIFO, and does what was flushed arrive? (`ImplementsStream`, `FlushedIsRead`) | buffers 3 and 2, kernel 2, 4 bytes offered, 6 sent, 1 failure at each end |
| `pass_lists` | Do lists go through as through a FIFO, owned, and without hanging? (`TypeOK`, `NoLeak`, `NothingForeign`, `ImplementsChannel`, `ListsArrive`, `SendsReturn`) | batch 2, lists of 0 and 5, queue of 2, 2 receivers, a sender that also receives, 2 failures or deaths, not counting a `bind()` that finds the path bound; over a path, and over a stream between two of them |
| `pass_two_senders` | Is nothing leaked with two senders? **No** (finding 4) | two lists of 3 |
| `timer_any` | Does a timer say what the kernel does, do pauses move expirations, does `timeouts()` return? (`TypeOK`, `StateTellsTheTruth`, `NoDrift`, `ExpirationsCounted`, `TimeoutsReturn`) | two objects, an interval of 2 with a first value of 0, 1 unread expiration counted |
| `fd_owned` | In a process: has every number one owner and every owner its file; do events name the object they are about; is every region unmapped once; has every buffer one owner, and do bytes follow their connection? (`ProcessTypeOK`, `Exclusive`, `LeadsToOwnFile`, `NoLeak`, `WatchedOwned`, `MappingsOwned`, `BuffersOwned`, `OutputFollows`, `InputFollows`) | 3 places and 3 numbers; four processes: 3 files that are also duplicated, 3 files of which one is an epoll, a file with 2 regions of 1 or 2 pages in 2 objects, 2 buffered sockets with an input buffer of 2 and an output buffer of 3 or the reverse, 3 bytes on a connection, both ways together; places interchangeable |
| `fd_file_dup` | Do files stay open when a duplicate is closed? **No** (finding 5) | 2 places, 2 numbers |
| `loop_any` | Do map, descriptors and interest list agree, is no connection and no event lost, is every client served, does SIGTERM end the server, and can it be started again? (`LoopTypeOK`, `ConnectionsInStep`, `NoConnectionLost`, `EventsKept`, `Restartable`, `ClientsServed`, `SignalStops`) | 2 clients with 1 message each, a queue of 1, a unix server with room for 2 connections and an inet server with room for 1, a counter that is full at 1, 1 writing thread, 1 death |

**Why the bounds are enough.** The code's branches depend on comparisons of a
size with a capacity and of a fill level with a capacity, so sizes below, at and
above a buffer of three bytes, with room for two small values, take every branch
and every equality. A kernel buffer smaller than a value forces `send()` and
`recv()` into pieces. Two failures are the least with which a retry fails too. In
`FdPass` a list of 5 in batches of 2 has a full batch, a second and a last one
of one descriptor, and the queue of 2 is smaller than the list; `MaxRecvs` is at least
`MaxLists + MaxFailures`, so that the bound never keeps a receiver from the last
list. `StringInput` has an empty string, the place where a count is off by one
without notice. `BufferedMoves` has two pairs of capacities, each the other's reverse, so
that a counter of one object with a buffer of the other, or of one direction with a
buffer of the other, is found out, and three bytes
for a connection, so that either buffer gets full and is used again; a move
concerns two objects, and what happened to them before is in their counters. In `Timer` an interval of 2 can be interrupted with 2, 1 and 0 left, and what
is left is the first value of the next programming. Counting one unread expiration
suffices since every pause and read takes all of them; a second before the first
is read is merged with it in the timer and in `ideal` alike. In `Descriptor` a
number has to be closed, handed out and used by a third object: three of each; an
epoll takes one of them and leaves two to be exchanged. The processes of `Bounds`
differ because the parts share nothing but the table: what could go wrong between
regions and interest lists would need a place where they meet, and a mapping meets
the table only when it is made. In `EventLoop` two clients are enough for a number
of the first to be handed to the second, for two connections in one batch, and for
one that waits while the other is served; the inet server with room for one runs
out of numbers with the second. A limit of 1 makes the second write of the thread
wait for the loop; one death before, during or after anything is followed by the
same start as two.

**Fairness.** `BufferedOutput`: a thread in `send_all()` goes on when the
kernel has room, and the peer goes on reading; nobody has to call anything.
`BufferedInput`: a thread in `recv()` is woken when there is something to return,
and the peer closes in the end; it need not send. `BufferedStream`: as these, and
the far application goes on extracting, as the test programs do; nobody has to
flush. `FdPass`: the kernel wakes a thread whose queue has room or a message, and
receivers call `recv()` again (the loops of `tests/easy_fdpass_test.cpp`). No
failure and no death is ever assumed to happen. `Timer`: time passes, the kernel
serves its timers and wakes readers. `EventLoop`: the thread of the server is
scheduled (`ServerStep`), and a client closes in the end; a client that never does
keeps the loop in its `recv()`, and nobody else is served - that is the code's
design, and the two liveness properties fail without this assumption. Nobody has
to connect, to write to the eventfd - a writer that waits there need not be let in -
or to start the server. Weak fairness is enough everywhere: each of these steps stays
enabled until it is taken or until the property is met.

**Conditions on the properties.** Several properties hold until something happened
that the code does not undo, remembered by a history variable: `torn` (a
`send_all()` threw after a first part), `overtook`, `short` (a value was cut, or a
string measured before it was whole), `cut` (a list was cut in the middle), `aliased`
(a `file` was duplicated), `shared` (two numbers led to one file, so that an entry of
an interest list may outlive the number it was added with). For `overtook`, `short`
and `aliased`, and for several senders, a run of its own shows what goes wrong; `torn`
and `cut` are the price of an exception, and `shared` that of epoll's semantics: what
happens behind them is in the modules, but in no property. `SentOnce` alone goes on
behind a torn call: it begins anew, so that what is repeated is repeated once.
What does not depend on any of them is stated without: `NothingLost`, `FlushDurable`,
`CallsReturn`, `ReadReturns`, `Descriptor!NoLeak`, and all of `EventLoop` and
`Mapping`; but `EventLoop` counts a connection as done with when it is `reset`, which
the end of the server does to all of them, also when `accept()` found no number free.
`BufferedMoves` and `Timer` have no such history either, but speak of objects that
are in use: not of one that was moved from and has not been given a new value
(`stale`). `ListsArrive` excuses a list only by the death of the very process its
sender is connected to.

## 4. What was found

1. `easy/buffered_socket.cpp:336`: a value as large as the output buffer is sent
   at once although smaller ones are still in the buffer, and overtakes them.
2. `easy/buffered_socket.cpp:321`: the result of `recv(MSG_WAITALL)` is ignored:
   a value that the end of the stream or a signal cuts is returned with bytes
   nobody sent.
3. `easy/buffered_socket.cpp:296`: `strlen()` measures what was received and what
   was not. The first of two bytes has been received, with 0 in the memory behind
   it: the string is one character long, taking it out receives the second byte, and
   the step over the `'\0'` skips that one, which is data.
4. `easy/fdpass.cpp:96`: with two senders on a path the batches of their lists
   mix, and descriptors are opened that no object owns ("No file descriptor
   leaking", `README.md:46`).
5. `fds/file.cpp:71`: the copy constructor, and with it `file::dup()`, does not
   duplicate the descriptor; two objects close one number.

Each is the violation of the property its run names; `PROJECT.json` quotes the
lines that say otherwise.

## 5. Proofs

Every theorem holds for all values of the constants that satisfy the named
assumption of its module: they are naturals; values, batches and the
kernel's queues have room for at least one byte, descriptor or message, and an output
buffer in `BufferedMoves` for two bytes. `MovesAssumption` is a hypothesis of the theorems of `BufferedMoves_proofs`,
and a part of `ProcessAssumption`, with which those of `Process_proofs` go; the
others are `ASSUME`d and evaluated by the runs; `StreamAssumption` is those of the two halves with the
values `BufferedStream` gives their constants.

| Module | Theorem | States |
|---|---|---|
| `BufferedOutput_proofs` | `TypeCorrect`, `OrderKept`, `NothingIsLost`, `FlushIsDurable`, `NothingTwice` | `TypeOK` with `Cursor` (`n` is within what is being sent), `SentInOrder`, `NothingLost`, `FlushDurable`, `SentOnce` |
| `StringInput_proofs` | `InputTypeCorrect`, `InOrderRead`, `NothingIsDropped` | of values alone: `InTypes` (`TypeOK`, and a blocked call is short of what it asked for), `ReadInOrder`, `NothingDropped` |
| | `StringTypeCorrect`, `MixedInOrder`, `MixedKeepsAll`, `TerminatorSkipped` | `StringTypeOK`, `ReadInOrder`, `NothingDropped`, `WholeSkipsTerminator`, of values and strings mixed; the second and third until a value is cut short or a string is measured before it is whole |
| `BufferedStream_proofs` | `StreamImplemented` | `ImplementsStream`: two ends of a connection implement `ByteStream` |
| `BufferedMoves_proofs` | `MovesTypeCorrect`, `OneFree`, `OutputStays`, `InputStays` | `TypeOK`, `BuffersOwned`, `OutputFollows`, `InputFollows` |
| `FdPass_proofs` | `PassTypeCorrect` | `TypeOK`, whoever sends |
| | `PassListsIntact`, `PassNoLeak`, `PassNothingForeign` | with one sender: `ListsIntact`, `NoLeak`, `NothingForeign` |
| | `PassImplementsChannel` | with one sender: `ImplementsChannel`, a FIFO of lists |
| | `PassNothingLost` | with one sender: a list whose `send()` returned was returned by `recv()` or is on its way, while the receiver lives |
| `Timer_proofs` | `TimerTypeCorrect`, `StateIsTrue`, `PausesDoNotDrift`, `EachExpirationCounted` | `TypeOK`, `StateTellsTheTruth`, `NoDrift`, `ExpirationsCounted` |
| `Process_proofs` | `TypeCorrect`, `OneOwner`, `OwnFile`, `NothingLeaks` | of descriptors: `TypeOK`, `Exclusive`, `LeadsToOwnFile`, `NoLeak`; the second and third until `file::dup()` makes an alias |
| | `EventsFindTheirObject` | of epoll: `WatchedOwned` |
| | `RegionsOwned` | of mappings: `MappingsOwned` |
| | `ProcessParts`, `ProcessOwns` | a process implements `EpollSpec`, `MapSpec` and the specification of `BufferedMoves`; so the five properties of its descriptors, lists and regions hold in it |
| | `ProcessTypeCorrect`, `ProcessFreesOnce`, `ProcessOutputStays`, `ProcessInputStays` | of the process: `ProcessTypeOK`, `BuffersOwned`, `OutputFollows`, `InputFollows` |
| `EventLoop_proofs` | `NoEventLost` | of the eventfd alone: `EventsKept` |
| | `LoopTypeCorrect`, `InStepAlways`, `ConnectionsKept`, `LoopEventsKept`, `AlwaysRestartable` | `LoopTypeOK`, `ConnectionsInStep`, `NoConnectionLost`, `EventsKept`, `Restartable` |

**BufferedOutput_proofs.**

* `TypeInv` is `TypeOK` with `Cursor`: `n` never exceeds the length of what is
  being sent, a value waiting behind `drain` is smaller than the buffer, and no
  value is left when no call runs. Without it `TypeOK` is not inductive: that the
  buffer does not overflow when it is drained and refilled rests on the size of a
  value accepted one call earlier.
* `OrderInv` says where the stream and the buffer meet. `SentInOrder` alone says
  nothing of the bytes still in the buffer, and so nothing of the next `send()`.
  As long as nothing is torn and nothing overtook: the bytes sent are a prefix of
  those inserted; the buffer is the rest of the insertions that returned, less the
  `n` bytes of it that a running `send_all()` has sent; and while a value is sent
  straight from memory the buffer is empty and everything before the value is with
  the kernel.
* `DurableInv` is `NothingLost` and `FlushDurable` with: the first `n` bytes of
  what is being sent are with the kernel. So the buffer may be emptied when `n`
  reaches its length. It holds through torn calls and overtaking.
* `OnceInv`: what was sent since the last torn call (`Recent`), what is left of the
  source of the running `send_all()` and what is buffered behind it are pairwise
  apart, each without repetition, and all of it is below what will be inserted next.
  Overtaking is allowed, so order cannot help. A call that is torn empties `Recent`,
  and what was sent before it may be sent once more.

`SliceAppended` and `Slice` are the lemmas they rest on: what a `send()` of `k` bytes
from position `n` does to the stream. The last section is for `BufferedStream`:
`Written` are the bytes in the connection for good, a step adds to them at its end
(`StepWrites`) and only bytes not seen before, and to what was sent (`SentGrows`).

**StringInput_proofs**, of values. `ReadInOrder` and `NothingDropped` say nothing of the
moment a thread waits in `recv(MSG_WAITALL)`, and after it `read` and the buffer must
meet again. `InInv` says it for both: idle, what was received is `read` and
`mem[rd..size)`, which are the stream's next bytes; waiting, it is `read` and `dst`,
and the buffer's rest, which was copied there, is no longer than `dst`. A byte is its
position, so the invariant is that the positions count on (`CountsOn`) from `read`
to the buffer or to `dst`, and the `memmove()` is `Copied`.

**StringInput_proofs**, of strings. `Strict` is `InInv` again, as long as nothing was cut or
measured in part. `Ahead` is the string's own: when it was whole its `'\0'` is
`todo` bytes ahead of `_in_rd`, inside what is received, in every round of the loop;
each round takes one byte from the buffer, and so none of them blocks or moves the
buffer (`CharKeeps`). `Loose` is what is left of the types when `_in_rd` has run
beyond the buffer; it has to be inductive without the rest. That what was received
is not 0 (`Held`) is why a zero found behind it is not taken for the stream's.

**BufferedStream_proofs.** `StreamInv` joins the invariants of the halves, whose
proofs are instantiated with the constants and variables of `BufferedStream`, and
says nothing arrives that was not sent. A step of the near end appends to
`Stream!written` (`SendWrites`); a step of the far end reads bytes that `Stream!written`
has already, since positions the far end has were sent, and what was sent without a
tear or overtaking is a prefix of what is written (`OtherReads`, `DataIsFirst`).
Every step is then one of `ByteStream` or stutters (`StreamStep`), and once the
promise is broken it stays so (`BrokenStays`).

**BufferedMoves_proofs.** `MovesInv` adds to the three properties that allocations
have the shape a constructor gave them (`HeapOK`) and that a connection has one
object (`SocksOwned`): without it an insertion could change what another object has
to send. A use of an object is proved through `UseKeeps` - it changes one
allocation and one connection, which nobody else has - and a move through
`HandedOn` and `OwnersAgain`: whoever is used afterwards has just what one object
had before, and sources and targets exchange what they own.

**FdPass_proofs.** `PassTypes` is `TypeOK` with: the descriptors of a list carry its
number, and a `send()` in its loop has a list that was offered and a connection, and
is not behind the list's end. It is inductive whoever sends: that a message is
never empty nor larger than a batch does not depend on who else sends.

The other theorems have the hypothesis that one process sends. It is the code's
own condition, not one of the proof: a message does not say which list it belongs
to, and `pass_two_senders` is the behaviour of two. Nothing else is assumed - not who
receives, how often the path is taken over, whether it is a path or a stream, what
the lengths are. Receivers that die are covered; calls that fail in the middle of a
list end the promise (`cut`), as they do in the properties.

* `PassInv` adds `OneLine`, as long as nothing is cut. `ListsIntact` and `NoLeak` speak of
  what `recv()` has returned and opened, and that the next message fits depends on
  all that is still under way: what the receiver has of its list, the messages in
  its queue, and the next batch of the running `send()` follow one another without a
  gap (`Queued` and `Follows`): each continues the list of the one before it, or
  begins a later list behind a whole one. So the count `recv()` keeps runs out exactly
  with the list's last batch, `room` never falls below a batch in its middle, and what
  lies behind the descriptors of a message is not looked at (`TakesAll`).
* `Connected` says why there is one line: `_ready` ties the sender to the first socket
  it found, and a process that takes the path over later has nothing in its queue,
  ever. `Held`, that what is open in a process is what its vectors own.
* `Delivered` is `PassNothingLost`, and why the end of a stream is behind every list.
* Each action has a lemma; those of the queue (`QueuedMore`, `QueuedLess`, `HeadPartly`,
  `HeadWhole`) are about sequences of messages and know nothing of processes.

For the refinement `LastPieces` is needed besides: a list whose last batch is in a
queue is complete, so that `recv()` cannot return it before it is offered. A
`SendBatch` that is the last, or a `SendStart` of nothing, is `Offer` or a stutter;
`RecvBatch` is `Deliver` when it is the last of a list, and the list it returns is the
first of those waiting, since what is behind it in the line is later
(`DeliverStep`); `RecvEnds` is `End`, where `Delivered` and the empty queue leave
nothing waiting; all else stutters or breaks (`ChannelStep`).

**Timer_proofs.** `TimerInv` has, for an object whose state is its own, `Sound`: in
each of the three states what `_remaining`, the kernel's setting and the ideal timer
have to do with each other. `NoDrift` says nothing of a paused timer; that
`resume()` finds the right rest is in `Sound`. `SpecsNormal` (a programmed setting
with an interval has a first value) is why `settime()` and `resume()` never disarm
by mistake.

**Process_proofs.** Exclusive owners and open numbers need each other, and `NoLeak`
has to survive aliases, which `Exclusive` does not: the invariant keeps for every
open number an owner, and for unaliased objects that it is the only one. With epoll
it has in addition that an entry's number leads to the entry's file as long as
nothing is shared. A process implements its parts, so that their theorems carry
over; `FutureUnused` (regions not mapped yet belong to nobody) makes `MappingsOwned`
inductive. The buffered sockets of a process are an instance of `BufferedMoves` and
the proofs about them another, with the same substitution; `MovesBegin`, `MovesGoOn`
and `MovesPromise` say that both mean the same. `ProcessInv` is the conjunction of
the invariants of the parts, which share no variable: a step of one leaves the
others' alone.

**EventLoop_proofs.** `EventsKept` is inductive with the types.
`LoopInv` is `ConnectionsInStep` with what holds outside the loop - an empty map and
no events until `Setup` - and with where the loop is: in `recv()` its number has an
entry and is among the descriptors, in `dispatch` the events are watched; and for
every client where it is, in the queue or in the map, or neither with all its
messages received. `Restartable` needs that a unix address is only found in use by
a server that did not remove the file, and `Start` does.

**Only model-checked.** Liveness (`CallsReturn`, `ReadReturns`, `FlushedIsRead`,
`ListsArrive`, `SendsReturn`, `TimeoutsReturn`, `ClientsServed`, `SignalStops`),
which is out of the prover's reach. Every other property of a passing run is stated
by a theorem, those of `FdPass` but `TypeOK` for one sender; that is the case
`pass_lists` checks.
No recursive definition occurs in a module with theorems.

## 6. Not modelled

* Wrappers of one system call (`iodescriptor`, `idescriptor`, most of `socket`,
  `file`, `memfd`, `inotify`): no state of theirs outlives a call; their results
  are the failing and partial steps of their callers.
* `udp_socket`: a straight sequence of calls of which nothing is kept. Of the other
  factories the addresses are modelled as one that is free or in use, not their
  bytes; the length of a path (`unix_socket.cpp:43`) is not in any module.
* `signalfd::setmask()`, and more than one pending signal.
* What is read and written through an `mmap`, and the size of the file behind it.
* Byte order, wire format and the text of errors: conversions of single values.
* `O_NONBLOCK` sockets below a `buffered_socket`: `EAGAIN` is then one more error
  of `send()`, which `SendFails` covers.
* Two threads in one `buffered_socket`: it has no locks and does not claim to
  allow it. The two directions share no counter.
* Use of an object that was moved from, except to destroy, move or assign it.

## 7. Plan

What is modelled first was the output half, on which programs rest most; then the
input half, both ends, moves, `fdpass`, the timer and descriptors; then `epoll`,
`eventfd`, `mmap`, the process and the event loop. What is left:

1. `FdPass` with several senders, of which one at a time is in the middle of a list:
   what a lock around `send()` would have to give for the theorems of one sender;
2. a connection of the event loop as a `buffered_socket`, whose `operator>>` would
   hold the loop in the middle of a value as `recv()` does now at the end of one.
