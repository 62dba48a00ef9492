# SymphonicSuite, modelled in TLA+

SymphonicSuite is a collection of small network programs around one larger one,
a chat server that forks a process per client. This directory models the
programs that keep state across events: the chat server, the echo servers built
on epoll and select, a server that forks a child per connection, and the small
programs about SIGCHLD, a mutex, connecting with a timeout, standard input under
epoll and data carried by events. The modules are checked by TLC on small instances; what matters most is proved with TLAPS
for all values of the constants.

## The system

| part | state | operations | what is hard |
|---|---|---|---|
| chat server, `main()` (`demo/chat_server_shm.cc`) | `users[]`, `user_count`, `sub_process[]`, flags `terminate`, `stop_server`, the current batch of epoll events, the bytes read from the signal pipe | accept and fork, relay a number, reap, kill all, leave | signals coalesce and are written to a pipe by a handler; entries of the table are swapped; descriptors are closed and reused inside a batch; calls fail half way |
| chat server, `run_child()` | `stop_child`, its own epoll set, its slot of shared memory | take text, send a number to the server, send a slot's text to the client, obey SIGTERM | the slot index is fixed at fork while the entry moves; a window in which SIGTERM is lost; edge-triggered reads |
| epoll echo servers (`epoll/echo*.cc`) | epoll set, batch | accept, read and write back, close | level- against edge-triggered, blocking against non-blocking |
| select servers (`select/*.cc`, `*.cpp`) | `client[]`, `maxi`, `allset`, `nready`; or `readfds`, `cpyset`, `maxfd` | accept, scan, echo, drop | table, sets and counters must agree; descriptors are reused within a scan |
| `epoll/epoll_event_data.cc` | a `myData` per descriptor | accept, read, close | an event's data outlives its block |
| `epoll/stdin_to_stdout_*.c` | `errno` | read | the end of the loop depends on an old `errno` |
| `select/select_demo_noblock_conn.c` | a socket being connected | connect, wait, look at the outcome | timeouts, late answers, refused connections |
| `process/zombie.cc` | five children | fork, sleep, reap | SIGCHLDs coalesce; the handler ends the sleep |
| forking echo server (`process/echo_waitpid.cc`) | children, descriptors | accept, fork, echo, reap | SIGCHLDs coalesce; two processes hold a connection |
| mutex (`pkg/sync/Mutex.h`) | `holder_` | lock, unlock, ask | `holder_` is read without the lock |
| socket wrappers (`pkg/net`) | a descriptor | wrap system calls | `Accept()` may return `nullptr` |
| demonstrations, tests, stubs, googletest | | straight-line code | |

In the chat server the parts interact as follows. A child sends its 4-byte slot
number over a socketpair; the server sends it on to every other child; these send
the text in that slot to their clients. A dying child raises SIGCHLD, whose
handler writes a byte to a pipe the server's own epoll loop reads; a SIGTERM takes
the same way and makes the server send SIGTERM to its children. A child starts
with the server's handlers and replaces the one for SIGTERM only after it has
set up its own epoll set.

## Modules

| module | models | correspondence |
|---|---|---|
| `ChatMain` | `main()` and `sig_handler` | one action per branch of the event loop, a step of the reap loop, a signal byte; the tables keep their names, the kernel's objects (`ready`, `backlog`, `pending`, `sigpipe`, `fdtab`, `proc`, `up`, `down`) are variables. A child may do anything `run_child` could |
| `ChatRoster` | the promise of the tables | abstract: processes join, die, leave once each, and at most one is left when the roster closes |
| `ChatSystem` | `run_child`, clients, an administrator | extends `ChatMain`: the server's steps with what children see of them, and one action per branch of `run_child`, each conjoined with the `ChatMain` action it is a case of. That it implements `ChatMain` holds by this construction and is no finding; that it does so with `ChatMain`'s fairness is (`ImplementsFairly`) |
| `ChatShm` | the shared memory | extends `ChatSystem`: each step of `run_child` that clears, fills or sends a slot, conjoined with what it does to the slot |
| `EchoServer` | `echo_lt.cc`, `echo.cc` and `echo_et.cc` | one loop; the variable `EdgeTriggered`, chosen at the start, says which program runs. `echo_et_wrong.cc` is `AfterAnswerBug` |
| `SelectSockets` | the sockets of the select servers and the clients at their far ends | a `read()` takes at most a buffer, a `write()` waits for a client that does not read, a connection closed at its far end is reset, and the `write()` after a reset raises SIGPIPE |
| `SelectTable` | `select_single_thread_server.cpp` | extends `SelectSockets`: the scan one index at a time, `read()` and `write()` as two steps |
| `SelectEcho` | `select/echo_server.cc` | extends `SelectSockets`: the scan one reported descriptor at a time, over the copied set, `read()` and `write()` as two steps. `echo_server_wrong_example.cc` is `WatchedBug` and `ReportedBug` |
| `SigChld` | the SIGCHLD handler `zombie.cc` and `echo_waitpid.cc` share | `waitpid()` one call at a time, children dying in between |
| `EchoWaitpid` | `echo_waitpid.cc` | extends `SigChld`: the parent's loop, descriptors of both sides, the child |
| `Zombie` | `zombie.cc` | extends `SigChld`: the loop of forks, and the sleep the handler ends |
| `MutexLock` | `Mutex.h` | one action per statement that takes, marks, unmarks or gives back; `getPthreadMutex()` is left out |
| `NoblockConnect` | `unblock_connect()` | one action per call and branch, the network in between |
| `StdinEpoll` | `stdin_to_stdout_et.c`, `stdin_to_stdout_lt.c` | one loop; the variable `edge`, chosen at the start, says which |
| `EventData` | `epoll_event_data.cc` | what an event's pointer finds is `DataOf` |
| `ChatMainProofs`, `ChatSystemProofs`, `ChatShmProofs`, `EchoServerProofs`, `SelectProofs`, `ProcessProofs` | | the proofs; `SelectEcho` and `MutexLock` hold their own. `ProcessProofs` carries their theorems over to `MCPrograms`, which TLC runs |
| `MC*` | | extend the above for TLC, with symmetry where no liveness is checked. `MCPrograms` puts independent programs side by side: a variable says which runs, the others stay as they begin |

A definition called `...Bug` is what a plausible mistake would have made of the
definition after it. None is used by a specification; each shows that a property
notices it.

Text is abstracted to how much of it waits: in the select and epoll servers in
bytes, in `ChatSystem` in pieces, of which one `recv()` takes at most `RECV_CAP`
(the source's `BUFFER_SIZE - 1` bytes), so that a long text takes several. Signals
in the pipe are bytes, of which one `recv()` takes at most `SIG_READ` (1024). A client
of the chat server that resets its connection is one that leaves:
`run_child` stops at an error as at the end of file, after the text received before
it. A slot of shared memory holds whose text it is, or that it is blank, and who made
it so. A child copies a slot in one
step: text torn by a `recv()` in the middle of a sibling's `send()` is not told
from the old or the new. `unseen` and `shared` of `ChatShm` are history: nothing
but properties reads them.
Formatting, logging and the set-up before the loops are left out. Kernel objects
are modelled from how the source uses them: edge-triggered descriptors enter the
ready list on each arrival, signals of one kind do not queue, a descriptor closed
is handed out again (in the chat server the lowest first, as POSIX has it). The
events of one `epoll_wait` come in any order.

## Runs

| run | question | bounds |
|---|---|---|
| `ChatTables` | Do `users[]`, `sub_process[]`, descriptors and processes agree, and implement the roster, while `accept()` and `fork()` fail? `TableConsistent`, `ChannelsMatch`, `SlotAtOrAboveIndex`, `RosterSpec` | 2 entries, 3 pids, 6 descriptors, one number in flight: the first entry is taken by the last, or the last removed; pids and descriptors are reused, also within a batch that still holds an event of the old one; after two failed forks too few descriptors are left. The theorems hold for tables of every size |
| `ChatShutdown` | SIGTERM at any time: `KillOnlyOwn`, `ExitLeavesAtMostOne`, `NeverDeaf`, `NoAbort`; `StaysAnnounced`: a zombie has a SIGCHLD, a byte in the pipe or the reap loop coming to it | 2 entries, 3 pids, a queue of 2 so that two connections share an event, a signal pipe of 2 bytes read one at a time, so that signals stay behind a `recv()` |
| `ChatAbort` | is the assertion of line 270 safe? `NoAbort` is violated | one failed `fork()` |
| `SysTalk` | clients type and leave, slots are cleared, filled, sent, shared and inherited: `ShmTypeOK`, `BlankIsBrief`, `NoSelfNotify`, `OwnTextIfShared`; `TextStaysAnnounced`: a text a client has not seen has a number on its way that will show it. `ShmTypeOK` includes the types of `ChatSystem` and `ChatMain` | 3 clients one after another or together on 2 entries, so that a slot comes to be shared; one piece of text and one number in flight |
| `SysText` | does the latest text get through, and the end of a client? `LatestTextSeen`, `LeaverEnds` under fairness, `StaysHeard` | 2 clients, one of which (`Talkers`) sends texts of two pieces, a `recv()` of one piece, and pipes that hold two numbers: numbers queue, and one waits for the next (line 372) |
| `SysLive` | SIGTERMs, clients that come and leave but do not type: `ImplementsFairly`, `ZombieReaped`, `OrphanEnds`, `PersistentShutdown` | 2 clients; a signal pipe of 1, so that it fills |
| `SysShutdown` | does one SIGTERM do? `ShutdownCompletes` is violated | as `SysLive` |
| `Echo` | `TypeOK`, `BatchReadable`, `NothingStranded`, `EndSeen`, `AllAccepted` | 3 clients on 2 descriptors, 3 bytes against a buffer and a window of 2 |
| `Select` | the server with a table: `TypeOK`, `TableMatchesSet`, `NreadyCounts`, `ServedBelowMaxi` | 3 slots, 4 descriptors, 5 clients: slots and descriptors are reused, the table fills, descriptors run out; 2 bytes against a buffer and a window of 1: a `write()` waits for the echo before it to be read; one connection at a time closed at its far end (`MaxGone`), which raises SIGPIPE if it is written to twice |
| `SelectMaxi` | is `maxi` the length of `client[]`? `MaxiIsLength` is violated | as `Select`, 4 clients |
| `Programs` | `EchoWaitpid`: `NoZombieForgotten`, `NeverOutOfDescriptors`, `ClientSeesEnd`, `ChildrenReaped`. `Zombie`: no property of its own, its handler is the same and its invariant is proved. `MutexLock`: `AnswerRight`, `HolderClearedAtEnd`. `NoblockConnect`: `OutcomeRight`. `StdinEpoll`: `InputRead`. `SelectEcho`: `ScanRight` (`SetIsOpen` and `ScanReadable`), `AllServed` | 3 clients and 2 pids, so that `fork()` also fails for want of one; 5 children; 3 threads; 5 bytes against a buffer of 2; for `SelectEcho` 4 clients on 3 descriptors and bytes as in `Select` |
| `EventData` | does an event carry its own descriptor's data? `CarriesOwnData` is violated | 3 clients on 2 descriptors |

The bounds are named where they are declared. Two or three of everything is
enough for what the properties are about: an entry and its neighbour, a child and
the sibling that got its descriptor, a signal, one lost and one pending. Deadlock
is not checked: all systems may stop, when the bounds on clients are reached, when
`main()` has returned or when a server has died.

### What the violations show

* `ChatAbort`. When `fork()` fails only `connfd` is closed. The two ends of the
  socketpair stay open, and enough failures make a later `socketpair()` fail its
  assertion: the next connection aborts the server, although in the trace it has no
  child at all and its table is empty.
* `SysShutdown`. SIGTERM is sent once per child and once only. A child that gets
  it before line 110, or between `while( !stop_child )` and `epoll_wait()`, goes
  on; the server then waits for it although it has announced "kill all the clild
  now". Told again and again it does return (`PersistentShutdown`).
* `SelectMaxi`. `maxi` is commented as a length and used as one by the scan, but is
  set to the largest index: the connection in the highest slot is not read, and
  `select()` keeps returning because of it.
* `EventData`. The pointer in a connection's event is to a variable of a block that
  has ended. The model takes the mildest outcome: the place keeps what was written
  last. It is one place for all connections, so an event of one connection reads
  from another, and the server may wait in `read()` while others have text.

### Fairness

`ChatMain!Fairness`, `SysFairness` and `ShmFairness` ask that the server and every process that
can run be scheduled and that the kernel deliver pending signals; `EchoServer`,
`SelectTable` and `SelectEcho` ask also that a client that waits for an echo read it,
since a blocking `write()` waits for it. Nothing is asked of clients' sending, typing or leaving, nor of the
administrator, except in `PersistentShutdown`, whose premise `Persistent` says
that he keeps trying. `ImplementsFairly` shows that the fairness `ChatMain` asks
of an arbitrary child and of the server follows from that of `ChatSystem`, so that
no more is asked there than `run_child` gives. `StdinEpoll` needs only run itself, `EchoWaitpid` its parent
and its children. Weak fairness is enough everywhere: no process is disabled
by another for ever. The edge-triggered echo server reads a connection until
EAGAIN, so a client that never stops sending keeps it from all others; `EndSeen`
holds of it because `MaxBytes` ends the sending.

Some properties have premises for what the code does lose. `ZombieReaped` and
`PersistentShutdown` except a lost SIGCHLD (`ChldLost`): one that finds the signal
pipe full of other signals, or that lies behind more bytes than one `recv()` of the
edge-triggered pipe takes. `StaysAnnounced` excuses the step that loses it, and
`TextStaysAnnounced` the one that finds a client's socketpair full of other numbers
(`NumberLost`). `StaysHeard` excuses the `recv()` that takes text and leaves more of it,
or the end of file, behind: the event is used up, and the child waits for the next.
`LeaverEnds` is accordingly about an end of file that arrives with no text before
it. `LatestTextSeen` is about texts a child has read, between two clients with slots
of their own, from when nobody sends any more: numbers are dropped, wait for each
other and overtake texts, but the last one to arrive finds the last text. What a
client has sent and its child has not read, because the event was used up, is not
among them.

`AllServed` and `ServedBelowMaxi` end in one of three ways: the connection is served,
or closed, or the server is dead, by SIGPIPE or for want of a descriptor. One client
that does not read its echo keeps all others waiting; that is why the fairness asks
clients to read.
`AllAccepted` is about the level-triggered server only: the edge-triggered one
accepts one connection per event and leaves a second one queued. `NeverDeaf` says
for the chat server, which does the same, that a full queue at least is noticed.

## Proofs

TLC checks the parts of each inductive invariant, on the runs' instances or on
smaller ones, before they are proved.

### The chat server's `main()`: `ChatMainProofs`

For tables, queues, pipes, descriptors and processes of any number.

* *Tables.* `TableConsistent` is about `users[]` and `sub_process[]` together: an
  unreaped child is found from its pid through both, and nobody else is.
  `sub_process[]` alone may keep the index of a reaped pid: when the entry removed is
  the last one, line 333 writes back what line 324 had cleared. The entry that index
  names, if any, is another child's. The invariant `Tables` is `TypeOK`, `TableConsistent` and
  `ChannelsMatch` with what they rest on. `TableConsistent` alone is not inductive:
  that a pid reaped has an entry, and that closing this entry's descriptor leaves the
  others open, needs `ChannelsMatch`; that a pid forked has none needs the processes.
  The lemma `ReapEffect` says once what a pass of the reap loop does to correct
  tables, and the theorems about types, slots, signals (`KillOnlyOwnCorrect`), relays
  (`NoSelfNotifyCorrect`), the end (`ExitLeavesAtMostOneCorrect`, through `Stopping`)
  and the roster (`RosterCorrect`) cite it. `NoAbortCorrect` adds `NoLeak` and counts
  descriptors; it assumes that `fork()` does not fail and that there are two
  descriptors more than users. `NeverDeafCorrect` assumes no failures and the same.
* *Signals.* `StaysAnnouncedCorrect`: no step takes the last announcement of a zombie
  away, unless the SIGCHLD is lost: the handler finds the pipe full of other signals, or
  one `recv()` does not get to its byte. The coalescing of
  SIGCHLDs is what makes it hard: the handler may write nothing because a byte is
  there already (`HandlerAnnounces`), or find the pipe full (`FullOfOthers`), and the
  reap loop may take several children with one byte. `ZombiesAnnouncedAlways` turns it
  into an invariant of all behaviours that lose none. `LastChildNoticed`: a server
  told to terminate does not sit waiting for a SIGCHLD when it has no child left.
  `FullSignalPipeHasEvent`: a signal pipe that is full has an event under way, though
  it is edge-triggered and a `recv()` may leave bytes in it; a byte the handler then
  drops is dropped behind others that will be read.
* *Numbers.* `StoppedIsQuiet`: only processes that run have numbers waiting in the
  pipe to them, and once the loop is told to stop nobody has. `FullPipeHasEvent`: an edge-triggered socketpair that is full always
  has an event on its way, so that a number dropped by line 142 is announced by those
  before it. It assumes `PIPE_CAP > 0`: with pipes that hold nothing, a full one is
  empty. The lemmas `ProcessLife`, `ChannelKept`, `EventKept` and `NumbersKept`, of what
  one step can do to a process, its channel, an event and the numbers queued, are
  shared with `ChatShmProofs`.

### `run_child` and the whole service: `ChatSystemProofs`

Each step of `SysSpec` is a `ChatMain` step or a stutter by the shape of the
definitions; the lemma `ServiceIsChatMain` only writes that down, and `WholeService`
lists what it carries over: among them `NeverDeaf` and `NoAbort`, under
`SystemAssumption`, which excludes a failing `accept()` or `fork()` and leaves two
descriptors more than users. With a failing `fork()` the assertion does fail (`ChatAbort`).
Two theorems are about the child itself. They rest on `LoopInvariant`: a child
that waits in `epoll_wait()` has looked at all events of its last batch.
`OrphanNotifiedAlways`: a child that outlives the server has the end of the socketpair
before it or has seen it; it needs `StoppedIsQuiet`, since a number still queued would
take the end's place (line 147 reads four bytes and goes on). `StaysHeardCorrect`: no
step leaves a client's text or end without an event or a look of its child at it, from
the `fork()` on, except the `recv()` that leaves a rest behind.

### Shared memory: `ChatShmProofs`

For any number of children, clients and slots.

* `OwnTextIfShared` and `BlankIsBrief` are about one step and one moment; what makes
  them true is `SlotInv`. A child that has never shared its slot has it to itself
  among the processes not yet reaped, and no number waiting in the pipe to it names
  that slot; a child has written its own slot only. It needs `ChatMain`'s tables (who
  is registered, which channel is whose) and `NoSelfNotify`.
* `TextStaysAnnouncedCorrect` follows a number on its way from `recv()` through the
  socketpair, the server's relay and the other socketpair to `send()`. `TextInv` adds
  that only children that run have texts to be seen, by others that run, and that such a
  child finds its own text in its slot unless it shared it; `FullPipeHasEvent` covers the number line 142 drops. There is one
  lemma per stage: `NoteKept` (steps that touch neither pipe), `RelayHandsOn` (what
  leaves the one pipe enters the other, unless that is full), `ReadingSees` (a number
  leaves the second pipe only when the text has been sent) and `WaitOrStop`. Nothing
  is assumed but pipes that hold something. `TextsAnnouncedAlways` is the
  invariant of behaviours that drop no number.

### The other programs

`EchoServerProofs`: that only open descriptors are reported, and that the one being
served is off the batch (`Descriptors`), makes `BatchReadable` and `NothingStranded`
inductive, for both programs, any buffer and any clients.

`SelectProofs`: `TableInv`, for tables of every size. `NreadyCounts` counts a
set of slots where `select()` counted descriptors: the lemma `SlotCount` gives the
bijection, which exists because no connection is in the table twice
(`TableMatchesSet`), and `OneLess` takes one slot away at a time. It follows that a scan
never ends early on somebody reported below `maxi` (`NobodySkippedCorrect`).

`SelectEcho`: `EchoInv`, for any number of descriptors, says also that what was read is
written to the connection it came from. `ScanRightCorrect` (`ScanRightAlways` of
`ProcessProofs`) is `ScanRight` in every reachable state: `ScanReadable` is inductive only with `SetIsOpen` (a
new descriptor is not one of the set, hence none the scan still has to come to)
and with the bound of the copy by `maxfd`.

`ProcessProofs`: no zombie is forgotten in either program; the forking server never
runs out of descriptors, even if every `fork()` fails, and leaves no descriptor of a
connection behind in any process (`NoDescriptorLeftBehind`: the client sees the end when
the parent and the child have closed theirs). `OutcomeRightAlways` needs to know, for
each statement of `unblock_connect()`, how far the attempt is (`ConnectInv`); its claim
is about attempts that were in progress, since a `connect()` that fails at once
leaves its socket open (lines 41 to 46).
`EdgeNotMissed` says of the edge-triggered reader what `NothingStranded` says of the
edge-triggered server. `MutexLock`: who has the mutex and what `holder_` may say of it,
for any number of threads.

### What is assumed, and what stays with TLC

Assumptions are the named `ASSUME`s on constants, which every run evaluates, and
the hypotheses of the theorems of `MutexLock`, of `ScanRightAlways`, of those about pipes
(`PIPE_CAP > 0`) and of `EdgeNotMissed`, all of which say that a size is one. The
theorems about behaviours that lose no SIGCHLD or no number state that as a premise;
the runs show behaviours of both kinds.

All invariants the runs check are proved, and all their action properties. Liveness
under fairness stays with TLC, as the proof system reasons neither about it nor about
`ENABLED`. What can be proved of it is its safe part: that the event that must make it
happen is never lost.

| checked by TLC | its safe part, proved |
|---|---|
| `ZombieReaped`, `PersistentShutdown` | `ZombiesAnnouncedAlways`, `KillOnlyOwnCorrect`, `LastChildNoticed` |
| `OrphanEnds` | `OrphanNotifiedAlways` |
| `LeaverEnds` | `StaysHeardCorrect` |
| `LatestTextSeen` | `TextsAnnouncedAlways` |
| `ImplementsFairly` | holds by construction (`ServiceIsChatMain`) |
| `EndSeen` | `NothingStrandedCorrect`; of the level-triggered server there is none to prove, an event lasts as long as its cause |
| `AllAccepted` | as for `EndSeen` |
| `ServedBelowMaxi` | `NobodySkippedCorrect` |
| `AllServed` | `ScanRightAlways` |
| `ClientSeesEnd` | `NoDescriptorLeftBehind` |
| `ChildrenReaped` | `NoZombieForgottenCorrect` |
| `InputRead` | `EdgeNotMissed` |

## Not modelled

Some 39,700 of the 42,100 lines of implementation in this repository are
googletest, third-party code kept in the tree; no program here is built from it,
and nothing here models it. Of the roughly 2,400 lines that are the repository's
own, what keeps state across events is modelled, and what remains is:

* the socket wrappers as such: one-line calls, those that matter are part of their
  callers' modules;
* `epoll/baddemo`: its socket never listens, so that no connection exists, and its
  edge-triggered half is not called;
* the thundering herd demonstration: its processes keep no state, and who is woken
  is the kernel's choice;
* the backlog test server: an accept loop, and a flag its handler sets and nobody
  reads;
* `select_demo_noblock_stdin.c` and `epoll_demo.cpp`: one `select()`, one
  `epoll_wait()`;
* `process/waitpid.cc`, `process/orphan.cc`, `demo()` of `zombie.cc`: one `fork()`
  and one wait or sleep;
* `splice()` and `tee()` demonstrations, UDP fragments, boost fragments with empty
  bodies, test clients, empty stubs.

Within the modelled programs, these are left out: pids beyond `PROCESS_LIMIT`, which
write outside `sub_process[]`; text cut off by a full socket of a chat client; and
`getPthreadMutex()` of `Mutex.h`, which hands the bare mutex to whoever asks and so
lets them take it without marking `holder_`.
