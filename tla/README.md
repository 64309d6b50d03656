# Berserker in TLA+

Berserker is a workload generator: one process reads a configuration, forks a
number of workers, and each worker runs one kind of workload for ever. Nothing
of it is large, but almost everything of it runs next to something else: worker
processes, threads in workers, children of workers, the kernel's side of an
io_uring, the peers of a TCP connection, timers, a wall clock. The modules here
model that, TLC checks them on small instances, and TLAPS proves the safety
properties that matter most for every value of the constants.

Paths below are relative to the repository (`src/main.rs` and so on).

## 1. Inventory

| Component | State it keeps | Operations | Talks to | What is hard |
|---|---|---|---|---|
| Supervisor, `src/main.rs` | pids of the children (`None` for a failed fork), the start time | fork in a loop, watcher thread (sleep, look at the clock, kill), waiter thread (`waitpid` in order), end of the scope | all workers, the wall clock | two threads and many children in any order, failed forks and spawns, a clock set back |
| Worker factory, `src/worker/mod.rs` | `lower`/`upper`, passed along by `main` | draw a range of ports per worker | supervisor, endpoints | an overlap shows only as a failing bind in another process |
| Endpoints workload, `src/worker/endpoints.rs` | its range, one thread per port | bind, sleep, drop, join, restart | kernel's port table, other workers and programs | a thread whose bind fails does not sleep; restart races with release; a thread and a descriptor per port |
| Network client, `src/worker/network.rs` `start_client` | smoltcp `SocketSet`, map of dynamic connections, counter, timers, one send timer for all | arrival, preemption, pass over the sockets with its sends, removal, wait | smoltcp, the server, the wall clock | three views of one set of connections, updated at different places of the loop; sockets connected once, whether or not the server listens yet, and removed without a FIN; endpoints used again |
| Local addresses, `get_local_addr_port` | none | index to address and port | network client | `u16`/`u32` wrap-around, zero |
| Network server, `start_server` | listener, one thread per stream | accept, read a line, answer, end | peers | peers that pipeline, end, reset or vanish; errors that are unwrapped or looped over |
| Processes workload, `src/worker/processes.rs` | one thread per arrival, one child per thread | spawn, fork, wait, run `stub` | kernel, logger | fork in a process with threads, thread limit, unwinding through a scope |
| Syscalls workload, `src/worker/syscalls/*` | the caller's descriptor | init, call, sleep | kernel tables | what a call takes and does not give back |
| io_uring workload, `src/worker/io_uring/*` | ring of one entry | push, submit and wait, take a completion | kernel, concurrently | a step that fails half way; a completion that belongs to an earlier call |
| bpf workload, `src/worker/bpf.rs` | descriptors of the turn | load, open event, link, park | kernel tables | results that are not looked at go into the next call |
| Configuration, `src/lib.rs`, head of `main` | none | layer sources, parse, defaults | all | a default rate of zero |
| Script language, `src/script/*` | none | match the grammar, build the tree | nothing: not called yet | a grammar that accepts more than the builders, which panic |

What makes each correct, in short: the supervisor ends after its workers and
stops all of them, not before their time; workers do not compete with each other
for ports and keep listening; the client's three views agree, its counter does
not wrap, its memory is bounded, its loop never blocks, its endpoints are
distinct; the server answers what it is sent and gives back what it holds, also to a client
that leaves without a word; every
child is waited for and departs; every caller gives back what it takes and the
loop goes on; a script is built into a tree that says the same, or refused. The
`hazards` of `PROJECT.json` list where, line by line, each of
these could go wrong.

## 2. Modules

| Module | Models | Theorems in |
|---|---|---|
| `LocalAddr` | `get_local_addr_port` and when smoltcp accepts its result | `NetworkProofs` |
| `AddrWalk` | the walk its comment describes, as a reference | `AddrWalkProofs` |
| `NetworkClient` (extends `LocalAddr`), `MCNetworkClient` | `start_client` | `NetworkProofs` |
| `WorkerPool` | the promise in the header of `main.rs`, abstract | |
| `Supervisor` (implements `WorkerPool`) | `main` after the configuration is read | `SupervisorProofs` |
| `Endpoints`, `MCEndpoints` | `new_worker`'s ranges, `EndpointWorker` | `EndpointsProofs` |
| `Callers` | the `run_payload` loops of system calls, all callers, the bpf workload | `CallersProofs` |
| `NetworkServer` | `start_server` and its peers | `NetworkServerProofs` |
| `Network` (extends `NetworkClient`, instantiates `NetworkServer`), `MCNetwork` | client and server with TCP between them | `NetworkProofs` |
| `Processes` | `ProcessesWorker` | `ProcessesProofs` |
| `Script`, `MCScript` | `parse_instructions` and its builders | `ScriptProofs` |

Definitions whose name extends another's (`PreemptKeepsEntry`, `WaitForTwo`,
`from_base`...) and that no next-state relation uses are mutated versions of the
one they stand before: what a plausible mistake in the code would do, kept to
show that the properties notice it.

### NetworkClient

One step per decision of the loop. `pc` follows the loop body: `arrive` (lines
179-237), `visit` (240-301), `close` (303-308), `wait` (310-324). `sockets` maps
each occupied slot of the `SocketSet` to the index the connection was opened
with; `dynamic_sockets` are the keys of the `HashMap`; `close_sockets` and `todo`
are the local vector and what the pass has still to visit. Every timer that may
or may not have run out is a choice between two actions (`NoArrival` or an
arrival, `VisitExpired` or `VisitAlive`), the random index is a choice among
`Victims`. smoltcp's slot allocation (first empty slot, iteration in slot order)
is external and modelled from its use. Panics are a state: a remainder by zero,
an empty random range, a negative rate, a refused endpoint, a clock set back.
What a visit sends (265-300) is in `Network`.

### Supervisor and WorkerPool

`handles` is the vector `main` collects, `proc` what the kernel knows of each
child. The watcher (`watcher`, `kill_at`) and the waiter (`waiter`, `wait_at`)
take one handle per step, so that they interleave with each other and with
children that end on their own (`PayloadFails`) or by the signal (`Terminate`).
`real` is time passed, `wall` what `SystemTime::elapsed` sees; `SetClockBack` lowers
the latter once. At `MaxTime` both stand for all later times. A clock that is
set forward is not modelled: it shortens a run by as much as it is moved.
A pid is the kernel's to give away once its child was waited for (`ReusePid`);
`stray` collects the pids under which SIGTERM went to somebody else.
The two threads are spawned one after the other (`OpenScope`, `SpawnWaiter`), and
each spawn may panic for want of a thread (`SpawnPanic`); the scope then joins the
threads it has and `main` ends in the panic, with or without a watcher that still
stops the workers, and without anyone who reaps them.
`WorkerPool` says only that workers are spawned or missed, finish, and that the
program returns when all are over, or aborts; the mapping calls a worker over
when it was reaped, or its fork failed, and an end of `main` without a waiter an
abort.

### Endpoints

`main` draws a range, forks, draws the next (`ForkWorker`); each worker has a
thread per port (`thread`), the kernel a table (`bound`). `external` are ports
other programs hold, `PortSpace` the number of ports there are: a range may go
past it, as `upper` is a `usize` that only grows. `slept` remembers whether a
listener of this run of the payload has slept. `room` is the number of threads,
and of sockets, a worker can count on: beyond it a spawn may panic and take the
worker down (`SpawnPanic`), and a bind may fail on a port that is free
(`OutOfSockets`).

### Callers

The two `run_payload` functions are the same loop, so one module has both and a
`caller` kind says what a call takes and gives back (the table is at the head of
the module). All kernel objects are entries of one small table, so that "full"
is reached. The ring has its submission queue of one entry (`sq`), entries the
kernel works on (`inflight`), completions (`cq`); the kernel completes at any time.
`interrupts` counts waits that returned without a completion. `foreign` is what
was there before the worker and is not its own: descriptor 0, which `Drop` closes
when `init` failed and `sockfd` is still 0 (`InitErr`); the descriptor `mmap` was
configured with, which its `Drop` closes (`RatePanic`); and what was mounted on the
target of `mount`, which `umount2` takes away after a call that only changed its
flags, as the default `MS_PRIVATE` does (`CallChange`, `Release`).

The bpf workload shares the table: each of its turns loads a program, opens an
event and links them (`BpfLoad`, `BpfEvent`, `BpfLink`), and each call may fail
and leave a -1 (0 in the model) that the next call is given all the same.
`NameRoom` is the turn from which the name of a program no longer fits.

### NetworkServer

A stream is `none`, in the `backlog`, or `serving` with its thread. `BufReader`
reads what is there (`Taken`, a nondeterministic number of lines); the first line
is answered and the rest lost with the reader. A peer may end (`fin`), `reset` or
vanish (`gone`): the client of this repository removes a socket from smoltcp
before the FIN of `close()` went out, so its connections vanish. A reply
that blocks because the peer never reads (kilobytes of unread replies) is beyond
the few lines of the model.

### Network

The client's actions and the server's, joined where they meet. `tcp` follows each
socket of the client: its SYN is out, it has a stream, or it has none and will
get none. The code calls `connect` once and never looks at the outcome, so a
socket that is refused because the server has not bound its port yet (`Refused`),
or whose stream a collision has reset (`Collide`), stays without one. A visit may
send (`VisitSends`; the one timer for all sockets may have run out at any visit),
a removal leaves the server's stream without a peer (`CloseVanishes`), and the SYN
of a new socket from the same endpoint makes the kernel drop that stream
(`Displace`). From then on the endpoint is free for `Connect`, while the server's
thread of the old stream may not have noticed: a stream is therefore named by its
endpoint, the index of the connection, and a generation, and `InTable` says which
streams the kernel still has. Lost packets are sent again by both stacks, so a
loss is a delay. TCP and smoltcp are external and modelled from their use; where
smoltcp may give a segment to either of two sockets with one endpoint, both
outcomes are steps. The composition implements `NetworkServer`
(`NetRefinesServer`): what this client does to a stream is among what a peer may
do.

### Processes

`lock` is the lock of the standard error stream, which the logger takes for
every message; `fork` copies it (`copied`) and the child waits for its copy in its
first message. Threads are limited (`MaxThreads`), and at the limit `spawn`
panics and the scope joins every thread before the panic goes on.

### Script

The pairs of pest are records (`Items`). Which there are `grammar.peg` decides, and
what the builders rely on of it is `ScriptAssumption`: optional parts and lists
(`IsOption`, `IsList`), the two dynamic names and that no value between quotes is one
of them (`IsToken`: a `value` has no underscore), the parts of arguments, functions
and machines, and that `0` is a number. The run evaluates it on its items. A builder is an operator with the name of the function
and gives the set of its results, empty for a panic; `Each` builds the elements of
a list. Texts are single tokens. Numbers are what `PortOf` and `RateOf` say of a
text, so that `80` and `080` are one port. The properties are stated on the
source: `Usable` describes the part of the grammar a tree can be built for, and
`SameMeaning` when two items say the same as far as the tree can tell.

## 3. Runs

| Run | Bounds | States | Shows |
|---|---|---|---|
| `addr_walk` | 4 ports, groups of 1 to 4, indexes to 40 | 164 | closed form = walk, endpoints unique, groups full; every group size that fits, ten groups of the largest |
| `network_client` | 0-2 static, 0-2 dynamic, 0, 2 or 5 per address (5 is one more than there are ports), with and without preemption, counter to 5 | 23465 | the client's safety and liveness properties |
| `network_statics` | 1 static, limit 2, preempt | violation | a static connection is preempted |
| `network_endpoints` | 1 static, limit 2, no preempt | violation | an endpoint is used twice |
| `supervisor` | 3 workers, duration 0-2, clock to 3, set back by 1 or 2, any reaped pid reused, spawns that fail | 57771 | ends after, and, with a waiter, only after its workers; uses pids while they are its own; implements `WorkerPool` |
| `endpoints` | 2 workers, 0-2 ports each, one contested port, last port reachable, room for 0 to 2 threads and sockets | 6026 | no self-conflict, ports listened on again and again where there is room, restart at once only without a port |
| `callers` | all kinds, table of 6, 2 interrupted waits, up to 3 programs, names for 2 | 194567 | accounting, no double close, what is dropped of others' things, exact lag, sound links, progress |
| `network_server` | 2 connections, 1 or 2 descriptors, 2 lines | 17667 | no loss in lock step, lines consumed, streams released |
| `network` | one dynamic connection with preemption; one static and dropped arrivals; one static and one dynamic without preemption, which send; counter to 3 (2 for those that send), 2 generations, 3 streams, 2 descriptors, 1 line | 98947 | streams of the kernel bounded, connections that find the server listening served, also from endpoints left behind, statics stay served |
| `processes` | 2 threads, with and without messages, each bad rate | 2304 | children waited for, departures, progress |
| `processes_fork` | 2 threads, messages on | violation | a child that hangs |
| `script` | all files of two items; every rule of the grammar, argument lists up to 2, lists of keys and options up to 2, dynamic arguments two deep | 57231 | panics exactly outside the usable part, loses only what is listed |

Why the bounds are enough. The client's interesting cases need two dynamic
connections and one static one (a victim of each kind, a departure below a
younger connection), and a counter that goes past the limit through dropped
arrivals; each is reached. The supervisor needs a failed fork between two
children, and a child that ends before and one that ends after the signal.
A contested port, a port past the end and both neighbours of a range are among the
four ports. A table of six holds the caller's descriptor and two completions,
enough for a lag of two, or two turns of bpf and nothing for the third. A client
with one dynamic connection already goes round: it opens, drops without a word,
and comes back to the endpoint of a stream the server still has; a third stream
and a second generation let it do so while the old thread still runs, and two
descriptors make the third thread fail. The other workloads have a static
connection, whose service drops and the churn of a neighbour could disturb. The
run does not follow the client after the server process has ended (`Explored`):
the liveness properties except that case, and no stream is opened after it. What a
builder makes of an item does not depend on the items before it, so pairs of
items show all that `TreesTell` compares. Two threads suffice for a fork under another's lock.

Deadlock is checked in every run but `addr_walk`, which ends at its last index,
and `script`, which ends with the file.
Where a program or worker is over, an explicit stuttering action (`Panicked`,
`Over`, `Idle`) says so; anything else that stops is an error.

Fairness. Processes and threads are scheduled (weak fairness of their steps),
sleeps end, submitted I/O completes, a signal that was sent is delivered, and TCP
repeats what was lost (`Attend` and `Handshake` in `Network`: as long as something
can be done for a stream or a socket, something is done). Strong
fairness is used twice: `VisitExpired` in the client, because time passes between
visits and a connection visited for ever is some time found too old, given a
`departure_rate` above zero (with zero, which the code accepts, lifetimes are
infinite and nothing departs); and taking the log stream's lock, which std's mutex
does not hand over in turn but which is free most of the time, so that a waiting
thread gets it in the end. No
fairness is assumed for what the environment need not do: packets, arrivals,
peers, clock steps, sends, signals from outside, failing payloads, reuse of pids,
interrupted waits.

## 4. What disagrees with the documentation

Each of these is a run that TLC must find violated, and a finding in
`PROJECT.json`.

1. `network_statics`. "Open static set of connections, that are going to live
   throughout the whole run" (`network.rs`, 132-133): with `preempt` the victim
   is `sockets.iter().nth(idx)` of all sockets, static ones first.
2. `network_endpoints`. Connections of one address "differ only in port value"
   (387-388): the index of a new connection is the number of open ones,
   which goes down; a younger connection may still have that index.
3. `processes_fork`. "How long processes are going to live" (`lib.rs`, 118): a
   child forked while another thread logs lives for ever.

Smaller things met on the way, not runs of their own. "do not error out if
something unexpected happened, log and proceed instead" (`network.rs`, 41-42), but
an accept that fails is unwrapped and ends the server (`AcceptErr`);
`StreamsBounded` says how many descriptors keep it from happening. "An amount of
time for workload payload to run before restarting" (`lib.rs`, 13), but a worker
none of whose ports can be bound restarts at once, in a busy loop;
`RestartsAfterSleep` says that no other worker does. "Extract "value" (Constants) or
"name" (Identifier)" (`parser.rs`, 256), but an identifier has no pair inside and
the extraction panics; every distribution becomes `Exp`, whatever its name. The
send timer of line 163 is one for all connections and the pass is in slot order,
so that the first sockets of the set may take every turn to send; the comment
above it accepts that. "Wait for all the workers to finish" (`main.rs`, 14), but
when there is no thread for the waiter nobody waits, and the workers stay
(`SpawnPanic`; `NoOrphans` says that it takes this). The static connections that
"live throughout the whole run" do so only if the server has bound its port
before their SYN arrives: a refused socket is never connected again (`Refused`;
`StaticsStayServed` is about the others). A caller whose `init` failed closes
descriptor 0, one of `mmap` the descriptor it was configured with, and `mount` with
its default flags unmounts what somebody else has mounted; `ClosedOnce` says that
nothing else of others is dropped, and the two descriptors only at the end of the
worker. SIGTERM may go to a stranger who got the pid of a worker
that ended on its own (`stray`); `PidsOwned` says that it does not happen to the
others. Then: the watcher panics when
the clock is before the start time and the run then has no limit (`main.rs`, 113;
`DurationKept` excepts it); the counter of line 170 counts dropped arrivals too;
the "minimum waiting duration" of 314 is a maximum; a static victim makes room
for nothing, so the arrival that chose it is dropped; once an io_uring submission
has failed its entry blocks the ring for good; pipelined lines are lost with their
`BufReader`; the default rate of zero makes one call and sleeps for 584 years.

## 5. Proofs

`tlapm` proves, from the named assumptions on the constants only:

* `AddrWalkProofs`. The walk's invariant is `Position`: address and port are as far
  from the first ones as quotient and remainder of the index say
  (`DivModOf`); with it `ClosedForm` follows. `Forward` adds that every earlier
  connection has an earlier endpoint and that those with the address of the walk
  are the last `port - PortBase + 1`: no two endpoints are the same, and when an
  address is left the connections that have it are an interval of known length,
  which is `GroupsFull` without any counting.
* `NetworkProofs`. `Inv` is `TypeOK` and `RemovalsValid`, `CounterCovers`, the two
  parts of `CounterExact`, with five parts that make them inductive: `Bounds`
  (dynamic connections and those being closed are together at most one more than
  the limit, and nothing is left to close at an arrival), `Origins` (a socket is a
  static one in the slot of its index, or dynamic, or about to be removed),
  `IndexesBounded` (with preemption the indexes in use never go far),
  `StaticsKept` (without preemption none of the static ones is about to be
  removed) and `VisitedAll`. It is needed because the removal at the end of
  a pass is safe only by what the preemption and every visit did before:
  `RemovalsValid` alone says nothing of the next arrival. `FirstFreeIsFree` is
  the pigeonhole behind the bound on slots. From `Inv` follow eight theorems, one
  for each safety property of the run. For the composition, every step of
  `NetNext` is a step of the client or leaves its variables alone
  (`NetInvAlways`), and a step of the server or none (`NetRefinesServer`).
  `StreamsAlwaysBounded` then counts: `TableNamed` says that the kernel has no
  endpoint twice and only endpoints of the client's indexes, of which
  `IndexesBounded` leaves few; so the streams in the table are no more than those
  indexes, however many threads of streams before them the server still has. `NetRefinesClient` is the
  other half of the composition: it implements both of its parts, so
  what is proved of the client alone, and of the server with the names of
  `Network` for its streams (`LockStepAlwaysLossless`), holds of the two together.
  `TurnsAlwaysEnd` is the part of `LoopProgress` that needs no fairness:
  `Remaining` (twice the sockets to visit, and the removals to do) goes down
  with every step of a turn, and starts below `LongestTurn`, a number of the
  configuration. It needs `Bounds`, as a preemption without one could make the
  passes longer and longer. `EndpointInjective` is about the addresses alone:
  where there is room, different indexes have different endpoints.
* `SupervisorProofs`. `Inv` adds to `TypeOK` what handles say of children
  (`HandlesNameChildren`), which thread can be where (`Phases`), what the two loops have
  left behind them (`LoopsLeaveBehind`: everything before `wait_at` is reaped,
  everything before `kill_at` is signalled or not running), and that a kill phase
  implies the time is over (`ClockVerdict`, for which `wall <= real` is needed).
  `NeverOrphans` is about every end of `main` but one: a panic of the spawn, after
  which there is no waiter. `RefinesPool` shows initial states and every step map
  to `WorkerPool`, that end to its abort.
  `PidsOwned` needs `PidsKept` on top of `Inv`: only what lies before `wait_at` has
  given its pid back, and signals have gone only to what lies before `kill_at`.
* `CallersProofs`. `Inv` is the four safety properties and `Phases`: which of
  the caller's variables are empty where. `AppendEntries` and `TailEntries` say what
  appending to and taking from the completion queue do to the set of
  descriptors in it. `BpfInv` adds to `LinksSound` that what a turn has got so far
  is in no link yet; a 0 after a failure, rather than the number of the turn
  before, is what keeps it.
* `EndpointsProofs`. `Inv` is `TypeOK`, `BoundByListeners`, `Ranges` (the ranges
  drawn so far lie below `upper`, are pairwise disjoint, and a worker has threads
  only on ports of its own) and `Restarts` (threads bind or listen only while
  their worker is at the join). `NoSelfConflict` follows from `Ranges` and
  `BoundByListeners`; it is not inductive itself, as it does not see where the
  next range will start. It speaks of ports: that a bind may fail for want of a
  descriptor on a port that is free is in the model and no conflict. `RestartsAfterSleep`
  rests on `Sleeps`: in a running payload a listener has slept only if a port can be
  had, and once the thread of such a port has ended a listener has slept or is about
  to, for a bind that fails on a port that can be had does so beside listeners of its
  own (`ListenErrMeetsListener`); here `NoSelfConflict` is used.
* `NetworkServerProofs`. `Inv` is `TypeOK`, `LockStepLossless` and `OneAtATime`: a
  peer that did not pipeline has at most one line unread. Without it nothing
  says that the `BufReader` which is dropped took one line only.
* `ProcessesProofs`. `Inv` is `TypeOK`, `ChildrenWaitedFor` and `NoThreadsLeft`: a
  worker that is over has no threads, so nothing is forked after it.
  `HungForGood` says what the run `processes_fork` shows one instance of, and more:
  a child that waits for its copy of the lock (`Hung`) waits for ever, whatever
  anybody does, and its worker is not over in any later state. `OnlyMessagesHang`
  adds that it takes log messages to get there.
* `ScriptProofs`. Two lemmas for every builder, from the arguments up: when it
  panics, in terms of what is written in the source, and when two of its results
  are equal. `CollectTells` is the one about the `HashMap`s: two lists of bindings
  give one map exactly when they have the same last word on every key.
  `BuildsTheUsable` and `NodesTell` put them together for any item of the
  grammar. `TreeInv` says that node `i` is the result of the builder for item `i`,
  and that a panic is due to the last item taken; it gives `PanicsOnUnusable` and
  `TreesTell` for scripts of any length.

Only model-checked: all liveness (`LoopProgress`, `DynamicsDepart`,
`DurationKept`, `PortsListened`, `KeepsInvoking`, `LinesConsumed`,
`StreamsReleased`, `ConnectionsServed`, `StaticsStayServed`, `ChildrenDepart`,
`KeepsSpawning`, `UnwindEnds`), as fairness and ENABLED are out of the prover's
reach. Every other property of a passing run has its theorem. The type
invariants of `Supervisor`, `Endpoints`, `Callers`, `NetworkServer` and `Processes`
are theorems (`TypeCorrect`) and not checked by runs as well.

## 6. Not modelled

The configuration layer and argument parsing (declarative, run once before the
first fork), the construction of the tun device (I/O), tests and scripts. Of the
script language, the matching of `grammar.peg` (what pest accepts is given to the
model, up to the shapes of `ScriptAssumption`, and white space and comments with
it) and `apply_rules`, which returns its argument. What an arbitrary system call
number of `DummyCall` does (block, exit, allocate) is left out, so the syscalls workload counts as partly modelled.

## 7. Plan

Done, in this order: addresses, client, supervisor with its abstract
specification, endpoints, callers, server, processes; proofs of their safety
properties; then reuse of pids, the bpf workload, the composition of client and
server with the client's payload, the script builders, and the proofs that go
with them.

Next:

1. the steps behind further liveness properties, as `TurnsAlwaysEnd` is behind
   `LoopProgress`: what a thread of the server, the unwinding of a processes
   worker and the two loops of the supervisor have left to do goes down;
2. a proof that without preemption the number of streams the server keeps grows
   with the counter and no faster;
3. an abstract specification of a worker (`run_payload` runs until it fails) that
   `Endpoints`, `Callers` and `Processes` implement and `Supervisor` composes.
