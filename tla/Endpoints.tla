----------------------------- MODULE Endpoints -----------------------------
(***************************************************************************)
(* The endpoints workload: new_worker of worker/mod.rs gives each worker   *)
(* the next range of ports, as main.rs forks one after the other; the      *)
(* worker (worker/endpoints.rs) listens on each of its ports in a thread   *)
(* of its own for restart_interval seconds, joins them all, and main's     *)
(* loop starts the payload again.                                          *)
(*                                                                         *)
(* Workers, their threads and main are concurrent; the table of bound      *)
(* ports is the kernel's and shared by all of them.                        *)
(***************************************************************************)
EXTENDS Integers, FiniteSets

CONSTANTS NWorkers,       \* cores times config.workers
          Distributions,  \* the Distribution configurations to run with
          FirstPort,      \* 1024 in the code
          PortSpace,      \* 65536 in the code: the ports a socket can have
          TopPort,        \* bound of the model on `upper'
          Contested,      \* ports other programs of the machine may hold
          Rooms           \* the room a worker may have, see `room'

Worker == 1..NWorkers
Port == FirstPort..TopPort

ASSUME EndpointsAssumption ==
    /\ NWorkers \in Nat
    /\ FirstPort \in Nat /\ PortSpace \in Nat /\ TopPort \in Nat
    /\ FirstPort <= TopPort
    /\ Contested \subseteq Port
    /\ Rooms \subseteq Nat
    /\ \A d \in Distributions :
          \/ d.kind = "zipf" /\ d.n_ports \in Nat
          \/ d.kind = "uniform" /\ d.lower \in Nat /\ d.upper \in Nat

VARIABLES
    distribution,  \* the configuration, fixed for the run
    external,      \* the ports that other programs hold
    room,          \* the threads, and the sockets, that each worker can
                   \* count on having at a time; beyond it both may fail
    main,          \* "forking", "done" or "panicked"
    next_worker,   \* the worker main forks next
    upper,         \* the upper_bound main passes to new_worker
    range,         \* the ports of each worker
    phase,         \* where each worker process is
    thread,        \* the listener thread of each worker and port
    bound,         \* the kernel's table: who listens on each port
    slept          \* a listener of this run of the payload has slept

vars == <<distribution, external, room, main, next_worker, upper, range,
          phase, thread, bound, slept>>

Nobody == 0

Init ==
    /\ distribution \in Distributions
    /\ external \in SUBSET Contested
    /\ room \in Rooms
    /\ main = "forking"
    /\ next_worker = 1
    /\ upper = FirstPort
    /\ range = [w \in Worker |-> {}]
    /\ phase = [w \in Worker |-> "unborn"]
    /\ thread = [w \in Worker |-> [p \in Port |-> "none"]]
    /\ bound = [p \in Port |-> Nobody]
    /\ slept = [w \in Worker |-> FALSE]

-----------------------------------------------------------------------------
(* How many ports new_worker may draw: Zipf::new(n, _) samples 1..n,       *)
(* Uniform::new(lower, upper) the half-open interval.                      *)
Samples ==
    IF distribution.kind = "zipf"
      THEN 1..distribution.n_ports
      ELSE distribution.lower..(distribution.upper - 1)

(* The worker's range starts where the one before it ended.                *)
NewRangeOverlapping(n) == {p \in Port : upper - 1 <= p /\ p < upper + n}

NewRange(n) == {p \in Port : upper <= p /\ p < upper + n}

(* One turn of main's map: new_worker draws the range, then fork.  When    *)
(* the fork fails the range is not given to anyone else.                   *)
ForkWorker(n, born) ==
    /\ main = "forking"
    /\ next_worker <= NWorkers
    /\ n \in Samples
    /\ upper + n <= TopPort + 1
    /\ range' = [range EXCEPT ![next_worker] = NewRange(n)]
    /\ upper' = upper + n
    /\ phase' = [phase EXCEPT ![next_worker] =
                    IF born THEN "start" ELSE "failed"]
    /\ next_worker' = next_worker + 1
    /\ UNCHANGED <<distribution, external, room, main, thread, bound, slept>>

(* The constructors of both distributions are unwrapped, so an empty one   *)
(* is a panic, before the first worker is forked.                          *)
ForkPanic ==
    /\ main = "forking"
    /\ next_worker <= NWorkers
    /\ Samples = {}
    /\ main' = "panicked"
    /\ UNCHANGED <<distribution, external, room, next_worker, upper, range,
                   phase, thread, bound, slept>>

ForkDone ==
    /\ main = "forking"
    /\ next_worker > NWorkers
    /\ main' = "done"
    /\ UNCHANGED <<distribution, external, room, next_worker, upper, range,
                   phase, thread, bound, slept>>

-----------------------------------------------------------------------------
(* run_payload spawns a thread for each port of the worker, in order.      *)
(* thread = "bind" stands for a thread that has not bound its port yet,    *)
(* and for one that is not spawned yet, which does as little.              *)
RunPayloadSkipsFirst(w) ==
    /\ phase[w] = "start"
    /\ phase' = [phase EXCEPT ![w] = "join"]
    /\ thread' = [thread EXCEPT ![w] =
          [p \in Port |-> IF p - 1 \in range[w] /\ p \in range[w] THEN "bind"
                          ELSE "end"]]
    /\ slept' = [slept EXCEPT ![w] = FALSE]
    /\ UNCHANGED <<distribution, external, room, main, next_worker, upper,
                   range, bound>>

RunPayload(w) ==
    /\ phase[w] = "start"
    /\ phase' = [phase EXCEPT ![w] = "join"]
    /\ thread' = [thread EXCEPT ![w] =
                    [p \in Port |-> IF p \in range[w] THEN "bind" ELSE "none"]]
    /\ slept' = [slept EXCEPT ![w] = FALSE]
    /\ UNCHANGED <<distribution, external, room, main, next_worker, upper,
                   range, bound>>

(* thread::spawn panics when no thread can be had: the last port's thread  *)
(* is not spawned yet and those before it use up the room.  Nothing catches*)
(* the panic, so the process ends, with its threads and their listeners.   *)
SpawnPanic(w) ==
    /\ phase[w] = "join"
    /\ \E q \in range[w] :
          /\ thread[w][q] = "bind"
          /\ \A p \in range[w] : p <= q
          /\ Cardinality({p \in Port : thread[w][p] \in {"bind", "listen"}})
                > room
    /\ phase' = [phase EXCEPT ![w] = "ended"]
    /\ thread' = [thread EXCEPT ![w] = [p \in Port |-> "none"]]
    /\ bound' = [p \in Port |-> IF bound[p] = w THEN Nobody ELSE bound[p]]
    /\ UNCHANGED <<distribution, external, room, main, next_worker, upper,
                   range, slept>>

(* The kernel has the port and nobody holds it.                            *)
PortFree(p) == p < PortSpace /\ p \notin external /\ bound[p] = Nobody

(* bind also takes a descriptor and memory, which can run out.             *)
OutOfSockets(w) ==
    Cardinality({p \in Port : thread[w][p] = "listen"}) >= room

Listen(w, p) ==
    /\ thread[w][p] = "bind"
    /\ PortFree(p)
    /\ bound' = [bound EXCEPT ![p] = w]
    /\ thread' = [thread EXCEPT ![w][p] = "listen"]
    /\ UNCHANGED <<distribution, external, room, main, next_worker, upper,
                   range, phase, slept>>

(* A bind that fails ends the thread at once; its error is not looked at.  *)
ListenErr(w, p) ==
    /\ thread[w][p] = "bind"
    /\ ~PortFree(p) \/ OutOfSockets(w)
    /\ thread' = [thread EXCEPT ![w][p] = "end"]
    /\ UNCHANGED <<distribution, external, room, main, next_worker, upper,
                   range, phase, bound, slept>>

(* The sleep of restart_interval seconds is over: listen returns, and the  *)
(* listener is dropped.                                                    *)
SleepOverKeepsListener(w, p) ==
    /\ thread[w][p] = "listen"
    /\ thread' = [thread EXCEPT ![w][p] = "end"]
    /\ slept' = [slept EXCEPT ![w] = TRUE]
    /\ UNCHANGED <<distribution, external, room, main, next_worker, upper,
                   range, phase, bound>>

SleepOver(w, p) ==
    /\ thread[w][p] = "listen"
    /\ bound' = [bound EXCEPT ![p] = Nobody]
    /\ thread' = [thread EXCEPT ![w][p] = "end"]
    /\ slept' = [slept EXCEPT ![w] = TRUE]
    /\ UNCHANGED <<distribution, external, room, main, next_worker, upper,
                   range, phase>>

(* All threads are joined, run_payload returns Ok and main's loop calls it *)
(* again.                                                                  *)
JoinFirst(w) ==
    /\ phase[w] = "join"
    /\ \E p \in range[w] : thread[w][p] = "end"
    /\ phase' = [phase EXCEPT ![w] = "start"]
    /\ UNCHANGED <<distribution, external, room, main, next_worker, upper,
                   range, thread, bound, slept>>

Join(w) ==
    /\ phase[w] = "join"
    /\ \A p \in range[w] : thread[w][p] = "end"
    /\ phase' = [phase EXCEPT ![w] = "start"]
    /\ UNCHANGED <<distribution, external, room, main, next_worker, upper,
                   range, thread, bound, slept>>

(* Main has panicked before the first fork, or has no worker to wait for   *)
(* because every fork failed or every worker has ended: the program is     *)
(* over.                                                                   *)
Over ==
    /\ \/ main = "panicked"
       \/ main = "done" /\ \A w \in Worker : phase[w] \in {"failed", "ended"}
    /\ UNCHANGED vars

Fork ==
    \E n \in 0..(TopPort + 1 - FirstPort), born \in BOOLEAN :
       ForkWorker(n, born)

Next ==
    \/ Fork \/ ForkPanic \/ ForkDone
    \/ \E w \in Worker : RunPayload(w) \/ SpawnPanic(w) \/ Join(w)
    \/ \E w \in Worker, p \in Port :
          Listen(w, p) \/ ListenErr(w, p) \/ SleepOver(w, p)
    \/ Over

Spec == Init /\ [][Next]_vars

(* Every process and every thread is scheduled, and a sleep ends.          *)
Fairness ==
    /\ WF_vars(Fork) /\ WF_vars(ForkDone)
    /\ \A w \in Worker : WF_vars(RunPayload(w)) /\ WF_vars(Join(w))
    /\ \A w \in Worker, p \in Port :
          WF_vars(Listen(w, p) \/ ListenErr(w, p)) /\ WF_vars(SleepOver(w, p))

FairSpec == Spec /\ Fairness

-----------------------------------------------------------------------------
(* The state has the shape the code gives it.                              *)
TypeOK ==
    /\ distribution \in Distributions
    /\ external \subseteq Contested
    /\ room \in Rooms
    /\ main \in {"forking", "done", "panicked"}
    /\ next_worker \in 1..(NWorkers + 1)
    /\ upper \in FirstPort..(TopPort + 1)
    /\ range \in [Worker -> SUBSET Port]
    /\ phase \in [Worker -> {"unborn", "failed", "start", "join", "ended"}]
    /\ thread \in [Worker -> [Port -> {"none", "bind", "listen", "end"}]]
    /\ bound \in [Port -> Worker \cup {Nobody}]
    /\ slept \in [Worker -> BOOLEAN]

(* Berserker never competes with itself for a port: one that a thread is   *)
(* about to bind is free, unless it does not exist or another program holds*)
(* it.  This takes ranges that do not overlap between workers, and         *)
(* listeners that are dropped before the payload starts again.             *)
NoSelfConflict ==
    \A w \in Worker, p \in Port :
       (thread[w][p] = "bind" /\ p < PortSpace /\ p \notin external)
         => PortFree(p)

(* A port is held exactly by the thread that listens on it, so the kernel's*)
(* table does not grow over the restarts, and a worker between two runs of *)
(* its payload holds none.                                                 *)
BoundByListeners ==
    /\ \A w \in Worker, p \in Port : bound[p] = w <=> thread[w][p] = "listen"
    /\ \A w \in Worker : phase[w] = "start" => \A p \in Port : bound[p] # w

Listenable(w, p) ==
    phase[w] \in {"start", "join"} /\ p \in range[w]
      /\ p < PortSpace /\ p \notin external

(* Every port a running worker was given, and can have, is listened on     *)
(* again and again, whatever the other workers and threads do: the room    *)
(* for one thread and one socket for each port of the worker is enough,    *)
(* however often it restarts.  (With less, ports are left out without a    *)
(* word, or the worker ends.)                                              *)
PortsListened ==
    \A w \in Worker, p \in Port :
       [](Listenable(w, p) /\ Cardinality(range[w]) <= room
            => <>(bound[p] = w))

(* "An amount of time for workload payload to run before restarting"       *)
(* (lib.rs, line 13): a payload is started again only after a listener has *)
(* slept for restart_interval, except that a worker none of whose ports    *)
(* can be had starts again at once, and so may one that cannot have a      *)
(* single socket; with room for one, and a port to be had, no worker does. *)
RestartsAfterSleep ==
    [][\A w \in Worker :
         (phase[w] = "join" /\ phase'[w] = "start")
           => LET listenable == \E p \in Port : Listenable(w, p)
              IN  /\ slept[w] => listenable
                  /\ listenable /\ room > 0 => slept[w]]_vars
=============================================================================
