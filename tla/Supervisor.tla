----------------------------- MODULE Supervisor -----------------------------
(***************************************************************************)
(* main.rs after the configuration is read: fork the worker processes,     *)
(* then run two scoped threads, a watcher that terminates the workers when *)
(* `duration' is over and a waiter that reaps them one after the other.    *)
(*                                                                         *)
(* Main, watcher, waiter and the workers run concurrently with each other  *)
(* and with two clocks: the time that passes and the wall clock that       *)
(* SystemTime reads, which an administrator or NTP may set back.           *)
(***************************************************************************)
EXTENDS Integers, Sequences, FiniteSets

CONSTANTS NWorkers,   \* cores times config.workers
          Durations,  \* the values of config.duration to run with
          MaxTime,    \* bound of the model on the wall clock
          SetBack     \* by how much the wall clock may be set back, once

ASSUME SupervisorAssumption ==
    /\ NWorkers \in Nat
    /\ Durations \subseteq Nat
    /\ MaxTime \in Nat
    /\ \A d \in Durations : d < MaxTime
    /\ SetBack \subseteq Nat

Worker == 1..NWorkers

(* The pid of the child forked in turn i is called i; 0 is the None that   *)
(* main keeps for a fork that failed.                                      *)
None == 0

VARIABLES
    duration,   \* config.duration, 0 for no limit
    main,       \* where main is
    handles,    \* what each fork returned, in order
    proc,       \* what the kernel knows of each child
    signalled,  \* the children SIGTERM was sent to
    stray,      \* the pids at which SIGTERM met a process that is no child
    watcher,    \* where the watcher thread is
    kill_at,    \* the watcher's position in handles
    waiter,     \* where the waiter thread is
    wait_at,    \* the waiter's position in handles
    real,       \* seconds passed since duration_timer was read
    wall,       \* the wall clock, relative to duration_timer
    was_set     \* the wall clock has been set back

signals == <<signalled, stray>>
clock == <<real, wall, was_set>>
threads == <<watcher, kill_at, waiter, wait_at>>
vars == <<duration, main, handles, proc, signalled, stray, watcher, kill_at,
          waiter, wait_at, real, wall, was_set>>

Init ==
    /\ duration \in Durations
    /\ main = "forking"
    /\ handles = <<>>
    /\ proc = [w \in Worker |-> "none"]
    /\ signalled = {} /\ stray = {}
    /\ watcher = "off" /\ kill_at = 1
    /\ waiter = "off" /\ wait_at = 1
    /\ real = 0 /\ wall = 0 /\ was_set = FALSE

-----------------------------------------------------------------------------
(* One turn of the map over cores and workers, in the parent: the child    *)
(* runs its payload in a loop from here on.                                *)
ForkOk ==
    /\ main = "forking"
    /\ Len(handles) < NWorkers
    /\ LET pid == Len(handles) + 1
       IN  /\ handles' = Append(handles, pid)
           /\ proc' = [proc EXCEPT ![pid] = "running"]
    /\ UNCHANGED <<duration, main, signals, threads, clock>>

(* A failed fork is logged and leaves a None among the handles.            *)
ForkErr ==
    /\ main = "forking"
    /\ Len(handles) < NWorkers
    /\ handles' = Append(handles, None)
    /\ UNCHANGED <<duration, main, proc, signals, threads, clock>>

(* thread::scope: first the watcher, only for a limit.                     *)
OpenScope ==
    /\ main = "forking"
    /\ Len(handles) = NWorkers
    /\ main' = "spawning"
    /\ watcher' = IF duration # 0 THEN "sleep" ELSE "off"
    /\ UNCHANGED <<duration, handles, proc, signals, kill_at, waiter, wait_at,
                   clock>>

(* Then the waiter, while the watcher may be running already.              *)
SpawnWaiter ==
    /\ main = "spawning"
    /\ main' = "scope"
    /\ waiter' = "wait"
    /\ UNCHANGED <<duration, handles, proc, signals, watcher, kill_at, wait_at,
                   clock>>

(* Scope::spawn panics when there is no thread to be had, for the watcher  *)
(* or for the waiter after it.                                             *)
SpawnPanic ==
    /\ \/ main = "forking" /\ Len(handles) = NWorkers /\ duration # 0
       \/ main = "spawning"
    /\ main' = "unwinding"
    /\ UNCHANGED <<duration, handles, proc, signals, threads, clock>>

(* The scope joins the threads it has, also on its way out of a panic; it  *)
(* panics if one of them did.  The end of main does not end a worker.      *)
CloseScopeUnjoined ==
    /\ main \in {"scope", "unwinding"}
    /\ watcher \in {"off", "done", "panicked"}
    /\ main' = IF main = "scope" /\ watcher # "panicked" THEN "done" ELSE "panicked"
    /\ UNCHANGED <<duration, handles, proc, signals, threads, clock>>

CloseScope ==
    /\ main = "unwinding" \/ (main = "scope" /\ waiter = "done")
    /\ watcher \in {"off", "done", "panicked"}
    /\ main' = IF main = "scope" /\ watcher # "panicked" THEN "done" ELSE "panicked"
    /\ UNCHANGED <<duration, handles, proc, signals, threads, clock>>

-----------------------------------------------------------------------------
(* A payload returns an error, or panics: the child ends on its own.       *)
PayloadFails(w) ==
    /\ proc[w] = "running"
    /\ proc' = [proc EXCEPT ![w] = "zombie"]
    /\ UNCHANGED <<duration, main, handles, signals, threads, clock>>

(* The kernel gives the pid of a reaped child to a new process.            *)
ReusePid(w) ==
    /\ proc[w] = "reaped"
    /\ proc' = [proc EXCEPT ![w] = "reused"]
    /\ UNCHANGED <<duration, main, handles, signals, threads, clock>>

(* SIGTERM's default action; no worker installs a handler.                 *)
Terminate(w) ==
    /\ proc[w] = "running"
    /\ w \in signalled
    /\ proc' = [proc EXCEPT ![w] = "zombie"]
    /\ UNCHANGED <<duration, main, handles, signals, threads, clock>>

-----------------------------------------------------------------------------
(* The duration is over, by the wall clock in whole seconds.               *)
DurationReached == wall >= duration

DurationOver == wall > duration

(* The watcher wakes up: elapsed() is an error when the wall clock is      *)
(* before duration_timer, and unwrap panics.                               *)
WatcherCheckOnce ==
    /\ watcher = "check"
    /\ watcher' = IF wall < 0 THEN "panicked"
                    ELSE IF DurationOver THEN "kill" ELSE "done"
    /\ UNCHANGED <<duration, main, handles, proc, signals, kill_at, waiter,
                   wait_at, clock>>

WatcherCheck ==
    /\ watcher = "check"
    /\ watcher' = IF wall < 0 THEN "panicked"
                    ELSE IF DurationOver THEN "kill" ELSE "sleep"
    /\ UNCHANGED <<duration, main, handles, proc, signals, kill_at, waiter,
                   wait_at, clock>>

(* One turn of the loop over processes.iter().flatten(): a None is passed  *)
(* over; a pid that was reaped before names no process, and the error is   *)
(* ignored, or by now a process that has nothing to do with main.          *)
WatcherKill ==
    /\ watcher = "kill"
    /\ kill_at <= Len(handles)
    /\ kill_at' = kill_at + 1
    /\ LET pid == handles[kill_at]
       IN  /\ signalled' = IF pid # None /\ proc[pid] \in {"running", "zombie"}
                             THEN signalled \cup {pid} ELSE signalled
           /\ stray' = IF pid # None /\ proc[pid] = "reused"
                         THEN stray \cup {pid} ELSE stray
    /\ UNCHANGED <<duration, main, handles, proc, watcher, waiter, wait_at,
                   clock>>

(* Without the break the loop would sleep and terminate them all again.    *)
WatcherBreakForgotten ==
    /\ watcher = "kill"
    /\ kill_at > Len(handles)
    /\ watcher' = "sleep"
    /\ kill_at' = 1
    /\ UNCHANGED <<duration, main, handles, proc, signals, waiter,
                   wait_at, clock>>

WatcherBreakEarly ==
    /\ watcher = "kill"
    /\ kill_at > 1
    /\ watcher' = "done"
    /\ UNCHANGED <<duration, main, handles, proc, signals, kill_at, waiter,
                   wait_at, clock>>

WatcherBreak ==
    /\ watcher = "kill"
    /\ kill_at > Len(handles)
    /\ watcher' = "done"
    /\ UNCHANGED <<duration, main, handles, proc, signals, kill_at, waiter,
                   wait_at, clock>>

-----------------------------------------------------------------------------
(* The waiter's loop: a None is passed over,                               *)
WaiterSkip ==
    /\ waiter = "wait"
    /\ wait_at <= Len(handles)
    /\ handles[wait_at] = None
    /\ wait_at' = wait_at + 1
    /\ UNCHANGED <<duration, main, handles, proc, signals, watcher, kill_at,
                   waiter, clock>>

(* waitpid blocks until the child has ended, and reaps it.                 *)
WaiterReap ==
    /\ waiter = "wait"
    /\ wait_at <= Len(handles)
    /\ handles[wait_at] # None
    /\ proc[handles[wait_at]] = "zombie"
    /\ proc' = [proc EXCEPT ![handles[wait_at]] = "reaped"]
    /\ wait_at' = wait_at + 1
    /\ UNCHANGED <<duration, main, handles, signals, watcher, kill_at,
                   waiter, clock>>

WaiterDoneAtNone ==
    /\ waiter = "wait"
    /\ wait_at <= Len(handles) => handles[wait_at] = None
    /\ waiter' = "done"
    /\ UNCHANGED <<duration, main, handles, proc, signals, watcher, kill_at,
                   wait_at, clock>>

WaiterDone ==
    /\ waiter = "wait"
    /\ wait_at > Len(handles)
    /\ waiter' = "done"
    /\ UNCHANGED <<duration, main, handles, proc, signals, watcher, kill_at,
                   wait_at, clock>>

-----------------------------------------------------------------------------
(* A second passes; the watcher's sleep of one second ends with it.  At    *)
(* MaxTime the clocks stand for every later time.                          *)
Tick ==
    /\ IF wall < MaxTime THEN real' = real + 1 /\ wall' = wall + 1
                         ELSE UNCHANGED <<real, wall>>
    /\ watcher' = IF watcher = "sleep" THEN "check" ELSE watcher
    /\ UNCHANGED <<duration, main, handles, proc, signals, kill_at, waiter,
                   wait_at, was_set>>

(* The wall clock is set back.                                             *)
SetClockBack ==
    /\ ~was_set
    /\ was_set' = TRUE
    /\ \E by \in SetBack : wall' = wall - by
    /\ UNCHANGED <<duration, main, handles, proc, signals, threads, real>>

Fork == ForkOk \/ ForkErr
Watch == WatcherCheck \/ WatcherKill \/ WatcherBreak
Wait == WaiterSkip \/ WaiterReap \/ WaiterDone

Next ==
    \/ Fork \/ OpenScope \/ SpawnWaiter \/ SpawnPanic \/ CloseScope
    \/ \E w \in Worker : PayloadFails(w) \/ Terminate(w) \/ ReusePid(w)
    \/ Watch
    \/ Wait
    \/ Tick \/ SetClockBack

Spec == Init /\ [][Next]_vars

(* Time passes, the threads are scheduled, and a signal that was sent is   *)
(* delivered.  A payload, a fork or a spawn need never fail, a clock need  *)
(* never be set.                                                           *)
Fairness ==
    /\ WF_vars(Fork) /\ WF_vars(OpenScope) /\ WF_vars(SpawnWaiter)
    /\ WF_vars(CloseScope)
    /\ WF_vars(Watch) /\ WF_vars(Wait) /\ WF_vars(Tick)
    /\ \A w \in Worker : WF_vars(Terminate(w))

FairSpec == Spec /\ Fairness

-----------------------------------------------------------------------------
(* The variables have the types of the code; both positions stay within    *)
(* one past the end of handles.                                            *)
TypeOK ==
    /\ duration \in Durations
    /\ main \in {"forking", "spawning", "scope", "unwinding", "done", "panicked"}
    /\ handles \in Seq(Worker \cup {None})
    /\ Len(handles) <= NWorkers
    /\ proc \in [Worker -> {"none", "running", "zombie", "reaped", "reused"}]
    /\ signalled \subseteq Worker /\ stray \subseteq Worker
    /\ watcher \in {"off", "sleep", "check", "kill", "done", "panicked"}
    /\ waiter \in {"off", "wait", "done"}
    /\ kill_at \in 1..(Len(handles) + 1)
    /\ wait_at \in 1..(Len(handles) + 1)
    /\ real \in Nat /\ wall \in Int
    /\ was_set \in BOOLEAN

(* "Wait for all the workers to finish" (line 14): main returns, and also  *)
(* panics over its watcher, with no child running and none left as a       *)
(* zombie, also when some of the forks failed and the children ended in    *)
(* any order.  There is one exception: without a thread for the waiter     *)
(* nobody waits for them.                                                  *)
NoOrphans ==
    (main = "done" \/ (main = "panicked" /\ waiter # "off"))
      => \A w \in Worker : proc[w] \in {"none", "reaped", "reused"}

(* "For how long to run the worker.  Default value is zero, meaning no     *)
(* limit" (lib.rs, lines 30-31): no worker is told to stop before its time *)
(* is over, and with no limit none is ever told to.  (A clock that is set  *)
(* forward, which is not modelled, shortens the run by as much.)           *)
NotEarly == signalled # {} => duration # 0 /\ real > duration

(* When the watcher's loop is over, every child still running has been     *)
(* sent the signal: a child that died early or a fork that failed does not *)
(* spare the ones after it.                                                *)
AllSignalled ==
    watcher = "done" => \A w \in Worker : proc[w] = "running" => w \in signalled

(* The pids that main keeps are used only while they are its own: waitpid, *)
(* whose error would be a panic, is called for a child that is there to be *)
(* waited for, and SIGTERM can reach a stranger only at the pid of a child *)
(* that ended by itself, never where the watcher has already sent one.     *)
PidsOwned ==
    /\ waiter = "wait" /\ wait_at <= Len(handles) /\ handles[wait_at] # None
         => proc[handles[wait_at]] \in {"running", "zombie"}
    /\ stray \cap signalled = {}

(* "For how long to run the worker" (lib.rs, line 30): once there is a     *)
(* watcher, main and all the workers come to an end whatever the payloads  *)
(* do and whether or not there is a waiter, unless the watcher is lost in  *)
(* its panic over a clock that was set back.                               *)
DurationKept ==
    (watcher # "off")
      ~> \/ watcher = "panicked"
         \/ /\ main \in {"done", "panicked"}
            /\ \A w \in Worker : proc[w] # "running"

(* WorkerPool, with a worker over when it is reaped or was never forked.   *)
WorkerLife(w) ==
    IF Len(handles) < w THEN "unborn"
      ELSE IF proc[w] \in {"running", "zombie"} THEN "running" ELSE "over"

(* Main has waited for its workers, or has left them for want of a thread. *)
Outcome ==
    IF main \notin {"done", "panicked"} THEN "pending"
      ELSE IF main = "panicked" /\ waiter = "off" THEN "aborted" ELSE "returned"

Pool == INSTANCE WorkerPool
          WITH worker <- [w \in Worker |-> WorkerLife(w)], outcome <- Outcome

(* The supervisor implements the promise of the header of main.rs.         *)
ImplementsPool == Pool!Spec
=============================================================================
