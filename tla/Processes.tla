----------------------------- MODULE Processes -----------------------------
(***************************************************************************)
(* The processes workload (worker/processes.rs).  The worker's main thread *)
(* spawns a thread per arrival; the thread forks a child and waits for it, *)
(* or runs the program `stub' to its end.  The child sleeps for its        *)
(* lifetime and ends with the only thread it has.                          *)
(*                                                                         *)
(* All of them log.  The logger writes to the standard error stream, which *)
(* is behind a lock of the process; a fork copies the lock as it is, with  *)
(* none of the threads that might release it.                              *)
(***************************************************************************)
EXTENDS Integers, FiniteSets

CONSTANTS MaxThreads,  \* how many threads the process may have
          Logging      \* FALSE: no messages; TRUE: the level is info or more

Task == 1..MaxThreads

ASSUME ProcessesAssumption ==
    /\ MaxThreads \in Nat
    /\ Logging \subseteq BOOLEAN

VARIABLES
    random_process,  \* the flag of the workload
    logging,         \* whether info! does anything in this run
    bad_rate,        \* the rate that is negative, if one is
    main,            \* where the loop of run_payload is
    task,            \* where each spawned thread is
    child,           \* the forked process of each thread
    copied,          \* the child was forked with the lock held
    lock             \* who holds the lock of the standard error stream

config == <<random_process, logging, bad_rate>>
vars == <<config, main, task, child, copied, lock>>

Nobody == 0
Main == MaxThreads + 1

Init ==
    /\ random_process \in BOOLEAN
    /\ logging \in Logging
    /\ bad_rate \in {"none", "arrival", "departure"}
    /\ main = "spawn"
    /\ task = [t \in Task |-> "none"]
    /\ child = [t \in Task |-> "none"]
    /\ copied = [t \in Task |-> FALSE]
    /\ lock = Nobody

Alive == main \notin {"killed", "ended"}

-----------------------------------------------------------------------------
(* The loop of run_payload: lifetime, spawn, interval, log, sleep, log.    *)

(* The distribution of the interval is made after the thread was spawned,  *)
(* and unwrapped.                                                          *)
SpawnThread(t) ==
    /\ main = "spawn"
    /\ bad_rate # "departure"
    /\ task[t] = "none"
    /\ child[t] = "none"
    /\ task' = [task EXCEPT ![t] = "ready"]
    /\ main' = CASE bad_rate = "arrival" -> "unwind"
                 [] bad_rate # "arrival" /\ logging -> "log"
                 [] OTHER -> "sleep"
    /\ UNCHANGED <<config, child, copied, lock>>

(* The distribution of the lifetime is unwrapped, and Scope::spawn panics  *)
(* when there is no thread to be had.  A panic leaves the scope, which     *)
(* first waits for every thread of it.                                     *)
SpawnPanic ==
    /\ main = "spawn"
    /\ bad_rate = "departure" \/ \A t \in Task : task[t] # "none"
    /\ main' = "unwind"
    /\ UNCHANGED <<config, task, child, copied, lock>>

MainLocks ==
    /\ main \in {"log", "log_again"}
    /\ lock = Nobody
    /\ lock' = Main
    /\ UNCHANGED <<config, main, task, child, copied>>

MainUnlocks ==
    /\ main \in {"log", "log_again"}
    /\ lock = Main
    /\ lock' = Nobody
    /\ main' = IF main = "log" THEN "sleep" ELSE "spawn"
    /\ UNCHANGED <<config, task, child, copied>>

MainWakes ==
    /\ main = "sleep"
    /\ main' = IF logging THEN "log_again" ELSE "spawn"
    /\ UNCHANGED <<config, task, child, copied, lock>>

(* Every thread is joined, and the panic goes on to main.rs.               *)
Unwound ==
    /\ main = "unwind"
    /\ \A t \in Task : task[t] = "none"
    /\ main' = "ended"
    /\ UNCHANGED <<config, task, child, copied, lock>>

(* SIGTERM of the supervisor: it is for the worker and not its children.   *)
Terminate ==
    /\ Alive
    /\ main' = "killed"
    /\ task' = [t \in Task |-> "none"]
    /\ UNCHANGED <<config, child, copied, lock>>

-----------------------------------------------------------------------------
(* spawn_process, in a thread of its own.                                  *)

ForkChild(t) ==
    /\ task[t] = "ready"
    /\ ~random_process
    /\ child' = [child EXCEPT ![t] = IF logging THEN "log_start" ELSE "sleep"]
    /\ copied' = [copied EXCEPT ![t] = lock # Nobody]
    /\ task' = [task EXCEPT ![t] = IF logging THEN "log" ELSE "wait"]
    /\ UNCHANGED <<config, main, lock>>

(* The warning is logged at a level that may be on without info; it takes  *)
(* and releases the lock, as any message does.                             *)
ForkErrWaits(t) ==
    /\ task[t] = "ready"
    /\ ~random_process
    /\ task' = [task EXCEPT ![t] = "wait"]
    /\ UNCHANGED <<config, main, child, copied, lock>>

ForkErr(t) ==
    /\ task[t] = "ready"
    /\ ~random_process
    /\ task' = [task EXCEPT ![t] = IF logging THEN "warn" ELSE "none"]
    /\ UNCHANGED <<config, main, child, copied, lock>>

TaskLocks(t) ==
    /\ task[t] \in {"log", "warn"}
    /\ lock = Nobody
    /\ lock' = t
    /\ UNCHANGED <<config, main, task, child, copied>>

TaskUnlocksNoWait(t) ==
    /\ task[t] \in {"log", "warn"}
    /\ lock = t
    /\ lock' = Nobody
    /\ task' = [task EXCEPT ![t] = "none"]
    /\ UNCHANGED <<config, main, child, copied>>

TaskUnlocksKept(t) ==
    /\ task[t] \in {"log", "warn"}
    /\ lock = t
    /\ task' = [task EXCEPT ![t] = IF task[t] = "log" THEN "wait" ELSE "none"]
    /\ UNCHANGED <<config, main, child, copied, lock>>

TaskUnlocks(t) ==
    /\ task[t] \in {"log", "warn"}
    /\ lock = t
    /\ lock' = Nobody
    /\ task' = [task EXCEPT ![t] = IF task[t] = "log" THEN "wait" ELSE "none"]
    /\ UNCHANGED <<config, main, child, copied>>

(* waitpid returns when the child has ended; the thread ends with it.      *)
ReapEarly(t) ==
    /\ task[t] = "wait"
    /\ task' = [task EXCEPT ![t] = "none"]
    /\ UNCHANGED <<config, main, child, copied, lock>>

Reap(t) ==
    /\ task[t] = "wait"
    /\ child[t] = "zombie"
    /\ child' = [child EXCEPT ![t] = "none"]
    /\ copied' = [copied EXCEPT ![t] = FALSE]
    /\ task' = [task EXCEPT ![t] = "none"]
    /\ UNCHANGED <<config, main, lock>>

(* With random_process the thread runs `stub' and collects its output.  It *)
(* ends with it, or in the panic of unwrap when there is no such program.  *)
RunStub(t) ==
    /\ task[t] = "ready"
    /\ random_process
    /\ task' = [task EXCEPT ![t] = "none"]
    /\ UNCHANGED <<config, main, child, copied, lock>>

-----------------------------------------------------------------------------
(* The forked child.                                                       *)

(* A message of the child: it needs the copy of the lock.                  *)
ChildLogs(t) ==
    /\ child[t] \in {"log_start", "log_stop"}
    /\ ~copied[t]
    /\ child' = [child EXCEPT ![t] =
                    IF child[t] = "log_start" THEN "sleep" ELSE "zombie"]
    /\ UNCHANGED <<config, main, task, copied, lock>>

(* The lifetime is over.                                                   *)
ChildWakes(t) ==
    /\ child[t] = "sleep"
    /\ child' = [child EXCEPT ![t] = IF logging THEN "log_stop" ELSE "zombie"]
    /\ UNCHANGED <<config, main, task, copied, lock>>

(* init reaps what the worker has left.                                    *)
InitReaps(t) ==
    /\ ~Alive
    /\ child[t] = "zombie"
    /\ child' = [child EXCEPT ![t] = "none"]
    /\ copied' = [copied EXCEPT ![t] = FALSE]
    /\ UNCHANGED <<config, main, task, lock>>

Over == ~Alive /\ UNCHANGED vars

Spawn == \E t \in Task : SpawnThread(t)

Forked(t) == ForkChild(t) \/ ForkErr(t)

Next ==
    \/ Spawn \/ SpawnPanic \/ MainLocks \/ MainUnlocks \/ MainWakes
    \/ Unwound \/ Terminate \/ Over
    \/ \E t \in Task :
          \/ Forked(t) \/ RunStub(t) \/ TaskLocks(t) \/ TaskUnlocks(t)
          \/ Reap(t)
          \/ ChildLogs(t) \/ ChildWakes(t) \/ InitReaps(t)

Spec == Init /\ [][Next]_vars

(* Threads and processes are scheduled; the rates are not zero, so sleeps  *)
(* end; stub returns; who waits for the lock gets it at last.  No signal   *)
(* has to come.                                                            *)
Fairness ==
    /\ WF_vars(Spawn) /\ WF_vars(SpawnPanic) /\ WF_vars(MainWakes)
    /\ SF_vars(MainLocks) /\ WF_vars(MainUnlocks) /\ WF_vars(Unwound)
    /\ \A t \in Task :
          /\ WF_vars(Forked(t) \/ RunStub(t))
          /\ SF_vars(TaskLocks(t)) /\ WF_vars(TaskUnlocks(t))
          /\ WF_vars(Reap(t))
          /\ WF_vars(ChildLogs(t)) /\ WF_vars(ChildWakes(t))
          /\ WF_vars(InitReaps(t))

FairSpec == Spec /\ Fairness

-----------------------------------------------------------------------------
(* The state has the shape the code gives it, and the lock is held by a    *)
(* thread that writes a message.                                           *)
TypeOK ==
    /\ random_process \in BOOLEAN
    /\ logging \in BOOLEAN
    /\ bad_rate \in {"none", "arrival", "departure"}
    /\ main \in {"spawn", "log", "sleep", "log_again", "unwind", "killed",
                 "ended"}
    /\ task \in [Task -> {"none", "ready", "log", "warn", "wait"}]
    /\ child \in [Task -> {"none", "log_start", "sleep", "log_stop",
                           "zombie"}]
    /\ copied \in [Task -> BOOLEAN]
    /\ lock \in 0..Main
    /\ (Alive /\ lock = Main) => main \in {"log", "log_again"}
    /\ \A t \in Task : (Alive /\ lock = t) => task[t] \in {"log", "warn"}

(* While the worker lives, every child it has forked has exactly one       *)
(* thread that will wait for it, and no thread waits for nothing: waitpid  *)
(* (line 49) is unwrapped, and would panic without a child.  So the worker *)
(* collects no zombies, and when its scope is left in a panic no child of  *)
(* it is running any more.                                                 *)
ChildrenWaitedFor ==
    /\ Alive => \A t \in Task :
                   child[t] # "none" <=> task[t] \in {"log", "wait"}
    /\ main = "ended" => \A t \in Task : child[t] = "none"

(* Only a child that was forked while another thread of the worker was     *)
(* writing a message can hang: any other is gone some time after its       *)
(* lifetime, whether the worker is still there or not.                     *)
ChildrenDepart ==
    \A t \in Task :
       (child[t] # "none" /\ ~copied[t]) ~> (child[t] = "none")

(* The loop goes on to the next arrival whatever becomes of the children   *)
(* before, until it is killed or there are no threads left.                *)
KeepsSpawning == []<>(main \in {"spawn", "unwind"} \/ ~Alive)

(* Without messages the panic of the loop ends the worker process, so that *)
(* the supervisor learns of it.                                            *)
UnwindEnds == (main = "unwind" /\ ~logging) ~> ~Alive

(* "How long processes are going to live" (lib.rs, line 118): they do not  *)
(* live for ever.                                                          *)
EveryChildDeparts ==
    \A t \in Task : (child[t] # "none") ~> (child[t] = "none")
=============================================================================
