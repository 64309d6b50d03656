-------------------------- MODULE ProcessesProofs --------------------------
(***************************************************************************)
(* The safety properties of Processes, for any number of threads.  To be   *)
(* inductive they need one fact more: a worker process that is over has no *)
(* threads, so nothing is forked after it.                                 *)
(***************************************************************************)
EXTENDS Processes, TLAPS

(* No thread outlives its process.                                         *)
NoThreadsLeft == ~Alive => \A t \in Task : task[t] = "none"

Inv == TypeOK /\ ChildrenWaitedFor /\ NoThreadsLeft

-----------------------------------------------------------------------------
(* The worker starts with one thread and no child.                         *)
LEMMA InvInit == Init => Inv
<1> SUFFICES ASSUME Init PROVE Inv
  OBVIOUS
<1> USE ProcessesAssumption DEF Init, Alive, Nobody, Main, Task
<1>1. TypeOK
  <2>1. random_process \in BOOLEAN /\ logging \in BOOLEAN
    BY Zenon
  <2>2. lock = 0 /\ \A t \in Task : t # 0
    OBVIOUS
  <2>3. lock \in 0..Main /\ lock # Main
    OBVIOUS
  <2> QED
    BY <2>1, <2>2, <2>3 DEF TypeOK
<1>2. ChildrenWaitedFor /\ NoThreadsLeft
  BY DEF ChildrenWaitedFor, NoThreadsLeft
<1> QED
  BY <1>1, <1>2 DEF Inv

(* The steps of the main thread.                                           *)
LEMMA InvMain ==
    ASSUME Inv,
           \/ Spawn \/ SpawnPanic \/ MainLocks \/ MainUnlocks \/ MainWakes
           \/ Unwound \/ Terminate
    PROVE  Inv'
<1> USE ProcessesAssumption DEF Inv, Alive, Nobody, config
<1>c. random_process' = random_process /\ logging' = logging /\ bad_rate' = bad_rate
  BY DEF Spawn, SpawnThread, SpawnPanic, MainLocks, MainUnlocks, MainWakes,
         Unwound, Terminate
<1>m. Main \notin Task /\ Main # 0 /\ Main \in 0..Main /\ \A t \in Task : t # 0
  BY DEF Main, Task
<1>1. CASE Spawn
  <2>1. PICK t \in Task : SpawnThread(t)
    BY <1>1 DEF Spawn
  <2>2. /\ main = "spawn" /\ task[t] = "none" /\ child[t] = "none"
        /\ task' = [task EXCEPT ![t] = "ready"]
        /\ main' \in {"unwind", "log", "sleep"}
        /\ UNCHANGED <<child, copied, lock>>
    BY <2>1 DEF SpawnThread
  <2>3. /\ \A u \in Task : task'[u] = IF u = t THEN "ready" ELSE task[u]
        /\ task' \in [Task -> {"none", "ready", "log", "warn", "wait"}]
    BY <2>2 DEF TypeOK
  <2>4. TypeOK'
    BY <1>c, <1>m, <2>2, <2>3 DEF TypeOK
  <2>5. ChildrenWaitedFor' /\ NoThreadsLeft'
    BY <2>2, <2>3 DEF ChildrenWaitedFor, NoThreadsLeft
  <2> QED
    BY <2>4, <2>5
<1>2. CASE SpawnPanic \/ MainWakes
  <2>1. /\ main \in {"spawn", "sleep"}
        /\ main' \in {"unwind", "log_again", "spawn"}
        /\ UNCHANGED <<task, child, copied, lock>>
    BY <1>2 DEF SpawnPanic, MainWakes
  <2>2. TypeOK'
    BY <1>c, <2>1 DEF TypeOK
  <2> QED
    BY <2>1, <2>2 DEF ChildrenWaitedFor, NoThreadsLeft
<1>3. CASE MainLocks
  <2>1. /\ main \in {"log", "log_again"} /\ lock' = Main
        /\ UNCHANGED <<main, task, child, copied>>
    BY <1>3 DEF MainLocks
  <2>2. TypeOK'
    BY <1>c, <1>m, <2>1 DEF TypeOK
  <2> QED
    BY <2>1, <2>2 DEF ChildrenWaitedFor, NoThreadsLeft
<1>4. CASE MainUnlocks
  <2>1. /\ main \in {"log", "log_again"} /\ main' \in {"sleep", "spawn"}
        /\ lock' = 0
        /\ UNCHANGED <<task, child, copied>>
    BY <1>4 DEF MainUnlocks
  <2>2. TypeOK'
    BY <1>c, <1>m, <2>1 DEF TypeOK, Main
  <2> QED
    BY <2>1, <2>2 DEF ChildrenWaitedFor, NoThreadsLeft
<1>5. CASE Unwound
  <2>1. /\ main = "unwind" /\ main' = "ended"
        /\ \A t \in Task : task[t] = "none"
        /\ UNCHANGED <<task, child, copied, lock>>
    BY <1>5 DEF Unwound
  <2>2. TypeOK'
    BY <1>c, <2>1 DEF TypeOK
  <2> QED
    BY <2>1, <2>2 DEF ChildrenWaitedFor, NoThreadsLeft
<1>6. CASE Terminate
  <2>1. /\ main' = "killed" /\ task' = [t \in Task |-> "none"]
        /\ UNCHANGED <<child, copied, lock>>
    BY <1>6 DEF Terminate
  <2>2. TypeOK'
    BY <1>c, <2>1 DEF TypeOK
  <2> QED
    BY <2>1, <2>2 DEF ChildrenWaitedFor, NoThreadsLeft
<1> QED
  BY <1>1, <1>2, <1>3, <1>4, <1>5, <1>6

(* The steps of a spawned thread: it waits for a child exactly when it has *)
(* forked one.                                                             *)
LEMMA InvTask ==
    ASSUME Inv, NEW t \in Task,
           \/ Forked(t) \/ RunStub(t) \/ TaskLocks(t) \/ TaskUnlocks(t)
           \/ Reap(t)
    PROVE  Inv'
<1> USE ProcessesAssumption DEF Inv, Alive, Nobody, config
<1>c. /\ random_process' = random_process /\ logging' = logging
      /\ bad_rate' = bad_rate /\ main' = main
  BY DEF Forked, ForkChild, ForkErr, RunStub, TaskLocks, TaskUnlocks, Reap
<1>m. Main \notin Task /\ Main # 0 /\ \A u \in Task : u # 0 /\ u \in 0..Main
  BY DEF Main, Task
<1>a. task[t] # "none" /\ main \notin {"killed", "ended"}
  BY DEF Forked, ForkChild, ForkErr, RunStub, TaskLocks, TaskUnlocks, Reap,
         NoThreadsLeft
<1>1. CASE ForkChild(t)
  <2>1. /\ task[t] = "ready"
        /\ \E s \in {"log_start", "sleep"} : child' = [child EXCEPT ![t] = s]
        /\ \E b \in BOOLEAN : copied' = [copied EXCEPT ![t] = b]
        /\ \E s \in {"log", "wait"} : task' = [task EXCEPT ![t] = s]
        /\ lock' = lock
    BY <1>1 DEF ForkChild
  <2>2. /\ \A u \in Task : u # t => task'[u] = task[u] /\ child'[u] = child[u]
        /\ task'[t] \in {"log", "wait"} /\ child'[t] \in {"log_start", "sleep"}
        /\ task' \in [Task -> {"none", "ready", "log", "warn", "wait"}]
        /\ child' \in [Task -> {"none", "log_start", "sleep", "log_stop",
                                "zombie"}]
    BY <2>1 DEF TypeOK
  <2>3. copied' \in [Task -> BOOLEAN]
    BY <2>1, Zenon DEF TypeOK
  <2>4. lock # t
    BY <1>a, <2>1 DEF TypeOK
  <2>5. TypeOK'
    BY <1>c, <1>m, <2>1, <2>2, <2>3, <2>4 DEF TypeOK
  <2> QED
    BY <1>a, <1>c, <2>2, <2>5 DEF ChildrenWaitedFor, NoThreadsLeft
<1>2. CASE ForkErr(t) \/ RunStub(t)
  <2>1. /\ task[t] = "ready"
        /\ \E s \in {"warn", "none"} : task' = [task EXCEPT ![t] = s]
        /\ UNCHANGED <<child, copied, lock>>
    BY <1>2 DEF ForkErr, RunStub
  <2>2. /\ \A u \in Task : u # t => task'[u] = task[u]
        /\ task'[t] \in {"warn", "none"}
        /\ task' \in [Task -> {"none", "ready", "log", "warn", "wait"}]
    BY <2>1 DEF TypeOK
  <2>3. lock # t
    BY <1>a, <2>1 DEF TypeOK
  <2>4. TypeOK'
    BY <1>c, <1>m, <2>1, <2>2, <2>3 DEF TypeOK
  <2> QED
    BY <1>a, <1>c, <2>1, <2>2, <2>4 DEF ChildrenWaitedFor, NoThreadsLeft
<1>3. CASE TaskLocks(t)
  <2>1. /\ task[t] \in {"log", "warn"} /\ lock' = t
        /\ UNCHANGED <<task, child, copied>>
    BY <1>3 DEF TaskLocks
  <2>2. TypeOK'
    BY <1>c, <1>m, <2>1 DEF TypeOK
  <2> QED
    BY <1>c, <2>1, <2>2 DEF ChildrenWaitedFor, NoThreadsLeft
<1>4. CASE TaskUnlocks(t)
  <2>1. /\ task[t] \in {"log", "warn"} /\ lock' = 0
        /\ task' = [task EXCEPT ![t] =
                       IF task[t] = "log" THEN "wait" ELSE "none"]
        /\ UNCHANGED <<child, copied>>
    BY <1>4 DEF TaskUnlocks
  <2>2. /\ \A u \in Task : u # t => task'[u] = task[u]
        /\ task'[t] = IF task[t] = "log" THEN "wait" ELSE "none"
        /\ task' \in [Task -> {"none", "ready", "log", "warn", "wait"}]
    BY <2>1 DEF TypeOK
  <2>3. 0 \in 0..Main
    BY DEF Main
  <2>4. TypeOK'
    BY <1>c, <1>m, <2>1, <2>2, <2>3 DEF TypeOK
  <2> QED
    BY <1>a, <1>c, <2>1, <2>2, <2>4 DEF ChildrenWaitedFor, NoThreadsLeft
<1>5. CASE Reap(t)
  <2>1. /\ task[t] = "wait" /\ child' = [child EXCEPT ![t] = "none"]
        /\ copied' = [copied EXCEPT ![t] = FALSE]
        /\ task' = [task EXCEPT ![t] = "none"]
        /\ lock' = lock
    BY <1>5 DEF Reap
  <2>2. /\ \A u \in Task : u # t => task'[u] = task[u] /\ child'[u] = child[u]
        /\ task'[t] = "none" /\ child'[t] = "none"
        /\ task' \in [Task -> {"none", "ready", "log", "warn", "wait"}]
        /\ child' \in [Task -> {"none", "log_start", "sleep", "log_stop",
                                "zombie"}]
    BY <2>1 DEF TypeOK
  <2>3. copied' \in [Task -> BOOLEAN]
    BY <2>1, Zenon DEF TypeOK
  <2>4. lock # t
    BY <1>a, <2>1 DEF TypeOK
  <2>5. TypeOK'
    BY <1>c, <1>m, <2>1, <2>2, <2>3, <2>4 DEF TypeOK
  <2> QED
    BY <1>a, <1>c, <2>2, <2>5 DEF ChildrenWaitedFor, NoThreadsLeft
<1> QED
  BY <1>1, <1>2, <1>3, <1>4, <1>5 DEF Forked

(* The steps of a child, and of init after the worker is over.             *)
LEMMA InvChild ==
    ASSUME Inv, NEW t \in Task,
           ChildLogs(t) \/ ChildWakes(t) \/ InitReaps(t)
    PROVE  Inv'
<1> USE DEF Inv, Alive, config
<1>1. CASE ChildLogs(t) \/ ChildWakes(t)
  <2>1. /\ child[t] # "none"
        /\ \E s \in {"sleep", "log_stop", "zombie"} :
              child' = [child EXCEPT ![t] = s]
        /\ UNCHANGED <<config, main, task, copied, lock>>
    BY <1>1 DEF ChildLogs, ChildWakes
  <2>2. /\ \A u \in Task : child'[u] = "none" <=> child[u] = "none"
        /\ child' \in [Task -> {"none", "log_start", "sleep", "log_stop",
                                "zombie"}]
    BY <2>1 DEF TypeOK
  <2>3. TypeOK'
    BY <2>1, <2>2 DEF TypeOK
  <2> QED
    BY <2>1, <2>2, <2>3 DEF ChildrenWaitedFor, NoThreadsLeft
<1>2. CASE InitReaps(t)
  <2>1. /\ main \in {"killed", "ended"}
        /\ child' = [child EXCEPT ![t] = "none"]
        /\ copied' = [copied EXCEPT ![t] = FALSE]
        /\ UNCHANGED <<config, main, task, lock>>
    BY <1>2 DEF InitReaps
  <2>2. /\ \A u \in Task : child'[u] \in {child[u], "none"}
        /\ child' \in [Task -> {"none", "log_start", "sleep", "log_stop",
                                "zombie"}]
    BY <2>1 DEF TypeOK
  <2>3. copied' \in [Task -> BOOLEAN]
    BY <2>1, Zenon DEF TypeOK
  <2>4. TypeOK'
    BY <2>1, <2>2, <2>3 DEF TypeOK
  <2> QED
    BY <2>1, <2>2, <2>4 DEF ChildrenWaitedFor, NoThreadsLeft
<1> QED
  BY <1>1, <1>2

(* Every step keeps the invariant.                                         *)
LEMMA InvStep == Inv /\ [Next]_vars => Inv'
<1> SUFFICES ASSUME Inv, [Next]_vars PROVE Inv'
  OBVIOUS
<1>1. CASE Over \/ UNCHANGED vars
  <2>1. UNCHANGED vars
    BY <1>1 DEF Over
  <2> QED
    BY <2>1 DEF Inv, TypeOK, ChildrenWaitedFor, NoThreadsLeft, Alive, vars,
                config
<1>2. CASE Next /\ ~Over
  BY <1>2, InvMain, InvTask, InvChild DEF Next
<1> QED
  BY <1>1, <1>2

(* The invariant holds in every behaviour.                                 *)
LEMMA InvAlways == Spec => []Inv
  BY InvInit, InvStep, PTL DEF Spec

-----------------------------------------------------------------------------
(* The state keeps its types, and the lock of the log stream is always     *)
(* held by a thread that is writing a message.                             *)
THEOREM TypeCorrect == Spec => []TypeOK
<1>1. Inv => TypeOK
  BY DEF Inv
<1> QED
  BY <1>1, InvAlways, PTL

(* Every child has one thread that waits for it, and waitpid (processes.rs,*)
(* line 49) always has a child to wait for, so its unwrap does not panic.  *)
THEOREM ChildrenAlwaysWaitedFor == Spec => []ChildrenWaitedFor
<1>1. Inv => ChildrenWaitedFor
  BY DEF Inv
<1> QED
  BY <1>1, InvAlways, PTL

-----------------------------------------------------------------------------
(* A child whose next step is a message, and whose copy of the lock nobody *)
(* is there to release.                                                    *)
Hung(t) == child[t] \in {"log_start", "log_stop"} /\ copied[t]

(* No step of anybody gets it out of there.                                *)
LEMMA HungStep ==
    ASSUME Inv, NEW t \in Task, Hung(t), [Next]_vars
    PROVE  Hung(t)'
<1>1. child[t] \in {"log_start", "log_stop"} /\ copied[t] /\ task[t] # "ready"
  BY DEF Hung, Inv, ChildrenWaitedFor, NoThreadsLeft
<1>2. child \in [Task -> {"none", "log_start", "sleep", "log_stop", "zombie"}]
  BY DEF Inv, TypeOK
<1>3. copied \in [Task -> BOOLEAN]
  BY DEF Inv, TypeOK
<1>4. SUFFICES ASSUME NEW u \in Task,
                      ForkChild(u) \/ Reap(u) \/ ChildLogs(u) \/ ChildWakes(u)
                        \/ InitReaps(u)
               PROVE  child'[t] = child[t] /\ copied'[t] = copied[t]
  <2>1. CASE UNCHANGED <<child, copied>>
    BY <2>1 DEF Hung
  <2>2. CASE Next /\ ~UNCHANGED <<child, copied>>
    BY <1>1, <1>4, <2>2
       DEF Next, Spawn, SpawnThread, SpawnPanic, MainLocks, MainUnlocks,
           MainWakes, Unwound, Terminate, Over, Forked, ForkErr, RunStub,
           TaskLocks, TaskUnlocks, vars, Hung
  <2> QED
    BY <2>1, <2>2 DEF vars
<1>5. CASE ForkChild(u)
  <2>1. /\ u # t
        /\ \E v : child' = [child EXCEPT ![u] = v]
        /\ \E v : copied' = [copied EXCEPT ![u] = v]
    BY <1>1, <1>5 DEF ForkChild
  <2> QED
    BY <1>2, <1>3, <2>1
<1>6. CASE Reap(u) \/ InitReaps(u)
  <2>1. /\ u # t
        /\ child' = [child EXCEPT ![u] = "none"]
        /\ copied' = [copied EXCEPT ![u] = FALSE]
    BY <1>1, <1>6 DEF Reap, InitReaps
  <2> QED
    BY <1>2, <1>3, <2>1
<1>7. CASE ChildLogs(u) \/ ChildWakes(u)
  <2>1. /\ u # t /\ copied' = copied
        /\ \E v : child' = [child EXCEPT ![u] = v]
    BY <1>1, <1>7 DEF ChildLogs, ChildWakes
  <2> QED
    BY <1>2, <2>1
<1> QED
  BY <1>4, <1>5, <1>6, <1>7

(* A child forked while a message was being written, once it comes to its  *)
(* own message, hangs for good, and its worker with it: the scope is never *)
(* left, so the process does not end unless it is killed.                  *)
THEOREM HungForGood ==
    ASSUME NEW t \in Task
    PROVE  Spec => [](Hung(t) => [](Hung(t) /\ main # "ended"))
<1>1. Inv /\ Hung(t) => main # "ended"
  BY DEF Inv, ChildrenWaitedFor, Hung
<1>2. Inv /\ Hung(t) /\ [Next]_vars => Hung(t)'
  BY HungStep
<1> QED
  BY <1>1, <1>2, InvAlways, PTL DEF Spec

(* Without messages a child has none to write.                             *)
Silent == ~logging => \A t \in Task : child[t] \notin {"log_start", "log_stop"}

LEMMA SilentStep == Inv /\ Silent /\ [Next]_vars => Silent'
<1> SUFFICES ASSUME Inv, Silent, [Next]_vars, ~logging'
             PROVE  \A t \in Task : child'[t] \notin {"log_start", "log_stop"}
  BY DEF Silent
<1>1. ~logging
  BY DEF Next, Spawn, SpawnThread, SpawnPanic, MainLocks, MainUnlocks,
         MainWakes, Unwound, Terminate, Over, Forked, ForkChild, ForkErr,
         RunStub, TaskLocks, TaskUnlocks, Reap, ChildLogs, ChildWakes,
         InitReaps, vars, config
<1>2. /\ child \in [Task -> {"none", "log_start", "sleep", "log_stop", "zombie"}]
      /\ \A t \in Task : child[t] \notin {"log_start", "log_stop"}
  BY <1>1 DEF Silent, Inv, TypeOK
<1>3. CASE UNCHANGED child
  BY <1>2, <1>3
<1>4. ASSUME NEW u \in Task,
             ForkChild(u) \/ Reap(u) \/ ChildLogs(u) \/ ChildWakes(u)
               \/ InitReaps(u)
      PROVE  \E v \in {"none", "sleep", "zombie"} :
                child' = [child EXCEPT ![u] = v]
  BY <1>1, <1>2, <1>4 DEF ForkChild, Reap, ChildLogs, ChildWakes, InitReaps
<1>5. CASE Next /\ ~UNCHANGED child
  <2>1. \E u \in Task : ForkChild(u) \/ Reap(u) \/ ChildLogs(u)
                          \/ ChildWakes(u) \/ InitReaps(u)
    BY <1>5 DEF Next, Spawn, SpawnThread, SpawnPanic, MainLocks, MainUnlocks,
         MainWakes, Unwound, Terminate, Over, Forked, ForkErr, RunStub,
         TaskLocks, TaskUnlocks, vars
  <2> QED
    BY <1>2, <1>4, <2>1
<1> QED
  BY <1>3, <1>5 DEF vars

(* Only a run that logs messages can come to that.                         *)
THEOREM OnlyMessagesHang == Spec => []((\E t \in Task : Hung(t)) => logging)
<1>1. Init => Silent
  BY DEF Init, Silent
<1>2. Silent => ((\E t \in Task : Hung(t)) => logging)
  BY DEF Silent, Hung
<1> QED
  BY <1>1, <1>2, SilentStep, InvAlways, PTL DEF Spec
=============================================================================
