-------------------------- MODULE SupervisorProofs --------------------------
(***************************************************************************)
(* The safety of Supervisor for any number of workers and any duration,    *)
(* and that it implements WorkerPool.                                      *)
(*                                                                         *)
(* Main may leave its scope because the waiter is past every handle, and   *)
(* what is behind the waiter has been reaped: that, the meaning of handles *)
(* and the positions of the two loops are what has to be added to the      *)
(* properties to make them inductive.                                      *)
(***************************************************************************)
EXTENDS Supervisor, TLAPS

(* A handle names the child of its own turn, or nothing was forked there.  *)
HandlesNameChildren ==
    /\ \A i \in 1..Len(handles) :
         \/ handles[i] = i /\ proc[i] # "none"
         \/ handles[i] = None /\ proc[i] = "none"
    /\ \A w \in Worker : w > Len(handles) => proc[w] = "none"

(* The phases of main and of its threads.                                  *)
Phases ==
    /\ main \in {"forking", "spawning", "unwinding"} => waiter = "off"
    /\ main = "forking" => watcher = "off"
    /\ main # "forking" => Len(handles) = NWorkers
    /\ main = "scope" => waiter # "off"
    /\ main = "done" => waiter = "done"
    /\ main = "panicked" => waiter \in {"off", "done"}
    /\ watcher # "off" => duration # 0

(* What the two loops leave behind them.                                   *)
LoopsLeaveBehind ==
    /\ \A i \in 1..(wait_at - 1) : proc[i] \in {"none", "reaped", "reused"}
    /\ waiter = "done" => wait_at = Len(handles) + 1
    /\ \A i \in 1..(kill_at - 1) : proc[i] = "running" => i \in signalled
    /\ watcher = "done" => kill_at = Len(handles) + 1
    /\ main = "forking" => kill_at = 1 /\ wait_at = 1

(* The wall clock is never ahead, and signals come after its verdict.      *)
ClockVerdict ==
    /\ wall <= real
    /\ watcher \in {"kill", "done"} => real > duration
    /\ signalled # {} => watcher \in {"kill", "done"}

Inv ==
    /\ TypeOK
    /\ HandlesNameChildren
    /\ Phases
    /\ LoopsLeaveBehind
    /\ ClockVerdict

(* Before the first fork the invariant holds.                              *)
LEMMA InvInit == Init => Inv
<1> SUFFICES ASSUME Init PROVE Inv
  OBVIOUS
<1> USE SupervisorAssumption DEF Worker, None
<1>1. /\ handles \in Seq(Worker \cup {None}) /\ Len(handles) = 0
      /\ \A w \in Worker : proc[w] = "none"
  BY DEF Init
<1>2. TypeOK
  <2>1. kill_at \in 1..(Len(handles) + 1) /\ wait_at \in 1..(Len(handles) + 1)
    BY <1>1 DEF Init
  <2>2. proc \in [Worker -> {"none", "running", "zombie", "reaped", "reused"}]
    BY DEF Init
  <2>3. Len(handles) <= NWorkers
    BY <1>1
  <2>4. /\ duration \in Durations /\ main = "forking"
        /\ signalled = {} /\ stray = {}
        /\ watcher = "off" /\ waiter = "off"
        /\ real = 0 /\ wall = 0
    BY DEF Init
  <2>5. was_set \in BOOLEAN
    BY DEF Init
  <2> QED
    BY ONLY <1>1, <2>1, <2>2, <2>3, <2>4, <2>5 DEF TypeOK
<1>3. HandlesNameChildren /\ Phases
  BY <1>1 DEF Init, HandlesNameChildren, Phases
<1>4. LoopsLeaveBehind /\ ClockVerdict
  BY <1>1 DEF Init, LoopsLeaveBehind, ClockVerdict
<1> QED
  BY <1>2, <1>3, <1>4 DEF Inv

(* What Append does to handles.                                            *)
LEMMA HandlesAppend ==
    ASSUME TypeOK, NEW x \in Worker \cup {None}, Len(handles) < NWorkers,
           handles' = Append(handles, x)
    PROVE  /\ handles' \in Seq(Worker \cup {None})
           /\ Len(handles) \in Nat /\ Len(handles') = Len(handles) + 1
           /\ \A i \in 1..Len(handles) : handles'[i] = handles[i]
           /\ handles'[Len(handles) + 1] = x
  BY DEF TypeOK

(* Every step of main, of its threads, of the children and of the clocks   *)
(* keeps it.                                                               *)
THEOREM InvStep == Inv /\ [Next]_vars => Inv'
<1> SUFFICES ASSUME Inv, [Next]_vars PROVE Inv'
  OBVIOUS
<1> USE SupervisorAssumption DEF Worker, None
<1>0. TypeOK /\ HandlesNameChildren /\ Phases /\ LoopsLeaveBehind /\ ClockVerdict
  BY DEF Inv
<1>1. CASE ForkOk
  <2>1. /\ main = "forking" /\ Len(handles) < NWorkers
        /\ handles' = Append(handles, Len(handles) + 1)
        /\ proc' = [proc EXCEPT ![Len(handles) + 1] = "running"]
        /\ UNCHANGED <<duration, main, signalled, stray, watcher, kill_at, waiter,
                       wait_at, real, wall, was_set>>
    BY <1>1 DEF ForkOk, signals, threads, clock
  <2>2. Len(handles) \in Nat /\ Len(handles) + 1 \in Worker
    BY <1>0, <2>1 DEF TypeOK
  <2>3. /\ handles' \in Seq(Worker \cup {None})
        /\ Len(handles') = Len(handles) + 1
        /\ \A i \in 1..Len(handles) : handles'[i] = handles[i]
        /\ handles'[Len(handles) + 1] = Len(handles) + 1
    BY <1>0, <2>1, <2>2, HandlesAppend
  <2>4. /\ proc'[Len(handles) + 1] = "running"
        /\ \A i \in Worker : i # Len(handles) + 1 => proc'[i] = proc[i]
        /\ proc' \in [Worker -> {"none", "running", "zombie", "reaped", "reused"}]
    BY <1>0, <2>1, <2>2 DEF TypeOK
  <2>5. TypeOK'
    BY <1>0, <2>1, <2>2, <2>3, <2>4 DEF TypeOK
  <2>6. HandlesNameChildren'
    BY <1>0, <2>1, <2>2, <2>3, <2>4 DEF HandlesNameChildren, TypeOK
  <2>7. Phases' /\ LoopsLeaveBehind' /\ ClockVerdict'
    BY <1>0, <2>1, <2>2, <2>3 DEF Phases, LoopsLeaveBehind, ClockVerdict
  <2> QED
    BY <2>5, <2>6, <2>7 DEF Inv
<1>2. CASE ForkErr
  <2>1. /\ main = "forking" /\ Len(handles) < NWorkers
        /\ handles' = Append(handles, None)
        /\ UNCHANGED <<duration, main, proc, signalled, stray, watcher, kill_at,
                       waiter, wait_at, real, wall, was_set>>
    BY <1>2 DEF ForkErr, signals, threads, clock
  <2>2. /\ handles' \in Seq(Worker \cup {None})
        /\ Len(handles) \in Nat /\ Len(handles') = Len(handles) + 1
        /\ \A i \in 1..Len(handles) : handles'[i] = handles[i]
        /\ handles'[Len(handles) + 1] = None
    BY <1>0, <2>1, HandlesAppend
  <2>3. TypeOK'
    BY <1>0, <2>1, <2>2 DEF TypeOK
  <2>4. HandlesNameChildren'
    BY <1>0, <2>1, <2>2 DEF HandlesNameChildren, TypeOK
  <2>5. Phases' /\ LoopsLeaveBehind' /\ ClockVerdict'
    BY <1>0, <2>1, <2>2 DEF Phases, LoopsLeaveBehind, ClockVerdict
  <2> QED
    BY <2>3, <2>4, <2>5 DEF Inv
<1>3. CASE OpenScope \/ SpawnWaiter \/ SpawnPanic
  <2>1. UNCHANGED <<duration, handles, proc, signalled, stray, kill_at, wait_at,
                    real, wall, was_set>>
    BY <1>3 DEF OpenScope, SpawnWaiter, SpawnPanic, signals, threads, clock
  <2>2. /\ main \in {"forking", "spawning"} /\ Len(handles) = NWorkers
        /\ main' \in {"spawning", "scope", "unwinding"}
        /\ main' = "scope" => waiter' = "wait"
        /\ main' # "scope" => waiter' = waiter
        /\ main' = "spawning" => watcher' = IF duration # 0 THEN "sleep" ELSE "off"
        /\ main' # "spawning" => watcher' = watcher
    BY <1>0, <1>3 DEF OpenScope, SpawnWaiter, SpawnPanic, threads, Phases
  <2>3. main' = "spawning" => main = "forking"
    BY <1>3 DEF OpenScope, SpawnWaiter, SpawnPanic
  <2>4. TypeOK'
    BY <1>0, <2>1, <2>2 DEF TypeOK
  <2>5. HandlesNameChildren' /\ Phases'
    BY <1>0, <2>1, <2>2, <2>3 DEF HandlesNameChildren, Phases
  <2>6. LoopsLeaveBehind' /\ ClockVerdict'
    BY <1>0, <2>1, <2>2, <2>3 DEF LoopsLeaveBehind, ClockVerdict, Phases
  <2> QED
    BY <2>4, <2>5, <2>6 DEF Inv
<1>4. CASE CloseScope
  BY <1>0, <1>4 DEF CloseScope, signals, threads, clock, Inv, TypeOK,
                    HandlesNameChildren, Phases, LoopsLeaveBehind, ClockVerdict
<1>5. ASSUME NEW w \in Worker, PayloadFails(w) \/ Terminate(w)
      PROVE  Inv'
  <2>1. /\ proc[w] = "running"
        /\ proc' = [proc EXCEPT ![w] = "zombie"]
        /\ UNCHANGED <<duration, main, handles, signalled, stray, watcher, kill_at,
                       waiter, wait_at, real, wall, was_set>>
    BY <1>5 DEF PayloadFails, Terminate, signals, threads, clock
  <2>2. /\ proc'[w] = "zombie"
        /\ \A i \in Worker : i # w => proc'[i] = proc[i]
        /\ proc' \in [Worker -> {"none", "running", "zombie", "reaped", "reused"}]
    BY <1>0, <2>1 DEF TypeOK
  <2>3. TypeOK'
    BY <1>0, <2>1, <2>2 DEF TypeOK
  <2>4. HandlesNameChildren'
    BY <1>0, <2>1, <2>2 DEF HandlesNameChildren, TypeOK
  <2>5. LoopsLeaveBehind'
    BY <1>0, <2>1, <2>2 DEF LoopsLeaveBehind, TypeOK
  <2>6. Phases' /\ ClockVerdict'
    BY <1>0, <2>1 DEF Phases, ClockVerdict
  <2> QED
    BY <2>3, <2>4, <2>5, <2>6 DEF Inv
<1>6. CASE WatcherCheck
  BY <1>0, <1>6 DEF WatcherCheck, DurationOver, signals, clock, Inv, TypeOK,
                    HandlesNameChildren, Phases, LoopsLeaveBehind, ClockVerdict
<1>7. CASE WatcherKill
  <2>1. /\ watcher = "kill" /\ kill_at <= Len(handles)
        /\ kill_at' = kill_at + 1
        /\ signalled' = IF /\ handles[kill_at] # None
                           /\ proc[handles[kill_at]] \in {"running", "zombie"}
                          THEN signalled \cup {handles[kill_at]} ELSE signalled
        /\ stray' = IF /\ handles[kill_at] # None
                       /\ proc[handles[kill_at]] = "reused"
                      THEN stray \cup {handles[kill_at]} ELSE stray
        /\ UNCHANGED <<duration, main, handles, proc, watcher, waiter, wait_at,
                       real, wall, was_set>>
    BY <1>7 DEF WatcherKill, signals, clock
  <2>2. /\ kill_at \in 1..Len(handles) /\ Len(handles) \in Nat
        /\ kill_at \in Worker
    BY <1>0, <2>1 DEF TypeOK
  <2>3. /\ signalled \subseteq signalled'
        /\ proc[kill_at] = "running" => kill_at \in signalled'
        /\ signalled' \subseteq Worker /\ stray' \subseteq Worker
    <3>1. \/ handles[kill_at] = kill_at
          \/ handles[kill_at] = None /\ proc[kill_at] = "none"
      BY <1>0, <2>2 DEF HandlesNameChildren
    <3>2. signalled \subseteq Worker /\ stray \subseteq Worker
      BY <1>0 DEF TypeOK
    <3>3. kill_at # None
      BY <2>2
    <3>4. CASE handles[kill_at] = kill_at
      <4>1. /\ signalled' = IF proc[kill_at] \in {"running", "zombie"}
                              THEN signalled \cup {kill_at} ELSE signalled
            /\ stray' = IF proc[kill_at] = "reused"
                          THEN stray \cup {kill_at} ELSE stray
        BY <2>1, <3>3, <3>4
      <4> QED
        BY <2>2, <3>2, <4>1
    <3>5. CASE handles[kill_at] = None /\ proc[kill_at] = "none"
      BY <2>1, <3>2, <3>5
    <3> QED
      BY <3>1, <3>4, <3>5
  <2>4. TypeOK'
    BY <1>0, <2>1, <2>2, <2>3 DEF TypeOK
  <2>5. LoopsLeaveBehind'
    BY <1>0, <2>1, <2>2, <2>3 DEF LoopsLeaveBehind, Phases
  <2>6. HandlesNameChildren' /\ Phases' /\ ClockVerdict'
    BY <1>0, <2>1 DEF HandlesNameChildren, Phases, ClockVerdict
  <2> QED
    BY <2>4, <2>5, <2>6 DEF Inv
<1>8. CASE WatcherBreak
  BY <1>0, <1>8 DEF WatcherBreak, signals, clock, Inv, TypeOK,
                    HandlesNameChildren, Phases, LoopsLeaveBehind, ClockVerdict
<1>9. CASE WaiterSkip
  <2>1. /\ waiter = "wait" /\ wait_at <= Len(handles)
        /\ handles[wait_at] = None
        /\ wait_at' = wait_at + 1
        /\ UNCHANGED <<duration, main, handles, proc, signalled, stray, watcher,
                       kill_at, waiter, real, wall, was_set>>
    BY <1>9 DEF WaiterSkip, signals, clock
  <2>2. wait_at \in 1..Len(handles) /\ Len(handles) \in Nat
    BY <1>0, <2>1 DEF TypeOK
  <2>3. proc[wait_at] = "none"
    BY <1>0, <2>1, <2>2 DEF HandlesNameChildren
  <2>4. TypeOK'
    BY <1>0, <2>1, <2>2 DEF TypeOK
  <2>5. LoopsLeaveBehind'
    BY <1>0, <2>1, <2>2, <2>3 DEF LoopsLeaveBehind, Phases
  <2>6. HandlesNameChildren' /\ Phases' /\ ClockVerdict'
    BY <1>0, <2>1 DEF HandlesNameChildren, Phases, ClockVerdict
  <2> QED
    BY <2>4, <2>5, <2>6 DEF Inv
<1>10. CASE WaiterReap
  <2>1. /\ waiter = "wait" /\ wait_at <= Len(handles)
        /\ handles[wait_at] # None
        /\ proc[handles[wait_at]] = "zombie"
        /\ proc' = [proc EXCEPT ![handles[wait_at]] = "reaped"]
        /\ wait_at' = wait_at + 1
        /\ UNCHANGED <<duration, main, handles, signalled, stray, watcher, kill_at,
                       waiter, real, wall, was_set>>
    BY <1>10 DEF WaiterReap, signals, clock
  <2>2. /\ wait_at \in 1..Len(handles) /\ Len(handles) \in Nat
        /\ wait_at \in Worker
    BY <1>0, <2>1 DEF TypeOK
  <2>3. handles[wait_at] = wait_at
    BY <1>0, <2>1, <2>2 DEF HandlesNameChildren
  <2>4. /\ proc'[wait_at] = "reaped"
        /\ \A i \in Worker : i # wait_at => proc'[i] = proc[i]
        /\ proc' \in [Worker -> {"none", "running", "zombie", "reaped", "reused"}]
    BY <1>0, <2>1, <2>2, <2>3 DEF TypeOK
  <2>5. TypeOK'
    BY <1>0, <2>1, <2>2, <2>4 DEF TypeOK
  <2>6. HandlesNameChildren'
    BY <1>0, <2>1, <2>2, <2>3, <2>4 DEF HandlesNameChildren, TypeOK
  <2>7. LoopsLeaveBehind'
    BY <1>0, <2>1, <2>2, <2>4 DEF LoopsLeaveBehind, Phases, TypeOK
  <2>8. Phases' /\ ClockVerdict'
    BY <1>0, <2>1 DEF Phases, ClockVerdict
  <2> QED
    BY <2>5, <2>6, <2>7, <2>8 DEF Inv
<1>11. CASE WaiterDone
  BY <1>0, <1>11 DEF WaiterDone, signals, clock, Inv, TypeOK,
                     HandlesNameChildren, Phases, LoopsLeaveBehind, ClockVerdict
<1>12. CASE Tick
  <2>1. /\ watcher' = IF watcher = "sleep" THEN "check" ELSE watcher
        /\ \/ real' = real + 1 /\ wall' = wall + 1
           \/ real' = real /\ wall' = wall
        /\ UNCHANGED <<duration, main, handles, proc, signalled, stray, kill_at,
                       waiter, wait_at, was_set>>
    BY <1>12 DEF Tick, signals
  <2>2. TypeOK'
    BY <1>0, <2>1 DEF TypeOK
  <2>3. ClockVerdict'
    BY <1>0, <2>1 DEF TypeOK, ClockVerdict
  <2>4. HandlesNameChildren' /\ Phases' /\ LoopsLeaveBehind'
    BY <1>0, <2>1 DEF HandlesNameChildren, Phases, LoopsLeaveBehind
  <2> QED
    BY <2>2, <2>3, <2>4 DEF Inv
<1>13. CASE SetClockBack
  <2>1. PICK by \in Nat : wall' = wall - by
    BY <1>13 DEF SetClockBack
  <2>2. /\ UNCHANGED <<duration, main, handles, proc, signalled, stray, watcher,
                       kill_at, waiter, wait_at, real>>
        /\ was_set' = TRUE
    BY <1>13 DEF SetClockBack, signals, threads
  <2>3. TypeOK' /\ ClockVerdict'
    BY <1>0, <2>1, <2>2 DEF TypeOK, ClockVerdict
  <2>4. HandlesNameChildren' /\ Phases' /\ LoopsLeaveBehind'
    BY <1>0, <2>2 DEF HandlesNameChildren, Phases, LoopsLeaveBehind
  <2> QED
    BY <2>3, <2>4 DEF Inv
<1>14. ASSUME NEW w \in Worker, ReusePid(w)
       PROVE  Inv'
  <2>1. /\ proc[w] = "reaped"
        /\ proc' = [proc EXCEPT ![w] = "reused"]
        /\ UNCHANGED <<duration, main, handles, signalled, stray, watcher,
                       kill_at, waiter, wait_at, real, wall, was_set>>
    BY <1>14 DEF ReusePid, signals, threads, clock
  <2>2. /\ proc'[w] = "reused"
        /\ \A i \in Worker : i # w => proc'[i] = proc[i]
        /\ proc' \in [Worker -> {"none", "running", "zombie", "reaped", "reused"}]
    BY <1>0, <2>1 DEF TypeOK
  <2>3. TypeOK'
    BY <1>0, <2>1, <2>2 DEF TypeOK
  <2>4. HandlesNameChildren'
    BY <1>0, <2>1, <2>2 DEF HandlesNameChildren, TypeOK
  <2>5. LoopsLeaveBehind'
    BY <1>0, <2>1, <2>2 DEF LoopsLeaveBehind, TypeOK
  <2>6. Phases' /\ ClockVerdict'
    BY <1>0, <2>1 DEF Phases, ClockVerdict
  <2> QED
    BY <2>3, <2>4, <2>5, <2>6 DEF Inv
<1>15. CASE UNCHANGED vars
  BY <1>0, <1>15 DEF vars, Inv, TypeOK, HandlesNameChildren, Phases,
                     LoopsLeaveBehind, ClockVerdict
<1> QED
  BY <1>1, <1>2, <1>3, <1>4, <1>5, <1>6, <1>7, <1>8, <1>9, <1>10, <1>11,
     <1>12, <1>13, <1>14, <1>15 DEF Next, Fork, Watch, Wait

(* The invariant holds in every state main can reach.                      *)
THEOREM InvAlways == Spec => []Inv
  BY InvInit, InvStep, PTL DEF Spec

(* The type invariant of main.rs's state.                                  *)
THEOREM TypeCorrect == Spec => []TypeOK
<1>1. Inv => TypeOK
  BY DEF Inv
<1> QED
  BY <1>1, InvAlways, PTL

(* However many workers there are, in whatever order they end and whichever*)
(* forks fail, main leaves no child behind, unless there was no thread to  *)
(* wait for them.                                                          *)
THEOREM NeverOrphans == Spec => []NoOrphans
<1>1. Inv => NoOrphans
  BY SupervisorAssumption
     DEF Inv, TypeOK, Phases, LoopsLeaveBehind, NoOrphans, Worker
<1> QED
  BY <1>1, InvAlways, PTL

(* No worker is signalled before its time, none without a limit, also when *)
(* the wall clock is set back.                                             *)
THEOREM NeverEarly == Spec => []NotEarly
<1>1. Inv => NotEarly
  BY DEF Inv, Phases, ClockVerdict, NotEarly
<1> QED
  BY <1>1, InvAlways, PTL

(* The watcher's loop misses no running child.                             *)
THEOREM AlwaysAllSignalled == Spec => []AllSignalled
<1>1. Inv => AllSignalled
  BY SupervisorAssumption
     DEF Inv, TypeOK, HandlesNameChildren, LoopsLeaveBehind, AllSignalled, Worker
<1> QED
  BY <1>1, InvAlways, PTL

-----------------------------------------------------------------------------
(* The kernel keeps the pid of a child that has not been waited for, and   *)
(* where a signal has gone, to a child or to a stranger, no second goes.   *)
PidsKept ==
    /\ \A w \in Worker : proc[w] \in {"reaped", "reused"} => w < wait_at
    /\ \A w \in signalled \cup stray : w < kill_at
    /\ stray \cap signalled = {}

(* Only the waiter gives a pid back to the kernel, and only the watcher,   *)
(* on its one way through handles, sends a signal.                         *)
LEMMA PidsKeptStep == Inv /\ PidsKept /\ [Next]_vars => PidsKept'
<1> SUFFICES ASSUME Inv, PidsKept, [Next]_vars PROVE PidsKept'
  OBVIOUS
<1> USE SupervisorAssumption DEF Worker, None
<1>0. TypeOK /\ HandlesNameChildren
  BY DEF Inv
<1>1. CASE ForkOk
  <2>1. Len(handles) + 1 \in Worker
    BY <1>0, <1>1 DEF ForkOk, TypeOK
  <2>2. /\ UNCHANGED <<signalled, stray, kill_at, wait_at>>
        /\ \A w \in Worker : proc'[w] \in {"reaped", "reused"} => proc'[w] = proc[w]
    BY <1>0, <1>1, <2>1 DEF ForkOk, signals, threads, TypeOK
  <2> QED
    BY <2>2 DEF PidsKept
<1>2. CASE \/ ForkErr \/ OpenScope \/ SpawnWaiter \/ SpawnPanic \/ CloseScope
           \/ WatcherCheck \/ WatcherBreak \/ WaiterDone
           \/ Tick \/ SetClockBack \/ UNCHANGED vars
  BY <1>2 DEF ForkErr, OpenScope, SpawnWaiter, SpawnPanic, CloseScope,
              WatcherCheck, WatcherBreak, WaiterDone, Tick, SetClockBack, vars,
              signals, threads, PidsKept
<1>3. ASSUME NEW w \in Worker, PayloadFails(w) \/ Terminate(w) \/ ReusePid(w)
      PROVE  PidsKept'
  <2>1. /\ UNCHANGED <<signalled, stray, kill_at, wait_at>>
        /\ \A v \in Worker :
             proc'[v] \in {"reaped", "reused"} => proc[v] \in {"reaped", "reused"}
    BY <1>0, <1>3 DEF PayloadFails, Terminate, ReusePid, signals, threads, TypeOK
  <2> QED
    BY <2>1 DEF PidsKept
<1>4. CASE WatcherKill
  <2>1. /\ kill_at \in 1..Len(handles) /\ Len(handles) \in Nat
        /\ kill_at \in Worker /\ kill_at' = kill_at + 1
        /\ UNCHANGED <<proc, wait_at>>
    BY <1>0, <1>4 DEF WatcherKill, TypeOK
  <2>2. kill_at \notin signalled /\ kill_at \notin stray
    BY <2>1 DEF PidsKept
  <2>3. \/ handles[kill_at] = kill_at
        \/ handles[kill_at] = None
    BY <1>0, <2>1 DEF HandlesNameChildren
  <2>4. CASE handles[kill_at] = kill_at
    <3>1. /\ signalled' = IF proc[kill_at] \in {"running", "zombie"}
                            THEN signalled \cup {kill_at} ELSE signalled
          /\ stray' = IF proc[kill_at] = "reused"
                        THEN stray \cup {kill_at} ELSE stray
      BY <1>4, <2>1, <2>4 DEF WatcherKill
    <3>2. (stray \cap signalled)' = {}
      BY <2>2, <3>1 DEF PidsKept
    <3>3. \A w \in signalled' \cup stray' : w < kill_at'
      <4>1. \A w \in signalled \cup stray : w < kill_at /\ w \in Worker
        BY <1>0 DEF PidsKept, TypeOK
      <4> QED
        BY <2>1, <3>1, <4>1
    <3> QED
      BY <2>1, <3>2, <3>3 DEF PidsKept
  <2>5. CASE handles[kill_at] = None
    <3>1. signalled' = signalled /\ stray' = stray
      BY <1>4, <2>5 DEF WatcherKill
    <3>2. \A w \in signalled \cup stray : w < kill_at /\ w \in Worker
      BY <1>0 DEF PidsKept, TypeOK
    <3> QED
      BY <2>1, <3>1, <3>2 DEF PidsKept
  <2> QED
    BY <2>3, <2>4, <2>5
<1>5. CASE WaiterSkip
  <2>1. /\ wait_at \in Nat /\ wait_at' = wait_at + 1
        /\ UNCHANGED <<proc, signalled, stray, kill_at>>
    BY <1>0, <1>5 DEF WaiterSkip, signals, TypeOK
  <2> QED
    BY <2>1 DEF PidsKept
<1>6. CASE WaiterReap
  <2>1. /\ wait_at \in 1..Len(handles) /\ Len(handles) \in Nat
        /\ wait_at \in Worker /\ wait_at' = wait_at + 1
        /\ UNCHANGED <<signalled, stray, kill_at>>
    BY <1>0, <1>6 DEF WaiterReap, signals, TypeOK
  <2>2. handles[wait_at] = wait_at
    BY <1>0, <1>6, <2>1 DEF WaiterReap, HandlesNameChildren
  <2>3. \A w \in Worker : w # wait_at => proc'[w] = proc[w]
    BY <1>0, <1>6, <2>2 DEF WaiterReap, TypeOK
  <2> QED
    BY <2>1, <2>3 DEF PidsKept
<1> QED
  BY <1>1, <1>2, <1>3, <1>4, <1>5, <1>6 DEF Next, Fork, Watch, Wait

(* waitpid never fails on a pid that is no longer main's, and a signal     *)
(* strays only to the pid of a worker that ended before its time was over. *)
THEOREM AlwaysPidsOwned == Spec => []PidsOwned
<1>1. Init => PidsKept
  BY DEF Init, PidsKept
<1>2. Inv /\ PidsKept => PidsOwned
  <2> SUFFICES ASSUME Inv, PidsKept, waiter = "wait", wait_at <= Len(handles),
                      handles[wait_at] # None
               PROVE  proc[handles[wait_at]] \in {"running", "zombie"}
    BY DEF PidsOwned, PidsKept
  <2>1. wait_at \in 1..Len(handles) /\ wait_at \in Worker
    BY SupervisorAssumption DEF Inv, TypeOK, Worker
  <2>2. handles[wait_at] = wait_at /\ proc[wait_at] # "none"
    BY <2>1 DEF Inv, HandlesNameChildren
  <2>3. proc[wait_at] \notin {"reaped", "reused"}
    BY <2>1 DEF PidsKept, Worker
  <2> QED
    BY <2>1, <2>2, <2>3 DEF Inv, TypeOK
<1> QED
  BY <1>1, <1>2, InvAlways, PidsKeptStep, PTL DEF Spec

-----------------------------------------------------------------------------
(* The refinement: how each step looks through WorkerLife.                 *)
lives == [w \in Worker |-> WorkerLife(w)]

(* A step that changes no handle and no child that is not reaped by it.    *)
LEMMA PoolStutter ==
    ASSUME UNCHANGED <<handles, proc>>, Outcome' = Outcome
    PROVE  UNCHANGED Pool!vars
  BY DEF Pool!vars, WorkerLife

(* What a step of one child does to the lives of all.                      *)
LEMMA LivesOfOne ==
    ASSUME NEW w \in Worker, NEW x,
           WorkerLife(w)' = x,
           \A v \in Worker : v # w => WorkerLife(v)' = WorkerLife(v)
    PROVE  lives' = [lives EXCEPT ![w] = x]
  BY DEF lives

(* Every step of the supervisor is a step of the pool, or none.            *)
THEOREM PoolStep == Inv /\ [Next]_vars => [Pool!Next]_(Pool!vars)
<1> SUFFICES ASSUME Inv, [Next]_vars PROVE [Pool!Next]_(Pool!vars)
  OBVIOUS
<1> USE SupervisorAssumption DEF Worker, None
<1>0. /\ TypeOK /\ HandlesNameChildren /\ Phases /\ LoopsLeaveBehind
      /\ Len(handles) \in Nat
  BY DEF Inv, TypeOK
<1>1. CASE ForkOk
  <2>0. PICK w : w = Len(handles) + 1
    OBVIOUS
  <2>1. /\ main = "forking" /\ Len(handles) < NWorkers
        /\ handles' = Append(handles, w)
        /\ proc' = [proc EXCEPT ![w] = "running"]
        /\ main' = main
    BY <1>1, <2>0 DEF ForkOk
  <2>7. Outcome = "pending" /\ Outcome' = "pending"
    BY <2>1 DEF Outcome
  <2>2. w \in Worker /\ Len(handles') = Len(handles) + 1
    BY <1>0, <2>0, <2>1, HandlesAppend
  <2>3. /\ proc'[w] = "running"
        /\ \A v \in Worker : v # w => proc'[v] = proc[v]
    BY <1>0, <2>1, <2>2 DEF TypeOK
  <2>4. /\ WorkerLife(w) = "unborn" /\ WorkerLife(w)' = "running"
        /\ \A v \in Worker : v # w => WorkerLife(v)' = WorkerLife(v)
    BY <1>0, <2>0, <2>2, <2>3 DEF WorkerLife
  <2>5. lives' = [lives EXCEPT ![w] = "running"]
    BY <2>2, <2>4, LivesOfOne
  <2>6. Pool!Spawn(w)
    BY <2>2, <2>4, <2>5, <2>7 DEF Pool!Spawn, lives
  <2> QED
    BY <2>2, <2>6 DEF Pool!Next
<1>2. CASE ForkErr
  <2>0. PICK w : w = Len(handles) + 1
    OBVIOUS
  <2>1. /\ main = "forking" /\ Len(handles) < NWorkers
        /\ handles' = Append(handles, None)
        /\ proc' = proc /\ main' = main
    BY <1>2 DEF ForkErr
  <2>7. Outcome = "pending" /\ Outcome' = "pending"
    BY <2>1 DEF Outcome
  <2>2. w \in Worker /\ Len(handles') = Len(handles) + 1
    BY <1>0, <2>0, <2>1, HandlesAppend
  <2>3. proc[w] = "none"
    BY <1>0, <2>0, <2>2 DEF HandlesNameChildren
  <2>4. /\ WorkerLife(w) = "unborn" /\ WorkerLife(w)' = "over"
        /\ \A v \in Worker : v # w => WorkerLife(v)' = WorkerLife(v)
    BY <1>0, <2>0, <2>1, <2>2, <2>3 DEF WorkerLife
  <2>5. lives' = [lives EXCEPT ![w] = "over"]
    BY <2>2, <2>4, LivesOfOne
  <2>6. Pool!Miss(w)
    BY <2>2, <2>4, <2>5, <2>7 DEF Pool!Miss, lives
  <2> QED
    BY <2>2, <2>6 DEF Pool!Next
<1>3. CASE OpenScope \/ SpawnWaiter \/ SpawnPanic
  <2>1. Outcome' = Outcome /\ UNCHANGED <<handles, proc>>
    BY <1>3 DEF OpenScope, SpawnWaiter, SpawnPanic, Outcome
  <2> QED
    BY <2>1, PoolStutter
<1>4. CASE CloseScope
  <2>1. /\ main \in {"scope", "unwinding"} /\ main' \in {"done", "panicked"}
        /\ handles' = handles /\ proc' = proc /\ waiter' = waiter
    BY <1>4 DEF CloseScope, threads
  <2>2. lives' = lives
    BY <2>1 DEF lives, WorkerLife
  <2>3. Outcome = "pending"
    BY <2>1 DEF Outcome
  <2>4. CASE main = "scope"
    <3>1. waiter = "done" /\ Outcome' = "returned"
      BY <1>4, <2>1, <2>4 DEF CloseScope, Outcome
    <3>2. \A w \in Worker : /\ proc[w] \in {"none", "reaped", "reused"}
                            /\ Len(handles) >= w
      BY <1>0, <2>4, <3>1 DEF TypeOK, Phases, LoopsLeaveBehind
    <3>3. \A w \in Worker : WorkerLife(w) = "over"
      BY <1>0, <3>2 DEF WorkerLife
    <3>4. Pool!Return
      BY <2>2, <2>3, <3>1, <3>3 DEF Pool!Return, lives
    <3> QED
      BY <3>4 DEF Pool!Next
  <2>5. CASE main = "unwinding"
    <3>1. Outcome' = "aborted"
      BY <1>0, <1>4, <2>1, <2>5 DEF CloseScope, Outcome, Phases
    <3>2. \A w \in Worker : WorkerLife(w) # "unborn"
      BY <1>0, <2>5 DEF Phases, WorkerLife
    <3>3. Pool!Abort
      BY <2>2, <2>3, <3>1, <3>2 DEF Pool!Abort, lives
    <3> QED
      BY <3>3 DEF Pool!Next
  <2> QED
    BY <2>1, <2>4, <2>5
<1>5. ASSUME NEW w \in Worker, PayloadFails(w) \/ Terminate(w)
      PROVE  UNCHANGED Pool!vars
  <2>1. /\ proc[w] = "running" /\ proc' = [proc EXCEPT ![w] = "zombie"]
        /\ handles' = handles /\ main' = main /\ waiter' = waiter
    BY <1>5 DEF PayloadFails, Terminate, threads
  <2>2. /\ proc'[w] = "zombie"
        /\ \A v \in Worker : v # w => proc'[v] = proc[v]
    BY <1>0, <2>1 DEF TypeOK
  <2>3. \A v \in Worker : WorkerLife(v)' = WorkerLife(v)
    BY <2>1, <2>2 DEF WorkerLife
  <2> QED
    BY <2>1, <2>3 DEF Pool!vars, Outcome
<1>6. CASE Watch
  BY <1>6, PoolStutter
     DEF Watch, WatcherCheck, WatcherKill, WatcherBreak, Outcome
<1>7. CASE WaiterSkip
  BY <1>7, PoolStutter DEF WaiterSkip, Outcome
<1>8. CASE WaiterReap
  <2>0. PICK w : w = wait_at
    OBVIOUS
  <2>1. /\ w \in Worker /\ w <= Len(handles) /\ handles[w] # None
        /\ handles' = handles /\ main' = main
    BY <1>0, <1>8, <2>0 DEF WaiterReap, TypeOK
  <2>2. handles[w] = w
    BY <1>0, <2>1 DEF HandlesNameChildren
  <2>3. proc[w] = "zombie" /\ proc' = [proc EXCEPT ![w] = "reaped"]
    BY <1>8, <2>0, <2>2 DEF WaiterReap
  <2>4. /\ proc'[w] = "reaped"
        /\ \A v \in Worker : v # w => proc'[v] = proc[v]
    BY <1>0, <2>1, <2>3 DEF TypeOK
  <2>5. /\ WorkerLife(w) = "running" /\ WorkerLife(w)' = "over"
        /\ \A v \in Worker : v # w => WorkerLife(v)' = WorkerLife(v)
    BY <1>0, <2>1, <2>3, <2>4 DEF WorkerLife
  <2>6. lives' = [lives EXCEPT ![w] = "over"]
    BY <2>1, <2>5, LivesOfOne
  <2>7. Outcome = "pending" /\ Outcome' = "pending"
    BY <1>0, <1>8 DEF WaiterReap, Phases, Outcome
  <2>8. Pool!Finish(w)
    BY <2>1, <2>5, <2>6, <2>7 DEF Pool!Finish, lives
  <2> QED
    BY <2>1, <2>8 DEF Pool!Next
<1>9. CASE WaiterDone
  <2>1. main = "scope" /\ main' = main /\ UNCHANGED <<handles, proc>>
    BY <1>0, <1>9 DEF WaiterDone, Phases, TypeOK
  <2>2. Outcome' = Outcome
    BY <2>1 DEF Outcome
  <2> QED
    BY <2>1, <2>2, PoolStutter
<1>10. CASE Tick
  BY <1>10, PoolStutter DEF Tick, Outcome
<1>11. CASE SetClockBack
  BY <1>11, PoolStutter DEF SetClockBack, threads, Outcome
<1>12. ASSUME NEW w \in Worker, ReusePid(w)
       PROVE  UNCHANGED Pool!vars
  <2>1. /\ proc[w] = "reaped" /\ proc' = [proc EXCEPT ![w] = "reused"]
        /\ handles' = handles /\ main' = main /\ waiter' = waiter
    BY <1>12 DEF ReusePid, threads
  <2>2. /\ proc'[w] = "reused"
        /\ \A v \in Worker : v # w => proc'[v] = proc[v]
    BY <1>0, <2>1 DEF TypeOK
  <2>3. \A v \in Worker : WorkerLife(v)' = WorkerLife(v)
    BY <2>1, <2>2 DEF WorkerLife
  <2> QED
    BY <2>1, <2>3 DEF Pool!vars, Outcome
<1>13. CASE UNCHANGED vars
  BY <1>13, PoolStutter DEF vars, Outcome
<1> QED
  BY <1>1, <1>2, <1>3, <1>4, <1>5, <1>6, <1>7, <1>8, <1>9, <1>10, <1>11,
     <1>12, <1>13 DEF Next, Fork, Wait

(* The supervisor implements the pool of the header of main.rs, for any    *)
(* number of workers.                                                      *)
THEOREM RefinesPool == Spec => ImplementsPool
<1>1. Init => Pool!Init
  <2> SUFFICES ASSUME Init PROVE Pool!Init
    OBVIOUS
  <2>1. \A w \in Worker : WorkerLife(w) = "unborn"
    BY SupervisorAssumption DEF Init, WorkerLife, Worker
  <2> QED
    BY <2>1 DEF Init, Pool!Init, Outcome
<1> QED
  BY <1>1, InvAlways, PoolStep, PTL DEF Spec, ImplementsPool, Pool!Spec
=============================================================================
