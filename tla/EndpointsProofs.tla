-------------------------- MODULE EndpointsProofs --------------------------
(***************************************************************************)
(* The safety properties of Endpoints, for any number of workers, any      *)
(* distributions and any set of ports held by other programs.              *)
(*                                                                         *)
(* That no bind fails because of Berserker itself rests on two facts which *)
(* the property does not mention: the ranges of the workers are disjoint   *)
(* (Ranges), and a worker between two runs of its payload has no listening *)
(* thread (Restarts).  Together with the kernel's table (BoundByListeners) *)
(* they are inductive.                                                     *)
(***************************************************************************)
EXTENDS Endpoints, FiniteSetTheorems, TLAPS

(* Ranges lie below `upper', do not overlap, and are drawn in turn; only   *)
(* the ports of a worker's range have threads of it.                       *)
Ranges ==
    /\ \A w \in Worker : \A p \in range[w] : p < upper
    /\ \A w \in Worker : w >= next_worker =>
                            range[w] = {} /\ phase[w] = "unborn"
    /\ \A v, w \in Worker : v # w => range[v] \cap range[w] = {}
    /\ \A w \in Worker, p \in Port :
          thread[w][p] # "none" => p \in range[w]

(* Threads bind and listen only while their worker waits for them.         *)
Restarts ==
    \A w \in Worker, p \in Port :
       thread[w][p] \in {"bind", "listen"} => phase[w] = "join"

Inv == TypeOK /\ Ranges /\ Restarts /\ BoundByListeners

-----------------------------------------------------------------------------
(* Before the first fork no worker has a range, a thread or a port.        *)
LEMMA InvInit == Init => Inv
<1> SUFFICES ASSUME Init PROVE Inv
  OBVIOUS
<1> USE EndpointsAssumption DEF Init, Worker, Port, Nobody
<1>1. TypeOK
  <2>1. main = "forking" /\ upper \in FirstPort..(TopPort + 1)
    OBVIOUS
  <2>2. next_worker \in 1..(NWorkers + 1)
    OBVIOUS
  <2> QED
    BY <2>1, <2>2 DEF TypeOK
<1>2. Ranges /\ Restarts /\ BoundByListeners
  BY DEF Ranges, Restarts, BoundByListeners
<1> QED
  BY <1>1, <1>2 DEF Inv

(* new_worker's next range is above all ranges before it.                  *)
LEMMA InvForkWorker ==
    ASSUME Inv, NEW n \in Nat, NEW born \in BOOLEAN, ForkWorker(n, born)
    PROVE  Inv'
<1> USE EndpointsAssumption DEF Worker, Port, Nobody
<1>1. /\ next_worker \in Worker
      /\ next_worker' = next_worker + 1
      /\ upper \in FirstPort..(TopPort + 1)
      /\ upper' = upper + n /\ upper' \in FirstPort..(TopPort + 1)
  BY DEF Inv, TypeOK, ForkWorker
<1>2. /\ range' = [range EXCEPT ![next_worker] = NewRange(n)]
      /\ \E b \in {"start", "failed"} :
            phase' = [phase EXCEPT ![next_worker] = b]
      /\ UNCHANGED <<distribution, external, room, main, thread, bound,
                     slept>>
  BY DEF ForkWorker
<1>3. NewRange(n) \subseteq Port /\ \A p \in NewRange(n) : upper <= p /\ p < upper'
  BY <1>1 DEF NewRange
<1>4. TypeOK'
  <2>1. next_worker' \in 1..(NWorkers + 1)
    BY <1>1
  <2>2. range' \in [Worker -> SUBSET Port]
    BY <1>1, <1>2, <1>3 DEF Inv, TypeOK
  <2>3. phase' \in [Worker -> {"unborn", "failed", "start", "join", "ended"}]
    BY <1>1, <1>2 DEF Inv, TypeOK
  <2> QED
    BY <1>1, <1>2, <2>1, <2>2, <2>3 DEF Inv, TypeOK
<1>5. \A w \in Worker : /\ w # next_worker => range'[w] = range[w]
                        /\ w # next_worker => phase'[w] = phase[w]
  BY <1>2 DEF Inv, TypeOK
<1>6. /\ range'[next_worker] = NewRange(n) /\ range[next_worker] = {}
      /\ phase[next_worker] = "unborn"
  BY <1>1, <1>2 DEF Inv, TypeOK, Ranges
<1>7. Ranges'
  <2>1. \A w \in Worker : \A p \in range'[w] : p < upper'
    <3> SUFFICES ASSUME NEW w \in Worker, NEW p \in range'[w]
                 PROVE  p < upper'
      OBVIOUS
    <3>1. CASE w = next_worker
      BY <1>3, <1>6, <3>1
    <3>2. CASE w # next_worker
      <4>1. p \in range[w] /\ p \in Int /\ p < upper
        BY <1>5, <3>2 DEF Inv, Ranges, TypeOK
      <4> QED
        BY <1>1, <4>1
    <3> QED
      BY <3>1, <3>2
  <2>2. \A w \in Worker : w >= next_worker' => range'[w] = {} /\ phase'[w] = "unborn"
    BY <1>1, <1>5 DEF Inv, Ranges
  <2>3. \A v, w \in Worker : v # w => range'[v] \cap range'[w] = {}
    <3>1. \A w \in Worker : range[w] \cap NewRange(n) = {}
      <4> SUFFICES ASSUME NEW w \in Worker, NEW p \in range[w],
                          p \in NewRange(n)
                   PROVE  FALSE
        OBVIOUS
      <4>1. p < upper /\ upper <= p /\ p \in Int
        BY <1>3 DEF Inv, Ranges
      <4> QED
        BY <1>1, <4>1
    <3>2. \A v, w \in Worker : v # w => range[v] \cap range[w] = {}
      BY DEF Inv, Ranges
    <3> QED
      BY <1>5, <1>6, <3>1, <3>2
  <2>4. \A w \in Worker, p \in Port : thread'[w][p] # "none" => p \in range'[w]
    BY <1>2, <1>5, <1>6 DEF Inv, Ranges
  <2> QED
    BY <2>1, <2>2, <2>3, <2>4 DEF Ranges
<1>8. Restarts'
  BY <1>2, <1>5, <1>6 DEF Inv, Restarts
<1>9. BoundByListeners'
  <2>1. \A w \in Worker, p \in Port : bound'[p] = w <=> thread'[w][p] = "listen"
    BY <1>2 DEF Inv, BoundByListeners
  <2>2. \A w \in Worker : phase'[w] = "start" => \A p \in Port : bound'[p] # w
    BY <1>2, <1>5, <1>6, <2>1 DEF Inv, BoundByListeners, Restarts
  <2> QED
    BY <2>1, <2>2 DEF BoundByListeners
<1> QED
  BY <1>4, <1>7, <1>8, <1>9 DEF Inv

(* run_payload replaces threads that have ended.                           *)
LEMMA InvRunPayload ==
    ASSUME Inv, NEW w \in Worker, RunPayload(w)
    PROVE  Inv'
<1> USE DEF Nobody
<1>1. /\ phase[w] = "start" /\ phase' = [phase EXCEPT ![w] = "join"]
      /\ thread' = [thread EXCEPT ![w] =
            [p \in Port |-> IF p \in range[w] THEN "bind" ELSE "none"]]
      /\ slept' = [slept EXCEPT ![w] = FALSE]
      /\ UNCHANGED <<distribution, external, room, main, next_worker, upper,
                     range, bound>>
  BY DEF RunPayload
<1>2. \A p \in Port : bound[p] # w
  BY <1>1 DEF Inv, BoundByListeners
<1>3. TypeOK'
  <2>1. phase' \in [Worker -> {"unborn", "failed", "start", "join", "ended"}]
    BY <1>1 DEF Inv, TypeOK
  <2>2. thread' \in [Worker -> [Port -> {"none", "bind", "listen", "end"}]]
    BY <1>1 DEF Inv, TypeOK
  <2>3. slept' \in [Worker -> BOOLEAN]
    BY <1>1, Zenon DEF Inv, TypeOK
  <2> QED
    BY <1>1, <2>1, <2>2, <2>3 DEF Inv, TypeOK
<1>4. /\ \A v \in Worker : v # w => phase'[v] = phase[v] /\ thread'[v] = thread[v]
      /\ phase'[w] = "join"
      /\ \A p \in Port : thread'[w][p] = IF p \in range[w] THEN "bind" ELSE "none"
  BY <1>1 DEF Inv, TypeOK
<1>5. Ranges'
  BY <1>1, <1>4 DEF Inv, Ranges
<1>6. Restarts'
  BY <1>4 DEF Inv, Restarts
<1>7. BoundByListeners'
  BY <1>1, <1>2, <1>4 DEF Inv, BoundByListeners
<1> QED
  BY <1>3, <1>5, <1>6, <1>7 DEF Inv

(* A worker that ends leaves no thread and no listener behind.             *)
LEMMA InvSpawnPanic ==
    ASSUME Inv, NEW w \in Worker, SpawnPanic(w)
    PROVE  Inv'
<1> USE DEF Nobody
<1>1. /\ phase[w] = "join" /\ phase' = [phase EXCEPT ![w] = "ended"]
      /\ thread' = [thread EXCEPT ![w] = [p \in Port |-> "none"]]
      /\ bound' = [p \in Port |-> IF bound[p] = w THEN 0 ELSE bound[p]]
      /\ UNCHANGED <<distribution, external, room, main, next_worker, upper,
                     range, slept>>
  BY DEF SpawnPanic
<1>2. /\ \A v \in Worker : v # w => phase'[v] = phase[v] /\ thread'[v] = thread[v]
      /\ phase'[w] = "ended"
      /\ \A p \in Port : thread'[w][p] = "none"
  BY <1>1 DEF Inv, TypeOK
<1>3. TypeOK'
  <2>1. /\ phase' \in [Worker -> {"unborn", "failed", "start", "join", "ended"}]
        /\ thread' \in [Worker -> [Port -> {"none", "bind", "listen", "end"}]]
        /\ bound' \in [Port -> Worker \cup {0}]
    BY <1>1 DEF Inv, TypeOK
  <2> QED
    BY <1>1, <2>1 DEF Inv, TypeOK
<1>4. Ranges'
  BY <1>1, <1>2 DEF Inv, Ranges
<1>5. Restarts'
  BY <1>2 DEF Inv, Restarts
<1>6. BoundByListeners'
  <2>1. \A v \in Worker : v # 0
    BY EndpointsAssumption DEF Worker
  <2>2. \A v \in Worker, p \in Port : bound'[p] = v <=> thread'[v][p] = "listen"
    BY <1>1, <1>2, <2>1 DEF Inv, BoundByListeners
  <2>3. \A v \in Worker : phase'[v] = "start" => \A p \in Port : bound'[p] # v
    BY <1>5, <2>2 DEF Restarts
  <2> QED
    BY <2>2, <2>3 DEF BoundByListeners
<1> QED
  BY <1>3, <1>4, <1>5, <1>6 DEF Inv

(* A thread of the worker changes its own state and the entry of its own   *)
(* port, and no other thread had that entry.                               *)
LEMMA InvThread ==
    ASSUME Inv, NEW w \in Worker, NEW p \in Port,
           Listen(w, p) \/ ListenErr(w, p) \/ SleepOver(w, p)
    PROVE  Inv'
<1> USE DEF Nobody
<1>1. /\ thread[w][p] \in {"bind", "listen"}
      /\ \E t \in {"listen", "end"} : thread' = [thread EXCEPT ![w][p] = t]
      /\ UNCHANGED <<distribution, external, room, main, next_worker, upper,
                     range, phase>>
  BY DEF Listen, ListenErr, SleepOver
<1>2. /\ \A v \in Worker, q \in Port :
            <<v, q>> # <<w, p>> => thread'[v][q] = thread[v][q]
      /\ thread'[w][p] \in {"listen", "end"}
      /\ thread' \in [Worker -> [Port -> {"none", "bind", "listen", "end"}]]
  BY <1>1 DEF Inv, TypeOK
<1>3. phase[w] = "join" /\ p \in range[w]
  BY <1>1 DEF Inv, Restarts, Ranges
<1>4. w # 0 /\ \A v \in Worker : v # 0
  BY EndpointsAssumption DEF Worker
<1>5. \A v \in Worker : v # w => thread[v][p] # "listen"
  BY <1>3 DEF Inv, Ranges
<1>6. /\ \A q \in Port : q # p => bound'[q] = bound[q]
      /\ \A v \in Worker : bound'[p] = v <=> thread'[v][p] = "listen"
      /\ bound' \in [Port -> Worker \cup {0}]
  <2>1. CASE Listen(w, p)
    <3>1. /\ bound' = [bound EXCEPT ![p] = w]
          /\ thread' = [thread EXCEPT ![w][p] = "listen"]
      BY <2>1 DEF Listen
    <3>2. thread'[w][p] = "listen" /\ bound'[p] = w
      BY <3>1 DEF Inv, TypeOK
    <3> QED
      BY <1>2, <1>5, <3>1, <3>2 DEF Inv, TypeOK
  <2>2. CASE ListenErr(w, p)
    <3>1. /\ bound' = bound /\ thread[w][p] = "bind"
          /\ thread' = [thread EXCEPT ![w][p] = "end"]
      BY <2>2 DEF ListenErr
    <3>2. thread'[w][p] = "end"
      BY <3>1 DEF Inv, TypeOK
    <3> QED
      BY <1>2, <1>5, <3>1, <3>2 DEF Inv, TypeOK, BoundByListeners
  <2>3. CASE SleepOver(w, p)
    <3>1. /\ bound' = [bound EXCEPT ![p] = 0]
          /\ thread' = [thread EXCEPT ![w][p] = "end"]
      BY <2>3 DEF SleepOver
    <3>2. thread'[w][p] = "end" /\ bound'[p] = 0
      BY <3>1 DEF Inv, TypeOK
    <3> QED
      BY <1>2, <1>4, <1>5, <3>1, <3>2 DEF Inv, TypeOK
  <2> QED
    BY <2>1, <2>2, <2>3
<1>7. TypeOK'
  <2>1. slept' \in [Worker -> BOOLEAN]
    <3>1. slept' = slept \/ slept' = [slept EXCEPT ![w] = TRUE]
      BY DEF Listen, ListenErr, SleepOver
    <3> QED
      BY <3>1, Zenon DEF Inv, TypeOK
  <2> QED
    BY <1>1, <1>2, <1>6, <2>1 DEF Inv, TypeOK
<1>8. Ranges'
  BY <1>1, <1>2, <1>3 DEF Inv, Ranges
<1>9. Restarts'
  BY <1>1, <1>2, <1>3 DEF Inv, Restarts
<1>10. BoundByListeners'
  <2>1. \A v \in Worker, q \in Port : bound'[q] = v <=> thread'[v][q] = "listen"
    BY <1>2, <1>6 DEF Inv, BoundByListeners
  <2>2. \A v \in Worker : phase'[v] = "start" => \A q \in Port : bound'[q] # v
    BY <1>9, <2>1 DEF Restarts
  <2> QED
    BY <2>1, <2>2 DEF BoundByListeners
<1> QED
  BY <1>7, <1>8, <1>9, <1>10 DEF Inv

(* A payload is started again only when each thread of it has ended.       *)
LEMMA InvJoin ==
    ASSUME Inv, NEW w \in Worker, Join(w)
    PROVE  Inv'
<1>1. /\ phase[w] = "join" /\ phase' = [phase EXCEPT ![w] = "start"]
      /\ \A p \in range[w] : thread[w][p] = "end"
      /\ UNCHANGED <<distribution, external, room, main, next_worker, upper,
                     range, thread, bound, slept>>
  BY DEF Join
<1>2. /\ \A v \in Worker : v # w => phase'[v] = phase[v]
      /\ phase' \in [Worker -> {"unborn", "failed", "start", "join", "ended"}]
      /\ phase'[w] = "start"
  BY <1>1 DEF Inv, TypeOK
<1>3. \A p \in Port : thread[w][p] \notin {"bind", "listen"}
  BY <1>1 DEF Inv, Ranges
<1>4. TypeOK'
  BY <1>1, <1>2 DEF Inv, TypeOK
<1>5. Ranges'
  BY <1>1, <1>2 DEF Inv, Ranges
<1>6. Restarts'
  BY <1>1, <1>2, <1>3 DEF Inv, Restarts
<1>7. BoundByListeners'
  BY <1>1, <1>2, <1>3 DEF Inv, BoundByListeners
<1> QED
  BY <1>4, <1>5, <1>6, <1>7 DEF Inv

(* Every step of main, of the workers and of their threads keeps Inv.      *)
LEMMA InvStep == Inv /\ [Next]_vars => Inv'
<1> SUFFICES ASSUME Inv, [Next]_vars PROVE Inv'
  OBVIOUS
<1>1. CASE Fork
  <2>1. PICK n \in 0..(TopPort + 1 - FirstPort), born \in BOOLEAN :
           ForkWorker(n, born)
    BY <1>1 DEF Fork
  <2> QED
    BY <2>1, InvForkWorker
<1>2. CASE ForkPanic \/ ForkDone
  <2>1. /\ main' \in {"panicked", "done"}
        /\ UNCHANGED <<distribution, external, room, next_worker, upper,
                       range, phase, thread, bound, slept>>
    BY <1>2 DEF ForkPanic, ForkDone
  <2> QED
    BY <2>1 DEF Inv, TypeOK, Ranges, Restarts, BoundByListeners
<1>3. CASE \E w \in Worker : RunPayload(w) \/ SpawnPanic(w) \/ Join(w)
  BY <1>3, InvRunPayload, InvSpawnPanic, InvJoin
<1>4. CASE \E w \in Worker, p \in Port :
              Listen(w, p) \/ ListenErr(w, p) \/ SleepOver(w, p)
  BY <1>4, InvThread
<1>5. CASE Over \/ UNCHANGED vars
  <2>1. UNCHANGED vars
    BY <1>5 DEF Over
  <2> QED
    BY <2>1 DEF Inv, TypeOK, Ranges, Restarts, BoundByListeners, vars
<1> QED
  BY <1>1, <1>2, <1>3, <1>4, <1>5 DEF Next

(* The invariant holds in every behaviour.                                 *)
LEMMA InvAlways == Spec => []Inv
  BY InvInit, InvStep, PTL DEF Spec

-----------------------------------------------------------------------------
(* The state keeps its types: the ranges stay within the ports and the     *)
(* kernel's table names workers.                                           *)
THEOREM TypeCorrect == Spec => []TypeOK
<1>1. Inv => TypeOK
  BY DEF Inv
<1> QED
  BY <1>1, InvAlways, PTL

(* The kernel's table and the listening threads agree, and a payload       *)
(* starts again (endpoints.rs, lines 60-65) with all its ports released.   *)
THEOREM BoundAlwaysByListeners == Spec => []BoundByListeners
<1>1. Inv => BoundByListeners
  BY DEF Inv
<1> QED
  BY <1>1, InvAlways, PTL

(* No bind (endpoints.rs, line 76) fails because of another listener of    *)
(* Berserker, however many workers new_worker has given ranges to.         *)
THEOREM NeverSelfConflict == Spec => []NoSelfConflict
<1>1. Inv => NoSelfConflict
  <2> SUFFICES ASSUME Inv, NEW w \in Worker, NEW p \in Port,
                      thread[w][p] = "bind", bound[p] # Nobody
               PROVE  FALSE
    BY DEF NoSelfConflict, PortFree
  <2>1. PICK v \in Worker : bound[p] = v
    BY DEF Inv, TypeOK
  <2>2. thread[v][p] = "listen"
    BY <2>1 DEF Inv, BoundByListeners
  <2>3. p \in range[v] /\ p \in range[w]
    BY <2>2 DEF Inv, Ranges
  <2>4. v = w
    BY <2>3 DEF Inv, Ranges
  <2> QED
    BY <2>2, <2>4
<1> QED
  BY <1>1, InvAlways, PTL

-----------------------------------------------------------------------------
(* A listening thread has a port that can be had.  In a running payload, a *)
(* listener that has slept had such a port; and when the thread of such a  *)
(* port has ended in a worker with room for a socket, a listener has slept *)
(* or one is about to.                                                     *)
Sleeps ==
    /\ \A w \in Worker, p \in Port :
          thread[w][p] = "listen" => p < PortSpace /\ p \notin external
    /\ \A w \in Worker : phase[w] = "join" =>
          /\ slept[w] => \E p \in Port : Listenable(w, p)
          /\ \A p \in Port :
                room > 0 /\ Listenable(w, p) /\ thread[w][p] = "end"
                  => slept[w] \/ \E q \in Port : thread[w][q] = "listen"

(* A bind that fails on a port that can be had meets listeners of its own. *)
LEMMA ListenErrMeetsListener ==
    ASSUME Inv, NoSelfConflict, NEW w \in Worker, NEW p \in Port,
           ListenErr(w, p), Listenable(w, p), room > 0
    PROVE  \E q \in Port : thread[w][q] = "listen"
<1>1. OutOfSockets(w)
  BY DEF ListenErr, NoSelfConflict, Listenable
<1>2. room \in Nat
  BY EndpointsAssumption DEF Inv, TypeOK
<1>3. {q \in Port : thread[w][q] = "listen"} # {}
  BY <1>1, <1>2, FS_EmptySet DEF OutOfSockets
<1> QED
  BY <1>3

(* RunPayload forgets the sleep of the run before, when it forgets its     *)
(* threads; a bind fails on a port that can be had only beside a listener. *)
LEMMA SleepsStep == Inv /\ NoSelfConflict /\ Sleeps /\ [Next]_vars => Sleeps'
<1> SUFFICES ASSUME Inv, NoSelfConflict, Sleeps, [Next]_vars PROVE Sleeps'
  OBVIOUS
<1>1. CASE Fork
  <2>1. PICK n \in 0..(TopPort + 1 - FirstPort), born \in BOOLEAN :
           ForkWorker(n, born)
    BY <1>1 DEF Fork
  <2>2. /\ UNCHANGED <<external, room, thread, slept>>
        /\ \A w \in Worker : phase'[w] = "join" =>
              phase[w] = "join" /\ range'[w] = range[w]
    BY <2>1 DEF ForkWorker, Inv, TypeOK
  <2> QED
    BY <2>2 DEF Sleeps, Listenable
<1>2. CASE ForkPanic \/ ForkDone
  BY <1>2 DEF ForkPanic, ForkDone, Sleeps, Listenable
<1>3. ASSUME NEW w \in Worker, RunPayload(w) PROVE Sleeps'
  <2>1. /\ UNCHANGED <<external, room, range>>
        /\ \A v \in Worker : v # w =>
              phase'[v] = phase[v] /\ thread'[v] = thread[v]
        /\ \A p \in Port : thread'[w][p] \in {"bind", "none"}
    BY <1>3 DEF RunPayload, Inv, TypeOK
  <2>2. ~slept'[w] /\ \A v \in Worker : v # w => (slept'[v] <=> slept[v])
    BY <1>3, Zenon DEF RunPayload, Inv, TypeOK
  <2> QED
    BY <2>1, <2>2 DEF Sleeps, Listenable
<1>4. ASSUME NEW w \in Worker, Join(w) \/ SpawnPanic(w) PROVE Sleeps'
  <2>1. /\ UNCHANGED <<external, room, range, slept>>
        /\ phase'[w] \in {"start", "ended"}
        /\ \A v \in Worker : v # w =>
              phase'[v] = phase[v] /\ thread'[v] = thread[v]
        /\ \A p \in Port : thread'[w][p] \in {thread[w][p], "none"}
    BY <1>4 DEF Join, SpawnPanic, Inv, TypeOK
  <2> QED
    BY <2>1 DEF Sleeps, Listenable
<1>5. ASSUME NEW w \in Worker, NEW p \in Port,
             Listen(w, p) \/ ListenErr(w, p) \/ SleepOver(w, p)
      PROVE  Sleeps'
  <2>1. /\ UNCHANGED <<external, room, range, phase>>
        /\ \A v \in Worker, q \in Port :
              <<v, q>> # <<w, p>> => thread'[v][q] = thread[v][q]
    BY <1>5 DEF Listen, ListenErr, SleepOver, Inv, TypeOK
  <2>2. thread[w][p] \in {"bind", "listen"}
    BY <1>5 DEF Listen, ListenErr, SleepOver
  <2>3. phase[w] = "join" /\ p \in range[w]
    BY <2>2 DEF Inv, Restarts, Ranges
  <2>4. CASE Listen(w, p)
    <3>1. /\ thread'[w][p] = "listen" /\ slept' = slept
          /\ p < PortSpace /\ p \notin external
      BY <2>4 DEF Listen, PortFree, Inv, TypeOK
    <3> QED
      BY <2>1, <3>1 DEF Sleeps, Listenable
  <2>5. CASE ListenErr(w, p)
    <3>1. thread'[w][p] = "end" /\ thread[w][p] = "bind" /\ slept' = slept
      BY <2>5 DEF ListenErr, Inv, TypeOK
    <3>2. room > 0 /\ Listenable(w, p)
            => \E q \in Port : thread[w][q] = "listen"
      BY <2>5, ListenErrMeetsListener
    <3>3. \A v \in Worker, q \in Port :
             thread[v][q] = "listen" <=> thread'[v][q] = "listen"
      BY <2>1, <3>1
    <3> QED
      BY <2>1, <3>1, <3>2, <3>3 DEF Sleeps, Listenable
  <2>6. CASE SleepOver(w, p)
    <3>1. thread'[w][p] = "end" /\ Listenable(w, p)
      BY <2>3, <2>6 DEF SleepOver, Listenable, Sleeps, Inv, TypeOK
    <3>2. slept'[w] /\ \A v \in Worker : v # w => (slept'[v] <=> slept[v])
      BY <2>6, Zenon DEF SleepOver, Inv, TypeOK
    <3> QED
      BY <2>1, <3>1, <3>2 DEF Sleeps, Listenable
  <2> QED
    BY <1>5, <2>4, <2>5, <2>6
<1>6. CASE Over \/ UNCHANGED vars
  BY <1>6 DEF Over, vars, Sleeps, Listenable
<1> QED
  BY <1>1, <1>2, <1>3, <1>4, <1>5, <1>6 DEF Next

(* A worker starts its payload again (main.rs, line 92) without having     *)
(* slept for restart_interval only when none of its ports can be had, or   *)
(* when it cannot have a single socket.                                    *)
THEOREM AlwaysRestartsAfterSleep == Spec => RestartsAfterSleep
<1>1. Init => Sleeps
  BY DEF Init, Sleeps
<1>2. Inv /\ Sleeps /\ [Next]_vars
        => [\A w \in Worker :
              (phase[w] = "join" /\ phase'[w] = "start")
                => LET listenable == \E p \in Port : Listenable(w, p)
                   IN  /\ slept[w] => listenable
                       /\ listenable /\ room > 0 => slept[w]]_vars
  <2> SUFFICES ASSUME Inv, Sleeps, Next, NEW w \in Worker,
                      phase[w] = "join", phase'[w] = "start"
               PROVE  /\ slept[w] => \E p \in Port : Listenable(w, p)
                      /\ (\E p \in Port : Listenable(w, p)) /\ room > 0
                           => slept[w]
    OBVIOUS
  <2>1. Join(w)
    <3>1. ~UNCHANGED phase
      OBVIOUS
    <3>2. CASE Fork
      BY <3>2 DEF Fork, ForkWorker, Inv, TypeOK, Ranges
    <3>3. CASE \E v \in Worker : RunPayload(v) \/ SpawnPanic(v) \/ Join(v)
      BY <3>3 DEF RunPayload, SpawnPanic, Join, Inv, TypeOK
    <3> QED
      BY <3>1, <3>2, <3>3 DEF Next, ForkPanic, ForkDone, Listen, ListenErr,
                              SleepOver, Over, vars
  <2>2. \A p \in Port : Listenable(w, p) => thread[w][p] = "end"
    BY <2>1 DEF Join, Listenable
  <2>3. \A p \in Port : thread[w][p] # "listen"
    BY <2>1 DEF Join, Inv, Ranges
  <2> QED
    BY <2>2, <2>3 DEF Sleeps
<1> QED
  BY <1>1, <1>2, SleepsStep, InvAlways, NeverSelfConflict, PTL
     DEF Spec, RestartsAfterSleep
=============================================================================
