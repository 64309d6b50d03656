--------------------------- MODULE NetworkClient ---------------------------
(***************************************************************************)
(* start_client of worker/network.rs: one process that keeps               *)
(* connections_static connections open, opens dynamic ones as they arrive, *)
(* closes them when their lifetime is over and, with `preempt', closes one *)
(* to make room when the limit is reached.                                 *)
(*                                                                         *)
(* The loop is sequential; what it cannot control is when its timers have  *)
(* run out, which connection the random index names, how long smoltcp asks *)
(* it to wait and whether the wall clock is set back.  Each of these is a  *)
(* nondeterministic choice at the place where the code looks.  What the    *)
(* connections carry (lines 265-300) is in Network.                        *)
(***************************************************************************)
EXTENDS LocalAddr, Sequences, FiniteSets

CONSTANTS Workloads,       \* the Workload::Network configurations to run
          MaxConns,        \* bound of the model on total_conns
          PollDelays,      \* what iface.poll_delay may answer
          WaitCap,         \* the 100 milliseconds of line 316
          NoDelay,         \* Option::None
          MonotonicClock   \* FALSE: the wall clock may be set back

ASSUME NetworkClientAssumption ==
    /\ \A w \in Workloads :
          /\ w.connections_static \in 0..MaxConns
          /\ w.connections_dyn_max \in Nat
          /\ w.conns_per_addr \in Nat
          /\ w.preempt \in BOOLEAN
          /\ w.bad_rate \in {"none", "arrival", "departure"}
    /\ MaxConns \in Nat
    /\ WaitCap \in Nat
    /\ NoDelay \notin Nat
    /\ PollDelays \subseteq Nat \cup {NoDelay}
    /\ MonotonicClock \in BOOLEAN

VARIABLES
    workload,         \* the configuration, fixed for the run
    pc,               \* where in the loop the process is
    sockets,          \* the SocketSet: handle -> index it was connected with
    dynamic_sockets,  \* the handles in the HashMap of dynamic connections
    total_conns,      \* the counter, and the index of the next connection
    close_sockets,    \* handles to remove at the end of this pass
    todo,             \* handles the pass over all sockets has still to visit
    duration          \* what phy_wait is called with

vars == <<workload, pc, sockets, dynamic_sockets, total_conns,
          close_sockets, todo, duration>>

-----------------------------------------------------------------------------
(* smoltcp's SocketSet is a vector of slots: a handle is a slot number, a  *)
(* new socket takes the first empty slot, iteration is in slot order.      *)

Handles == DOMAIN sockets

IsLeast(h, S) == h \in S /\ \A k \in S : h <= k

FreeSlots(S) == (0..Cardinality(S)) \ S

FirstFree(S) == CHOOSE h \in FreeSlots(S) : IsLeast(h, FreeSlots(S))

WithSocket(h, index) ==
    [k \in Handles \cup {h} |-> IF k = h THEN index ELSE sockets[k]]

WithoutSocket(h) == [k \in Handles \ {h} |-> sockets[k]]

(* The handles `sockets.iter().nth(idx)' can name for an idx below the     *)
(* limit: the first connections_dyn_max of ALL sockets in slot order.      *)
Victims ==
    {h \in Handles : Cardinality({k \in Handles : k < h})
                        < workload.connections_dyn_max}

AtLimit == Cardinality(dynamic_sockets) = workload.connections_dyn_max

BelowLimitOrAt == Cardinality(dynamic_sockets) <= workload.connections_dyn_max

BelowLimit == Cardinality(dynamic_sockets) < workload.connections_dyn_max

-----------------------------------------------------------------------------
(* total_conns starts with the static connections.                         *)
InitialCountDynamicOnly == 0

InitialCount == workload.connections_static

(* The static connections are opened before the loop, from indexes 0, 1... *)
(* An endpoint smoltcp refuses is a panic: Result::unwrap of connect.  So  *)
(* is a negative arrival_rate (bad_rate): Result::unwrap of Exp::new.      *)
Init ==
    /\ workload \in Workloads
    /\ sockets = [h \in 0..(workload.connections_static - 1) |-> h]
    /\ pc = IF /\ \A h \in Handles : Connectable(workload.conns_per_addr, h)
               /\ workload.bad_rate # "arrival"
              THEN "arrive" ELSE "panicked"
    /\ dynamic_sockets = {}
    /\ total_conns = InitialCount
    /\ close_sockets = <<>>
    /\ todo = {}
    /\ duration = NoDelay

(* The arrival timer has not run out: go on to the pass over the sockets.  *)
NoArrival ==
    /\ pc = "arrive"
    /\ pc' = "visit"
    /\ todo' = Handles
    /\ UNCHANGED <<workload, sockets, dynamic_sockets, total_conns,
                   close_sockets, duration>>

(* The arrival opens a connection: `dynamic' are the dynamic connections   *)
(* left after a preemption, `closing' the handles it scheduled to close.   *)
Admit(dynamic, closing) ==
    LET h == FirstFree(Handles)
    IN  /\ Connectable(workload.conns_per_addr, total_conns + 1)
        /\ sockets' = WithSocket(h, total_conns + 1)
        /\ dynamic_sockets' = dynamic \cup {h}
        /\ close_sockets' = closing
        /\ todo' = Handles \cup {h}
        /\ pc' = "visit"

(* The arrival opens nothing; the timer and the counter have moved on.     *)
Drop(dynamic, closing) ==
    /\ workload.conns_per_addr > 0
    /\ dynamic_sockets' = dynamic
    /\ close_sockets' = closing
    /\ todo' = Handles
    /\ pc' = "visit"
    /\ UNCHANGED sockets

(* What every arrival does first.                                          *)
ArriveCountsAdmitted ==
    /\ pc = "arrive"
    /\ total_conns < MaxConns
    /\ total_conns' = IF AtLimit THEN total_conns ELSE total_conns + 1
    /\ UNCHANGED <<workload, duration>>

Arrive ==
    /\ pc = "arrive"
    /\ workload.bad_rate # "departure"
    /\ total_conns < MaxConns
    /\ total_conns' = total_conns + 1
    /\ UNCHANGED <<workload, duration>>

(* An arrival below the limit.                                             *)
ArriveBelowLimit ==
    /\ Arrive
    /\ BelowLimit
    /\ Admit(dynamic_sockets, close_sockets)

(* An arrival at the limit, without preemption, is counted and dropped.    *)
ArriveAtLimit ==
    /\ Arrive
    /\ ~BelowLimit
    /\ ~(AtLimit /\ workload.preempt)
    /\ Drop(dynamic_sockets, close_sockets)

(* An arrival at the limit, with preemption: the victim leaves the HashMap *)
(* now and the SocketSet at the end of the pass.  A victim that was not    *)
(* in the HashMap (a static connection) makes no room.                     *)
PreemptKeepsEntry(victim) ==
    /\ Arrive
    /\ AtLimit
    /\ workload.preempt
    /\ victim \in Victims
    /\ Drop(dynamic_sockets, Append(close_sockets, victim))

Preempt(victim) ==
    /\ Arrive
    /\ AtLimit
    /\ workload.preempt
    /\ victim \in Victims
    /\ LET dynamic == dynamic_sockets \ {victim}
           closing == Append(close_sockets, victim)
       IN  IF Cardinality(dynamic) < workload.connections_dyn_max
             THEN Admit(dynamic, closing)
             ELSE Drop(dynamic, closing)

(* The ways an arrival panics: a remainder by zero, a negative             *)
(* departure_rate, a random index below zero connections, an endpoint      *)
(* smoltcp refuses.                                                        *)
ArrivalPanics ==
    \/ workload.conns_per_addr = 0
    \/ workload.bad_rate = "departure"
    \/ AtLimit /\ workload.preempt /\ workload.connections_dyn_max = 0
    \/ /\ \/ BelowLimit
          \/ AtLimit /\ workload.preempt /\ Victims \cap dynamic_sockets # {}
       /\ ~Connectable(workload.conns_per_addr, total_conns + 1)

ArrivePanic ==
    /\ pc = "arrive"
    /\ total_conns < MaxConns
    /\ ArrivalPanics
    /\ pc' = "panicked"
    /\ UNCHANGED <<workload, sockets, dynamic_sockets, total_conns,
                   close_sockets, todo, duration>>

(* A dynamic connection whose lifetime is over: it leaves the HashMap, and *)
(* its handle is scheduled for removal.                                    *)
VisitExpiredKeepsEntry(h) ==
    /\ pc = "visit"
    /\ IsLeast(h, todo)
    /\ h \in dynamic_sockets
    /\ close_sockets' = Append(close_sockets, h)
    /\ todo' = todo \ {h}
    /\ UNCHANGED <<workload, pc, sockets, dynamic_sockets, total_conns,
                   duration>>

VisitExpiredAny(h) ==
    /\ pc = "visit"
    /\ IsLeast(h, todo)
    /\ \A i \in DOMAIN close_sockets : close_sockets[i] # h
    /\ dynamic_sockets' = dynamic_sockets \ {h}
    /\ close_sockets' = Append(close_sockets, h)
    /\ todo' = todo \ {h}
    /\ UNCHANGED <<workload, pc, sockets, total_conns, duration>>

VisitExpiredNotClosed(h) ==
    /\ pc = "visit"
    /\ IsLeast(h, todo)
    /\ h \in dynamic_sockets
    /\ dynamic_sockets' = dynamic_sockets \ {h}
    /\ todo' = todo \ {h}
    /\ UNCHANGED <<workload, pc, sockets, total_conns, close_sockets,
                   duration>>

VisitExpired(h) ==
    /\ pc = "visit"
    /\ IsLeast(h, todo)
    /\ h \in dynamic_sockets
    /\ dynamic_sockets' = dynamic_sockets \ {h}
    /\ close_sockets' = Append(close_sockets, h)
    /\ todo' = todo \ {h}
    /\ UNCHANGED <<workload, pc, sockets, total_conns, duration>>

(* Any other connection: one still alive, or one the HashMap does not      *)
(* know, which the code takes for a static one.                            *)
VisitAlive(h) ==
    /\ pc = "visit"
    /\ IsLeast(h, todo)
    /\ todo' = todo \ {h}
    /\ UNCHANGED <<workload, pc, sockets, dynamic_sockets, total_conns,
                   close_sockets, duration>>

VisitDone ==
    /\ pc = "visit"
    /\ todo = {}
    /\ pc' = "close"
    /\ UNCHANGED <<workload, sockets, dynamic_sockets, total_conns,
                   close_sockets, todo, duration>>

(* One turn of the loop over close_sockets.  SocketSet::remove panics on a *)
(* handle that names no socket, which is why RemovalsValid matters.        *)
CloseNextNotCounted ==
    /\ pc = "close"
    /\ close_sockets # <<>>
    /\ sockets' = WithoutSocket(Head(close_sockets))
    /\ close_sockets' = Tail(close_sockets)
    /\ UNCHANGED <<workload, pc, dynamic_sockets, total_conns, todo,
                   duration>>

CloseNext ==
    /\ pc = "close"
    /\ close_sockets # <<>>
    /\ sockets' = WithoutSocket(Head(close_sockets))
    /\ total_conns' = total_conns - 1
    /\ close_sockets' = Tail(close_sockets)
    /\ UNCHANGED <<workload, pc, dynamic_sockets, todo, duration>>

(* poll_delay(..).min(Some(cap)).or(Some(cap)), where None < Some(_).      *)
WaitForWithoutMin(delay) == IF delay = NoDelay THEN WaitCap ELSE delay

WaitForWithoutOr(delay) ==
    IF delay = NoDelay \/ delay <= WaitCap THEN delay ELSE WaitCap

WaitFor(delay) ==
    IF delay = NoDelay \/ delay > WaitCap THEN WaitCap ELSE delay

CloseDone ==
    /\ pc = "close"
    /\ close_sockets = <<>>
    /\ pc' = "wait"
    /\ \E delay \in PollDelays : duration' = WaitFor(delay)
    /\ UNCHANGED <<workload, sockets, dynamic_sockets, total_conns,
                   close_sockets, todo>>

(* phy_wait returns because its time is over.  With no duration it would   *)
(* return only when a packet comes.                                        *)
WaitTimeout ==
    /\ pc = "wait"
    /\ duration # NoDelay
    /\ pc' = "arrive"
    /\ UNCHANGED <<workload, sockets, dynamic_sockets, total_conns,
                   close_sockets, todo, duration>>

(* phy_wait returns because the device has a packet.                       *)
WaitPacket ==
    /\ pc = "wait"
    /\ pc' = "arrive"
    /\ UNCHANGED <<workload, sockets, dynamic_sockets, total_conns,
                   close_sockets, todo, duration>>

(* The timers are SystemTime: elapsed() is an error, and its unwrap a      *)
(* panic, once the clock is set back to before the timer's start.  The     *)
(* arrival timer is read in every pass, the other two for some sockets.    *)
ClockPanic ==
    /\ ~MonotonicClock
    /\ pc \in {"arrive", "visit"}
    /\ pc = "visit" => todo # {}
    /\ pc' = "panicked"
    /\ UNCHANGED <<workload, sockets, dynamic_sockets, total_conns,
                   close_sockets, todo, duration>>

Panicked == pc = "panicked" /\ UNCHANGED vars

Visit == \E h \in todo : VisitExpired(h) \/ VisitAlive(h)

Next ==
    \/ NoArrival
    \/ ArriveBelowLimit
    \/ ArriveAtLimit
    \/ \E victim \in Handles : Preempt(victim)
    \/ ArrivePanic
    \/ Visit
    \/ VisitDone
    \/ CloseNext
    \/ CloseDone
    \/ WaitTimeout
    \/ WaitPacket
    \/ ClockPanic
    \/ Panicked

Spec == Init /\ [][Next]_vars

(* The process runs, so an enabled step of the loop is taken.  Time passes *)
(* too: a connection that is visited again and again is at some visit      *)
(* found older than its lifetime, which is finite for a departure_rate     *)
(* above zero (zero is accepted, and no connection departs).  No fairness  *)
(* for packets, arrivals or the clock.                                     *)
Step ==
    \/ NoArrival
    \/ Visit
    \/ VisitDone
    \/ CloseNext
    \/ CloseDone
    \/ WaitTimeout

Fairness ==
    /\ WF_vars(Step)
    /\ \A h \in 0..MaxConns : SF_vars(VisitExpired(h))

FairSpec == Spec /\ Fairness

-----------------------------------------------------------------------------
(* The state has the shape the code's types give it.                       *)
TypeOK ==
    /\ workload \in Workloads
    /\ pc \in {"arrive", "visit", "close", "wait", "panicked"}
    /\ IsFiniteSet(Handles)
    /\ Handles \subseteq Nat
    /\ sockets \in [Handles -> Nat]
    /\ dynamic_sockets \subseteq Handles
    /\ total_conns \in Nat
    /\ close_sockets \in Seq(Nat)
    /\ todo \subseteq Handles
    /\ duration \in 0..WaitCap \cup {NoDelay}

Closing == {close_sockets[i] : i \in DOMAIN close_sockets}

(* SocketSet::remove (line 306) panics on a handle without a socket: what  *)
(* the preemption and the pass over the sockets schedule for removal are   *)
(* open sockets, each scheduled once, none of them still in the HashMap.   *)
RemovalsValid ==
    /\ Closing \subseteq Handles
    /\ Closing \cap dynamic_sockets = {}
    /\ \A i, j \in DOMAIN close_sockets :
          close_sockets[i] = close_sockets[j] => i = j

(* The limit of lines 200 and 212 holds, and with it the memory the client *)
(* takes: a victim stays in the SocketSet until the end of the pass, so    *)
(* there is at most one slot more than static and dynamic connections, no  *)
(* matter how many arrivals and departures there have been.                *)
SlotsBounded ==
    /\ Cardinality(dynamic_sockets) <= workload.connections_dyn_max
    /\ Handles \subseteq
          0..(workload.connections_static + workload.connections_dyn_max)

(* `sockets.iter().nth(idx).unwrap()' (line 205) finds a socket whatever   *)
(* the random idx below connections_dyn_max.                               *)
VictimFound ==
    (pc = "arrive" /\ AtLimit)
      => Cardinality(Handles) >= workload.connections_dyn_max

(* The u32 counter of lines 186 and 307 never goes below the static        *)
(* connections plus what is open or still to be closed, hence never below  *)
(* zero: every removal has been paid for by an arrival.                    *)
CounterCovers ==
    total_conns >= workload.connections_static
                     + Cardinality(dynamic_sockets) + Len(close_sockets)

(* With preemption every arrival adds one connection, or one handle to     *)
(* close, and nothing drifts: between two passes the counter is what it    *)
(* started with plus the dynamic connections.                              *)
CounterBalanced ==
    workload.preempt =>
      total_conns = workload.connections_static
                      + Cardinality(dynamic_sockets) + Len(close_sockets)

(* The comment of line 170, "Current number of opened connections", is     *)
(* right as long as there is no static connection to be preempted.         *)
CountsOpened ==
    (workload.preempt /\ workload.connections_static = 0)
      => total_conns = Cardinality(Handles)

(* What the counter counts, with preemption.                               *)
CounterExact == CounterBalanced /\ CountsOpened

Endpoint(h) == get_local_addr_port(workload.conns_per_addr, sockets[h])

(* Neither ports nor addresses run out in this model of the run.           *)
RoomForEndpoints ==
    /\ workload.conns_per_addr \in 1..PortRoom
    /\ AddrRoom(workload.conns_per_addr, MaxConns)

OpenedStatic(h) == sockets[h] < workload.connections_static

(* The counter goes up and down and is the index of the next connection    *)
(* (line 194), so indexes are reused; but no dynamic connection is opened  *)
(* from the endpoint of a static one that is still open.                   *)
StaticEndpointsOwned ==
    RoomForEndpoints =>
      \A h, k \in Handles :
         (OpenedStatic(h) /\ Endpoint(h) = Endpoint(k)) => h = k

(* Lines 132-133, "Open static set of connections, that are going to live  *)
(* throughout the whole run".                                              *)
StaticsLive ==
    \A i \in 0..(workload.connections_static - 1) :
       i \in Handles /\ sockets[i] = i

(* Without preemption the static connections do live through the run.      *)
StaticsSurvive == ~workload.preempt => StaticsLive

(* Lines 387-388: the connections of one address "differ only in port      *)
(* value", that is, they do differ.                                        *)
EndpointsDistinct ==
    RoomForEndpoints =>
      \A h, k \in Handles : Endpoint(h) = Endpoint(k) => h = k

(* Lines 312-314: the loop does not get stuck without any activity.  It    *)
(* comes round again and again unless the process panics.                  *)
LoopProgress == []<>(pc \in {"arrive", "panicked"})

(* Every dynamic connection ends, and its slot is free for another one,    *)
(* whenever lifetimes are finite.                                          *)
DynamicsDepart ==
    \A h \in 0..MaxConns :
       (h \in dynamic_sockets) ~> (h \notin Handles \/ pc = "panicked")
=============================================================================
