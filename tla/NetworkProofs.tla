--------------------------- MODULE NetworkProofs ---------------------------
(***************************************************************************)
(* The safety properties of NetworkClient, for every configuration, every  *)
(* number of arrivals and every width of ports and addresses.              *)
(*                                                                         *)
(* None of them is inductive alone.  Inv adds what a turn of the loop      *)
(* relies on: a list of handles to close that is empty when an arrival is  *)
(* looked at, a bound on dynamic connections and handles to close          *)
(* together, and where each socket came from.                              *)
(***************************************************************************)
EXTENDS Network, FiniteSetTheorems, WellFoundedInduction, TLAPS

(* Quotient and remainder determine the number they come from.             *)
LEMMA DivModUnique ==
    ASSUME NEW c \in Nat \ {0}, NEW i \in Nat, NEW j \in Nat,
           i \div c = j \div c, i % c = j % c
    PROVE  i = j
<1>1. i = c * (i \div c) + (i % c)
  OBVIOUS
<1>2. j = c * (j \div c) + (j % c)
  OBVIOUS
<1> QED
  BY <1>1, <1>2

(* A number below the modulus is its own remainder.                        *)
LEMMA ModSmall ==
    ASSUME NEW m \in Nat, NEW n \in Nat, n < m
    PROVE  n % m = n
  OBVIOUS

(* The quotient is monotone in the number divided.                         *)
LEMMA DivMonotone ==
    ASSUME NEW c \in Nat \ {0}, NEW i \in Nat, NEW j \in Nat, i <= j
    PROVE  /\ i \div c \in Nat
           /\ i \div c <= j \div c
  OBVIOUS

(* While there are ports and addresses left, two connections with          *)
(* different indexes never get the same local endpoint.                    *)
THEOREM EndpointInjective ==
    ASSUME NEW c \in 1..PortRoom, NEW n \in Nat, AddrRoom(c, n),
           NEW i \in 0..n, NEW j \in 0..n,
           get_local_addr_port(c, i) = get_local_addr_port(c, j)
    PROVE  i = j
<1> USE LocalAddrAssumption DEF PortRoom
<1>0. c \in Nat \ {0} /\ i \in Nat /\ j \in Nat
  OBVIOUS
<1>1. \A k \in 0..n : /\ k \div c \in Nat
                      /\ BaseAddr + (k \div c) + 1 < AddrSpace
  BY <1>0, DivMonotone DEF AddrRoom
<1>2. \A k \in 0..n : k % c \in Nat /\ k % c < c
  BY <1>0
<1>3. i \div c = j \div c
  <2>1. (BaseAddr + (i \div c) + 1) % AddrSpace
          = (BaseAddr + (j \div c) + 1) % AddrSpace
    BY DEF get_local_addr_port
  <2>2. \A q \in Nat : BaseAddr + q + 1 < AddrSpace
           => (BaseAddr + q + 1) % AddrSpace = BaseAddr + q + 1
    BY ModSmall
  <2>3. \A q, r \in Nat :
           /\ BaseAddr + q + 1 < AddrSpace
           /\ BaseAddr + r + 1 < AddrSpace
           /\ (BaseAddr + q + 1) % AddrSpace = (BaseAddr + r + 1) % AddrSpace
           => q = r
    BY <2>2
  <2> QED
    BY <1>1, <2>1, <2>3
<1>4. i % c = j % c
  <2>1. (PortBase + (i % c)) % PortSpace = (PortBase + (j % c)) % PortSpace
    BY DEF get_local_addr_port
  <2>2. \A q \in Nat : q < c => (PortBase + q) % PortSpace = PortBase + q
    BY ModSmall
  <2>3. \A q, r \in Nat :
           /\ q < c /\ r < c
           /\ (PortBase + q) % PortSpace = (PortBase + r) % PortSpace
           => q = r
    BY <2>2
  <2> QED
    BY <1>2, <2>1, <2>3
<1> QED
  BY <1>0, <1>3, <1>4, DivModUnique

-----------------------------------------------------------------------------

(* What bounds the two containers and the slots.                           *)
Bounds ==
    /\ Cardinality(dynamic_sockets) <= workload.connections_dyn_max
    /\ Cardinality(dynamic_sockets) + Len(close_sockets)
         <= workload.connections_dyn_max + 1
    /\ pc \in {"arrive", "wait"} => close_sockets = <<>>
    /\ Handles \subseteq
         0..(workload.connections_static + workload.connections_dyn_max)

(* A socket is a static one in the slot of its index, or it is dynamic, or *)
(* it was dynamic and is about to be removed.                              *)
Origins ==
    \A h \in Handles :
       /\ sockets[h] <= MaxConns
       /\ OpenedStatic(h) => sockets[h] = h /\ h \notin dynamic_sockets
       /\ ~OpenedStatic(h) => h \in dynamic_sockets \cup Closing

(* The first dynamic connection leaves out one index; with preemption the  *)
(* counter, and so the index, never goes far.                              *)
IndexesBounded ==
    \A h \in Handles :
       /\ sockets[h] # workload.connections_static
       /\ workload.preempt =>
            sockets[h] <= workload.connections_static
                            + workload.connections_dyn_max + 1

(* Without preemption no static socket is ever scheduled for removal.      *)
StaticsKept ==
    ~workload.preempt => /\ StaticsLive
                         /\ \A h \in Closing : ~OpenedStatic(h)

(* The pass over the sockets has visited all of them when it ends.         *)
VisitedAll == pc \notin {"visit", "panicked"} => todo = {}

Inv ==
    /\ TypeOK
    /\ VisitedAll
    /\ RemovalsValid
    /\ Bounds
    /\ CounterCovers
    /\ Origins
    /\ StaticsKept
    /\ CountsOpened
    /\ CounterBalanced
    /\ IndexesBounded

-----------------------------------------------------------------------------
(* A nonempty set of naturals has a least element.                         *)
LEMMA LeastExists ==
    ASSUME NEW T \in SUBSET Nat, T # {}
    PROVE  \E h \in T : IsLeast(h, T)
<1>1. PICK x \in T : \A y \in T : ~(<<y, x>> \in OpToRel(<, Nat))
  BY NatLessThanWellFounded, WFMin
<1>2. \A y \in T : ~(y < x)
  BY <1>1 DEF OpToRel
<1> QED
  BY <1>2 DEF IsLeast

(* The slot smoltcp gives a new socket is free, and the vector of slots    *)
(* grows by at most one.                                                   *)
LEMMA FirstFreeIsFree ==
    ASSUME NEW T \in SUBSET Nat, IsFiniteSet(T)
    PROVE  /\ FirstFree(T) \in 0..Cardinality(T)
           /\ FirstFree(T) \notin T
<1>1. Cardinality(T) \in Nat
  BY FS_CardinalityType
<1>2. ~((0..Cardinality(T)) \subseteq T)
  <2>1. Cardinality(0..Cardinality(T)) = Cardinality(T) + 1
    BY <1>1, FS_Interval
  <2> QED
    BY <1>1, <2>1, FS_Subset
<1>3. FreeSlots(T) # {} /\ FreeSlots(T) \in SUBSET Nat
  BY <1>1, <1>2 DEF FreeSlots
<1>4. \E h \in FreeSlots(T) : IsLeast(h, FreeSlots(T))
  BY <1>3, LeastExists
<1>5. FirstFree(T) \in FreeSlots(T)
  BY <1>4 DEF FirstFree
<1> QED
  BY <1>5 DEF FreeSlots

(* The first n slots are n slots.                                          *)
LEMMA InitialSegment ==
    ASSUME NEW n \in Nat
    PROVE  IsFiniteSet(0..(n - 1)) /\ Cardinality(0..(n - 1)) = n
<1>1. n - 1 \in Int /\ (0 > n - 1 <=> n = 0)
  OBVIOUS
<1> QED
  BY <1>1, FS_Interval

(* When an arrival is looked at, every socket is static or dynamic.        *)
LEMMA OpenAtArrival ==
    ASSUME Inv, pc = "arrive"
    PROVE  /\ close_sockets = <<>> /\ Closing = {}
           /\ IsFiniteSet(dynamic_sockets)
           /\ Cardinality(dynamic_sockets) \in Nat
           /\ Cardinality(Handles) \in Nat
           /\ Cardinality(Handles)
                <= workload.connections_static + Cardinality(dynamic_sockets)
<1> USE NetworkClientAssumption
<1>1. close_sockets = <<>> /\ Closing = {}
  BY DEF Inv, Bounds, Closing
<1>2. /\ workload.connections_static \in Nat
      /\ IsFiniteSet(Handles) /\ dynamic_sockets \in SUBSET Handles
      /\ sockets \in [Handles -> Nat]
  BY DEF Inv, TypeOK
<1>3. IsFiniteSet(dynamic_sockets) /\ Cardinality(dynamic_sockets) \in Nat
  BY <1>2, FS_Subset, FS_CardinalityType
<1> DEFINE statics == 0..(workload.connections_static - 1)
<1>4. IsFiniteSet(statics) /\ Cardinality(statics) = workload.connections_static
  BY <1>2, InitialSegment
<1>5. Handles \in SUBSET (statics \cup dynamic_sockets)
  <2>1. SUFFICES ASSUME NEW h \in Handles, h \notin dynamic_sockets
                 PROVE  h \in statics
    OBVIOUS
  <2>2. OpenedStatic(h) /\ sockets[h] = h
    BY <1>1, <2>1 DEF Inv, Origins
  <2> QED
    BY <1>2, <2>2 DEF OpenedStatic
<1>6. /\ IsFiniteSet(statics \cup dynamic_sockets)
      /\ Cardinality(statics \cup dynamic_sockets)
           = Cardinality(statics) + Cardinality(dynamic_sockets)
               - Cardinality(statics \cap dynamic_sockets)
  BY <1>3, <1>4, FS_Union
<1>7. Cardinality(statics \cap dynamic_sockets) \in Nat
  BY <1>4, FS_Intersection, FS_CardinalityType
<1>8. /\ Cardinality(Handles) \in Nat
      /\ Cardinality(Handles) <= Cardinality(statics \cup dynamic_sockets)
  BY <1>2, <1>5, <1>6, FS_Subset, FS_CardinalityType
<1> HIDE DEF statics
<1> QED
  BY <1>1, <1>2, <1>3, <1>4, <1>6, <1>7, <1>8

-----------------------------------------------------------------------------
(* The state before the loop satisfies the invariant.                      *)
LEMMA InvInit ==
    ASSUME Init
    PROVE  Inv
<1> USE NetworkClientAssumption DEF InitialCount
<1>1. /\ workload.connections_static \in 0..MaxConns
      /\ workload.connections_dyn_max \in Nat
  BY DEF Init
<1>2. Handles = 0..(workload.connections_static - 1) /\ Closing = {}
  BY DEF Init, Handles, Closing
<1>3. /\ IsFiniteSet(Handles)
      /\ Cardinality(Handles) = workload.connections_static
  BY <1>1, <1>2, InitialSegment
<1>4. IsFiniteSet(dynamic_sockets) /\ Cardinality(dynamic_sockets) = 0
  BY FS_EmptySet DEF Init
<1>5. TypeOK
  BY <1>1, <1>2, <1>3 DEF Init, TypeOK
<1>6. RemovalsValid
  BY <1>2 DEF Init, RemovalsValid
<1>7. Bounds
  BY <1>1, <1>2, <1>4 DEF Init, Bounds
<1>8. CounterCovers
  BY <1>1, <1>4 DEF Init, CounterCovers
<1>9. Origins
  BY <1>1, <1>2 DEF Init, Origins, OpenedStatic
<1>10. StaticsKept
  BY <1>1, <1>2 DEF Init, StaticsKept, StaticsLive
<1>11. CountsOpened
  BY <1>1, <1>3 DEF Init, CountsOpened
<1>12. CounterBalanced /\ IndexesBounded
  BY <1>1, <1>2, <1>4 DEF Init, CounterBalanced, IndexesBounded
<1> QED
  BY <1>5, <1>6, <1>7, <1>8, <1>9, <1>10, <1>11, <1>12
     DEF Init, VisitedAll, Inv

(* A step that leaves the containers and the counter alone.                *)
LEMMA InvQuiet ==
    ASSUME Inv, TypeOK', VisitedAll',
           UNCHANGED <<workload, sockets, dynamic_sockets, total_conns,
                       close_sockets>>,
           pc' \in {"arrive", "wait"} => close_sockets = <<>>
    PROVE  Inv'
<1>1. Handles' = Handles /\ Closing' = Closing
  BY DEF Handles, Closing
<1>2. RemovalsValid'
  BY <1>1 DEF Inv, RemovalsValid
<1>3. Bounds'
  BY <1>1 DEF Inv, Bounds
<1>4. CounterCovers'
  BY <1>1 DEF Inv, CounterCovers
<1>5. Origins'
  BY <1>1 DEF Inv, Origins, OpenedStatic
<1>6. StaticsKept'
  BY <1>1 DEF Inv, StaticsKept, StaticsLive, OpenedStatic
<1>7. CountsOpened'
  BY <1>1 DEF Inv, CountsOpened
<1>8. CounterBalanced' /\ IndexesBounded'
  BY <1>1 DEF Inv, CounterBalanced, IndexesBounded
<1> QED
  BY <1>2, <1>3, <1>4, <1>5, <1>6, <1>7, <1>8 DEF Inv

(* Appending a handle to the list adds it to the handles to be removed.    *)
LEMMA ClosingAppend ==
    ASSUME NEW s \in Seq(Nat), NEW h \in Nat
    PROVE  /\ Append(s, h) \in Seq(Nat)
           /\ Len(Append(s, h)) = Len(s) + 1
           /\ \A x : (\E i \in DOMAIN Append(s, h) : Append(s, h)[i] = x)
                      <=> (x = h \/ \E i \in DOMAIN s : s[i] = x)
           /\ (\A i, j \in DOMAIN s : s[i] = s[j] => i = j)
              /\ (\A i \in DOMAIN s : s[i] # h)
              => \A i, j \in DOMAIN Append(s, h) :
                    Append(s, h)[i] = Append(s, h)[j] => i = j
<1> DEFINE t == Append(s, h)
<1>1. /\ t \in Seq(Nat)
      /\ Len(t) = Len(s) + 1
      /\ DOMAIN t = 1..(Len(s) + 1) /\ DOMAIN s = 1..Len(s)
      /\ Len(s) \in Nat
      /\ \A i \in 1..Len(s) : t[i] = s[i]
      /\ t[Len(s) + 1] = h
  OBVIOUS
<1> HIDE DEF t
<1>2. \A x : (\E i \in DOMAIN t : t[i] = x)
               <=> (x = h \/ \E i \in DOMAIN s : s[i] = x)
  <2>1. \A i \in DOMAIN t : i \in DOMAIN s \/ i = Len(s) + 1
    BY <1>1
  <2>2. \A i \in DOMAIN s : i \in DOMAIN t
    BY <1>1
  <2>3. Len(s) + 1 \in DOMAIN t
    BY <1>1
  <2> QED
    BY <1>1, <2>1, <2>2, <2>3
<1>3. ASSUME \A i, j \in DOMAIN s : s[i] = s[j] => i = j,
             \A i \in DOMAIN s : s[i] # h
      PROVE  \A i, j \in DOMAIN t : t[i] = t[j] => i = j
  BY <1>1, <1>3
<1> QED
  BY <1>1, <1>2, <1>3 DEF t

(* Closing through ClosingAppend's eyes.                                   *)
LEMMA ClosingGrows ==
    ASSUME close_sockets \in Seq(Nat), NEW h \in Nat,
           close_sockets' = Append(close_sockets, h)
    PROVE  Closing' = Closing \cup {h}
<1>1. \A x : x \in Closing <=> \E i \in DOMAIN close_sockets :
                                  close_sockets[i] = x
  BY DEF Closing
<1> DEFINE t == Append(close_sockets, h)
<1>2. \A x : x \in Closing' <=> \E i \in DOMAIN t : t[i] = x
  BY DEF Closing
<1>3. \A x : (\E i \in DOMAIN t : t[i] = x)
               <=> (x = h \/ \E i \in DOMAIN close_sockets :
                                close_sockets[i] = x)
  BY ClosingAppend
<1> QED
  BY <1>1, <1>2, <1>3

(* An arrival opens a connection, and at most one dynamic connection, the  *)
(* one that is left out of `dynamic', is scheduled for removal.            *)
Admits ==
    \E dynamic \in SUBSET dynamic_sockets, closing \in Seq(Nat) :
       /\ sockets' = WithSocket(FirstFree(Handles), total_conns + 1)
       /\ dynamic_sockets' = dynamic \cup {FirstFree(Handles)}
       /\ close_sockets' = closing
       /\ todo' = Handles \cup {FirstFree(Handles)}
       /\ pc' = "visit"
       /\ Cardinality(dynamic) < workload.connections_dyn_max
       /\ Cardinality(dynamic) + Len(closing) = Cardinality(dynamic_sockets)
       /\ Len(closing) <= 1
       /\ \A h \in dynamic_sockets \ dynamic :
             Len(closing) = 1 /\ closing[1] = h
       /\ Len(closing) = 1 => closing[1] \in dynamic_sockets \ dynamic

(* An arrival opens nothing, and with preemption one connection that is    *)
(* not dynamic is scheduled for removal.                                   *)
Drops ==
    \E closing \in Seq(Nat) :
       /\ dynamic_sockets' = dynamic_sockets
       /\ close_sockets' = closing
       /\ todo' = Handles
       /\ pc' = "visit"
       /\ UNCHANGED sockets
       /\ Len(closing) <= 1
       /\ Len(closing) = 1 <=> workload.preempt
       /\ Len(closing) = 1 => closing[1] \in Handles \ dynamic_sockets

(* An arrival that opens a connection keeps the invariant.                 *)
LEMMA InvAdmit ==
    ASSUME Inv, Arrive, Admits
    PROVE  Inv'
<1> USE NetworkClientAssumption
<1>p. PICK dynamic \in SUBSET dynamic_sockets, closing \in Seq(Nat) :
       /\ sockets' = WithSocket(FirstFree(Handles), total_conns + 1)
       /\ dynamic_sockets' = dynamic \cup {FirstFree(Handles)}
       /\ close_sockets' = closing
       /\ todo' = Handles \cup {FirstFree(Handles)}
       /\ pc' = "visit"
       /\ Cardinality(dynamic) < workload.connections_dyn_max
       /\ Cardinality(dynamic) + Len(closing) = Cardinality(dynamic_sockets)
       /\ Len(closing) <= 1
       /\ \A h \in dynamic_sockets \ dynamic :
             Len(closing) = 1 /\ closing[1] = h
       /\ Len(closing) = 1 => closing[1] \in dynamic_sockets \ dynamic
  BY DEF Admits
<1>c. /\ Cardinality(dynamic) < workload.connections_dyn_max
      /\ Cardinality(dynamic) + Len(closing) = Cardinality(dynamic_sockets)
      /\ Len(closing) <= 1 /\ Len(closing) \in Nat
      /\ DOMAIN closing = 1..Len(closing)
  BY <1>p
<1>d. dynamic \in SUBSET dynamic_sockets /\ closing \in Seq(Nat)
  BY <1>p
<1>0. PICK h : h = FirstFree(Handles)
  OBVIOUS
<1>1. /\ pc = "arrive" /\ pc' = "visit"
      /\ total_conns' = total_conns + 1
      /\ total_conns < MaxConns
      /\ workload' = workload /\ duration' = duration
      /\ sockets' = WithSocket(h, total_conns + 1)
      /\ dynamic_sockets' = dynamic \cup {h}
      /\ close_sockets' = closing
      /\ todo' = Handles \cup {h}
  BY <1>0, <1>p DEF Arrive
<1>2. /\ workload \in Workloads
      /\ workload.connections_static \in 0..MaxConns
      /\ workload.connections_dyn_max \in Nat
      /\ IsFiniteSet(Handles) /\ Handles \in SUBSET Nat
      /\ sockets \in [Handles -> Nat]
      /\ dynamic_sockets \in SUBSET Handles
      /\ total_conns \in Nat
      /\ duration \in 0..WaitCap \cup {NoDelay}
  BY DEF Inv, TypeOK
<1>3. /\ close_sockets = <<>> /\ Closing = {}
      /\ IsFiniteSet(dynamic_sockets)
      /\ Cardinality(dynamic_sockets) \in Nat
      /\ Cardinality(Handles) \in Nat
      /\ Cardinality(Handles)
           <= workload.connections_static + Cardinality(dynamic_sockets)
  BY <1>1, OpenAtArrival
<1>4. /\ h \in 0..Cardinality(Handles)
      /\ h \notin Handles
  BY <1>0, <1>2, FirstFreeIsFree
<1>5. /\ Handles' = Handles \cup {h}
      /\ sockets'[h] = total_conns + 1
      /\ \A k \in Handles : sockets'[k] = sockets[k]
      /\ sockets' \in [Handles \cup {h} -> Nat]
  BY <1>1, <1>2, <1>4 DEF Handles, WithSocket
<1>6. /\ IsFiniteSet(Handles \cup {h})
      /\ Cardinality(Handles \cup {h}) = Cardinality(Handles) + 1
  BY <1>2, <1>4, FS_AddElement
<1>7. /\ IsFiniteSet(dynamic \cup {h})
      /\ Cardinality(dynamic) \in Nat
      /\ Cardinality(dynamic \cup {h}) = Cardinality(dynamic) + 1
  <2>1. IsFiniteSet(dynamic) /\ Cardinality(dynamic) \in Nat
    BY <1>3, <1>d, FS_Subset, FS_CardinalityType
  <2>2. h \notin dynamic
    BY <1>2, <1>4, <1>d
  <2> QED
    BY <2>1, <2>2, FS_AddElement
<1>8. Closing' = dynamic_sockets \ dynamic
  <2>1. \A x : x \in Closing' <=> \E i \in DOMAIN closing : closing[i] = x
    BY <1>1 DEF Closing
  <2>2. \A x : x \in Closing' <=> Len(closing) = 1 /\ closing[1] = x
    BY <1>c, <2>1
  <2> QED
    BY <1>p, <2>2
<1>9. /\ total_conns + 1 > workload.connections_static
      /\ total_conns >= workload.connections_static
                          + Cardinality(dynamic_sockets)
  BY <1>2, <1>3 DEF Inv, CounterCovers
<1>10. TypeOK'
  BY <1>1, <1>2, <1>4, <1>5, <1>6, <1>d DEF TypeOK
<1>11. RemovalsValid'
  <2>1. Closing' \subseteq Handles' /\ Closing' \cap dynamic_sockets' = {}
    BY <1>1, <1>2, <1>4, <1>5, <1>8
  <2>2. \A i, j \in DOMAIN closing : i = j
    BY <1>c
  <2> QED
    BY <1>1, <2>1, <2>2 DEF RemovalsValid
<1>12. Bounds'
  <2>1. h \in 0..(workload.connections_static + workload.connections_dyn_max)
    BY <1>2, <1>3, <1>4 DEF Inv, Bounds
  <2>2. Handles' \subseteq
          0..(workload.connections_static + workload.connections_dyn_max)
    BY <1>5, <2>1 DEF Inv, Bounds
  <2>3. /\ Cardinality(dynamic) + 1 <= workload.connections_dyn_max
        /\ Cardinality(dynamic) + 1 + Len(closing)
             <= workload.connections_dyn_max + 1
    BY <1>2, <1>7, <1>c
  <2> QED
    BY <1>1, <1>7, <2>2, <2>3 DEF Bounds
<1>13. CounterCovers'
  <2>1. total_conns + 1 >= workload.connections_static
                             + (Cardinality(dynamic) + 1) + Len(closing)
    BY <1>2, <1>3, <1>7, <1>9, <1>c
  <2> QED
    BY <1>1, <1>7, <2>1 DEF CounterCovers
<1>14. Origins'
  <2>1. ASSUME NEW k \in Handles
        PROVE  /\ sockets'[k] <= MaxConns
               /\ OpenedStatic(k)' => sockets'[k] = k /\ k \notin dynamic_sockets'
               /\ ~OpenedStatic(k)' => k \in dynamic_sockets' \cup Closing'
    <3>1. OpenedStatic(k)' <=> OpenedStatic(k)
      BY <1>1, <1>5 DEF OpenedStatic
    <3> QED
      BY <1>1, <1>3, <1>4, <1>5, <1>8, <1>d, <3>1 DEF Inv, Origins
  <2>2. sockets'[h] <= MaxConns /\ ~OpenedStatic(h)' /\ h \in dynamic_sockets'
    BY <1>1, <1>2, <1>5, <1>9 DEF OpenedStatic
  <2> QED
    BY <1>5, <2>1, <2>2 DEF Origins
<1>15. StaticsKept'
  <2>1. SUFFICES ASSUME ~workload.preempt
                 PROVE  StaticsLive' /\ \A k \in Closing' : ~OpenedStatic(k)'
    BY <1>1 DEF StaticsKept
  <2>2. StaticsLive'
    BY <1>1, <1>5, <2>1 DEF Inv, StaticsKept, StaticsLive
  <2>3. \A k \in dynamic_sockets : ~OpenedStatic(k)'
    BY <1>1, <1>2, <1>5 DEF Inv, Origins, OpenedStatic
  <2> QED
    BY <1>8, <2>2, <2>3
<1>16. CountsOpened'
  BY <1>1, <1>5, <1>6 DEF Inv, CountsOpened
<1>17. CounterBalanced'
  <2>1. SUFFICES ASSUME workload.preempt
                 PROVE  total_conns + 1 = workload.connections_static
                          + (Cardinality(dynamic) + 1) + Len(closing)
    BY <1>1, <1>7 DEF CounterBalanced
  <2>2. total_conns = workload.connections_static + Cardinality(dynamic_sockets)
    BY <1>2, <1>3, <2>1 DEF Inv, CounterBalanced
  <2>3. \A t, s, d, e, l \in Nat :
          t = s + d /\ e + l = d => t + 1 = s + (e + 1) + l
    OBVIOUS
  <2>4. /\ workload.connections_static \in Nat /\ total_conns \in Nat
        /\ Cardinality(dynamic_sockets) \in Nat
        /\ Cardinality(dynamic) \in Nat /\ Len(closing) \in Nat
    BY <1>2, <1>3, <1>7, <1>c
  <2> QED
    BY ONLY <1>c, <2>2, <2>3, <2>4
<1>18. IndexesBounded'
  <2>1. workload.preempt =>
          total_conns = workload.connections_static + Cardinality(dynamic_sockets)
    BY <1>2, <1>3 DEF Inv, CounterBalanced
  <2>2. /\ total_conns + 1 # workload.connections_static
        /\ workload.preempt =>
             total_conns + 1 <= workload.connections_static
                                  + workload.connections_dyn_max + 1
    BY <1>2, <1>3, <1>9, <2>1 DEF Inv, Bounds
  <2> QED
    BY <1>1, <1>5, <2>2 DEF Inv, IndexesBounded
<1> QED
  BY <1>1, <1>10, <1>11, <1>12, <1>13, <1>14, <1>15, <1>16, <1>17, <1>18
     DEF VisitedAll, Inv

(* An arrival that opens none keeps it.                                    *)
LEMMA InvDrop ==
    ASSUME Inv, Arrive, Drops
    PROVE  Inv'
<1> USE NetworkClientAssumption
<1>p. PICK closing \in Seq(Nat) :
       /\ dynamic_sockets' = dynamic_sockets
       /\ close_sockets' = closing
       /\ todo' = Handles
       /\ pc' = "visit"
       /\ UNCHANGED sockets
       /\ Len(closing) <= 1
       /\ Len(closing) = 1 <=> workload.preempt
       /\ Len(closing) = 1 => closing[1] \in Handles \ dynamic_sockets
  BY DEF Drops
<1>c. /\ Len(closing) <= 1 /\ Len(closing) \in Nat
      /\ DOMAIN closing = 1..Len(closing)
      /\ closing \in Seq(Nat)
  BY <1>p
<1>1. /\ pc = "arrive" /\ pc' = "visit"
      /\ total_conns' = total_conns + 1
      /\ UNCHANGED <<workload, duration, sockets>>
      /\ dynamic_sockets' = dynamic_sockets
      /\ close_sockets' = closing
      /\ todo' = Handles
  BY <1>p DEF Arrive
<1>2. /\ workload \in Workloads
      /\ workload.connections_static \in 0..MaxConns
      /\ workload.connections_dyn_max \in Nat
      /\ IsFiniteSet(Handles) /\ Handles \in SUBSET Nat
      /\ sockets \in [Handles -> Nat]
      /\ dynamic_sockets \in SUBSET Handles
      /\ total_conns \in Nat
      /\ duration \in 0..WaitCap \cup {NoDelay}
  BY DEF Inv, TypeOK
<1>3. /\ close_sockets = <<>> /\ Closing = {}
      /\ Cardinality(dynamic_sockets) \in Nat
  BY <1>1, OpenAtArrival
<1>4. Handles' = Handles
  BY <1>1 DEF Handles
<1>5. /\ Len(closing) \in Nat
      /\ DOMAIN closing = 1..Len(closing)
      /\ \A i \in DOMAIN closing : closing[i] \in Handles \ dynamic_sockets
      /\ ~workload.preempt => DOMAIN closing = {}
  <2>1. \A i \in DOMAIN closing : i = 1 /\ Len(closing) = 1
    BY <1>c
  <2> QED
    BY <1>c, <1>p, <2>1
<1>6. \A k \in Closing' : k \in Handles \ dynamic_sockets /\ workload.preempt
  BY <1>1, <1>5 DEF Closing
<1>7. \A k \in Handles : OpenedStatic(k)' <=> OpenedStatic(k)
  BY <1>1 DEF OpenedStatic
<1>8. TypeOK'
  BY <1>1, <1>2, <1>4, <1>c DEF TypeOK
<1>9. RemovalsValid'
  <2>1. \A i, j \in DOMAIN closing : i = j
    BY <1>c
  <2> QED
    BY <1>1, <1>4, <1>6, <2>1 DEF RemovalsValid
<1>10. Bounds'
  <2>1. /\ Cardinality(dynamic_sockets) <= workload.connections_dyn_max
        /\ Handles \subseteq
             0..(workload.connections_static + workload.connections_dyn_max)
    BY DEF Inv, Bounds
  <2>2. Cardinality(dynamic_sockets) + Len(closing)
          <= workload.connections_dyn_max + 1
    BY <1>2, <1>3, <1>c, <2>1
  <2> QED
    BY <1>1, <1>4, <2>1, <2>2 DEF Bounds
<1>11. CounterCovers'
  <2>1. total_conns >= workload.connections_static + Cardinality(dynamic_sockets)
    BY <1>2, <1>3 DEF Inv, CounterCovers
  <2>2. total_conns + 1 >= workload.connections_static
                             + Cardinality(dynamic_sockets) + Len(closing)
    BY <1>2, <1>3, <1>c, <2>1
  <2> QED
    BY <1>1, <2>2 DEF CounterCovers
<1>12. Origins'
  BY <1>1, <1>3, <1>4, <1>7 DEF Inv, Origins
<1>13. StaticsKept'
  BY <1>1, <1>4, <1>6 DEF Inv, StaticsKept, StaticsLive
<1>14. CountsOpened'
  <2>1. SUFFICES ASSUME workload.preempt, workload.connections_static = 0
                 PROVE  FALSE
    BY <1>1 DEF CountsOpened
  <2>2. PICK v \in Handles : v \notin dynamic_sockets
    BY <1>p, <2>1
  <2>3. ~OpenedStatic(v)
    BY <1>2, <2>1 DEF OpenedStatic
  <2> QED
    BY <1>3, <2>2, <2>3 DEF Inv, Origins
<1>15. CounterBalanced' /\ IndexesBounded'
  <2>1. workload.preempt =>
          /\ total_conns = workload.connections_static
                             + Cardinality(dynamic_sockets)
          /\ Len(closing) = 1
    BY <1>2, <1>3, <1>p DEF Inv, CounterBalanced
  <2>2. workload.preempt =>
          total_conns + 1 = workload.connections_static
                              + Cardinality(dynamic_sockets) + Len(closing)
    BY <1>2, <1>3, <2>1
  <2> QED
    BY <1>1, <1>4, <2>2 DEF Inv, CounterBalanced, IndexesBounded
<1> QED
  BY <1>1, <1>8, <1>9, <1>10, <1>11, <1>12, <1>13, <1>14, <1>15
     DEF VisitedAll, Inv

(* A dynamic connection found older than its lifetime.                     *)
LEMMA InvVisitExpired ==
    ASSUME Inv, NEW h \in todo, VisitExpired(h)
    PROVE  Inv'
<1> USE NetworkClientAssumption
<1>1. /\ pc = "visit" /\ h \in dynamic_sockets
      /\ UNCHANGED <<workload, pc, sockets, total_conns, duration>>
      /\ dynamic_sockets' = dynamic_sockets \ {h}
      /\ close_sockets' = Append(close_sockets, h)
      /\ todo' = todo \ {h}
  BY DEF VisitExpired
<1>2. /\ TypeOK
      /\ close_sockets \in Seq(Nat) /\ Len(close_sockets) \in Nat
      /\ workload.connections_static \in 0..MaxConns
      /\ workload.connections_dyn_max \in Nat
      /\ IsFiniteSet(Handles) /\ Handles \in SUBSET Nat
      /\ dynamic_sockets \in SUBSET Handles
      /\ total_conns \in Nat
      /\ h \in Nat
  BY <1>1 DEF Inv, TypeOK
<1>3. /\ Cardinality(dynamic_sockets) \in Nat
      /\ Cardinality(dynamic_sockets') = Cardinality(dynamic_sockets) - 1
  <2>1. IsFiniteSet(dynamic_sockets)
    BY <1>2, FS_Subset
  <2> QED
    BY <1>1, <2>1, FS_RemoveElement, FS_CardinalityType
<1>4. Handles' = Handles
  BY <1>1 DEF Handles
<1>5. Closing' = Closing \cup {h}
  BY <1>1, <1>2, ClosingGrows
<1>6. /\ close_sockets' \in Seq(Nat)
      /\ Len(close_sockets') = Len(close_sockets) + 1
  BY <1>1, <1>2
<1>7. h \notin Closing
  BY <1>1 DEF Inv, RemovalsValid
<1>8. \A k \in Handles : OpenedStatic(k)' <=> OpenedStatic(k)
  BY <1>1 DEF OpenedStatic
<1>9. TypeOK'
  BY <1>1, <1>2, <1>4, <1>6 DEF TypeOK
<1>10. RemovalsValid'
  <2>1. \A i, j \in DOMAIN close_sockets :
          close_sockets[i] = close_sockets[j] => i = j
    BY DEF Inv, RemovalsValid
  <2>2. \A i \in DOMAIN close_sockets : close_sockets[i] # h
    BY <1>7 DEF Closing
  <2>3. \A i, j \in DOMAIN close_sockets' :
          close_sockets'[i] = close_sockets'[j] => i = j
    BY <1>1, <1>2, <2>1, <2>2, ClosingAppend
  <2> QED
    BY <1>1, <1>2, <1>4, <1>5, <2>3 DEF Inv, RemovalsValid
<1>11. Bounds'
  BY <1>1, <1>2, <1>3, <1>4, <1>6 DEF Inv, Bounds
<1>12. CounterCovers'
  BY <1>1, <1>2, <1>3, <1>6 DEF Inv, CounterCovers
<1>13. Origins'
  BY <1>1, <1>4, <1>5, <1>8 DEF Inv, Origins
<1>14. StaticsKept'
  <2>1. ~OpenedStatic(h)
    BY <1>1, <1>2 DEF Inv, Origins
  <2>2. \A k \in Closing : k \in Handles
    BY DEF Inv, RemovalsValid
  <2>3. StaticsLive' <=> StaticsLive
    BY <1>1, <1>4 DEF StaticsLive
  <2> QED
    BY <1>1, <1>2, <1>5, <1>8, <2>1, <2>2, <2>3 DEF Inv, StaticsKept
<1>15. CountsOpened'
  BY <1>1, <1>4 DEF Inv, CountsOpened
<1>16. CounterBalanced'
  <2>1. SUFFICES ASSUME workload.preempt
                 PROVE  total_conns = workload.connections_static
                          + (Cardinality(dynamic_sockets) - 1)
                          + (Len(close_sockets) + 1)
    BY <1>1, <1>3, <1>6 DEF CounterBalanced
  <2>2. total_conns = workload.connections_static
                        + Cardinality(dynamic_sockets) + Len(close_sockets)
    BY <2>1 DEF Inv, CounterBalanced
  <2>3. \A t, s, d, l \in Nat : t = s + d + l => t = s + (d - 1) + (l + 1)
    OBVIOUS
  <2>4. /\ workload.connections_static \in Nat /\ total_conns \in Nat
        /\ Cardinality(dynamic_sockets) \in Nat /\ Len(close_sockets) \in Nat
    BY <1>2, <1>3
  <2> QED
    BY ONLY <2>2, <2>3, <2>4
<1>17. IndexesBounded'
  BY <1>1, <1>4 DEF Inv, IndexesBounded
<1> QED
  BY <1>1, <1>9, <1>10, <1>11, <1>12, <1>13, <1>14, <1>15, <1>16, <1>17
     DEF VisitedAll, Inv

(* What removing the head of the list does to the handles to be removed.   *)
LEMMA ClosingShrinks ==
    ASSUME close_sockets \in Seq(Nat), close_sockets # <<>>,
           close_sockets' = Tail(close_sockets),
           \A i, j \in DOMAIN close_sockets :
              close_sockets[i] = close_sockets[j] => i = j
    PROVE  /\ close_sockets' \in Seq(Nat)
           /\ Len(close_sockets') = Len(close_sockets) - 1
           /\ Head(close_sockets) \in Closing
           /\ Closing' = Closing \ {Head(close_sockets)}
           /\ \A i, j \in DOMAIN close_sockets' :
                close_sockets'[i] = close_sockets'[j] => i = j
<1> DEFINE s == close_sockets
           t == Tail(close_sockets)
<1>1. /\ t \in Seq(Nat)
      /\ Len(s) \in Nat \ {0} /\ Len(t) = Len(s) - 1
      /\ DOMAIN s = 1..Len(s) /\ DOMAIN t = 1..(Len(s) - 1)
      /\ \A i \in DOMAIN t : t[i] = s[i + 1]
      /\ Head(s) = s[1]
  OBVIOUS
<1>2. \A x : x \in Closing <=> \E i \in DOMAIN s : s[i] = x
  BY DEF Closing
<1>3. \A x : x \in Closing' <=> \E i \in DOMAIN t : t[i] = x
  BY DEF Closing
<1>4. \A i, j \in DOMAIN s : s[i] = s[j] => i = j
  OBVIOUS
<1> HIDE DEF s, t
<1>5. 1 \in DOMAIN s /\ \A i \in DOMAIN t : i + 1 \in DOMAIN s /\ i + 1 # 1
  BY <1>1
<1>6. \A i \in DOMAIN s : i # 1 => i - 1 \in DOMAIN t /\ (i - 1) + 1 = i
  BY <1>1
<1>7. \A x : (\E i \in DOMAIN t : t[i] = x)
               <=> (x # s[1] /\ \E i \in DOMAIN s : s[i] = x)
  <2>1. ASSUME NEW i \in DOMAIN t
        PROVE  t[i] # s[1] /\ \E k \in DOMAIN s : s[k] = t[i]
    BY <1>1, <1>4, <1>5
  <2>2. ASSUME NEW i \in DOMAIN s, s[i] # s[1]
        PROVE  \E k \in DOMAIN t : t[k] = s[i]
    <3>1. i - 1 \in DOMAIN t /\ t[i - 1] = s[i]
      BY <1>1, <1>6, <2>2
    <3> QED
      BY <3>1
  <2> QED
    BY <2>1, <2>2
<1>8. \A i, j \in DOMAIN t : t[i] = t[j] => i = j
  <2>1. SUFFICES ASSUME NEW i \in DOMAIN t, NEW j \in DOMAIN t, t[i] = t[j]
                 PROVE  i = j
    OBVIOUS
  <2>2. i + 1 = j + 1
    BY <1>1, <1>4, <1>5, <2>1
  <2> QED
    BY <1>1, <2>2
<1>9. Head(s) \in Closing /\ Closing' = Closing \ {Head(s)}
  <2>1. Head(s) = s[1]
    BY <1>1
  <2>2. s[1] \in Closing
    BY <1>2, <1>5
  <2>3. \A x : x \in Closing' <=> x \in Closing /\ x # s[1]
    BY <1>2, <1>3, <1>7, Zenon
  <2> QED
    BY <2>1, <2>2, <2>3
<1> QED
  BY <1>1, <1>8, <1>9 DEF s, t

(* One turn of the loop that removes the sockets.                          *)
LEMMA InvCloseNext ==
    ASSUME Inv, CloseNext
    PROVE  Inv'
<1> USE NetworkClientAssumption
<1>0. PICK h : h = Head(close_sockets)
  OBVIOUS
<1>1. /\ pc = "close" /\ close_sockets # <<>>
      /\ UNCHANGED <<workload, pc, dynamic_sockets, todo, duration>>
      /\ sockets' = WithoutSocket(h)
      /\ total_conns' = total_conns - 1
      /\ close_sockets' = Tail(close_sockets)
  BY <1>0 DEF CloseNext
<1>2. /\ TypeOK
      /\ close_sockets \in Seq(Nat) /\ Len(close_sockets) \in Nat
      /\ workload.connections_static \in 0..MaxConns
      /\ workload.connections_dyn_max \in Nat
      /\ IsFiniteSet(Handles) /\ Handles \in SUBSET Nat
      /\ sockets \in [Handles -> Nat]
      /\ dynamic_sockets \in SUBSET Handles
      /\ total_conns \in Nat
  BY DEF Inv, TypeOK
<1>3. /\ Closing \subseteq Handles /\ Closing \cap dynamic_sockets = {}
      /\ \A i, j \in DOMAIN close_sockets :
           close_sockets[i] = close_sockets[j] => i = j
  BY DEF Inv, RemovalsValid
<1>4. /\ close_sockets' \in Seq(Nat)
      /\ Len(close_sockets') = Len(close_sockets) - 1
      /\ h \in Closing
      /\ Closing' = Closing \ {h}
      /\ \A i, j \in DOMAIN close_sockets' :
           close_sockets'[i] = close_sockets'[j] => i = j
  BY <1>0, <1>1, <1>2, <1>3, ClosingShrinks
<1>5. /\ Handles' = Handles \ {h}
      /\ \A k \in Handles \ {h} : sockets'[k] = sockets[k]
      /\ sockets' \in [Handles \ {h} -> Nat]
  BY <1>1, <1>2 DEF Handles, WithoutSocket
<1>6. /\ IsFiniteSet(Handles \ {h})
      /\ Cardinality(Handles) \in Nat
      /\ Cardinality(Handles \ {h}) = Cardinality(Handles) - 1
  BY <1>2, <1>3, <1>4, FS_RemoveElement, FS_CardinalityType
<1>7. Cardinality(dynamic_sockets) \in Nat
  BY <1>2, FS_Subset, FS_CardinalityType
<1>8. /\ total_conns >= workload.connections_static
                          + Cardinality(dynamic_sockets) + Len(close_sockets)
      /\ Len(close_sockets) >= 1
  BY <1>1, <1>2 DEF Inv, CounterCovers
<1>9. \A k \in Handles \ {h} : OpenedStatic(k)' <=> OpenedStatic(k)
  BY <1>1, <1>5 DEF OpenedStatic
<1>10. TypeOK'
  <2>1. todo \subseteq Handles \ {h}
    BY <1>1 DEF Inv, VisitedAll
  <2>2. total_conns - 1 \in Nat
    BY <1>2, <1>7, <1>8
  <2> QED
    BY <1>1, <1>2, <1>3, <1>4, <1>5, <1>6, <2>1, <2>2 DEF TypeOK
<1>11. RemovalsValid'
  BY <1>1, <1>3, <1>4, <1>5 DEF RemovalsValid
<1>12. Bounds'
  <2>1. /\ Cardinality(dynamic_sockets) <= workload.connections_dyn_max
        /\ Cardinality(dynamic_sockets) + Len(close_sockets)
             <= workload.connections_dyn_max + 1
        /\ Handles \subseteq
             0..(workload.connections_static + workload.connections_dyn_max)
    BY DEF Inv, Bounds
  <2>2. Cardinality(dynamic_sockets) + (Len(close_sockets) - 1)
          <= workload.connections_dyn_max + 1
    BY <1>2, <1>7, <2>1
  <2>3. Handles' \subseteq
          0..(workload.connections_static + workload.connections_dyn_max)
    BY <1>5, <2>1
  <2> QED
    BY <1>1, <1>4, <2>1, <2>2, <2>3 DEF Bounds
<1>13. CounterCovers'
  BY <1>1, <1>2, <1>4, <1>7, <1>8 DEF CounterCovers
<1>14. Origins'
  BY <1>1, <1>4, <1>5, <1>9 DEF Inv, Origins
<1>15. StaticsKept'
  <2>1. SUFFICES ASSUME ~workload.preempt
                 PROVE  StaticsLive' /\ \A k \in Closing' : ~OpenedStatic(k)'
    BY <1>1 DEF StaticsKept
  <2>2. StaticsLive /\ \A k \in Closing : ~OpenedStatic(k)
    BY <2>1 DEF Inv, StaticsKept
  <2>3. \A i \in 0..(workload.connections_static - 1) : i # h
    BY <1>2, <1>4, <2>2 DEF StaticsLive, OpenedStatic
  <2>4. StaticsLive'
    BY <1>1, <1>5, <2>2, <2>3 DEF StaticsLive
  <2> QED
    BY <1>3, <1>4, <1>9, <2>2, <2>4
<1>16. CountsOpened'
  BY <1>1, <1>2, <1>5, <1>6 DEF Inv, CountsOpened
<1>17. VisitedAll'
  BY <1>1 DEF Inv, VisitedAll
<1>18. CounterBalanced'
  <2>1. SUFFICES ASSUME workload.preempt
                 PROVE  total_conns - 1 = workload.connections_static
                          + Cardinality(dynamic_sockets) + (Len(close_sockets) - 1)
    BY <1>1, <1>4 DEF CounterBalanced
  <2>2. total_conns = workload.connections_static
                        + Cardinality(dynamic_sockets) + Len(close_sockets)
    BY <2>1 DEF Inv, CounterBalanced
  <2>3. \A t, s, d, l \in Nat : t = s + d + l => t - 1 = s + d + (l - 1)
    OBVIOUS
  <2>4. /\ workload.connections_static \in Nat /\ total_conns \in Nat
        /\ Cardinality(dynamic_sockets) \in Nat /\ Len(close_sockets) \in Nat
    BY <1>2, <1>7
  <2> QED
    BY ONLY <2>2, <2>3, <2>4
<1>19. IndexesBounded'
  BY <1>1, <1>5 DEF Inv, IndexesBounded
<1> QED
  BY <1>10, <1>11, <1>12, <1>13, <1>14, <1>15, <1>16, <1>17, <1>18, <1>19
     DEF Inv

(* The arrivals: which of InvAdmit and InvDrop each of them is.            *)
LEMMA InvArriveBelowLimit ==
    ASSUME Inv, ArriveBelowLimit
    PROVE  Inv'
<1>1. Arrive /\ BelowLimit /\ Admit(dynamic_sockets, close_sockets)
  BY DEF ArriveBelowLimit
<1>2. /\ close_sockets = <<>>
      /\ Cardinality(dynamic_sockets) \in Nat
  BY <1>1, OpenAtArrival DEF Arrive
<1>3. close_sockets \in Seq(Nat) /\ Len(close_sockets) = 0
  BY <1>2
<1>4. Cardinality(dynamic_sockets) < workload.connections_dyn_max
  BY <1>1 DEF BelowLimit
<1>5. \A h \in dynamic_sockets \ dynamic_sockets :
         Len(close_sockets) = 1 /\ close_sockets[1] = h
  OBVIOUS
<1>6. Cardinality(dynamic_sockets) + Len(close_sockets)
        = Cardinality(dynamic_sockets)
  BY <1>2, <1>3
<1>7. Admits
  <2>1. /\ sockets' = WithSocket(FirstFree(Handles), total_conns + 1)
        /\ dynamic_sockets' = dynamic_sockets \cup {FirstFree(Handles)}
        /\ close_sockets' = close_sockets
        /\ todo' = Handles \cup {FirstFree(Handles)}
        /\ pc' = "visit"
    BY <1>1 DEF Admit
  <2>2. /\ dynamic_sockets \in SUBSET dynamic_sockets
        /\ Len(close_sockets) <= 1
        /\ Len(close_sockets) = 1
             => close_sockets[1] \in dynamic_sockets \ dynamic_sockets
    BY <1>3
  <2> QED
    BY <1>3, <1>4, <1>5, <1>6, <2>1, <2>2, Zenon DEF Admits
<1> QED
  BY <1>1, <1>7, InvAdmit

(* The arrival at the limit without preemption drops.                      *)
LEMMA InvArriveAtLimit ==
    ASSUME Inv, ArriveAtLimit
    PROVE  Inv'
<1>1. Arrive /\ ~workload.preempt /\ Drop(dynamic_sockets, close_sockets)
  <2>1. AtLimit \/ BelowLimit
    <3>1. workload.connections_dyn_max \in Nat
      BY NetworkClientAssumption DEF Inv, TypeOK
    <3>2. Cardinality(dynamic_sockets) \in Nat
      BY OpenAtArrival DEF ArriveAtLimit, Arrive
    <3> QED
      BY <3>1, <3>2 DEF AtLimit, BelowLimit, Inv, Bounds
  <2> QED
    BY <2>1 DEF ArriveAtLimit
<1>2. close_sockets = <<>>
  BY <1>1, OpenAtArrival DEF Arrive
<1>3. close_sockets \in Seq(Nat) /\ Len(close_sockets) = 0
  BY <1>2
<1>4. Drops
  <2>1. /\ dynamic_sockets' = dynamic_sockets
        /\ close_sockets' = close_sockets
        /\ todo' = Handles
        /\ pc' = "visit"
        /\ UNCHANGED sockets
    BY <1>1 DEF Drop
  <2>2. /\ Len(close_sockets) <= 1
        /\ Len(close_sockets) = 1 <=> workload.preempt
        /\ Len(close_sockets) = 1
             => close_sockets[1] \in Handles \ dynamic_sockets
    BY <1>1, <1>3
  <2> QED
    BY <1>3, <2>1, <2>2, Zenon DEF Drops
<1> QED
  BY <1>1, <1>4, InvDrop

(* A preemption admits when its victim was dynamic, and drops otherwise.   *)
LEMMA InvPreempt ==
    ASSUME Inv, NEW victim \in Handles, Preempt(victim)
    PROVE  Inv'
<1> USE NetworkClientAssumption
<1> DEFINE dynamic == dynamic_sockets \ {victim}
           closing == Append(close_sockets, victim)
<1>1. Arrive /\ AtLimit /\ workload.preempt
  BY DEF Preempt
<1>2. IF Cardinality(dynamic) < workload.connections_dyn_max
        THEN Admit(dynamic, closing) ELSE Drop(dynamic, closing)
  BY DEF Preempt
<1>3. /\ close_sockets = <<>>
      /\ IsFiniteSet(dynamic_sockets)
      /\ Cardinality(dynamic_sockets) \in Nat
  BY <1>1, OpenAtArrival DEF Arrive
<1>4. victim \in Nat /\ workload.connections_dyn_max \in Nat
  BY DEF Inv, TypeOK
<1>5. closing \in Seq(Nat) /\ Len(closing) = 1 /\ closing[1] = victim
  BY <1>3, <1>4
<1>6. Cardinality(dynamic) = IF victim \in dynamic_sockets
                               THEN Cardinality(dynamic_sockets) - 1
                               ELSE Cardinality(dynamic_sockets)
  BY <1>3, FS_RemoveElement
<1>7. Cardinality(dynamic_sockets) = workload.connections_dyn_max
  BY <1>1 DEF AtLimit
<1>8. CASE victim \in dynamic_sockets
  <2>1. /\ Cardinality(dynamic) < workload.connections_dyn_max
        /\ Cardinality(dynamic) + 1 = Cardinality(dynamic_sockets)
    BY <1>3, <1>4, <1>6, <1>7, <1>8
  <2>2. Admit(dynamic, closing)
    BY <1>2, <2>1
  <2>3. /\ dynamic \in SUBSET dynamic_sockets
        /\ \A h \in dynamic_sockets \ dynamic : closing[1] = h
        /\ closing[1] \in dynamic_sockets \ dynamic
    BY <1>5, <1>8
  <2>4. Admits
    <3>1. /\ sockets' = WithSocket(FirstFree(Handles), total_conns + 1)
          /\ dynamic_sockets' = dynamic \cup {FirstFree(Handles)}
          /\ close_sockets' = closing
          /\ todo' = Handles \cup {FirstFree(Handles)}
          /\ pc' = "visit"
      BY <2>2 DEF Admit
    <3> HIDE DEF dynamic, closing
    <3>2. /\ Cardinality(dynamic) + Len(closing) = Cardinality(dynamic_sockets)
          /\ Len(closing) <= 1
      BY <1>5, <2>1
    <3> QED
      BY <1>5, <2>1, <2>3, <3>1, <3>2, Zenon DEF Admits
  <2> QED
    BY <1>1, <2>4, InvAdmit
<1>9. CASE victim \notin dynamic_sockets
  <2>1. dynamic = dynamic_sockets
    BY <1>9
  <2>2. Drop(dynamic_sockets, closing)
    <3>1. ~(Cardinality(dynamic) < workload.connections_dyn_max)
      BY <1>4, <1>7, <2>1
    <3> HIDE DEF dynamic, closing
    <3>2. Drop(dynamic, closing)
      BY <1>2, <3>1, Zenon
    <3> QED
      BY <2>1, <3>2, Zenon
  <2>3. Drops
    <3>1. /\ dynamic_sockets' = dynamic_sockets
          /\ close_sockets' = closing
          /\ todo' = Handles
          /\ pc' = "visit"
          /\ UNCHANGED sockets
      BY <2>2 DEF Drop
    <3> HIDE DEF dynamic, closing
    <3>2. /\ Len(closing) <= 1
          /\ Len(closing) = 1 <=> workload.preempt
          /\ Len(closing) = 1 => closing[1] \in Handles \ dynamic_sockets
      BY <1>1, <1>5, <1>9
    <3> QED
      BY <1>5, <3>1, <3>2, Zenon DEF Drops
  <2> QED
    BY <1>1, <2>3, InvDrop
<1> QED
  BY <1>8, <1>9

-----------------------------------------------------------------------------
(* Every step of the client keeps the invariant.                           *)
THEOREM InvStep == Inv /\ [Next]_vars => Inv'
<1> USE NetworkClientAssumption
<1>0. SUFFICES ASSUME Inv, [Next]_vars PROVE Inv'
  OBVIOUS
<1>a. TypeOK /\ VisitedAll
  BY <1>0 DEF Inv
<1>b. pc \in {"arrive", "wait"} => close_sockets = <<>>
  BY <1>0 DEF Inv, Bounds
<1>1. CASE NoArrival
  BY <1>0, <1>1, <1>a, InvQuiet DEF NoArrival, TypeOK, VisitedAll, Handles
<1>2. CASE ArriveBelowLimit
  BY <1>0, <1>2, InvArriveBelowLimit
<1>3. CASE ArriveAtLimit
  BY <1>0, <1>3, InvArriveAtLimit
<1>4. CASE \E victim \in Handles : Preempt(victim)
  BY <1>0, <1>4, InvPreempt
<1>5. CASE ArrivePanic
  BY <1>0, <1>5, <1>a, InvQuiet DEF ArrivePanic, TypeOK, VisitedAll, Handles
<1>6. CASE Visit
  <2>1. PICK h \in todo : VisitExpired(h) \/ VisitAlive(h)
    BY <1>6 DEF Visit
  <2>2. CASE VisitExpired(h)
    BY <1>0, <2>2, InvVisitExpired
  <2>3. CASE VisitAlive(h)
    BY <1>0, <2>3, <1>a, <1>b, InvQuiet
       DEF VisitAlive, TypeOK, VisitedAll, Handles
  <2> QED
    BY <2>1, <2>2, <2>3
<1>7. CASE VisitDone
  BY <1>0, <1>7, <1>a, InvQuiet DEF VisitDone, TypeOK, VisitedAll, Handles
<1>8. CASE CloseNext
  BY <1>0, <1>8, InvCloseNext
<1>9. CASE CloseDone
  <2>1. \A delay \in PollDelays : WaitFor(delay) \in 0..WaitCap
    BY DEF WaitFor
  <2> QED
    BY <1>0, <1>9, <1>a, <2>1, InvQuiet
       DEF CloseDone, TypeOK, VisitedAll, Handles
<1>10. CASE WaitTimeout
  BY <1>0, <1>10, <1>a, <1>b, InvQuiet
     DEF WaitTimeout, TypeOK, VisitedAll, Handles
<1>11. CASE WaitPacket
  BY <1>0, <1>11, <1>a, <1>b, InvQuiet
     DEF WaitPacket, TypeOK, VisitedAll, Handles
<1>12. CASE ClockPanic
  BY <1>0, <1>12, <1>a, InvQuiet DEF ClockPanic, TypeOK, VisitedAll, Handles
<1>13. CASE UNCHANGED vars
  BY <1>0, <1>13, <1>a, <1>b, InvQuiet DEF vars, TypeOK, VisitedAll, Handles
<1> QED
  BY <1>0, <1>1, <1>2, <1>3, <1>4, <1>5, <1>6, <1>7, <1>8, <1>9, <1>10,
     <1>11, <1>12, <1>13 DEF Next, Panicked

(* The invariant holds in every state the client can reach.                *)
THEOREM InvAlways == Spec => []Inv
  BY InvInit, InvStep, PTL DEF Spec

(* The client's variables keep their types: handles are open sockets, the  *)
(* counter never leaves the naturals, phy_wait never gets a wait above the *)
(* cap.                                                                    *)
THEOREM TypeCorrect == Spec => []TypeOK
<1>1. Inv => TypeOK
  BY DEF Inv
<1> QED
  BY <1>1, InvAlways, PTL

(* SocketSet::remove never panics, whatever the order of preemptions and   *)
(* departures.                                                             *)
THEOREM RemovalsAlwaysValid == Spec => []RemovalsValid
<1>1. Inv => RemovalsValid
  BY DEF Inv
<1> QED
  BY <1>1, InvAlways, PTL

(* The limits hold and the slots of the SocketSet are bounded however long *)
(* the client runs.                                                        *)
THEOREM SlotsAlwaysBounded == Spec => []SlotsBounded
<1>1. Inv => SlotsBounded
  BY DEF Inv, Bounds, SlotsBounded
<1> QED
  BY <1>1, InvAlways, PTL

(* The u32 counter never underflows.                                       *)
THEOREM CounterAlwaysCovers == Spec => []CounterCovers
<1>1. Inv => CounterCovers
  BY DEF Inv
<1> QED
  BY <1>1, InvAlways, PTL

(* With preemption and no static connections, the counter is the number of *)
(* open connections.                                                       *)
THEOREM CounterAlwaysExact == Spec => []CounterExact
<1>1. Inv => CounterExact
  BY DEF Inv, CounterExact
<1> QED
  BY <1>1, InvAlways, PTL

(* Without preemption every static connection lives throughout the run.    *)
THEOREM StaticsAlwaysSurvive == Spec => []StaticsSurvive
<1>1. Inv => StaticsSurvive
  BY DEF Inv, StaticsKept, StaticsSurvive
<1> QED
  BY <1>1, InvAlways, PTL

(* The random index of a preemption always names a socket.                 *)
THEOREM VictimAlwaysFound == Spec => []VictimFound
<1>1. Inv => VictimFound
  <2>1. SUFFICES ASSUME Inv, AtLimit
                 PROVE  Cardinality(Handles) >= workload.connections_dyn_max
    BY DEF VictimFound
  <2>2. IsFiniteSet(Handles) /\ dynamic_sockets \in SUBSET Handles
    BY <2>1 DEF Inv, TypeOK
  <2>3. /\ Cardinality(dynamic_sockets) <= Cardinality(Handles)
        /\ Cardinality(dynamic_sockets) \in Nat
        /\ Cardinality(Handles) \in Nat
    BY <2>2, FS_Subset, FS_CardinalityType
  <2> QED
    BY <2>1, <2>3 DEF AtLimit
<1> QED
  BY <1>1, InvAlways, PTL

(* No connection is opened from the endpoint of an open static one, as     *)
(* long as there are ports and addresses.                                  *)
THEOREM StaticEndpointsAlwaysOwned == Spec => []StaticEndpointsOwned
<1>1. Inv => StaticEndpointsOwned
  <2>1. SUFFICES ASSUME Inv, RoomForEndpoints,
                        NEW h \in Handles, NEW k \in Handles,
                        OpenedStatic(h), Endpoint(h) = Endpoint(k)
                 PROVE  h = k
    BY DEF StaticEndpointsOwned
  <2>2. /\ sockets[h] \in 0..MaxConns /\ sockets[k] \in 0..MaxConns
        /\ sockets[h] = h
        /\ OpenedStatic(k) => sockets[k] = k
    BY <2>1, NetworkClientAssumption DEF Inv, TypeOK, Origins
  <2>3. sockets[h] = sockets[k]
    BY <2>1, <2>2, EndpointInjective, NetworkClientAssumption
       DEF RoomForEndpoints, Endpoint
  <2> QED
    BY <2>1, <2>2, <2>3 DEF OpenedStatic
<1> QED
  BY <1>1, InvAlways, PTL

-----------------------------------------------------------------------------
(* How many steps a turn of the loop has at most still to go before it     *)
(* waits: two for a socket to visit, which may have to be removed later,   *)
(* one for a handle to remove, one for the end of each pass.               *)
Remaining ==
    IF pc = "visit" THEN 2 * Cardinality(todo) + Len(close_sockets) + 2
    ELSE IF pc = "close" THEN Len(close_sockets) + 1 ELSE 0

LongestTurn ==
    2 * (workload.connections_static + workload.connections_dyn_max + 1) + 3

(* What LoopProgress rests on: a turn has a bounded number of steps, with  *)
(* the bound given by the configuration alone, and every step of it is one *)
(* towards its end.                                                        *)
TurnEnds ==
    [][/\ pc \in {"visit", "close"} => Remaining' < Remaining
       /\ pc = "arrive" => Remaining' <= LongestTurn]_vars

(* The first steps of a turn.                                              *)
LEMMA TurnBegins ==
    ASSUME Inv, Inv', pc = "arrive", pc' = "visit", workload' = workload,
           Len(close_sockets') <= 1
    PROVE  Remaining' <= LongestTurn
<1> DEFINE n == workload.connections_static + workload.connections_dyn_max
<1>1. n \in Nat /\ n + 1 \in Nat
  BY NetworkClientAssumption DEF Inv, TypeOK
<1>2. /\ IsFiniteSet(0..n) /\ Cardinality(0..n) = n + 1
  BY <1>1, FS_Interval
<1>3. todo' \subseteq 0..n
  BY DEF Inv, TypeOK, Bounds
<1>4. Cardinality(todo') \in Nat /\ Cardinality(todo') <= n + 1
  <2> HIDE DEF n
  <2>1. IsFiniteSet(todo') /\ Cardinality(todo') <= Cardinality(0..n)
    BY <1>2, <1>3, FS_Subset
  <2>2. Cardinality(todo') \in Nat
    BY <2>1, FS_CardinalityType
  <2> QED
    BY <1>2, <2>1, <2>2
<1>5. Len(close_sockets') \in Nat
  BY DEF Inv, TypeOK
<1>6. Remaining' = 2 * Cardinality(todo') + Len(close_sockets') + 2
  BY DEF Remaining
<1>7. LongestTurn = 2 * (n + 1) + 3
  BY DEF LongestTurn
<1> HIDE DEF n
<1> QED
  BY <1>1, <1>4, <1>5, <1>6, <1>7

(* The pass over the sockets and the removals.                             *)
LEMMA TurnGoesOn ==
    ASSUME Inv, Inv', Next, pc \in {"visit", "close"}
    PROVE  Remaining' < Remaining
<1>1. /\ IsFiniteSet(todo) /\ Cardinality(todo) \in Nat
      /\ close_sockets \in Seq(Nat) /\ Len(close_sockets) \in Nat
  <2>1. /\ IsFiniteSet(Handles) /\ todo \in SUBSET Handles
        /\ close_sockets \in Seq(Nat)
    BY DEF Inv, TypeOK
  <2> QED
    BY <2>1, FS_Subset, FS_CardinalityType
<1>2. CASE Visit
  <2>1. PICK h \in todo : VisitExpired(h) \/ VisitAlive(h)
    BY <1>2 DEF Visit
  <2>2. /\ pc = "visit" /\ pc' = "visit" /\ todo' = todo \ {h}
        /\ close_sockets' \in {close_sockets, Append(close_sockets, h)}
    BY <2>1 DEF VisitExpired, VisitAlive
  <2>3. /\ Cardinality(todo') = Cardinality(todo) - 1
        /\ Cardinality(todo') \in Nat
    BY <1>1, <2>2, FS_RemoveElement, FS_CardinalityType
  <2>4. h \in Nat
    BY DEF Inv, TypeOK
  <2>5. /\ Len(close_sockets') \in Nat
        /\ Len(close_sockets') <= Len(close_sockets) + 1
    BY <1>1, <2>2, <2>4
  <2>6. /\ Remaining = 2 * Cardinality(todo) + Len(close_sockets) + 2
        /\ Remaining' = 2 * Cardinality(todo') + Len(close_sockets') + 2
    BY <2>2 DEF Remaining
  <2> QED
    BY <1>1, <2>3, <2>5, <2>6
<1>3. CASE VisitDone
  <2>1. /\ pc = "visit" /\ pc' = "close" /\ todo = {}
        /\ close_sockets' = close_sockets
    BY <1>3 DEF VisitDone
  <2>2. Cardinality(todo) = 0
    BY <2>1, FS_EmptySet
  <2> QED
    BY <1>1, <2>1, <2>2 DEF Remaining
<1>4. CASE CloseNext
  <2>1. /\ pc = "close" /\ pc' = "close" /\ close_sockets # <<>>
        /\ close_sockets' = Tail(close_sockets)
    BY <1>4 DEF CloseNext
  <2>2. Len(close_sockets') = Len(close_sockets) - 1
    BY <1>1, <2>1
  <2> QED
    BY <1>1, <2>1, <2>2 DEF Remaining
<1>5. CASE CloseDone
  BY <1>1, <1>5 DEF CloseDone, Remaining
<1>6. CASE ClockPanic
  <2>1. pc' = "panicked"
    BY <1>6 DEF ClockPanic
  <2>2. Remaining' = 0 /\ Remaining > 0
    BY <1>1, <2>1 DEF Remaining
  <2> QED
    BY <2>2
<1> QED
  BY <1>2, <1>3, <1>4, <1>5, <1>6
     DEF Next, NoArrival, ArriveBelowLimit, ArriveAtLimit, Preempt, Arrive,
         ArrivePanic, WaitTimeout, WaitPacket, Panicked

(* A turn of the client's loop never takes more steps than the limits of   *)
(* its configuration allow, however many connections come and go.          *)
THEOREM TurnsAlwaysEnd == Spec => TurnEnds
<1>1. Inv /\ Inv' /\ [Next]_vars
        => [/\ pc \in {"visit", "close"} => Remaining' < Remaining
            /\ pc = "arrive" => Remaining' <= LongestTurn]_vars
  <2> SUFFICES ASSUME Inv, Inv', Next, pc = "arrive"
               PROVE  Remaining' <= LongestTurn
    BY TurnGoesOn
  <2>1. close_sockets = <<>> /\ Len(close_sockets) = 0
    BY DEF Inv, Bounds
  <2>2. CASE NoArrival \/ ArriveBelowLimit \/ ArriveAtLimit
    <3>1. /\ pc' = "visit" /\ workload' = workload
          /\ close_sockets' = close_sockets
      BY <2>2 DEF NoArrival, ArriveBelowLimit, ArriveAtLimit, Arrive, Admit, Drop
    <3> QED
      BY <2>1, <3>1, TurnBegins
  <2>3. ASSUME NEW victim \in Handles, Preempt(victim)
        PROVE  Remaining' <= LongestTurn
    <3>1. /\ pc' = "visit" /\ workload' = workload
          /\ close_sockets' = Append(close_sockets, victim)
      BY <2>3 DEF Preempt, Arrive, Admit, Drop
    <3>2. close_sockets \in Seq(Nat) /\ victim \in Nat
      BY DEF Inv, TypeOK
    <3>3. Len(close_sockets') = 1
      BY <2>1, <3>1, <3>2
    <3> QED
      BY <3>1, <3>3, TurnBegins
  <2>4. CASE ArrivePanic \/ ClockPanic
    <3>1. Remaining' = 0
      BY <2>4 DEF ArrivePanic, ClockPanic, Remaining
    <3>2. LongestTurn >= 0
      BY NetworkClientAssumption DEF LongestTurn, Inv, TypeOK
    <3> QED
      BY <3>1, <3>2
  <2> QED
    BY <2>2, <2>3, <2>4
       DEF Next, Visit, VisitExpired, VisitAlive, VisitDone, CloseNext,
           CloseDone, WaitTimeout, WaitPacket, Panicked
<1> QED
  BY <1>1, InvAlways, PTL DEF Spec, TurnEnds

-----------------------------------------------------------------------------
(* The client and the server together.  Each step of the composition is a  *)
(* step of the client or none of its business, so what was proved of the   *)
(* client holds here too.                                                  *)
LEMMA NetClientStep == [NetNext]_netvars => [Next]_vars
<1> SUFFICES ASSUME [NetNext]_netvars PROVE [Next]_vars
  OBVIOUS
<1>1. CASE ClientAlone
  BY <1>1 DEF ClientAlone, Next, Visit
<1>2. ASSUME NEW h \in todo, VisitSends(h) \/ VisitSilent(h) PROVE Next
  BY <1>2 DEF VisitSends, VisitSilent, Next, Visit
<1>3. CASE CloseVanishes \/ CloseUnnoticed
  BY <1>3 DEF CloseVanishes, CloseUnnoticed, Next
<1>4. CASE ServerBinds
  BY <1>4 DEF ServerBinds
<1>5. ASSUME NEW h \in Handles, Connect(h) \/ Refused(h) \/ Displace(h)
      PROVE  UNCHANGED vars
  BY <1>5 DEF Connect, Refused, Displace
<1>6. ASSUME NEW h \in Handles, NEW k \in Handles, Collide(h, k)
      PROVE  UNCHANGED vars
  BY <1>6 DEF Collide
<1>7. ASSUME NEW s \in Streams,
             Unreachable(s) \/ ServerAccepts(s) \/ ServerThread(s)
      PROVE  UNCHANGED vars
  BY <1>7 DEF Unreachable, ServerAccepts, ServerThread
<1>8. CASE UNCHANGED netvars
  BY <1>8 DEF netvars
<1> QED
  BY <1>1, <1>2, <1>3, <1>4, <1>5, <1>6, <1>7, <1>8 DEF NetNext

(* What was proved of the client holds of the composition.                 *)
THEOREM NetInvAlways == NetSpec => []Inv
<1>1. NetInit => Init
  BY DEF NetInit
<1>2. NetInit => Inv
  BY <1>1, InvInit
<1>3. Inv /\ [NetNext]_netvars => Inv'
  BY NetClientStep, InvStep
<1> QED
  BY <1>2, <1>3, PTL DEF NetSpec

(* The client of the composition is the client by itself: all that was     *)
(* proved of it holds next to the server.                                  *)
THEOREM NetRefinesClient == NetSpec => Spec
<1>1. NetInit => Init
  BY DEF NetInit
<1> QED
  BY <1>1, NetClientStep, PTL DEF NetSpec, Spec

(* The same for the server: this client is one of the peers NetworkServer  *)
(* is ready for, so its theorems hold of the server of this composition.   *)
LEMMA NetServerStep == [NetNext]_netvars => [S!Next]_(S!vars)
<1> SUFFICES ASSUME [NetNext]_netvars PROVE [S!Next]_(S!vars)
  OBVIOUS
<1>1. CASE ClientAlone \/ CloseUnnoticed
  BY <1>1 DEF ClientAlone, CloseUnnoticed, servervars, S!vars
<1>2. ASSUME NEW h \in todo, VisitSilent(h) PROVE UNCHANGED S!vars
  BY <1>2 DEF VisitSilent, servervars, S!vars
<1>3. ASSUME NEW h \in todo, VisitSends(h) PROVE S!Next
  BY <1>3 DEF VisitSends, Of, Streams, S!Next
<1>4. CASE CloseVanishes
  <2>1. PICK s \in Streams : S!Leave(s, "gone")
    BY <1>4 DEF CloseVanishes, Of
  <2> QED
    BY <2>1 DEF Streams, S!Next
<1>5. CASE ServerBinds
  BY <1>5 DEF ServerBinds, S!Next
<1>6. ASSUME NEW h \in Handles, Connect(h) PROVE S!Next
  BY <1>6 DEF Connect, Of, Streams, S!Next
<1>7. ASSUME NEW h \in Handles, Refused(h) PROVE UNCHANGED S!vars
  BY <1>7 DEF Refused, servervars, S!vars
<1>8. ASSUME NEW h \in Handles, Displace(h) PROVE S!Next
  BY <1>8 DEF Displace, Of, Streams, S!Next
<1>9. ASSUME NEW h \in Handles, NEW k \in Handles, Collide(h, k) PROVE S!Next
  <2>1. PICK s \in Streams : S!Leave(s, "reset")
    BY <1>9 DEF Collide, Of
  <2> QED
    BY <2>1 DEF Streams, S!Next
<1>10. ASSUME NEW s \in Streams,
              Unreachable(s) \/ ServerAccepts(s) \/ ServerThread(s)
       PROVE  S!Next
  BY <1>10 DEF Streams, Unreachable, ServerAccepts, ServerThread, S!Next
<1>11. CASE UNCHANGED netvars
  BY <1>11 DEF netvars, servervars, S!vars
<1> QED
  BY <1>1, <1>2, <1>3, <1>4, <1>5, <1>6, <1>7, <1>8, <1>9, <1>10, <1>11
     DEF NetNext

(* The client of this workload is a peer as NetworkServer assumes them.    *)
THEOREM NetRefinesServer == NetSpec => S!Spec
<1>1. NetInit => S!Init
  BY DEF NetInit
<1> QED
  BY <1>1, NetServerStep, PTL DEF NetSpec, S!Spec

-----------------------------------------------------------------------------
(* The kernel's table has no endpoint twice, however many threads the      *)
(* server still has for one, and only endpoints of sockets the client has, *)
(* or has had.                                                             *)
TableNamed ==
    /\ stream \in [Streams -> {"none", "backlog", "serving"}]
    /\ peer \in [Streams -> {"open", "fin", "reset", "gone", "ended"}]
    /\ \A s, r \in Streams :
         InTable(s) /\ InTable(r) /\ s[1] = r[1] => s = r
    /\ \A s \in Streams :
         InTable(s) =>
           /\ s[1] # workload.connections_static
           /\ workload.preempt =>
                s[1] <= workload.connections_static
                          + workload.connections_dyn_max + 1

(* Only the handshake adds a stream to the table, for a socket that is     *)
(* there and an endpoint that is not in it.                                *)
LEMMA TableNamedStep ==
    Inv /\ TableNamed /\ [NetNext]_netvars => TableNamed'
<1> SUFFICES ASSUME Inv, TableNamed, [NetNext]_netvars PROVE TableNamed'
  OBVIOUS
<1>0. workload' = workload
  BY NetClientStep
     DEF Next, vars, NoArrival, ArriveBelowLimit, ArriveAtLimit, Preempt,
         Arrive, ArrivePanic, Visit, VisitExpired, VisitAlive, VisitDone,
         CloseNext, CloseDone, WaitTimeout, WaitPacket, ClockPanic, Panicked
<1>1. CASE /\ stream' \in [Streams -> {"none", "backlog", "serving"}]
           /\ peer' \in [Streams -> {"open", "fin", "reset", "gone", "ended"}]
           /\ \A s \in Streams : InTable(s)' => InTable(s)
  BY <1>0, <1>1 DEF TableNamed
<1>2. CASE stream' = stream /\ peer' = peer
  BY <1>1, <1>2 DEF TableNamed, InTable, S!Established
<1>3. ASSUME NEW s \in Streams, NEW how \in {"gone", "reset"},
             stream' = stream, peer[s] \in {"open", "gone"},
             peer' = [peer EXCEPT ![s] = how]
      PROVE  TableNamed'
  <2>1. /\ peer' \in [Streams -> {"open", "fin", "reset", "gone", "ended"}]
        /\ \A r \in Streams : r # s => peer'[r] = peer[r]
    BY <1>3 DEF TableNamed
  <2>2. \A r \in Streams : InTable(r)' => InTable(r)
    BY <1>3, <2>1 DEF InTable, S!Established
  <2> QED
    BY <1>1, <1>3, <2>1, <2>2 DEF TableNamed
<1>4. ASSUME NEW h \in Handles, Connect(h) PROVE TableNamed'
  <2>1. PICK s \in Streams : s[1] = sockets[h] /\ S!Connect(s)
    BY <1>4 DEF Connect, Of
  <2>2. \A r \in Streams : r[1] = s[1] => ~InTable(r)
    BY <1>4, <2>1 DEF Connect, Of
  <2>3. /\ s[1] # workload.connections_static
        /\ workload.preempt =>
             s[1] <= workload.connections_static
                       + workload.connections_dyn_max + 1
    BY <2>1 DEF Inv, IndexesBounded
  <2>4. stream' = [stream EXCEPT ![s] = "backlog"] /\ peer' = peer
    BY <2>1 DEF S!Connect
  <2>5. /\ stream' \in [Streams -> {"none", "backlog", "serving"}]
        /\ \A r \in Streams : r # s => stream'[r] = stream[r]
    BY <2>4 DEF TableNamed
  <2>6. \A r \in Streams : InTable(r)' => r = s \/ InTable(r)
    BY <2>4, <2>5 DEF InTable, S!Established
  <2> QED
    BY <1>0, <2>2, <2>3, <2>4, <2>5, <2>6 DEF TableNamed
<1>5. ASSUME NEW s \in Streams, ServerAccepts(s) PROVE TableNamed'
  <2>1. CASE S!Accept(s)
    <3>1. /\ stream[s] = "backlog" /\ peer' = peer
          /\ stream' = [stream EXCEPT ![s] = "serving"]
      BY <2>1 DEF S!Accept
    <3>2. /\ stream' \in [Streams -> {"none", "backlog", "serving"}]
          /\ \A r \in Streams : r # s => stream'[r] = stream[r]
      BY <3>1 DEF TableNamed
    <3>3. \A r \in Streams : InTable(r)' => InTable(r)
      BY <3>1, <3>2 DEF InTable, S!Established
    <3> QED
      BY <1>1, <3>1, <3>2, <3>3 DEF TableNamed
  <2>2. CASE S!AcceptErr(s)
    BY <1>2, <2>2 DEF S!AcceptErr
  <2> QED
    BY <1>5, <2>1, <2>2 DEF ServerAccepts
<1>6. ASSUME NEW s \in Streams, ServerThread(s) PROVE TableNamed'
  <2>1. CASE S!ReadErr(s)
    <3>1. stream' = stream /\ peer' = [peer EXCEPT ![s] = "ended"]
      BY <2>1 DEF S!ReadErr
    <3>2. /\ peer' \in [Streams -> {"open", "fin", "reset", "gone", "ended"}]
          /\ peer'[s] = "ended"
          /\ \A r \in Streams : r # s => peer'[r] = peer[r]
      BY <3>1 DEF TableNamed
    <3>3. \A r \in Streams : InTable(r)' => InTable(r)
      BY <3>1, <3>2 DEF InTable, S!Established
    <3> QED
      BY <1>1, <3>1, <3>2, <3>3 DEF TableNamed
  <2>2. CASE S!EndThread(s)
    <3>1. /\ stream' = [stream EXCEPT ![s] = "none"]
          /\ peer' = [peer EXCEPT ![s] = "open"]
      BY <2>2 DEF S!EndThread
    <3>2. /\ stream' \in [Streams -> {"none", "backlog", "serving"}]
          /\ peer' \in [Streams -> {"open", "fin", "reset", "gone", "ended"}]
          /\ stream'[s] = "none"
          /\ \A r \in Streams :
               r # s => stream'[r] = stream[r] /\ peer'[r] = peer[r]
      BY <3>1 DEF TableNamed
    <3>3. \A r \in Streams : InTable(r)' => InTable(r)
      BY <3>2 DEF InTable, S!Established
    <3> QED
      BY <1>1, <3>2, <3>3
  <2>3. CASE stream' = stream /\ peer' = peer
    BY <1>2, <2>3
  <2> QED
    BY <1>6, <2>1, <2>2, <2>3
       DEF ServerThread, S!Thread, S!ReadLine, S!WriteErr, S!ReadEof
<1>7. ASSUME NEW s \in Streams, Unreachable(s) PROVE TableNamed'
  <2>1. /\ stream' = stream /\ peer[s] = "gone"
        /\ peer' = [peer EXCEPT ![s] = "reset"]
    BY <1>7 DEF Unreachable, S!Unreachable
  <2> QED
    BY <1>3, <2>1
<1>8. ASSUME NEW h \in Handles, Displace(h) PROVE TableNamed'
  <2>1. PICK s \in Streams : peer[s] = "gone" /\ S!Reset(s)
    BY <1>8 DEF Displace, Of
  <2>2. stream' = stream /\ peer' = [peer EXCEPT ![s] = "reset"]
    BY <2>1 DEF S!Reset
  <2> QED
    BY <1>3, <2>1, <2>2
<1>9. ASSUME NEW s \in Streams, NEW how \in {"gone", "reset"},
             S!Leave(s, how)
      PROVE  TableNamed'
  <2>1. /\ stream' = stream /\ peer[s] = "open"
        /\ peer' = [peer EXCEPT ![s] = how]
    BY <1>9 DEF S!Leave
  <2> QED
    BY <1>3, <2>1
<1>10. ASSUME NEW h \in Handles, NEW k \in Handles, Collide(h, k)
       PROVE  TableNamed'
  <2>1. PICK s \in Streams : S!Leave(s, "reset")
    BY <1>10 DEF Collide, Of
  <2> QED
    BY <1>9, <2>1
<1>11. CASE CloseVanishes
  <2>1. PICK s \in Streams : S!Leave(s, "gone")
    BY <1>11 DEF CloseVanishes, Of
  <2> QED
    BY <1>9, <2>1
<1>12. ASSUME NEW h \in todo, VisitSends(h) \/ VisitSilent(h)
       PROVE  TableNamed'
  BY <1>2, <1>12 DEF VisitSends, VisitSilent, S!Send, servervars
<1>13. ASSUME NEW h \in Handles, Refused(h) PROVE TableNamed'
  BY <1>2, <1>13 DEF Refused, servervars
<1>14. CASE \/ ClientAlone \/ CloseUnnoticed \/ ServerBinds
            \/ UNCHANGED netvars
  BY <1>2, <1>14 DEF ClientAlone, CloseUnnoticed, ServerBinds, S!Bind,
       S!BindErr, servervars, netvars
<1> QED
  BY <1>4, <1>5, <1>6, <1>7, <1>8, <1>10, <1>11, <1>12, <1>13, <1>14
     DEF NetNext

(* However often connections vanish, are displaced and come again, with    *)
(* preemption the kernel never has more than one stream beyond those the   *)
(* client may have at a time.  The streams of the table are counted by     *)
(* their endpoints, none of which is that of the index the counter skips.  *)
THEOREM StreamsAlwaysBounded == NetSpec => []StreamsBounded
<1>1. NetInit => TableNamed
  BY DEF NetInit, S!Init, TableNamed, InTable, S!Established, Streams
<1>2. Inv /\ TableNamed => StreamsBounded
  <2> SUFFICES ASSUME Inv, TableNamed, workload.preempt
               PROVE  Cardinality({s \in Streams : InTable(s)})
                        <= workload.connections_static
                             + workload.connections_dyn_max + 1
    BY DEF StreamsBounded
  <2> DEFINE static == workload.connections_static
             last == static + workload.connections_dyn_max + 1
             table == {s \in Streams : InTable(s)}
             endpoint == [s \in table |-> s[1]]
  <2>1. static \in Nat /\ last \in Nat /\ static <= last
    BY NetworkClientAssumption DEF Inv, TypeOK
  <2>2. \A s \in table : s[1] \in (0..last) \ {static}
    BY NetworkClientAssumption, <2>1 DEF TableNamed, Streams
  <2>3. \A s, r \in table : s[1] = r[1] => s = r
    BY DEF TableNamed
  <2> HIDE DEF static, last, table
  <2>4. endpoint \in Injection(table, (0..last) \ {static})
    BY <2>2, <2>3 DEF Injection, IsInjective
  <2>5. IsFiniteSet(0..last) /\ Cardinality(0..last) = last + 1
    BY <2>1, FS_Interval
  <2>6. /\ IsFiniteSet((0..last) \ {static})
        /\ Cardinality((0..last) \ {static}) = last
    <3>1. static \in 0..last
      BY <2>1
    <3>2. /\ IsFiniteSet((0..last) \ {static})
          /\ Cardinality((0..last) \ {static}) = Cardinality(0..last) - 1
      BY <2>5, <3>1, FS_RemoveElement
    <3> QED
      BY <2>1, <2>5, <3>2
  <2> HIDE DEF endpoint
  <2>7. Cardinality(table) <= last
    BY <2>4, <2>6, FS_Injection
  <2> QED
    BY <2>7 DEF table, last, static
<1> QED
  BY <1>1, <1>2, NetInvAlways, TableNamedStep, PTL DEF NetSpec
=============================================================================
