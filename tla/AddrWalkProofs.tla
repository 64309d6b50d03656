--------------------------- MODULE AddrWalkProofs ---------------------------
(***************************************************************************)
(* The closed form of get_local_addr_port is the walk of its comment, and  *)
(* no two connections of the walk share an endpoint, for every width of    *)
(* ports and addresses and every conns_per_addr that fits.                 *)
(***************************************************************************)
EXTENDS AddrWalk, FiniteSetTheorems, TLAPS

(* A number below the modulus is its own remainder.                        *)
LEMMA ModSmall ==
    ASSUME NEW m \in Nat, NEW n \in Nat, n < m
    PROVE  n % m = n
  OBVIOUS

(* A multiple of c and a rest below c are quotient and remainder.          *)
LEMMA DivModOf ==
    ASSUME NEW c \in Nat \ {0}, NEW q \in Nat, NEW r \in Nat, r < c,
           NEW n \in Nat, n = c * q + r
    PROVE  n \div c = q /\ n % c = r
<1>1. PICK d \in Nat, m \in Nat : d = n \div c /\ m = n % c
  OBVIOUS
<1>2. m < c /\ n = c * d + m
  BY <1>1
<1>3. ~(d > q)
  <2>1. SUFFICES ASSUME d > q PROVE FALSE
    OBVIOUS
  <2>2. PICK k \in Nat : d = q + 1 + k
    <3>1. d - q - 1 \in Nat /\ d = q + 1 + (d - q - 1)
      BY <2>1
    <3> QED
      BY <3>1
  <2>3. c * d = c * q + c + c * k /\ c * k >= 0
    BY <2>2
  <2> QED
    BY <1>2, <2>3
<1>4. ~(q > d)
  <2>1. SUFFICES ASSUME q > d PROVE FALSE
    OBVIOUS
  <2>2. PICK k \in Nat : q = d + 1 + k
    <3>1. q - d - 1 \in Nat /\ q = d + 1 + (q - d - 1)
      BY <2>1
    <3> QED
      BY <3>1
  <2>3. c * q = c * d + c + c * k /\ c * k >= 0
    BY <2>2
  <2> QED
    BY <1>2, <2>3
<1>5. d = q
  BY <1>3, <1>4
<1> QED
  BY <1>1, <1>2, <1>5

(* How quotient and remainder move when the index does.                    *)
LEMMA DivModStep ==
    ASSUME NEW c \in Nat \ {0}, NEW i \in Nat
    PROVE  /\ (i % c) + 1 < c => /\ (i + 1) \div c = i \div c
                                 /\ (i + 1) % c = (i % c) + 1
           /\ (i % c) + 1 = c => /\ (i + 1) \div c = (i \div c) + 1
                                 /\ (i + 1) % c = 0
<1>1. PICK q \in Nat, r \in Nat : q = i \div c /\ r = i % c
  OBVIOUS
<1>2. r < c /\ i = c * q + r
  BY <1>1
<1>3. ASSUME r + 1 < c PROVE (i + 1) \div c = q /\ (i + 1) % c = r + 1
  <2>1. PICK n \in Nat, s \in Nat : n = i + 1 /\ s = r + 1
    OBVIOUS
  <2>2. n = c * q + s /\ s < c
    BY <1>2, <1>3, <2>1
  <2>3. n \div c = q /\ n % c = s
    BY <2>2, DivModOf
  <2> QED
    BY <2>1, <2>3
<1>4. ASSUME r + 1 = c PROVE (i + 1) \div c = q + 1 /\ (i + 1) % c = 0
  <2>1. c * (q + 1) = c * q + c
    OBVIOUS
  <2>2. i + 1 = c * (q + 1) + 0 /\ i + 1 \in Nat /\ q + 1 \in Nat
    BY <1>2, <1>4, <2>1
  <2> QED
    BY <2>2, DivModOf
<1> QED
  BY <1>1, <1>3, <1>4

(* Where the walk is, in terms of quotient and remainder.                  *)
Position ==
    /\ addr = BaseAddr + 1 + (index \div conns_per_addr)
    /\ port = PortBase + (index % conns_per_addr)

WalkInv == TypeOK /\ Position

(* The walk starts at index zero, port PortBase and the first address.     *)
THEOREM WalkInvInit == Init => WalkInv
<1> SUFFICES ASSUME Init PROVE WalkInv
  OBVIOUS
<1>1. conns_per_addr \in 1..PortRoom
  BY AddrWalkAssumption DEF Init
<1>2. PortRoom \in Nat \ {0}
  BY LocalAddrAssumption DEF PortRoom
<1>3. \A c \in Nat \ {0} : 0 \div c = 0 /\ 0 % c = 0
  OBVIOUS
<1> QED
  BY <1>1, <1>2, <1>3, AddrWalkAssumption, LocalAddrAssumption
     DEF Init, WalkInv, TypeOK, Position

(* Both ways to the next connection keep quotient and remainder.           *)
THEOREM WalkInvStep == WalkInv /\ [Next]_vars => WalkInv'
<1> SUFFICES ASSUME WalkInv, [Next]_vars PROVE WalkInv'
  OBVIOUS
<1> USE AddrWalkAssumption, LocalAddrAssumption
<1>1. /\ conns_per_addr \in Nat \ {0} /\ conns_per_addr \in PerAddr
      /\ index \in Nat /\ index \in 0..MaxIndex
      /\ index % conns_per_addr \in Nat /\ index \div conns_per_addr \in Nat
      /\ index % conns_per_addr < conns_per_addr
  BY DEF WalkInv, TypeOK, PortRoom
<1>2. /\ port \in PortBase..(PortBase + conns_per_addr - 1)
      /\ addr \in (BaseAddr + 1)..(BaseAddr + 1 + index)
      /\ Position
  BY DEF WalkInv, TypeOK
<1>3. CASE NextPort
  <2>1. (index % conns_per_addr) + 1 < conns_per_addr
    BY <1>1, <1>2, <1>3 DEF NextPort, Position
  <2>2. /\ (index + 1) \div conns_per_addr = index \div conns_per_addr
        /\ (index + 1) % conns_per_addr = (index % conns_per_addr) + 1
    BY <1>1, <2>1, DivModStep
  <2>3. Position'
    BY <1>1, <1>2, <1>3, <2>2 DEF NextPort, Position
  <2>4. TypeOK'
    BY <1>1, <1>2, <1>3 DEF NextPort, TypeOK
  <2> QED
    BY <2>3, <2>4 DEF WalkInv
<1>4. CASE NextAddr
  <2>1. (index % conns_per_addr) + 1 = conns_per_addr
    BY <1>1, <1>2, <1>4 DEF NextAddr, Position
  <2>2. /\ (index + 1) \div conns_per_addr = (index \div conns_per_addr) + 1
        /\ (index + 1) % conns_per_addr = 0
    BY <1>1, <2>1, DivModStep
  <2>3. Position'
    BY <1>1, <1>2, <1>4, <2>2 DEF NextAddr, Position
  <2>4. TypeOK'
    BY <1>1, <1>2, <1>4 DEF NextAddr, TypeOK
  <2> QED
    BY <2>3, <2>4 DEF WalkInv
<1>5. CASE UNCHANGED vars
  BY <1>5 DEF vars, WalkInv, TypeOK, Position
<1> QED
  BY <1>3, <1>4, <1>5 DEF Next

(* At every point of the walk the code computes the endpoint it is at.     *)
LEMMA PositionIsClosedForm == WalkInv => ClosedForm
<1> SUFFICES ASSUME WalkInv PROVE ClosedForm
  OBVIOUS
<1> USE AddrWalkAssumption, LocalAddrAssumption
<1>1. /\ addr \in Nat /\ addr < AddrSpace
      /\ port \in Nat /\ port < PortSpace
  BY DEF WalkInv, TypeOK, PortRoom
<1>2. addr % AddrSpace = addr /\ port % PortSpace = port
  BY <1>1, ModSmall
<1>3. /\ index \in Nat /\ conns_per_addr \in Nat \ {0}
      /\ index \div conns_per_addr \in Nat
  BY DEF WalkInv, TypeOK, PortRoom
<1>4. /\ BaseAddr + (index \div conns_per_addr) + 1 = addr
      /\ PortBase + (index % conns_per_addr) = port
  BY <1>3 DEF WalkInv, Position
<1> QED
  BY <1>2, <1>4 DEF ClosedForm, get_local_addr_port

(* Every connection of the walk gets from the code the endpoint the        *)
(* comment promises it.                                                    *)
THEOREM ClosedFormCorrect == Spec => []ClosedForm
  BY WalkInvInit, WalkInvStep, PositionIsClosedForm, PTL DEF Spec

-----------------------------------------------------------------------------
(* The walk never goes back: the endpoints of the connections before are   *)
(* lexicographically smaller, and the ones on the same address are the     *)
(* last ones, a port each.                                                 *)
Before(i) ==
    LET e == get_local_addr_port(conns_per_addr, i)
    IN  /\ e.addr \in Nat /\ e.port \in Nat
        /\ \/ e.addr < addr
           \/ e.addr = addr /\ e.port < port

Group == {i \in 0..index : SameAddr(i)}

Forward ==
    /\ \A i \in 0..(index - 1) : Before(i)
    /\ Group = (index - (port - PortBase))..index

ForwardInv == WalkInv /\ Forward

(* The first connection has its address to itself.                         *)
LEMMA ForwardInit == Init => ForwardInv
<1> SUFFICES ASSUME Init PROVE ForwardInv
  OBVIOUS
<1>1. WalkInv /\ ClosedForm
  BY WalkInvInit, PositionIsClosedForm
<1>2. index = 0 /\ port = PortBase /\ port \in Nat
  BY LocalAddrAssumption DEF Init
<1>3. SameAddr(0)
  BY <1>1, <1>2 DEF ClosedForm, SameAddr
<1> QED
  BY <1>1, <1>2, <1>3 DEF ForwardInv, Forward, Group

(* The connection left behind was at the walk's own endpoint, so whatever  *)
(* the walk moves on to lies after it and after all the ones before it.    *)
LEMMA ForwardStep == ForwardInv /\ [Next]_vars => ForwardInv'
<1> SUFFICES ASSUME ForwardInv, [Next]_vars PROVE ForwardInv'
  OBVIOUS
<1> USE AddrWalkAssumption, LocalAddrAssumption
<1>1. WalkInv /\ WalkInv' /\ ClosedForm /\ ClosedForm' /\ Forward
  <2>1. WalkInv /\ WalkInv' /\ Forward
    BY WalkInvStep DEF ForwardInv
  <2>2. ClosedForm /\ ClosedForm'
    BY <2>1, PositionIsClosedForm, PTL
  <2> QED
    BY <2>1, <2>2
<1>2. /\ index \in Nat /\ port \in Nat /\ addr \in Nat
      /\ port \in PortBase..(PortBase + conns_per_addr - 1)
      /\ port - PortBase \in Nat /\ PortBase \in Nat
      /\ conns_per_addr \in Nat \ {0}
  BY <1>1 DEF WalkInv, TypeOK, PortRoom
<1>3. ASSUME conns_per_addr' = conns_per_addr, index' = index + 1,
             port' \in Nat, addr' \in Nat,
             \/ addr < addr'
             \/ addr = addr' /\ port < port'
      PROVE  \A i \in 0..(index' - 1) : Before(i)'
  <2> SUFFICES ASSUME NEW i \in 0..(index' - 1) PROVE Before(i)'
    OBVIOUS
  <2> DEFINE e == get_local_addr_port(conns_per_addr, i)
  <2>1. /\ e.addr \in Nat /\ e.port \in Nat
        /\ \/ e.addr < addr
           \/ e.addr = addr /\ e.port <= port
    <3>1. CASE i = index
      BY <1>1, <1>2, <3>1 DEF ClosedForm
    <3>2. CASE i \in 0..(index - 1)
      BY <1>1, <1>2, <3>2 DEF Forward, Before
    <3> QED
      BY <1>2, <1>3, <3>1, <3>2
  <2> HIDE DEF e
  <2>2. /\ e.addr \in Nat /\ e.port \in Nat
        /\ \/ e.addr < addr'
           \/ e.addr = addr' /\ e.port < port'
    BY <1>2, <1>3, <2>1
  <2> QED
    BY <1>3, <2>2 DEF Before, e
<1>4. CASE NextPort
  <2>1. /\ conns_per_addr' = conns_per_addr /\ index' = index + 1
        /\ port' = port + 1 /\ addr' = addr
    BY <1>4 DEF NextPort
  <2>2. \A i \in 0..(index' - 1) : Before(i)'
    BY <1>2, <1>3, <2>1
  <2>3. get_local_addr_port(conns_per_addr, index + 1).addr = addr'
    BY <1>1, <2>1 DEF ClosedForm
  <2>4. Group' = Group \cup {index + 1}
    BY <1>2, <2>1, <2>3 DEF Group, SameAddr
  <2>5. Group' = (index' - (port' - PortBase))..index'
    <3>1. Group = (index - (port - PortBase))..index
      BY <1>1 DEF Forward
    <3>2. index' - (port' - PortBase) = index - (port - PortBase)
      BY <1>2, <2>1
    <3> QED
      BY <1>2, <2>1, <2>4, <3>1, <3>2
  <2> QED
    BY <1>1, <2>2, <2>5 DEF ForwardInv, Forward
<1>5. CASE NextAddr
  <2>1. /\ conns_per_addr' = conns_per_addr /\ index' = index + 1
        /\ port' = PortBase /\ addr' = addr + 1
    BY <1>5 DEF NextAddr
  <2>2. \A i \in 0..(index' - 1) : Before(i)'
    BY <1>2, <1>3, <2>1
  <2>3. get_local_addr_port(conns_per_addr, index + 1).addr = addr'
    BY <1>1, <2>1 DEF ClosedForm
  <2>4. \A i \in 0..index :
           get_local_addr_port(conns_per_addr, i).addr # addr'
    <3>1. \A i \in 0..(index - 1) :
             get_local_addr_port(conns_per_addr, i).addr # addr'
      BY <1>1, <1>2, <2>1 DEF Forward, Before
    <3>2. get_local_addr_port(conns_per_addr, index).addr # addr'
      BY <1>1, <1>2, <2>1 DEF ClosedForm
    <3> QED
      BY <1>2, <3>1, <3>2
  <2>5. Group' = {index + 1}
    BY <1>2, <2>1, <2>3, <2>4 DEF Group, SameAddr
  <2> QED
    BY <1>1, <1>2, <2>1, <2>2, <2>5 DEF ForwardInv, Forward
<1>6. CASE UNCHANGED vars
  BY <1>1, <1>6
     DEF vars, ForwardInv, Forward, Before, Group, SameAddr
<1> QED
  BY <1>4, <1>5, <1>6 DEF Next

(* No two connections of the walk are opened from the same endpoint.       *)
THEOREM EndpointsAlwaysUnique == Spec => []EndpointsUnique
<1>1. ForwardInv => EndpointsUnique
  <2> SUFFICES ASSUME ForwardInv, NEW i \in 0..(index - 1),
                      get_local_addr_port(conns_per_addr, i)
                        = get_local_addr_port(conns_per_addr, index)
               PROVE  FALSE
    BY DEF EndpointsUnique
  <2>1. get_local_addr_port(conns_per_addr, i) = [addr |-> addr, port |-> port]
    BY PositionIsClosedForm DEF ForwardInv, ClosedForm
  <2>2. Before(i)
    BY DEF ForwardInv, Forward
  <2> QED
    BY <2>1, <2>2 DEF Before
<1> QED
  BY <1>1, ForwardInit, ForwardStep, PTL DEF Spec

(* An address is left exactly when conns_per_addr connections have it, as  *)
(* the comment on the parameter says.                                      *)
THEOREM GroupsAlwaysFull == Spec => GroupsFull
<1>1. ForwardInv /\ [Next]_vars
        => [addr' # addr => Cardinality(Group) = conns_per_addr]_vars
  <2> SUFFICES ASSUME ForwardInv, NextAddr
               PROVE  Cardinality(Group) = conns_per_addr
    BY DEF Next, NextPort, vars
  <2>1. /\ index \in Nat /\ port \in Nat /\ PortBase \in Nat
        /\ conns_per_addr \in Nat \ {0}
        /\ port - PortBase = conns_per_addr - 1
    BY AddrWalkAssumption, LocalAddrAssumption
       DEF NextAddr, ForwardInv, WalkInv, TypeOK, PortRoom
  <2>2. Group = (index - (conns_per_addr - 1))..index
    BY <2>1 DEF ForwardInv, Forward
  <2>3. /\ index - (conns_per_addr - 1) \in Int /\ index \in Int
        /\ ~(index - (conns_per_addr - 1) > index)
        /\ index - (index - (conns_per_addr - 1)) + 1 = conns_per_addr
    BY <2>1
  <2> QED
    BY <2>2, <2>3, FS_Interval
<1> QED
  BY <1>1, ForwardInit, ForwardStep, PTL DEF Spec, GroupsFull, Group
=============================================================================
