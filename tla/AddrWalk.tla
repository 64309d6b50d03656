------------------------------ MODULE AddrWalk ------------------------------
(***************************************************************************)
(* What the comment of get_local_addr_port (worker/network.rs, lines       *)
(* 373-382) promises, as a walk over the connections in the order of their *)
(* indexes: the port is incremented conns_per_addr times, then the address *)
(* once.  The invariants compare the closed form of the code with it.      *)
(***************************************************************************)
EXTENDS LocalAddr, FiniteSets

CONSTANTS PerAddr,   \* the values of conns_per_addr to walk with
          MaxIndex   \* bound of the model on index

ASSUME AddrWalkAssumption ==
    /\ PerAddr \subseteq 1..PortRoom
    /\ MaxIndex \in Nat
    /\ BaseAddr + MaxIndex + 1 < AddrSpace

VARIABLES conns_per_addr, index, addr, port

vars == <<conns_per_addr, index, addr, port>>

(* "starting from 10.0.0.2 (remember, 10.0.0.1 is the base address)".      *)
Init ==
    /\ conns_per_addr \in PerAddr
    /\ index = 0
    /\ addr = BaseAddr + 1
    /\ port = PortBase

(* The next connection shares the address and takes the next port.         *)
NextPort ==
    /\ index < MaxIndex
    /\ port + 1 < PortBase + conns_per_addr
    /\ index' = index + 1
    /\ port' = port + 1
    /\ UNCHANGED <<conns_per_addr, addr>>

(* The address has its conns_per_addr connections: on to the next one.     *)
NextAddr ==
    /\ index < MaxIndex
    /\ port + 1 = PortBase + conns_per_addr
    /\ index' = index + 1
    /\ port' = PortBase
    /\ addr' = addr + 1
    /\ UNCHANGED conns_per_addr

Next == NextPort \/ NextAddr

Spec == Init /\ [][Next]_vars

-----------------------------------------------------------------------------
(* The walk stays in the ports and addresses there are.                    *)
TypeOK ==
    /\ conns_per_addr \in PerAddr
    /\ index \in 0..MaxIndex
    /\ port \in PortBase..(PortBase + conns_per_addr - 1)
    /\ addr \in (BaseAddr + 1)..(BaseAddr + 1 + index)

(* Quotient and remainder of the code give the endpoint the comment        *)
(* describes, for every connection of the walk.                            *)
ClosedForm ==
    get_local_addr_port(conns_per_addr, index) = [addr |-> addr, port |-> port]

(* Connections with different indexes have different local endpoints, so   *)
(* they are different TCP connections to the one target of the client.     *)
EndpointsUnique ==
    \A i \in 0..(index - 1) :
       get_local_addr_port(conns_per_addr, i)
         # get_local_addr_port(conns_per_addr, index)

SameAddr(i) == get_local_addr_port(conns_per_addr, i).addr = addr

(* "conns_per_addr - how many connections are going to share the same IP   *)
(* address": an address is left exactly when so many connections have it.  *)
GroupsFull ==
    [][addr' # addr
         => Cardinality({i \in 0..index : SameAddr(i)}) = conns_per_addr]_vars
=============================================================================
