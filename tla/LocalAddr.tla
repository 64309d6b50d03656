----------------------------- MODULE LocalAddr -----------------------------
(***************************************************************************)
(* get_local_addr_port of worker/network.rs: which local address and port  *)
(* the connection number `index' is opened from.  A u16 port and a u32     *)
(* address wrap around in the release build the Dockerfile ships; the      *)
(* widths are parameters so that TLC can reach the edges.                  *)
(***************************************************************************)
EXTENDS Integers

CONSTANTS PortBase,   \* 49152 in the code: the first port to be taken
          PortSpace,  \* 65536 in the code: how many values a u16 has
          BaseAddr,   \* the configured address, as a number
          AddrSpace   \* 4294967296 in the code: how many values a u32 has

ASSUME LocalAddrAssumption ==
    /\ PortBase \in Nat \ {0}
    /\ PortSpace \in Nat
    /\ PortBase < PortSpace
    /\ BaseAddr \in Nat
    /\ AddrSpace \in Nat
    /\ BaseAddr < AddrSpace

(* How many consecutive ports fit between PortBase and the end of the u16. *)
PortRoom == PortSpace - PortBase

(* The port cycles fastest; the base address itself is taken, so the first *)
(* group of connections gets the address after it.                         *)
from_base(conns_per_addr, index) ==
    [addr |-> (BaseAddr + (index \div conns_per_addr)) % AddrSpace,
     port |-> (PortBase + (index % conns_per_addr)) % PortSpace]

one_address(conns_per_addr, index) ==
    [addr |-> (BaseAddr + 1) % AddrSpace,
     port |-> (PortBase + (index % conns_per_addr)) % PortSpace]

one_too_few(conns_per_addr, index) ==
    [addr |-> (BaseAddr + ((index + 1) \div conns_per_addr) + 1) % AddrSpace,
     port |-> (PortBase + (index % conns_per_addr)) % PortSpace]

get_local_addr_port(conns_per_addr, index) ==
    [addr |-> (BaseAddr + (index \div conns_per_addr) + 1) % AddrSpace,
     port |-> (PortBase + (index % conns_per_addr)) % PortSpace]

(* smoltcp's connect refuses an unspecified local endpoint and the code    *)
(* unwraps the refusal; a conns_per_addr of zero panics before that, in    *)
(* the remainder.                                                          *)
Connectable(conns_per_addr, index) ==
    /\ conns_per_addr > 0
    /\ LET local == get_local_addr_port(conns_per_addr, index)
       IN  local.port # 0 /\ local.addr # 0

(* Every index up to `index' lies before the end of the address space.     *)
AddrRoom(conns_per_addr, index) ==
    BaseAddr + (index \div conns_per_addr) + 1 < AddrSpace
=============================================================================
