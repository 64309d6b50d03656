-------------------------- MODULE MCNetworkClient --------------------------
(* Small Workload::Network configurations for TLC.                         *)
EXTENDS NetworkClient

Network(static, dyn_max, per_addr, preempt) ==
    [connections_static |-> static, connections_dyn_max |-> dyn_max,
     conns_per_addr |-> per_addr, preempt |-> preempt, bad_rate |-> "none"]

BadRate(which) == [Network(1, 1, 2, TRUE) EXCEPT !.bad_rate = which]

(* No ports to an address, two, and one more than there are; no room for   *)
(* dynamic connections, room for one and for two; and the two rates that   *)
(* are refused.                                                            *)
AllWorkloads ==
    {Network(s, d, c, p) :
       s \in 0..2, d \in 0..2, c \in {0, 2, 5}, p \in BOOLEAN}
    \cup {BadRate("arrival"), BadRate("departure")}

(* Both kinds of connection, with and without preemption.                  *)
PreemptingWorkloads == {Network(1, 2, 2, TRUE)}
WaitingWorkloads == {Network(1, 2, 2, FALSE)}

(* Shorter and longer than the cap, and no delay at all.                   *)
Delays == {0, 3, NoDelay}
=============================================================================
