----------------------------- MODULE MCNetwork -----------------------------
(* Small workloads: one dynamic connection, with preemption; a static one  *)
(* that arrivals are dropped beside; one of each kind, and they send.      *)
EXTENDS Network

Conns(static, dyn_max, preempt, sends) ==
    [connections_static |-> static, connections_dyn_max |-> dyn_max,
     conns_per_addr |-> 2, preempt |-> preempt, bad_rate |-> "none",
     sends |-> sends]

SmallWorkloads ==
    {Conns(0, 1, TRUE, FALSE), Conns(1, 0, FALSE, FALSE),
     Conns(1, 1, FALSE, TRUE)}

(* Nothing is claimed of a run whose server process has ended, so what the *)
(* client does after that is not explored; and connections that send are   *)
(* kept fewer.                                                             *)
Explored ==
    /\ server # "panicked"
    /\ workload.sends => total_conns <= 2
=============================================================================
