---------------------------- MODULE MCEndpoints ----------------------------
(* Small distributions of ports for TLC.                                   *)
EXTENDS Endpoints

Zipfian(n) == [kind |-> "zipf", n_ports |-> n]
Uniform(lo, hi) == [kind |-> "uniform", lower |-> lo, upper |-> hi]

(* One or two ports, none or one, and a range that is empty.               *)
SmallDistributions == {Zipfian(2), Uniform(0, 2), Uniform(2, 2)}
=============================================================================
