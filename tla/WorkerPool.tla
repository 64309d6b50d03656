----------------------------- MODULE WorkerPool -----------------------------
(***************************************************************************)
(* What main.rs promises of its worker processes, in the words of its      *)
(* header: spawn the workers, and "wait for all the workers to finish".    *)
(* How they are told to stop, and by whom, is left open.  Main may fail to *)
(* set up what it waits with, and then says so by the way it ends.         *)
(***************************************************************************)
CONSTANT Worker

VARIABLES worker,  \* the life of each worker process
          outcome  \* main's: "pending", "returned" or "aborted"

vars == <<worker, outcome>>

Init ==
    /\ worker = [w \in Worker |-> "unborn"]
    /\ outcome = "pending"

Spawn(w) ==
    /\ outcome = "pending"
    /\ worker[w] = "unborn"
    /\ worker' = [worker EXCEPT ![w] = "running"]
    /\ UNCHANGED outcome

(* A worker that could not be forked is over before it began.              *)
Miss(w) ==
    /\ outcome = "pending"
    /\ worker[w] = "unborn"
    /\ worker' = [worker EXCEPT ![w] = "over"]
    /\ UNCHANGED outcome

Finish(w) ==
    /\ outcome = "pending"
    /\ worker[w] = "running"
    /\ worker' = [worker EXCEPT ![w] = "over"]
    /\ UNCHANGED outcome

Return ==
    /\ outcome = "pending"
    /\ \A w \in Worker : worker[w] = "over"
    /\ outcome' = "returned"
    /\ UNCHANGED worker

(* All workers are spawned, but there is nobody to wait for them; nor will *)
(* anybody from now on.                                                    *)
Abort ==
    /\ outcome = "pending"
    /\ \A w \in Worker : worker[w] # "unborn"
    /\ outcome' = "aborted"
    /\ UNCHANGED worker

Next ==
    \/ \E w \in Worker : Spawn(w) \/ Miss(w) \/ Finish(w)
    \/ Return \/ Abort

Spec == Init /\ [][Next]_vars
=============================================================================
