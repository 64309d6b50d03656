------------------------------ MODULE Callers ------------------------------
(***************************************************************************)
(* The workloads that are nothing but system calls.  The run_payload       *)
(* functions of the syscalls and the io_uring workloads                    *)
(* (worker/syscalls/mod.rs, worker/io_uring/mod.rs) are the same loop: set *)
(* up a caller, then call it again and again, at once with tight_loop and  *)
(* after a random interval without.  What differs is what a caller takes   *)
(* from the kernel and gives back:                                         *)
(*                                                                         *)
(*   plain        nothing (setuid, chmod, prctl, unlink, DummyCall, ...)   *)
(*   transient    one object per call, released in the call (open, openat, *)
(*                socket)                                                  *)
(*   mmap         the same, but the release may fail, and Drop closes the  *)
(*                descriptor of the configuration                          *)
(*   mount        the same, and the release may fail: umount2 is called    *)
(*                without its flags, so their value is what the register   *)
(*                holds                                                    *)
(*   remount      mount with flags that mount nothing and only change what *)
(*                is mounted there, as the default MS_PRIVATE does; umount2*)
(*                follows all the same                                     *)
(*   held         one descriptor for all calls (listen, connect, ioctl)    *)
(*   accept       one descriptor for all calls, and one more per call      *)
(*   uring_open   a ring, and a descriptor per completion (openat, openat2)*)
(*   uring_plain  a ring (statx, unlinkat)                                 *)
(*   unsupported  an io_uring number without a caller, or a number that is *)
(*                no system call                                           *)
(*                                                                         *)
(* The bpf workload (worker/bpf.rs) is the kind `bpf' here: it takes the   *)
(* same objects, a program, a perf event and a link in each of nprogs      *)
(* turns, but only once, looks at no result, and parks for ever.           *)
(*                                                                         *)
(* Descriptors, mappings and mounts are numbers of one table, the kernel's *)
(* limit on them; what was there before the worker, and is not its own, is *)
(* `foreign'.  The worker is one thread; the kernel's side of the ring runs*)
(* concurrently with it.  (Of several workers that mount on one target each*)
(* drops one mount per call, its own or another's.)                        *)
(***************************************************************************)
EXTENDS Integers, Sequences

CONSTANTS Kinds,          \* the kinds of callers to run
          TableSize,      \* the kernel's limit (RLIMIT_NOFILE and others)
          MaxInterrupts,  \* bound of the model on interrupted waits
          MaxProgs,       \* nprogs goes up to this number
          NameRoom        \* 10^6: from there on "berserker{i}" fills the name

KnownKinds == {"plain", "transient", "mmap", "mount", "remount", "held",
               "accept", "uring_open", "uring_plain", "unsupported", "bpf"}

(* Descriptor 0, the descriptor mmap was configured with, and what was     *)
(* mounted on the target of mount.                                         *)
Things == {"stdin", "configured_fd", "mounted"}

ASSUME CallersAssumption ==
    /\ Kinds \subseteq KnownKinds
    /\ TableSize \in Nat
    /\ MaxInterrupts \in Nat
    /\ MaxProgs \in Nat
    /\ NameRoom \in Nat

VARIABLES
    caller,      \* the kind of caller of this worker
    rate,        \* arrival_rate: "negative", "zero" or "positive"
    tight_loop,  \* the flag of the configuration
    pc,          \* where in run_payload the worker is
    taken,       \* the objects of the table that are in use
    held,        \* sockfd, fd or the ring: 0 until init has set it
    current,     \* what the running call has taken, 0 for nothing
    left,        \* objects that calls have left behind
    foreign,     \* the Things that are still there
    sq,          \* entries in the submission queue, which has room for one
    inflight,    \* entries the kernel works on
    cq,          \* the completion queue: descriptors, 0 for any other result
    interrupts,  \* waits that came back without a completion
    invoked,     \* the last call of the caller has reached the kernel
    nprogs,      \* the number of programs of the bpf workload
    turn,        \* its loop variable i
    prog,        \* its prog_fd, 0 for the -1 of a failed load
    event,       \* its perf_event_fd, 0 likewise
    links        \* the links the kernel has made for it

config == <<caller, rate, tight_loop>>
ring == <<sq, inflight, cq, interrupts>>
bpf == <<nprogs, turn, prog, event, links>>
vars == <<config, bpf, pc, taken, held, current, left, foreign, ring,
          invoked>>

Table == 1..TableSize
Free == Table \ taken

IsUring == caller \in {"uring_open", "uring_plain"}
NeedsHeld == caller \in {"held", "accept"} \/ IsUring

(* The descriptors in completions that nobody has looked at.               *)
Unread == {cq[i] : i \in DOMAIN cq} \ {0}

Init ==
    /\ caller \in Kinds
    /\ rate \in {"negative", "zero", "positive"}
    /\ tight_loop \in BOOLEAN
    /\ pc = "init"
    /\ taken = {}
    /\ held = 0
    /\ current = 0
    /\ left = {}
    /\ foreign = Things
    /\ sq = 0
    /\ inflight = 0
    /\ cq = <<>>
    /\ interrupts = 0
    /\ invoked = FALSE
    /\ nprogs \in IF caller = "bpf" THEN 0..MaxProgs ELSE {0}
    /\ turn = 0 /\ prog = 0 /\ event = 0
    /\ links = {}

-----------------------------------------------------------------------------
(* Set-up.  The io_uring callers have an empty init; the ring follows it.  *)

InitNone ==
    /\ pc = "init"
    /\ ~NeedsHeld /\ caller \notin {"unsupported", "bpf"}
    /\ pc' = "rate"
    /\ UNCHANGED <<config, foreign, bpf, taken, held, current, left, ring,
                   invoked>>

InitHeldClosed(fd) ==
    /\ pc = "init"
    /\ NeedsHeld
    /\ fd \in Free
    /\ held' = fd
    /\ pc' = "rate"
    /\ UNCHANGED <<config, foreign, bpf, taken, current, left, ring, invoked>>

InitHeld(fd) ==
    /\ pc = "init"
    /\ NeedsHeld
    /\ fd \in Free
    /\ held' = fd
    /\ taken' = taken \cup {fd}
    /\ pc' = "rate"
    /\ UNCHANGED <<config, foreign, bpf, current, left, ring, invoked>>

(* init returns an error, there is no caller for the number, or IoUring::  *)
(* new is unwrapped.  main unwraps the error of run_payload: the worker    *)
(* process ends.  The caller is dropped first, and Drop closes its sockfd  *)
(* or fd: when nothing was opened, that is descriptor 0.  accept may have  *)
(* opened its socket, and only its listen failed.                          *)
InitErr ==
    /\ pc = "init"
    /\ NeedsHeld \/ caller = "unsupported"
    /\ pc' = "ended"
    /\ \/ caller \in {"held", "accept"} /\ foreign' = foreign \ {"stdin"}
       \/ caller # "held" /\ UNCHANGED foreign
    /\ UNCHANGED <<config, bpf, taken, held, current, left, ring, invoked>>

(* Exp::new is unwrapped; the panic drops the caller, which closes what it *)
(* holds, or the descriptor mmap was configured with, if any.              *)
RatePanic ==
    /\ pc = "rate"
    /\ rate = "negative"
    /\ pc' = "ended"
    /\ taken' = taken \ {held}
    /\ held' = 0
    /\ \/ UNCHANGED foreign
       \/ caller = "mmap" /\ foreign' = foreign \ {"configured_fd"}
    /\ UNCHANGED <<config, bpf, current, left, ring, invoked>>

RateOk ==
    /\ pc = "rate"
    /\ rate # "negative"
    /\ pc' = "call"
    /\ UNCHANGED <<config, foreign, bpf, taken, held, current, left, ring,
                   invoked>>

-----------------------------------------------------------------------------
(* The callers of the syscalls workload.  Success and failure of a call    *)
(* that takes nothing are both only logged.                                *)

Return(reached) ==
    /\ pc' = "returned"
    /\ invoked' = reached

CallPlain ==
    /\ pc = "call"
    /\ ~IsUring
    /\ Return(TRUE)
    /\ UNCHANGED <<config, foreign, bpf, taken, held, current, left, ring>>

CallTake(fd) ==
    /\ pc = "call"
    /\ caller \in {"transient", "mmap", "mount"}
    /\ fd \in Free
    /\ taken' = taken \cup {fd}
    /\ current' = fd
    /\ pc' = "release"
    /\ UNCHANGED <<config, foreign, bpf, held, left, ring, invoked>>

(* mount reports success for a change of what is mounted there.            *)
CallChange ==
    /\ pc = "call"
    /\ caller = "remount"
    /\ "mounted" \in foreign
    /\ pc' = "release"
    /\ UNCHANGED <<config, foreign, bpf, taken, held, current, left, ring,
                   invoked>>

ReleaseForgotten ==
    /\ pc = "release"
    /\ current' = 0
    /\ Return(TRUE)
    /\ UNCHANGED <<config, foreign, bpf, taken, held, left, ring>>

(* close, munmap or umount2.  When the call has taken nothing the umount2  *)
(* drops what was mounted there before.                                    *)
Release ==
    /\ pc = "release"
    /\ taken' = taken \ {current}
    /\ foreign' = IF current = 0 THEN foreign \ {"mounted"} ELSE foreign
    /\ current' = 0
    /\ Return(TRUE)
    /\ UNCHANGED <<config, bpf, held, left, ring>>

ReleaseErr ==
    /\ pc = "release"
    /\ caller # "transient"
    /\ left' = left \cup ({current} \ {0})
    /\ current' = 0
    /\ Return(TRUE)
    /\ UNCHANGED <<config, foreign, bpf, taken, held, ring>>

(* The descriptor of an accepted connection is not closed by anyone.       *)
CallAccept(fd) ==
    /\ pc = "call"
    /\ caller = "accept"
    /\ fd \in Free
    /\ taken' = taken \cup {fd}
    /\ left' = left \cup {fd}
    /\ Return(TRUE)
    /\ UNCHANGED <<config, foreign, bpf, held, current, ring>>

-----------------------------------------------------------------------------
(* submit of the io_uring callers: push, submit_and_wait(1), completion.   *)

(* The queue holds an entry an earlier submission has left there.          *)
PushFull ==
    /\ pc = "call"
    /\ IsUring
    /\ sq > 0
    /\ Return(FALSE)
    /\ UNCHANGED <<config, foreign, bpf, taken, held, current, left, ring>>

Push ==
    /\ pc = "call"
    /\ IsUring
    /\ sq = 0
    /\ sq' = 1
    /\ pc' = "enter"
    /\ UNCHANGED <<config, foreign, bpf, taken, held, current, left,
                   inflight, cq, interrupts, invoked>>

(* io_uring_enter fails before it takes the entry (EAGAIN, ENOMEM, EBUSY): *)
(* submit returns, the entry stays in the queue.                           *)
EnterErr ==
    /\ pc = "enter"
    /\ Return(FALSE)
    /\ UNCHANGED <<config, foreign, bpf, taken, held, current, left, ring>>

Enter ==
    /\ pc = "enter"
    /\ sq' = 0
    /\ inflight' = inflight + 1
    /\ pc' = "wait"
    /\ UNCHANGED <<config, foreign, bpf, taken, held, current, left, cq,
                   interrupts, invoked>>

(* The kernel finishes an entry, at any time after it was submitted.       *)
CompleteOpen(fd) ==
    /\ inflight > 0
    /\ caller = "uring_open"
    /\ pc # "ended"
    /\ fd \in Free
    /\ taken' = taken \cup {fd}
    /\ inflight' = inflight - 1
    /\ cq' = Append(cq, fd)
    /\ UNCHANGED <<config, foreign, bpf, pc, held, current, left, sq,
                   interrupts, invoked>>

CompleteOther ==
    /\ inflight > 0
    /\ pc # "ended"
    /\ inflight' = inflight - 1
    /\ cq' = Append(cq, 0)
    /\ UNCHANGED <<config, foreign, bpf, pc, taken, held, current, left, sq,
                   interrupts, invoked>>

WaitForTwo ==
    /\ pc = "wait"
    /\ Len(cq) >= 2
    /\ pc' = "reap"
    /\ UNCHANGED <<config, foreign, bpf, taken, held, current, left, ring,
                   invoked>>

WaitOver ==
    /\ pc = "wait"
    /\ cq # <<>>
    /\ pc' = "reap"
    /\ UNCHANGED <<config, foreign, bpf, taken, held, current, left, ring,
                   invoked>>

(* A stop and continue, or another signal, ends the wait.  The entry was   *)
(* submitted, so io_uring_enter reports success.                           *)
WaitInterrupted ==
    /\ pc = "wait"
    /\ interrupts < MaxInterrupts
    /\ pc' = "reap"
    /\ UNCHANGED <<config, foreign, bpf, taken, held, current, left, ring,
                   invoked>>

(* The oldest completion is taken for the one just submitted; a descriptor *)
(* in it is closed.                                                        *)
ReapAll ==
    /\ pc = "reap"
    /\ cq # <<>>
    /\ taken' = taken \ Unread
    /\ cq' = <<>>
    /\ Return(TRUE)
    /\ UNCHANGED <<config, foreign, bpf, held, current, left, sq, inflight,
                   interrupts>>

Reap ==
    /\ pc = "reap"
    /\ cq # <<>>
    /\ taken' = taken \ {Head(cq)}
    /\ cq' = Tail(cq)
    /\ Return(TRUE)
    /\ UNCHANGED <<config, foreign, bpf, held, current, left, sq, inflight,
                   interrupts>>

ReapNone ==
    /\ pc = "reap"
    /\ cq = <<>>
    /\ interrupts' = interrupts + 1
    /\ Return(TRUE)
    /\ UNCHANGED <<config, foreign, bpf, taken, held, current, left, sq,
                   inflight, cq>>

-----------------------------------------------------------------------------
(* run_payload of the bpf workload.  Its attributes are prepared once.     *)
BpfPrepare ==
    /\ pc = "init"
    /\ caller = "bpf"
    /\ pc' = "load"
    /\ UNCHANGED <<config, foreign, bpf, taken, held, current, left, ring,
                   invoked>>

(* BPF_PROG_LOAD.  The kernel wants a NUL among the 16 bytes of the name.  *)
BpfLoad(fd) ==
    /\ pc = "load"
    /\ turn < nprogs
    /\ turn < NameRoom
    /\ fd \in Free
    /\ prog' = fd
    /\ taken' = taken \cup {fd}
    /\ left' = left \cup {fd}
    /\ pc' = "event"
    /\ UNCHANGED <<config, foreign, nprogs, turn, event, links, held,
                   current, ring, invoked>>

BpfLoadErrKept ==
    /\ pc = "load"
    /\ turn < nprogs
    /\ pc' = "event"
    /\ UNCHANGED <<config, foreign, bpf, taken, held, current, left, ring,
                   invoked>>

(* A refused load is not looked at: the -1 replaces the last program.      *)
BpfLoadErr ==
    /\ pc = "load"
    /\ turn < nprogs
    /\ prog' = 0
    /\ pc' = "event"
    /\ UNCHANGED <<config, foreign, nprogs, turn, event, links, taken, held,
                   current, left, ring, invoked>>

(* perf_event_open, done also for a program that was not loaded.           *)
BpfEvent(fd) ==
    /\ pc = "event"
    /\ fd \in Free
    /\ event' = fd
    /\ taken' = taken \cup {fd}
    /\ left' = left \cup {fd}
    /\ pc' = "link"
    /\ UNCHANGED <<config, foreign, nprogs, turn, prog, links, held, current,
                   ring, invoked>>

BpfEventErr ==
    /\ pc = "event"
    /\ event' = 0
    /\ pc' = "link"
    /\ UNCHANGED <<config, foreign, nprogs, turn, prog, links, taken, held,
                   current, left, ring, invoked>>

(* BPF_LINK_CREATE.  The kernel refuses a descriptor of -1, and may refuse *)
(* any other; the result is dropped.                                       *)
BpfLink(fd) ==
    /\ pc = "link"
    /\ prog # 0 /\ event # 0
    /\ fd \in Free
    /\ links' = links \cup {[prog |-> prog, event |-> event, link |-> fd]}
    /\ taken' = taken \cup {fd}
    /\ left' = left \cup {fd}
    /\ turn' = turn + 1
    /\ pc' = "load"
    /\ UNCHANGED <<config, foreign, nprogs, prog, event, held, current, ring,
                   invoked>>

BpfLinkErr ==
    /\ pc = "link"
    /\ turn' = turn + 1
    /\ pc' = "load"
    /\ UNCHANGED <<config, foreign, nprogs, prog, event, links, taken, held,
                   current, left, ring, invoked>>

(* "We don't recreate those programs, and just let them live for the       *)
(* duration of the run, blocking the main loop" (lines 129-130).           *)
BpfPark ==
    /\ pc = "load"
    /\ turn = nprogs
    /\ pc' = "parked"
    /\ UNCHANGED <<config, foreign, bpf, taken, held, current, left, ring,
                   invoked>>

-----------------------------------------------------------------------------
(* The rest of the loop.  A rate of zero, the default, makes every         *)
(* interval infinite, and the conversion to u64 makes that 584 years.      *)

TightLoop ==
    /\ pc = "returned"
    /\ tight_loop
    /\ pc' = "call"
    /\ UNCHANGED <<config, foreign, bpf, taken, held, current, left, ring,
                   invoked>>

Sleep ==
    /\ pc = "returned"
    /\ ~tight_loop
    /\ pc' = "sleep"
    /\ UNCHANGED <<config, foreign, bpf, taken, held, current, left, ring,
                   invoked>>

WakeUp ==
    /\ pc = "sleep"
    /\ rate = "positive"
    /\ pc' = "call"
    /\ UNCHANGED <<config, foreign, bpf, taken, held, current, left, ring,
                   invoked>>

Idle ==
    /\ pc \in {"ended", "parked"} \/ (pc = "sleep" /\ rate = "zero")
    /\ UNCHANGED vars

Worker ==
    \/ InitNone \/ InitErr \/ RatePanic \/ RateOk
    \/ \E fd \in Table : InitHeld(fd) \/ CallTake(fd) \/ CallAccept(fd)
    \/ CallPlain \/ CallChange \/ Release \/ ReleaseErr
    \/ PushFull \/ Push \/ EnterErr \/ Enter
    \/ WaitOver \/ Reap \/ ReapNone
    \/ TightLoop \/ Sleep \/ WakeUp
    \/ BpfPrepare \/ BpfLoadErr \/ BpfEventErr \/ BpfLinkErr \/ BpfPark
    \/ \E fd \in Table : BpfLoad(fd) \/ BpfEvent(fd) \/ BpfLink(fd)

Kernel == CompleteOther \/ \E fd \in Table : CompleteOpen(fd)

Next == Worker \/ Kernel \/ WaitInterrupted \/ Idle

Spec == Init /\ [][Next]_vars

(* The worker runs, the kernel finishes what was submitted.  No signal has *)
(* to come.                                                                *)
Fairness == WF_vars(Worker) /\ WF_vars(Kernel)

FairSpec == Spec /\ Fairness

-----------------------------------------------------------------------------
(* The state has the shape the code's types give it.                       *)
TypeOK ==
    /\ caller \in KnownKinds
    /\ rate \in {"negative", "zero", "positive"}
    /\ tight_loop \in BOOLEAN
    /\ pc \in {"init", "rate", "call", "release", "enter", "wait", "reap",
               "returned", "sleep", "ended", "load", "event", "link", "parked"}
    /\ taken \subseteq Table
    /\ held \in Table \cup {0}
    /\ current \in Table \cup {0}
    /\ left \subseteq Table
    /\ foreign \subseteq Things
    /\ sq \in {0, 1}
    /\ inflight \in Nat
    /\ cq \in Seq(Table \cup {0})
    /\ interrupts \in Nat
    /\ invoked \in BOOLEAN
    /\ nprogs \in Nat
    /\ turn \in 0..nprogs
    /\ prog \in Table \cup {0}
    /\ event \in Table \cup {0}
    /\ links \subseteq [prog : Table, event : Table, link : Table]

InLoop == pc \notin {"init", "rate", "ended"}

(* Nothing leaks but what accepted connections, failed umounts and munmaps *)
(* and the turns of the bpf workload leave:                                *)
(* the table holds the caller's own descriptor, what the running call has  *)
(* taken and what completions not yet read carry.                          *)
Accounted == taken = ({held, current} \ {0}) \cup left \cup Unread

(* What a worker closes is its own.  Its own descriptor is open in every   *)
(* call, and no other place names it; a descriptor is in one completion    *)
(* only.  Of what was there before it, a worker that goes on calling drops *)
(* nothing but the mount that `remount' calls umount2 on: descriptor 0 and *)
(* the configured one are closed by a Drop, when the worker ends.          *)
ClosedOnce ==
    /\ (InLoop /\ NeedsHeld) => held \in taken
    /\ held # 0 => held \notin left \cup Unread \cup {current}
    /\ left \cap Unread = {}
    /\ \A i, j \in DOMAIN cq : (cq[i] = cq[j] /\ cq[i] # 0) => i = j
    /\ pc # "ended" => {"stdin", "configured_fd"} \subseteq foreign
    /\ caller # "remount" => "mounted" \in foreign

(* Every wait that came back without a completion leaves one completion    *)
(* outstanding for good: from then on each call reports, and closes, the   *)
(* result of the call that many calls ago.  Without such a wait, a call's  *)
(* result is its own.                                                      *)
LagExact ==
    inflight + Len(cq) =
       interrupts + (IF pc \in {"wait", "reap"} THEN 1 ELSE 0)

Objects(l) == {l.prog, l.event, l.link}

(* What the bpf workload has put under load is what its links say: each    *)
(* one joins a program and an event that live as long as it does, and no   *)
(* object is in two links.  A load or an event that failed, at the limit   *)
(* of the table or with a name too long, never ties the rest of its turn   *)
(* to an object of an earlier turn.                                        *)
LinksSound ==
    /\ \A l \in links :
         /\ Objects(l) \subseteq left
         /\ l.prog # l.event /\ l.link \notin {l.prog, l.event}
    /\ \A l, m \in links : l # m => Objects(l) \cap Objects(m) = {}

(* The workload goes on reaching the kernel, unless it never started, has  *)
(* the rate of zero, or an entry was left in the submission queue.  That   *)
(* of bpf gets through all its turns, whichever calls fail, and stays.     *)
KeepsInvoking ==
    /\ (caller # "bpf" /\ (tight_loop \/ rate = "positive"))
         => \/ []<>(invoked /\ pc = "call")
            \/ <>[](pc = "ended")
            \/ <>[](sq = 1)
    /\ caller = "bpf" => <>[](pc = "parked" /\ turn = nprogs)
=============================================================================
