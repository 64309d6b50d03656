--------------------------- MODULE CallersProofs ---------------------------
(***************************************************************************)
(* Callers: for every size of the kernel's table and every number of       *)
(* interrupted waits, what a worker has taken is accounted for, nothing is *)
(* closed twice, and the results of the ring lag by the interrupted waits. *)
(*                                                                         *)
(* The invariants are inductive together with what each kind of caller     *)
(* leaves untouched (Phases): the syscalls callers the ring, the io_uring  *)
(* ones what is left behind.                                               *)
(***************************************************************************)
EXTENDS Callers, TLAPS

-----------------------------------------------------------------------------
(* Completion queues.                                                      *)

Entries(s) == {s[i] : i \in DOMAIN s}

Distinct(s) == \A i, j \in DOMAIN s : (s[i] = s[j] /\ s[i] # 0) => i = j

(* A completion is added at the end; one with a fresh descriptor keeps the *)
(* descriptors of the queue distinct.                                      *)
LEMMA AppendEntries ==
    ASSUME NEW s \in Seq(Nat), NEW x \in Nat
    PROVE  /\ Append(s, x) \in Seq(Nat)
           /\ Len(Append(s, x)) = Len(s) + 1
           /\ Entries(Append(s, x)) = Entries(s) \cup {x}
           /\ (Distinct(s) /\ (x = 0 \/ x \notin Entries(s)))
                => Distinct(Append(s, x))
<1> DEFINE a == Append(s, x)
<1>1. /\ a \in Seq(Nat)
      /\ Len(s) \in Nat
      /\ Len(a) = Len(s) + 1
      /\ DOMAIN s = 1..Len(s)
      /\ DOMAIN a = 1..(Len(s) + 1)
      /\ \A i \in 1..Len(s) : a[i] = s[i]
      /\ a[Len(s) + 1] = x
  OBVIOUS
<1> HIDE DEF a
<1>2. Entries(a) = Entries(s) \cup {x}
  <2>1. ASSUME NEW e \in Entries(a) PROVE e \in Entries(s) \cup {x}
    <3>1. PICK i \in DOMAIN a : e = a[i]  BY <2>1 DEF Entries
    <3>2. i = Len(s) + 1 \/ i \in 1..Len(s)  BY <1>1
    <3> QED  BY <1>1, <3>1, <3>2 DEF Entries
  <2>2. ASSUME NEW e \in Entries(s) PROVE e \in Entries(a)
    <3>1. PICK i \in DOMAIN s : e = s[i]  BY <2>2 DEF Entries
    <3>2. i \in DOMAIN a /\ a[i] = e  BY <1>1, <3>1
    <3> QED  BY <3>2 DEF Entries
  <2>3. x \in Entries(a)
    <3>1. Len(s) + 1 \in DOMAIN a  BY <1>1
    <3> QED  BY <1>1, <3>1 DEF Entries
  <2> QED  BY <2>1, <2>2, <2>3
<1>3. ASSUME Distinct(s), x = 0 \/ x \notin Entries(s) PROVE Distinct(a)
  <2> SUFFICES ASSUME NEW i \in DOMAIN a, NEW j \in DOMAIN a,
                      a[i] = a[j], a[i] # 0
               PROVE  i = j
    BY DEF Distinct
  <2>1. \A k \in 1..Len(s) : s[k] \in Entries(s)
    BY <1>1 DEF Entries
  <2>2. i \in 1..(Len(s) + 1) /\ j \in 1..(Len(s) + 1)
    BY <1>1
  <2>3. CASE i \in 1..Len(s) /\ j \in 1..Len(s)
    <3>1. s[i] = s[j] /\ s[i] # 0  BY <1>1, <2>3
    <3> QED  BY <1>1, <1>3, <2>3, <3>1 DEF Distinct
  <2>4. CASE i = Len(s) + 1 /\ j \in 1..Len(s)
    <3>1. x = s[j] /\ x # 0  BY <1>1, <2>4
    <3> QED  BY <1>3, <2>1, <2>4, <3>1
  <2>5. CASE j = Len(s) + 1 /\ i \in 1..Len(s)
    <3>1. x = s[i] /\ x # 0  BY <1>1, <2>5
    <3> QED  BY <1>3, <2>1, <2>5, <3>1
  <2> QED  BY <1>1, <2>2, <2>3, <2>4, <2>5
<1> QED  BY <1>1, <1>2, <1>3 DEF a

(* The oldest completion is taken out.                                     *)
LEMMA TailEntries ==
    ASSUME NEW s \in Seq(Nat), s # <<>>
    PROVE  /\ Tail(s) \in Seq(Nat)
           /\ Len(Tail(s)) = Len(s) - 1
           /\ Head(s) \in Entries(s)
           /\ Entries(s) = Entries(Tail(s)) \cup {Head(s)}
           /\ Distinct(s) => Distinct(Tail(s))
           /\ (Distinct(s) /\ Head(s) # 0) => Head(s) \notin Entries(Tail(s))
<1> DEFINE t == Tail(s)
<1>1. /\ t \in Seq(Nat)
      /\ Len(s) \in Nat
      /\ Len(s) > 0
      /\ Len(t) = Len(s) - 1
      /\ DOMAIN s = 1..Len(s)
      /\ DOMAIN t = 1..(Len(s) - 1)
      /\ \A i \in 1..(Len(s) - 1) : t[i] = s[i + 1]
      /\ Head(s) = s[1]
  OBVIOUS
<1> HIDE DEF t
<1>2. Head(s) \in Entries(s)
  <2>1. 1 \in DOMAIN s  BY <1>1
  <2> QED  BY <1>1, <2>1 DEF Entries
<1>3. Entries(s) = Entries(t) \cup {Head(s)}
  <2>1. ASSUME NEW e \in Entries(s) PROVE e \in Entries(t) \cup {Head(s)}
    <3>1. PICK i \in DOMAIN s : e = s[i]  BY <2>1 DEF Entries
    <3>2. i \in 1..Len(s)  BY <1>1
    <3>3. CASE i = 1  BY <1>1, <3>1, <3>3
    <3>4. CASE i # 1
      <4>1. i - 1 \in 1..(Len(s) - 1) /\ (i - 1) + 1 = i  BY <1>1, <3>2, <3>4
      <4>2. t[i - 1] = s[i]  BY <1>1, <4>1
      <4> QED  BY <1>1, <3>1, <4>1, <4>2 DEF Entries
    <3> QED  BY <3>3, <3>4
  <2>2. ASSUME NEW e \in Entries(t) PROVE e \in Entries(s)
    <3>1. PICK i \in DOMAIN t : e = t[i]  BY <2>2 DEF Entries
    <3>2. i + 1 \in DOMAIN s /\ s[i + 1] = e  BY <1>1, <3>1
    <3> QED  BY <3>2 DEF Entries
  <2> QED  BY <1>2, <2>1, <2>2
<1>s. \A i \in DOMAIN t : i + 1 \in DOMAIN s /\ i + 1 # 1 /\ t[i] = s[i + 1]
  BY <1>1
<1>4. ASSUME Distinct(s) PROVE Distinct(t)
  <2> SUFFICES ASSUME NEW i \in DOMAIN t, NEW j \in DOMAIN t,
                      t[i] = t[j], t[i] # 0
               PROVE  i = j
    BY DEF Distinct
  <2>1. s[i + 1] = s[j + 1] /\ s[i + 1] # 0  BY <1>s
  <2>2. i + 1 = j + 1  BY <1>4, <1>s, <2>1 DEF Distinct
  <2>3. i \in 1..(Len(s) - 1) /\ j \in 1..(Len(s) - 1)  BY <1>1
  <2> QED  BY <1>1, <2>2, <2>3
<1>5. ASSUME Distinct(s), Head(s) # 0, Head(s) \in Entries(t) PROVE FALSE
  <2>1. PICK i \in DOMAIN t : Head(s) = t[i]  BY <1>5 DEF Entries
  <2>2. s[1] = s[i + 1] /\ s[1] # 0 /\ 1 \in DOMAIN s  BY <1>1, <1>5, <1>s, <2>1
  <2> QED  BY <1>5, <1>s, <2>2 DEF Distinct
<1> QED  BY <1>1, <1>2, <1>3, <1>4, <1>5 DEF t

-----------------------------------------------------------------------------
(* What each kind of caller, at each place of the loop, cannot have.       *)
Phases ==
    /\ pc # "release" => current = 0
    /\ pc = "release" =>
          \/ caller \in {"transient", "mmap", "mount"} /\ current # 0
          \/ caller = "remount" /\ current = 0
    /\ pc = "init" => held = 0
    /\ ~NeedsHeld => held = 0
    /\ (pc \notin {"init", "ended"} /\ NeedsHeld) => held # 0
    /\ current \notin left
    /\ 0 \notin left
    /\ IsUring => left = {}
    /\ pc \in {"enter", "wait", "reap"} => IsUring
    /\ ~IsUring => cq = <<>> /\ inflight = 0
    /\ pc \in {"init", "rate"} => cq = <<>> /\ inflight = 0
    /\ pc \in {"load", "event", "link", "parked"} => caller = "bpf"
    /\ pc \in {"event", "link"} => turn < nprogs

Inv == TypeOK /\ Phases /\ Accounted /\ ClosedOnce /\ LagExact

(* The initial states satisfy the invariant.                               *)
LEMMA InvInit == Init => Inv
<1> SUFFICES ASSUME Init PROVE Inv  OBVIOUS
<1>1. TypeOK
  <2>1. caller \in KnownKinds
    BY CallersAssumption DEF Init
  <2>2. cq \in Seq(Table \cup {0})
    BY DEF Init
  <2>3. sq \in {0, 1} /\ inflight \in Nat /\ interrupts \in Nat
    BY DEF Init
  <2>4. invoked \in BOOLEAN /\ tight_loop \in BOOLEAN
    BY Zenon DEF Init
  <2>5. /\ nprogs \in Nat /\ turn = 0 /\ links = {}
        /\ turn \in 0..nprogs
    BY CallersAssumption DEF Init
  <2> QED  BY <2>1, <2>2, <2>3, <2>4, <2>5 DEF Init, TypeOK
<1>0. Phases /\ LagExact
  BY DEF Init, Phases, LagExact, NeedsHeld, IsUring
<1>2. Unread = {}
  BY DEF Init, Unread
<1>3. Accounted /\ ClosedOnce
  BY <1>2 DEF Init, Accounted, ClosedOnce, InLoop, Things
<1> QED  BY <1>0, <1>1, <1>3 DEF Inv

(* Every step of the worker and of the kernel keeps it.                    *)
LEMMA InvStep == Inv /\ [Next]_vars => Inv'
<1> SUFFICES ASSUME Inv, [Next]_vars PROVE Inv'
  OBVIOUS
<1> USE DEF Inv, Table, Free
<1>t. TableSize \in Nat
  BY CallersAssumption
<1>e. /\ cq \in Seq(Nat)
      /\ Unread = Entries(cq) \ {0}
      /\ Unread' = Entries(cq') \ {0}
      /\ Distinct(cq)
  BY <1>t DEF TypeOK, ClosedOnce, Distinct, Unread, Entries
<1>k. (caller' = caller) => (NeedsHeld' = NeedsHeld /\ IsUring' = IsUring)
  BY DEF NeedsHeld, IsUring
<1>1. CASE InitNone
  BY <1>1, <1>k DEF InitNone, TypeOK, Phases, Accounted, ClosedOnce,
       LagExact, InLoop, Unread, config, bpf, ring
<1>2. CASE \E fd \in Table : InitHeld(fd)
  <2>1. PICK fd \in Table : InitHeld(fd)  BY <1>2
  <2>2. Unread = {} /\ current = 0 /\ held = 0 /\ taken = left
    BY <2>1 DEF InitHeld, Phases, Unread, Accounted
  <2> QED  BY <1>t, <1>k, <2>1, <2>2
           DEF InitHeld, TypeOK, Phases, Accounted, ClosedOnce, LagExact,
               InLoop, Unread, config, bpf, ring
<1>3. CASE InitErr
  BY <1>3, <1>k DEF InitErr, TypeOK, Phases, Accounted, ClosedOnce,
       LagExact, InLoop, Unread, config, bpf, ring
<1>4. CASE RatePanic
  <2>1. Unread = {} /\ current = 0
    BY <1>4 DEF RatePanic, Phases, Unread
  <2> QED  BY <1>4, <1>k, <2>1
           DEF RatePanic, TypeOK, Phases, Accounted, ClosedOnce, LagExact,
               InLoop, Unread, config, bpf, ring
<1>5. CASE RateOk
  <2>1. TypeOK'
    BY <1>5 DEF RateOk, TypeOK, config, bpf, ring
  <2>2. Phases' /\ LagExact'
    BY <1>5, <1>k DEF RateOk, Phases, LagExact, config, bpf, ring
  <2>3. Accounted' /\ ClosedOnce'
    BY <1>5, <1>k DEF RateOk, TypeOK, Phases, Accounted, ClosedOnce, InLoop,
         Unread, config, bpf, ring
  <2> QED  BY <2>1, <2>2, <2>3
<1>6. CASE CallPlain
  BY <1>6, <1>k DEF CallPlain, Return, TypeOK, Phases, Accounted, ClosedOnce,
       LagExact, InLoop, Unread, config, bpf, ring
<1>28. CASE CallChange
  BY <1>28, <1>k DEF CallChange, TypeOK, Phases, Accounted, ClosedOnce,
       LagExact, InLoop, Unread, IsUring, NeedsHeld, config, bpf, ring
<1>7. CASE \E fd \in Table : CallTake(fd)
  <2>1. PICK fd \in Table : CallTake(fd)  BY <1>7
  <2>2. Unread = {} /\ Unread' = {} /\ held = 0 /\ current = 0
    BY <2>1 DEF CallTake, Phases, Unread, NeedsHeld, IsUring, ring
  <2> QED  BY <1>t, <1>k, <2>1, <2>2
           DEF CallTake, TypeOK, Phases, Accounted, ClosedOnce, LagExact,
               InLoop, Unread, config, bpf, ring
<1>8. CASE Release
  <2>1. /\ Unread = {} /\ Unread' = {} /\ held = 0 /\ 0 \notin taken
        /\ (current = 0 => caller = "remount")
    BY <1>8, <1>t DEF TypeOK, Release, Phases, Unread, NeedsHeld, IsUring, ring
  <2>2. TypeOK'
    BY <1>8 DEF Release, Return, TypeOK, config, bpf, ring
  <2>3. Phases' /\ LagExact'
    BY <1>8, <1>k DEF Release, Return, Phases, LagExact, config, bpf, ring
  <2>4. Accounted'
    BY <1>8, <2>1 DEF Release, Phases, Accounted
  <2>5. ClosedOnce'
    BY <1>8, <1>k, <2>1 DEF Release, Return, Phases, ClosedOnce, InLoop,
         config, ring
  <2> QED  BY <2>2, <2>3, <2>4, <2>5
<1>9. CASE ReleaseErr
  <2>1. Unread = {} /\ Unread' = {} /\ held = 0
    BY <1>9 DEF ReleaseErr, Phases, Unread, NeedsHeld, IsUring, ring
  <2> QED  BY <1>9, <1>k, <2>1
           DEF ReleaseErr, Return, TypeOK, Phases, Accounted, ClosedOnce,
               LagExact, InLoop, Unread, IsUring, config, bpf, ring
<1>10. CASE \E fd \in Table : CallAccept(fd)
  <2>1. PICK fd \in Table : CallAccept(fd)  BY <1>10
  <2>2. Unread = {} /\ Unread' = {} /\ held # 0 /\ current = 0 /\ ~IsUring
    BY <2>1 DEF CallAccept, Phases, Unread, InLoop, NeedsHeld, IsUring, ring
  <2> QED  BY <1>t, <1>k, <2>1, <2>2
           DEF CallAccept, Return, TypeOK, Phases, Accounted, ClosedOnce, LagExact,
               InLoop, Unread, config, bpf, ring
<1>11. CASE PushFull
  <2>1. TypeOK'
    BY <1>11 DEF PushFull, Return, TypeOK, config, bpf, ring
  <2>2. Phases' /\ LagExact'
    BY <1>11, <1>k DEF PushFull, Return, Phases, LagExact, config, bpf, ring
  <2>3. Accounted' /\ ClosedOnce'
    BY <1>11, <1>k DEF PushFull, Return, TypeOK, Phases, Accounted, ClosedOnce, InLoop,
         Unread, config, bpf, ring
  <2> QED  BY <2>1, <2>2, <2>3
<1>12. CASE Push
  BY <1>12, <1>k DEF Push, TypeOK, Phases, Accounted, ClosedOnce,
       LagExact, InLoop, Unread, config, bpf, ring
<1>13. CASE EnterErr
  <2>1. TypeOK'
    BY <1>13 DEF EnterErr, Return, TypeOK, config, bpf, ring
  <2>2. Phases' /\ LagExact'
    BY <1>13, <1>k DEF EnterErr, Return, Phases, LagExact, config, bpf, ring
  <2>3. Accounted' /\ ClosedOnce'
    BY <1>13, <1>k DEF EnterErr, Return, TypeOK, Phases, Accounted, ClosedOnce, InLoop,
         Unread, config, bpf, ring
  <2> QED  BY <2>1, <2>2, <2>3
<1>14. CASE Enter
  BY <1>14, <1>k DEF Enter, TypeOK, Phases, Accounted, ClosedOnce,
       LagExact, InLoop, Unread, config, bpf, ring
<1>15. CASE \E fd \in Table : CompleteOpen(fd)
  <2>1. PICK fd \in Table : CompleteOpen(fd)  BY <1>15
  <2>2. fd \in Nat /\ fd # 0 /\ fd \notin taken /\ cq' = Append(cq, fd)
    BY <1>t, <2>1 DEF CompleteOpen
  <2>3. fd \notin Entries(cq) /\ fd # held /\ fd \notin left
    BY <1>e, <2>2 DEF Accounted
  <2>4. /\ Len(cq') = Len(cq) + 1
        /\ Entries(cq') = Entries(cq) \cup {fd}
        /\ Distinct(cq')
    BY <1>e, <2>2, <2>3, AppendEntries
  <2>5. Unread' = Unread \cup {fd}
    BY <1>e, <2>2, <2>4
  <2>6. TypeOK'
    BY <1>t, <2>1 DEF CompleteOpen, TypeOK, config, bpf
  <2>7. Phases'
    BY <1>k, <2>1 DEF CompleteOpen, Phases, InLoop, IsUring, NeedsHeld, config, bpf
  <2>8. Accounted'
    BY <2>1, <2>2, <2>5 DEF CompleteOpen, Accounted
  <2>9. ClosedOnce'
    <3>1. current = 0
      BY <2>1 DEF CompleteOpen, Phases
    <3>2. /\ ((InLoop /\ NeedsHeld) => held \in taken)'
          /\ (held # 0 => held \notin left \cup Unread \cup {current})'
          /\ (left \cap Unread = {})'
          /\ (pc # "ended" => {"stdin", "configured_fd"} \subseteq foreign)'
          /\ (caller # "remount" => "mounted" \in foreign)'
      BY <1>k, <2>1, <2>3, <2>5, <3>1
         DEF CompleteOpen, ClosedOnce, InLoop, config, bpf
    <3> QED  BY <2>4, <3>2 DEF ClosedOnce, Distinct
  <2>10. LagExact'
    BY <1>e, <2>1, <2>4 DEF CompleteOpen, TypeOK, LagExact
  <2> QED  BY <2>6, <2>7, <2>8, <2>9, <2>10
<1>16. CASE CompleteOther
  <2>1. cq' = Append(cq, 0)
    BY <1>16 DEF CompleteOther
  <2>2. /\ Len(cq') = Len(cq) + 1
        /\ Entries(cq') = Entries(cq) \cup {0}
        /\ Distinct(cq')
    BY <1>e, <2>1, AppendEntries
  <2>3. Unread' = Unread
    BY <1>e, <2>2
  <2>4. TypeOK'
    BY <1>t, <1>16 DEF CompleteOther, TypeOK, config, bpf
  <2>5. Phases'
    BY <1>k, <1>16 DEF CompleteOther, TypeOK, Phases, InLoop, config, bpf
  <2>6. Accounted'
    BY <1>16, <2>3 DEF CompleteOther, Accounted
  <2>7. ClosedOnce'
    <3>1. /\ ((InLoop /\ NeedsHeld) => held \in taken)'
          /\ (held # 0 => held \notin left \cup Unread \cup {current})'
          /\ (left \cap Unread = {})'
          /\ (pc # "ended" => {"stdin", "configured_fd"} \subseteq foreign)'
          /\ (caller # "remount" => "mounted" \in foreign)'
      BY <1>k, <1>16, <2>3 DEF CompleteOther, ClosedOnce, InLoop, config, bpf
    <3> QED  BY <2>2, <3>1 DEF ClosedOnce, Distinct
  <2>8. LagExact'
    BY <1>e, <1>16, <2>2 DEF CompleteOther, TypeOK, LagExact
  <2> QED  BY <2>4, <2>5, <2>6, <2>7, <2>8
<1>17. CASE WaitOver
  BY <1>17, <1>k DEF WaitOver, TypeOK, Phases, Accounted, ClosedOnce,
       LagExact, InLoop, Unread, config, bpf, ring
<1>18. CASE WaitInterrupted
  BY <1>18, <1>k DEF WaitInterrupted, TypeOK, Phases, Accounted, ClosedOnce,
       LagExact, InLoop, Unread, config, bpf, ring
<1>19. CASE Reap
  <2>1. cq # <<>> /\ cq' = Tail(cq) /\ taken' = taken \ {Head(cq)}
    BY <1>19 DEF Reap
  <2>2. /\ Len(cq') = Len(cq) - 1
        /\ Head(cq) \in Entries(cq)
        /\ Entries(cq) = Entries(cq') \cup {Head(cq)}
        /\ Distinct(cq')
        /\ Head(cq) # 0 => Head(cq) \notin Entries(cq')
    BY <1>e, <2>1, TailEntries
  <2>3. Unread' = Unread \ {Head(cq)}
    BY <1>e, <2>2
  <2>4. current = 0 /\ left = {} /\ held # 0 /\ IsUring /\ 0 \notin taken
    BY <1>19, <1>t DEF Reap, Phases, TypeOK, InLoop, NeedsHeld
  <2>5. Head(cq) # held
    BY <1>e, <2>2, <2>4 DEF ClosedOnce
  <2>6. TypeOK'
    <3>1. cq \in Seq(Table \cup {0})
      BY DEF TypeOK
    <3>2. cq' \in Seq(Table \cup {0})
      BY <2>1, <3>1
    <3> QED  BY <1>19, <3>2 DEF Reap, Return, TypeOK, config, bpf
  <2>7. Phases'
    BY <1>k, <1>19, <2>4 DEF Reap, Return, Phases, InLoop, NeedsHeld, config, bpf
  <2>8. Accounted'
    BY <1>19, <2>1, <2>3, <2>4, <2>5 DEF Reap, Accounted
  <2>9. ClosedOnce'
    <3>1. /\ ((InLoop /\ NeedsHeld) => held \in taken)'
          /\ (held # 0 => held \notin left \cup Unread \cup {current})'
          /\ (left \cap Unread = {})'
          /\ (pc # "ended" => {"stdin", "configured_fd"} \subseteq foreign)'
          /\ (caller # "remount" => "mounted" \in foreign)'
      BY <1>k, <1>19, <2>1, <2>3, <2>4, <2>5
         DEF Reap, Return, ClosedOnce, InLoop, config, bpf
    <3> QED  BY <2>2, <3>1 DEF ClosedOnce, Distinct
  <2>10. LagExact'
    BY <1>e, <1>19, <2>2 DEF Reap, Return, TypeOK, LagExact
  <2> QED  BY <2>6, <2>7, <2>8, <2>9, <2>10
<1>20. CASE ReapNone
  BY <1>20, <1>k DEF ReapNone, Return, TypeOK, Phases, Accounted, ClosedOnce,
       LagExact, InLoop, Unread, config, bpf, ring
<1>21. CASE TightLoop
  BY <1>21, <1>k DEF TightLoop, TypeOK, Phases, Accounted, ClosedOnce,
       LagExact, InLoop, Unread, config, bpf, ring
<1>22. CASE Sleep
  BY <1>22, <1>k DEF Sleep, TypeOK, Phases, Accounted, ClosedOnce,
       LagExact, InLoop, Unread, config, bpf, ring
<1>23. CASE WakeUp
  BY <1>23, <1>k DEF WakeUp, TypeOK, Phases, Accounted, ClosedOnce,
       LagExact, InLoop, Unread, config, bpf, ring
<1>24. ASSUME NEW fd \in Table, BpfLoad(fd) \/ BpfEvent(fd) \/ BpfLink(fd)
       PROVE  Inv'
  <2>1. /\ fd \notin taken /\ fd # 0 /\ caller = "bpf" /\ ~NeedsHeld /\ ~IsUring
        /\ taken' = taken \cup {fd} /\ left' = left \cup {fd}
        /\ UNCHANGED <<caller, foreign, held, current, sq, inflight, cq,
                       interrupts>>
        /\ pc \in {"load", "event", "link"} /\ pc' \in {"load", "event", "link"}
    BY <1>t, <1>24 DEF BpfLoad, BpfEvent, BpfLink, Phases, NeedsHeld, IsUring,
         config, ring
  <2>2. Unread = {} /\ Unread' = {} /\ held = 0 /\ current = 0
    BY <2>1 DEF Phases, Unread
  <2>3. TypeOK'
    <3>1. turn \in 0..nprogs /\ nprogs \in Nat
      BY DEF TypeOK
    <3>2. turn' \in 0..nprogs' /\ nprogs' \in Nat
      BY <1>24, <3>1 DEF BpfLoad, BpfEvent, BpfLink, Phases
    <3>3. links' \subseteq [prog : Table, event : Table, link : Table]
      BY <1>24 DEF BpfLoad, BpfEvent, BpfLink, TypeOK
    <3>4. prog' \in Table \cup {0} /\ event' \in Table \cup {0}
      BY <1>24 DEF BpfLoad, BpfEvent, BpfLink, TypeOK
    <3>5. rate' = rate /\ tight_loop' = tight_loop /\ invoked' = invoked
      BY <1>24 DEF BpfLoad, BpfEvent, BpfLink, config
    <3> QED  BY <2>1, <3>2, <3>3, <3>4, <3>5 DEF TypeOK
  <2>4. Phases'
    <3>1. pc' \in {"event", "link"} => turn' < nprogs'
      BY <1>24 DEF BpfLoad, BpfEvent, BpfLink, Phases
    <3> QED  BY <1>k, <2>1, <2>2, <3>1 DEF Phases
  <2>5. Accounted' /\ ClosedOnce' /\ LagExact'
    BY <1>k, <2>1, <2>2 DEF Accounted, ClosedOnce, LagExact, InLoop
  <2> QED  BY <2>3, <2>4, <2>5
<1>25. CASE BpfPrepare \/ BpfLoadErr \/ BpfEventErr \/ BpfLinkErr \/ BpfPark
  <2>1. /\ caller = "bpf" /\ ~NeedsHeld /\ ~IsUring
        /\ UNCHANGED <<caller, rate, tight_loop, foreign, taken, held,
                       current, left, sq, inflight, cq, interrupts, invoked,
                       nprogs, links>>
        /\ pc \in {"init", "load", "event", "link"}
        /\ pc' \in {"load", "event", "link", "parked"}
    BY <1>25 DEF BpfPrepare, BpfLoadErr, BpfEventErr, BpfLinkErr, BpfPark,
         Phases, NeedsHeld, IsUring, config, bpf, ring
  <2>2. Unread = {} /\ Unread' = {} /\ held = 0 /\ current = 0
    BY <2>1 DEF Phases, Unread
  <2>3. TypeOK'
    <3>1. turn \in 0..nprogs /\ nprogs \in Nat
      BY DEF TypeOK
    <3>2. turn' \in 0..nprogs
      BY <1>25, <3>1 DEF BpfPrepare, BpfLoadErr, BpfEventErr, BpfLinkErr,
           BpfPark, Phases, bpf
    <3>3. prog' \in Table \cup {0} /\ event' \in Table \cup {0}
      BY <1>25 DEF BpfPrepare, BpfLoadErr, BpfEventErr, BpfLinkErr, BpfPark,
           TypeOK, bpf
    <3> QED  BY <2>1, <3>2, <3>3 DEF TypeOK
  <2>4. Phases'
    <3>1. pc' \in {"event", "link"} => turn' < nprogs'
      BY <1>25 DEF BpfPrepare, BpfLoadErr, BpfEventErr, BpfLinkErr, BpfPark,
           Phases, bpf
    <3> QED  BY <1>k, <2>1, <2>2, <3>1 DEF Phases
  <2>5. Accounted' /\ ClosedOnce' /\ LagExact'
    BY <1>k, <2>1, <2>2 DEF Accounted, ClosedOnce, LagExact, InLoop
  <2> QED  BY <2>3, <2>4, <2>5
<1>26. CASE Idle \/ UNCHANGED vars
  <2>1. /\ UNCHANGED <<caller, rate, tight_loop, foreign, nprogs, turn, prog,
                       event, links>>
        /\ UNCHANGED <<pc, taken, held, current, left, invoked>>
        /\ UNCHANGED <<sq, inflight, cq, interrupts>>
    BY <1>26 DEF Idle, vars, config, bpf, ring
  <2>2. TypeOK'
    BY <2>1 DEF TypeOK
  <2>3. Phases' /\ LagExact'
    BY <1>k, <2>1 DEF Phases, LagExact
  <2>4. Accounted' /\ ClosedOnce'
    BY <1>k, <2>1 DEF Accounted, ClosedOnce, InLoop, Unread
  <2> QED  BY <2>2, <2>3, <2>4
<1>27. ASSUME Worker PROVE Inv'
  <2>1. CASE \E fd \in Table : BpfLoad(fd) \/ BpfEvent(fd) \/ BpfLink(fd)
    BY <1>24, <2>1
  <2>2. CASE \E fd \in Table : InitHeld(fd) \/ CallTake(fd) \/ CallAccept(fd)
    BY <1>2, <1>7, <1>10, <2>2
  <2> QED
    BY <1>1, <1>3, <1>4, <1>5, <1>6, <1>8, <1>9, <1>11, <1>12, <1>13, <1>14,
       <1>17, <1>19, <1>20, <1>21, <1>22, <1>23, <1>25, <1>27, <1>28, <2>1, <2>2
       DEF Worker
<1> QED
  BY <1>15, <1>16, <1>18, <1>26, <1>27 DEF Next, Kernel

(* The invariant holds in every state of every run.                        *)
LEMMA InvAlways == Spec => []Inv
<1>1. Init => Inv
  BY InvInit
<1>2. Inv /\ [Next]_vars => Inv'
  BY InvStep
<1> QED  BY <1>1, <1>2, PTL DEF Spec

(* The bpf workload: what a link names and what the turn has got so far    *)
(* was left in the table, and the latter is in no link yet.                *)
BpfInv ==
    /\ LinksSound
    /\ pc = "event" => prog = 0 \/ prog \in left
    /\ pc = "link"
         => /\ prog = 0 \/ prog \in left
            /\ event = 0 \/ (event \in left /\ event # prog)
    /\ \A l \in links :
         /\ pc \in {"event", "link"} => prog \notin Objects(l)
         /\ pc = "link" => event \notin Objects(l)

(* A call that fails leaves a 0, one that succeeds a fresh number.         *)
LEMMA BpfStep == Inv /\ BpfInv /\ [Next]_vars => BpfInv'
<1> SUFFICES ASSUME Inv, BpfInv, [Next]_vars PROVE BpfInv'
  OBVIOUS
<1>1. /\ left \subseteq taken /\ 0 \notin left
      /\ \A l \in links : Objects(l) \subseteq left
  BY DEF Inv, Accounted, Phases, BpfInv, LinksSound
<1>z. \A l \in links : 0 \notin Objects(l)
  BY <1>1
<1>2. ASSUME NEW fd \in Table, BpfLoad(fd) PROVE BpfInv'
  <2>1. /\ fd \notin left /\ left' = left \cup {fd} /\ links' = links
        /\ prog' = fd /\ pc' = "event"
    BY <1>1, <1>2 DEF BpfLoad, Free
  <2> QED  BY <1>1, <2>1 DEF BpfInv, LinksSound, Objects
<1>3. ASSUME NEW fd \in Table, BpfEvent(fd) PROVE BpfInv'
  <2>1. /\ fd \notin left /\ left' = left \cup {fd} /\ links' = links
        /\ prog' = prog /\ event' = fd /\ pc = "event" /\ pc' = "link"
    BY <1>1, <1>3 DEF BpfEvent, Free
  <2>2. fd # 0
    BY <1>3, CallersAssumption DEF Table
  <2> QED  BY <1>1, <2>1, <2>2 DEF BpfInv, LinksSound, Objects
<1>4. ASSUME NEW fd \in Table, BpfLink(fd) PROVE BpfInv'
  <2> DEFINE new == [prog |-> prog, event |-> event, link |-> fd]
  <2>1. /\ fd \notin left /\ left' = left \cup {fd}
        /\ links' = links \cup {new}
        /\ prog # 0 /\ event # 0 /\ pc = "link" /\ pc' = "load"
    BY <1>1, <1>4 DEF BpfLink, Free
  <2>2. /\ prog \in left /\ event \in left /\ event # prog
        /\ \A l \in links : prog \notin Objects(l) /\ event \notin Objects(l)
    <3>1. pc = "link" /\ prog # 0 /\ event # 0
      BY <1>4 DEF BpfLink
    <3> QED  BY ONLY <3>1, BpfInv DEF BpfInv
  <2>3. /\ Objects(new) = {prog, event, fd}
        /\ new.prog = prog /\ new.event = event /\ new.link = fd
    BY DEF Objects
  <2>4. \A l \in links : Objects(l) \cap Objects(new) = {}
    BY <1>1, <2>1, <2>2, <2>3
  <2> HIDE DEF new
  <2>5. LinksSound'
    <3>1. ASSUME NEW l \in links'
          PROVE  /\ Objects(l) \subseteq left'
                 /\ l.prog # l.event /\ l.link \notin {l.prog, l.event}
      <4>1. CASE l = new
        BY <2>1, <2>2, <2>3, <4>1
      <4>2. CASE l \in links
        BY <2>1, <4>2 DEF BpfInv, LinksSound
      <4> QED  BY <2>1, <4>1, <4>2
    <3>2. ASSUME NEW l \in links', NEW m \in links', l # m
          PROVE  Objects(l) \cap Objects(m) = {}
      <4>1. CASE l \in links /\ m \in links
        BY <3>2, <4>1 DEF BpfInv, LinksSound
      <4>2. CASE l = new /\ m \in links
        BY <2>4, <4>2
      <4>3. CASE m = new /\ l \in links
        BY <2>4, <4>3
      <4> QED  BY <2>1, <3>2, <4>1, <4>2, <4>3
    <3> QED  BY <3>1, <3>2 DEF LinksSound, Objects
  <2> QED  BY <2>1, <2>5 DEF BpfInv
<1>5. CASE BpfLoadErr
  BY <1>z, <1>5 DEF BpfLoadErr, BpfInv, LinksSound, Objects
<1>6. CASE BpfEventErr
  BY <1>z, <1>6 DEF BpfEventErr, BpfInv, LinksSound, Objects
<1>7. CASE BpfPrepare \/ BpfLinkErr \/ BpfPark
  BY <1>7 DEF BpfPrepare, BpfLinkErr, BpfPark, BpfInv, LinksSound, Objects, bpf
<1>8. CASE UNCHANGED bpf /\ left \subseteq left' /\ pc' \notin {"event", "link"}
  BY <1>8 DEF BpfInv, LinksSound, Objects, bpf
<1>9. ASSUME NEW fd \in Table, InitHeld(fd) \/ CallTake(fd) \/ CallAccept(fd)
      PROVE  UNCHANGED bpf /\ left \subseteq left' /\ pc' \notin {"event", "link"}
  BY <1>9 DEF InitHeld, CallTake, CallAccept, Return
<1>10. CASE \/ InitNone \/ InitErr \/ RatePanic \/ RateOk \/ CallPlain
            \/ CallChange \/ Release \/ ReleaseErr \/ TightLoop \/ Sleep \/ WakeUp
  <2>1. UNCHANGED bpf /\ left \subseteq left' /\ pc' \notin {"event", "link"}
    BY <1>10 DEF InitNone, InitErr, RatePanic, RateOk, CallPlain, CallChange, Release,
         ReleaseErr, TightLoop, Sleep, WakeUp, Return
  <2> QED  BY <1>8, <2>1
<1>11. CASE \/ PushFull \/ Push \/ EnterErr \/ Enter \/ WaitOver \/ Reap
            \/ ReapNone \/ WaitInterrupted
  <2>1. UNCHANGED bpf /\ left \subseteq left' /\ pc' \notin {"event", "link"}
    BY <1>11 DEF PushFull, Push, EnterErr, Enter, WaitOver, Reap, ReapNone,
         WaitInterrupted, Return
  <2> QED  BY <1>8, <2>1
<1>12. CASE Kernel \/ Idle \/ UNCHANGED vars
  <2>1. UNCHANGED <<bpf, left, pc>>
    BY <1>12 DEF Kernel, CompleteOpen, CompleteOther, Idle, vars
  <2> QED  BY <2>1 DEF BpfInv, LinksSound, Objects, bpf
<1> QED
  BY <1>2, <1>3, <1>4, <1>5, <1>6, <1>7, <1>8, <1>9, <1>10, <1>11, <1>12
     DEF Next, Worker

(* Whatever calls of the bpf workload fail, and however many programs are  *)
(* asked for, a link joins objects of one turn that nothing else uses.     *)
THEOREM LinksAlwaysSound == Spec => []LinksSound
<1>1. Init => BpfInv
  BY DEF Init, BpfInv, LinksSound
<1>2. BpfInv => LinksSound
  BY DEF BpfInv
<1> QED  BY <1>1, <1>2, InvAlways, BpfStep, PTL DEF Spec

(* The state keeps its shape; in particular the submission queue, which    *)
(* has room for one entry, never holds two.                                *)
THEOREM TypeCorrect == Spec => []TypeOK
<1>1. Inv => TypeOK
  BY DEF Inv
<1> QED  BY <1>1, InvAlways, PTL

(* Nothing leaks but accepted connections, what a failed umount or munmap  *)
(* leaves and the objects of the bpf workload, whatever the kernel's limit *)
(* and however often waits are interrupted.                                *)
THEOREM AlwaysAccounted == Spec => []Accounted
<1>1. Inv => Accounted
  BY DEF Inv
<1> QED  BY <1>1, InvAlways, PTL

(* No close hits the caller's own descriptor or one that another completion*)
(* carries; of what the worker did not open itself, it closes descriptor 0 *)
(* (a failed init of listen.rs, connect.rs or ioctl.rs) and the configured *)
(* one (mmap.rs, line 37) only when it ends, and drops only the mount that *)
(* the default flags of mount.rs, line 22, did not make.                   *)
THEOREM NothingClosedTwice == Spec => []ClosedOnce
<1>1. Inv => ClosedOnce
  BY DEF Inv
<1> QED  BY <1>1, InvAlways, PTL

(* The results of an io_uring caller lag behind its calls by the number of *)
(* interrupted waits, no more and no less.                                 *)
THEOREM LagAlwaysExact == Spec => []LagExact
<1>1. Inv => LagExact
  BY DEF Inv
<1> QED  BY <1>1, InvAlways, PTL
=============================================================================
