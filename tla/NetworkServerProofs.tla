------------------------ MODULE NetworkServerProofs ------------------------
(***************************************************************************)
(* The safety properties of NetworkServer, for any number of connections   *)
(* and lines.  They are inductive together with one fact: a peer that did  *)
(* not pipeline has at most one line unread, so a BufReader that takes all *)
(* that is there takes that line only.                                     *)
(***************************************************************************)
EXTENDS NetworkServer, TLAPS

(* What a peer that waits for its answers leaves in the buffer.            *)
OneAtATime == \A c \in Conn : ~pipelined[c] => unread[c] <= 1

Inv == TypeOK /\ LockStepLossless /\ OneAtATime

Counters == <<sent, unread, replies, refused, pipelined>>

Peers == {"open", "fin", "reset", "gone", "ended"}

-----------------------------------------------------------------------------
(* The process starts with no stream.                                      *)
LEMMA InvInit == Init => Inv
<1> SUFFICES ASSUME Init PROVE Inv
  OBVIOUS
<1>1. unacked \in [Conn -> BOOLEAN] /\ pipelined \in [Conn -> BOOLEAN]
  BY Zenon DEF Init
<1>2. 0 \in 0..MaxLines
  BY NetworkServerAssumption
<1>3. TypeOK
  BY <1>1, <1>2 DEF Init, TypeOK
<1>4. LockStepLossless /\ OneAtATime
  BY DEF Init, LockStepLossless, OneAtATime
<1> QED
  BY <1>3, <1>4 DEF Inv

(* Steps that move no line and make no peer one that is there.             *)
LEMMA InvNoLines ==
    ASSUME Inv, UNCHANGED <<limit, Counters>>,
           server' \in {"bind", "accept", "panicked"},
           stream' \in [Conn -> {"none", "backlog", "serving"}],
           peer' \in [Conn -> Peers],
           unacked' \in [Conn -> BOOLEAN],
           \A c \in Conn : peer'[c] \in {"open", "fin", "gone"}
                             => peer[c] \in {"open", "fin", "gone"}
    PROVE  Inv'
<1>1. TypeOK'
  BY DEF Inv, TypeOK, Counters, Peers
<1>2. LockStepLossless' /\ OneAtATime'
  BY DEF Inv, LockStepLossless, OneAtATime, Counters
<1> QED
  BY <1>1, <1>2 DEF Inv

(* The accepting thread, and the peers that send nothing.                  *)
LEMMA InvOthers ==
    ASSUME Inv,
           \/ Bind \/ BindErr
           \/ \E c \in Conn :
                 \/ Accept(c) \/ AcceptErr(c) \/ ReadErr(c) \/ Connect(c)
                 \/ \E how \in {"fin", "reset", "gone"} : Leave(c, how)
                 \/ Unreachable(c) \/ Reset(c)
    PROVE  Inv'
<1> USE DEF Inv, TypeOK, Counters, Peers
<1>1. CASE Bind \/ BindErr
  BY <1>1, InvNoLines DEF Bind, BindErr
<1>2. ASSUME NEW c \in Conn, Accept(c) \/ AcceptErr(c) \/ Connect(c)
      PROVE  Inv'
  <2>1. /\ server' \in {"bind", "accept", "panicked"}
        /\ \E s \in {"backlog", "serving"} :
              stream' \in {stream, [stream EXCEPT ![c] = s]}
        /\ UNCHANGED <<limit, peer, Counters, unacked>>
    BY <1>2 DEF Accept, AcceptErr, Connect
  <2>2. stream' \in [Conn -> {"none", "backlog", "serving"}]
    BY <2>1
  <2> QED
    BY <2>1, <2>2, InvNoLines
<1>3. ASSUME NEW c \in Conn,
             \/ ReadErr(c) \/ Unreachable(c) \/ Reset(c)
             \/ \E how \in {"fin", "reset", "gone"} : Leave(c, how)
      PROVE  Inv'
  <2>1. PICK p \in Peers \ {"open"} :
           /\ peer' = [peer EXCEPT ![c] = p]
           /\ peer[c] = "open" \/ p \in {"reset", "ended"}
           /\ UNCHANGED <<limit, server, stream, Counters, unacked>>
    BY <1>3 DEF ReadErr, Unreachable, Reset, Leave
  <2>2. \A d \in Conn : peer'[d] = IF d = c THEN p ELSE peer[d]
    BY <2>1
  <2>3. peer' \in [Conn -> Peers]
    BY <2>1
  <2> QED
    BY <2>1, <2>2, <2>3, InvNoLines
<1> QED
  BY <1>1, <1>2, <1>3

(* A line is read: one more is answered or refused, at least one less is   *)
(* unread, and exactly one less if the peer did not pipeline.              *)
LEMMA InvRead ==
    ASSUME Inv, NEW c \in Conn, NEW lines \in 1..MaxLines,
           ReadLine(c, lines) \/ ReadInvalid(c, lines)
    PROVE  Inv'
<1> USE NetworkServerAssumption DEF Inv
<1>1. /\ lines \in 1..unread[c]
      /\ unread' = [unread EXCEPT ![c] = unread[c] - lines]
      /\ UNCHANGED <<limit, server, stream, peer, sent, pipelined>>
      /\ \/ /\ replies' = [replies EXCEPT ![c] = replies[c] + 1]
            /\ refused' = refused
         \/ /\ refused' = [refused EXCEPT ![c] = refused[c] + 1]
            /\ replies' = replies
  BY DEF ReadLine, ReadInvalid, Taken
<1>2. unacked' \in [Conn -> BOOLEAN]
  <2>1. unacked \in [Conn -> BOOLEAN]
    BY DEF TypeOK
  <2>2. \/ unacked' = unacked
        \/ \E b \in BOOLEAN : unacked' = [unacked EXCEPT ![c] = b]
    <3>1. (unacked[c] \/ peer[c] = "gone") \in BOOLEAN
      BY Zenon
    <3> QED
      BY <3>1, Zenon DEF ReadLine, ReadInvalid
  <2> QED
    BY <2>1, <2>2, Zenon
<1>3. /\ unread[c] \in 0..MaxLines /\ replies[c] \in 0..MaxLines
      /\ refused[c] \in 0..MaxLines /\ sent[c] \in 0..MaxLines
  BY DEF TypeOK
<1>4. /\ \A d \in Conn : d # c => /\ unread'[d] = unread[d]
                                  /\ replies'[d] = replies[d]
                                  /\ refused'[d] = refused[d]
      /\ unread'[c] = unread[c] - lines
      /\ replies'[c] + refused'[c] = replies[c] + refused[c] + 1
  BY <1>1, <1>3 DEF TypeOK
<1>5. replies[c] + refused[c] + unread[c] <= sent[c]
  BY DEF LockStepLossless
<1>6. TypeOK'
  <2>1. /\ unread[c] - lines \in 0..MaxLines
        /\ replies[c] + 1 \in 0..MaxLines /\ refused[c] + 1 \in 0..MaxLines
    BY <1>1, <1>3, <1>5
  <2>2. unread' \in [Conn -> 0..MaxLines]
    BY <1>1, <2>1 DEF TypeOK
  <2>3. replies' \in [Conn -> 0..MaxLines] /\ refused' \in [Conn -> 0..MaxLines]
    BY <1>1, <2>1 DEF TypeOK
  <2> QED
    BY <1>1, <1>2, <2>2, <2>3 DEF TypeOK
<1>7. ~pipelined[c] => lines = unread[c] /\ lines = 1
  BY <1>1, <1>3 DEF OneAtATime
<1>8. ASSUME NEW d \in Conn
      PROVE  /\ replies'[d] + refused'[d] + unread'[d] <= sent'[d]
             /\ (~pipelined'[d] /\ peer'[d] \in {"open", "fin", "gone"})
                  => replies'[d] + refused'[d] + unread'[d] = sent'[d]
             /\ ~pipelined'[d] => unread'[d] <= 1
  <2>1. CASE d = c
    <3>1. /\ replies'[c] \in Nat /\ refused'[c] \in Nat /\ unread'[c] \in Nat
      BY <1>6 DEF TypeOK
    <3>2. replies'[c] + refused'[c] + unread'[c]
             = replies[c] + refused[c] + 1 + unread[c] - lines
      BY <1>3, <1>4, <3>1
    <3>3. lines >= 1 /\ lines \in Nat
      OBVIOUS
    <3>4. ~pipelined[c] /\ peer[c] \in {"open", "fin", "gone"}
             => replies[c] + refused[c] + unread[c] = sent[c]
      BY DEF LockStepLossless
    <3> QED
      BY <1>1, <1>3, <1>4, <1>5, <1>7, <2>1, <3>1, <3>2, <3>3, <3>4
  <2>2. CASE d # c
    BY <1>1, <1>4, <2>2 DEF LockStepLossless, OneAtATime
  <2> QED
    BY <2>1, <2>2
<1> QED
  BY <1>6, <1>8 DEF LockStepLossless, OneAtATime

(* A peer sends a line: it pipelines unless the buffer was empty.          *)
LEMMA InvSend ==
    ASSUME Inv, NEW c \in Conn, Send(c)
    PROVE  Inv'
<1> USE NetworkServerAssumption DEF Inv
<1>1. /\ sent[c] < MaxLines
      /\ sent' = [sent EXCEPT ![c] = sent[c] + 1]
      /\ unread' = [unread EXCEPT ![c] = unread[c] + 1]
      /\ UNCHANGED <<limit, server, stream, peer, replies, refused, unacked>>
  BY DEF Send
<1>2. /\ pipelined' \in [Conn -> BOOLEAN]
      /\ \A d \in Conn : d # c => pipelined'[d] = pipelined[d]
      /\ ~pipelined'[c] => ~pipelined[c] /\ ~(unread[c] > 0)
  <2>1. pipelined \in [Conn -> BOOLEAN]
    BY DEF TypeOK
  <2>2. PICK b \in BOOLEAN : /\ pipelined' = [pipelined EXCEPT ![c] = b]
                             /\ b <=> pipelined[c] \/ unread[c] > 0
    <3>1. (pipelined[c] \/ unread[c] > 0) \in BOOLEAN
      BY Zenon
    <3> QED
      BY <3>1, Zenon DEF Send
  <2> QED
    BY <2>1, <2>2, Zenon
<1>3. /\ unread[c] \in 0..MaxLines /\ replies[c] \in 0..MaxLines
      /\ refused[c] \in 0..MaxLines /\ sent[c] \in 0..MaxLines
  BY DEF TypeOK
<1>4. /\ \A d \in Conn : d # c => sent'[d] = sent[d] /\ unread'[d] = unread[d]
      /\ sent'[c] = sent[c] + 1 /\ unread'[c] = unread[c] + 1
  BY <1>1 DEF TypeOK
<1>5. TypeOK'
  <2>1. sent[c] + 1 \in 0..MaxLines /\ unread[c] + 1 \in 0..MaxLines
    BY <1>1, <1>3 DEF LockStepLossless
  <2>2. sent' \in [Conn -> 0..MaxLines] /\ unread' \in [Conn -> 0..MaxLines]
    BY <1>1, <2>1 DEF TypeOK
  <2> QED
    BY <1>1, <1>2, <2>2 DEF TypeOK
<1>6. ASSUME NEW d \in Conn
      PROVE  /\ replies'[d] + refused'[d] + unread'[d] <= sent'[d]
             /\ (~pipelined'[d] /\ peer'[d] \in {"open", "fin", "gone"})
                  => replies'[d] + refused'[d] + unread'[d] = sent'[d]
             /\ ~pipelined'[d] => unread'[d] <= 1
  <2>1. CASE d = c
    BY <1>1, <1>2, <1>3, <1>4, <2>1 DEF LockStepLossless
  <2>2. CASE d # c
    BY <1>1, <1>2, <1>4, <2>2 DEF LockStepLossless, OneAtATime
  <2> QED
    BY <2>1, <2>2
<1> QED
  BY <1>5, <1>6 DEF LockStepLossless, OneAtATime

(* A thread ends: its connection is as at the start.                       *)
LEMMA InvEnd ==
    ASSUME Inv, NEW c \in Conn, WriteErr(c) \/ ReadEof(c)
    PROVE  Inv'
<1> USE NetworkServerAssumption DEF Inv
<1>1. EndThread(c)
  BY DEF WriteErr, ReadEof
<1>2. unacked' \in [Conn -> BOOLEAN] /\ pipelined' \in [Conn -> BOOLEAN]
  BY <1>1, Zenon DEF EndThread, TypeOK
<1>3. \A d \in Conn : d # c => pipelined'[d] = pipelined[d]
  BY <1>1, Zenon DEF EndThread, TypeOK
<1>4. 0 \in 0..MaxLines
  OBVIOUS
<1>5. TypeOK'
  BY <1>1, <1>2, <1>4 DEF EndThread, TypeOK
<1>6. \A d \in Conn :
         IF d = c
           THEN sent'[d] = 0 /\ unread'[d] = 0 /\ replies'[d] = 0 /\ refused'[d] = 0
           ELSE /\ sent'[d] = sent[d] /\ unread'[d] = unread[d]
                /\ replies'[d] = replies[d] /\ refused'[d] = refused[d]
                /\ peer'[d] = peer[d]
  BY <1>1 DEF EndThread, TypeOK
<1>7. LockStepLossless' /\ OneAtATime'
  BY <1>3, <1>6 DEF LockStepLossless, OneAtATime
<1> QED
  BY <1>5, <1>7

(* Every step keeps the invariant.                                         *)
LEMMA InvStep == Inv /\ [Next]_vars => Inv'
<1> SUFFICES ASSUME Inv, [Next]_vars PROVE Inv'
  OBVIOUS
<1>1. CASE Over \/ UNCHANGED vars
  BY <1>1 DEF Over, vars, Inv, TypeOK, LockStepLossless, OneAtATime
<1>2. CASE Next /\ ~Over
  BY <1>2, InvOthers, InvRead, InvSend, InvEnd DEF Next, Thread
<1> QED
  BY <1>1, <1>2

(* The invariant holds in every behaviour.                                 *)
LEMMA InvAlways == Spec => []Inv
  BY InvInit, InvStep, PTL DEF Spec

-----------------------------------------------------------------------------
(* The state keeps its types: in particular the server never reads more    *)
(* lines than there are, whatever a BufReader takes at once.               *)
THEOREM TypeCorrect == Spec => []TypeOK
<1>1. Inv => TypeOK
  BY DEF Inv
<1> QED
  BY <1>1, InvAlways, PTL

(* start_server answers no line twice and, of a peer that waits for each   *)
(* answer, loses none, although it makes a BufReader for every line        *)
(* (network.rs, line 66).                                                  *)
THEOREM LockStepAlwaysLossless == Spec => []LockStepLossless
<1>1. Inv => LockStepLossless
  BY DEF Inv
<1> QED
  BY <1>1, InvAlways, PTL
=============================================================================
