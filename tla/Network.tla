------------------------------ MODULE Network ------------------------------
(***************************************************************************)
(* The network workload as a whole: one client process (NetworkClient) and *)
(* one server process (NetworkServer), each in its own loop, with the      *)
(* kernel's TCP and the tun device between them.                           *)
(*                                                                         *)
(* The client's sockets and the kernel's streams are two things.  A socket *)
(* is connected once: the code never looks whether that went well, and a   *)
(* socket that was refused, as all are before the server has bound its     *)
(* port, stays without a stream.  It is removed without a word, and another*)
(* one may be opened from the same endpoint while the kernel still has the *)
(* old stream; and once the kernel has reset that one, the next can begin  *)
(* before the server's thread of the old one has noticed.  A stream is     *)
(* therefore named by its endpoint (the index of the connection) and one of*)
(* Generations.                                                            *)
(*                                                                         *)
(* This module adds what a visit of a socket sends, under the one timer    *)
(* that all connections share.  Packets that get lost are sent again by    *)
(* both sides, so a loss is a delay of the actions below.                  *)
(***************************************************************************)
EXTENDS NetworkClient

CONSTANTS Limits,       \* see NetworkServer
          MaxLines,
          Generations,  \* bound of the model on the streams of one endpoint
          MaxStreams    \* bound of the model on the streams at a time

(* w.sends: send_interval is shorter than the run.                         *)
ASSUME NetworkAssumption ==
    /\ \A w \in Workloads : w.sends \in BOOLEAN
    /\ Generations \subseteq Nat
    /\ IsFiniteSet(Generations)
    /\ MaxStreams \in Nat

VARIABLES limit, server, stream, peer, sent, unread, replies, refused,
          unacked, pipelined,
          tcp        \* each socket: its SYN is out ("syn"), it has a stream
                     \* ("open"), or it has none and gets none ("lost")

S == INSTANCE NetworkServer WITH Conn <- (0..MaxConns) \X Generations

Streams == (0..MaxConns) \X Generations
servervars == <<limit, server, stream, peer, sent, unread, replies, refused,
                unacked, pipelined>>
netvars == <<vars, servervars, tcp>>

NetInit ==
    /\ Init
    /\ S!Init
    /\ tcp = [h \in Handles |-> "syn"]

(* The streams of a socket's endpoint.                                     *)
Of(h) == {s \in Streams : s[1] = sockets[h]}

(* The kernel's table has one stream for an endpoint.  One that was reset  *)
(* is no longer there, though the server may not have closed it.           *)
InTable(s) == S!Established(s) /\ peer[s] \in {"open", "gone"}

(* More than one socket was opened from the endpoint of this one.          *)
Shared(h) == \E k \in Handles \ {h} : sockets[k] = sockets[h]

-----------------------------------------------------------------------------
(* New sockets begin with a SYN, removed ones are no more.                 *)
Follow ==
    tcp' = [h \in DOMAIN sockets' |-> IF h \in Handles THEN tcp[h] ELSE "syn"]

(* The client: what its loop does without a word to the server.            *)
ClientAlone ==
    /\ \/ NoArrival \/ ArriveBelowLimit \/ ArriveAtLimit \/ ArrivePanic
       \/ \E victim \in Handles : Preempt(victim)
       \/ \E h \in todo : VisitExpired(h)
       \/ VisitDone \/ CloseDone \/ WaitTimeout \/ WaitPacket
       \/ ClockPanic \/ Panicked
    /\ Follow
    /\ UNCHANGED servervars

(* The visit of a socket that may send when send_timer has run out: it     *)
(* sends a line and starts the timer again, for all.  The timer may have   *)
(* run out at any visit, so it keeps nobody from sending.                  *)
VisitSends(h) ==
    /\ VisitAlive(h)
    /\ workload.sends
    /\ tcp[h] = "open"
    /\ \E s \in Of(h) : S!Send(s)
    /\ UNCHANGED tcp

(* Any other visit: the timer has not run out, or the socket has no stream *)
(* (also one that does not know, as a collision has taken it).             *)
VisitSilent(h) ==
    /\ VisitAlive(h)
    /\ UNCHANGED <<servervars, tcp>>

(* A socket is removed, before the FIN of its close() could be sent (and   *)
(* one that was preempted is not even closed): its peer has vanished.      *)
CloseVanishes ==
    /\ CloseNext
    /\ LET h == Head(close_sockets)
       IN  tcp[h] = "open" /\ \E s \in Of(h) : S!Leave(s, "gone")
    /\ Follow

(* The socket had no stream.                                               *)
CloseUnnoticed ==
    /\ CloseNext
    /\ tcp[Head(close_sockets)] # "open"
    /\ Follow
    /\ UNCHANGED servervars

-----------------------------------------------------------------------------
(* TCP, for a socket whose SYN is out.  The handshake, with the kernel's   *)
(* table free for its endpoint; the stream gets the first name that is     *)
(* free.                                                                   *)
Connect(h) ==
    /\ tcp[h] = "syn"
    /\ \A s \in Of(h) : ~InTable(s)
    /\ Cardinality({s \in Streams : stream[s] # "none"}) < MaxStreams
    /\ \E s \in Of(h) :
          /\ S!Connect(s)
          /\ \A r \in Of(h) : r[2] < s[2] => stream[r] # "none"
    /\ tcp' = [tcp EXCEPT ![h] = "open"]
    /\ UNCHANGED vars

(* Nobody listens, yet or any more: the kernel answers with a reset, which *)
(* closes smoltcp's socket.  The code never opens it again.                *)
Refused(h) ==
    /\ tcp[h] = "syn"
    /\ server # "accept"
    /\ tcp' = [tcp EXCEPT ![h] = "lost"]
    /\ UNCHANGED <<vars, servervars>>

(* The SYN meets the stream of a socket that has vanished: the kernel asks *)
(* back, smoltcp resets what it does not know.                             *)
Displace(h) ==
    /\ tcp[h] = "syn"
    /\ \E s \in Of(h) : peer[s] = "gone" /\ S!Reset(s)
    /\ UNCHANGED <<vars, tcp>>

(* It meets the stream of a socket that is still there.  smoltcp gives the *)
(* kernel's question to one of the two, which may reset the stream.        *)
Collide(h, k) ==
    /\ tcp[h] = "syn" /\ tcp[k] = "open" /\ sockets[h] = sockets[k]
    /\ \E s \in Of(h) : S!Leave(s, "reset")
    /\ tcp' = [tcp EXCEPT ![k] = "lost"]
    /\ UNCHANGED vars

(* smoltcp answers a reply for a socket it does not have with a reset.     *)
Unreachable(s) == S!Unreachable(s) /\ UNCHANGED <<vars, tcp>>

-----------------------------------------------------------------------------
(* The server.                                                             *)
ServerBinds == (S!Bind \/ S!BindErr) /\ UNCHANGED <<vars, tcp>>

ServerAccepts(s) ==
    (S!Accept(s) \/ S!AcceptErr(s)) /\ UNCHANGED <<vars, tcp>>

ServerThread(s) == S!Thread(s) /\ UNCHANGED <<vars, tcp>>

NetNext ==
    \/ ClientAlone
    \/ \E h \in todo : VisitSends(h) \/ VisitSilent(h)
    \/ CloseVanishes \/ CloseUnnoticed
    \/ ServerBinds
    \/ \E h \in Handles : Connect(h) \/ Refused(h) \/ Displace(h)
    \/ \E h, k \in Handles : Collide(h, k)
    \/ \E s \in Streams : Unreachable(s) \/ ServerAccepts(s) \/ ServerThread(s)

(* Both processes are scheduled, and TCP repeats what was lost: as long as *)
(* something can be done for a socket or a stream, something is done.  The *)
(* client's share of a handshake is iface.poll, once in every turn of its  *)
(* loop, which comes round (LoopProgress).  Timers run out when they like; *)
(* nobody has to send anything.                                            *)
Attend(s) ==
    /\ stream[s] # "none"
    /\ Unreachable(s) \/ ServerAccepts(s) \/ ServerThread(s)

Handshake(h) ==
    /\ h \in Handles /\ tcp[h] = "syn"
    /\ Connect(h) \/ Displace(h)

(* There are at most total_conns sockets (CounterCovers), and a handle is  *)
(* the number of a slot.                                                   *)
Slots == 0..(MaxConns - 1)

NetFairness ==
    /\ WF_netvars(ServerBinds)
    /\ \A s \in Streams : WF_netvars(Attend(s))
    /\ \A h \in Slots : WF_netvars(Handshake(h))

NetSpec == NetInit /\ [][NetNext]_netvars /\ NetFairness

-----------------------------------------------------------------------------
(* The client never says goodbye, so the kernel keeps the stream, and the  *)
(* server the thread, of a connection that is gone until its endpoint is   *)
(* used again.  With preemption it is: the counter comes back to the same  *)
(* few indexes, and the kernel has one stream more than the connections    *)
(* the client may have, however long the run.  The server's threads are    *)
(* those of these streams, and those of streams just reset, which end by   *)
(* themselves (StreamsReleased).  (Without preemption every dropped arrival*)
(* moves on to a fresh endpoint.)                                          *)
StreamsBounded ==
    workload.preempt =>
      Cardinality({s \in Streams : InTable(s)})
        <= workload.connections_static + workload.connections_dyn_max + 1

Served(h) ==
    /\ h \in Handles /\ tcp[h] = "open"
    /\ \E s \in Of(h) : stream[s] = "serving" /\ peer[s] = "open"

Stopped == server = "panicked" \/ pc = "panicked"

(* The socket's SYN is out and the server has bound its port.              *)
Knocks(h) == h \in Handles /\ tcp[h] = "syn" /\ server = "accept"

(* A connection that stays open gets through to a thread of the server,    *)
(* also from an endpoint whose last stream was left behind, provided that  *)
(* it was not refused before the server had bound its port.                *)
ConnectionsServed ==
    \A h \in Slots :
      Knocks(h) ~> (Served(h) \/ h \notin Handles \/ Shared(h) \/ Stopped)

StaticSlots == UNION {0..(w.connections_static - 1) : w \in Workloads}

IsStatic(h) == ~workload.preempt /\ h < workload.connections_static

(* "Static set of connections, that are going to live throughout the whole *)
(* run" (lines 132-133): without preemption the server comes to serve each *)
(* of them that it was there for in time, and does so from then on,        *)
(* whatever dynamic connections come and go.                               *)
StaticsStayServed ==
    \A h \in StaticSlots :
      <>(IsStatic(h) /\ Knocks(h)) => <>[](Stopped \/ Served(h))
=============================================================================
