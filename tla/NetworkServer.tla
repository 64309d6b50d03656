--------------------------- MODULE NetworkServer ---------------------------
(***************************************************************************)
(* start_server of worker/network.rs: a thread accepts connections and     *)
(* spawns one thread for each, which answers the lines it reads until the  *)
(* stream ends.                                                            *)
(*                                                                         *)
(* The peers are the environment.  A peer may end its stream (FIN), reset  *)
(* it, or vanish: the client of this workload removes a socket from its    *)
(* SocketSet before the FIN of close() was sent, so its connections vanish *)
(* (network.rs, lines 253-255 and 303-308).  The kernel learns of a        *)
(* vanished peer only when it has something to send to it, or when the     *)
(* client opens another connection from the same endpoint.                 *)
(***************************************************************************)
EXTENDS Integers, FiniteSets

CONSTANTS Conn,        \* names of the streams there may be at a time
          Limits,      \* how many streams, and threads, the process may have
          MaxLines     \* bound of the model on the lines a peer sends

ASSUME NetworkServerAssumption ==
    /\ IsFiniteSet(Conn)
    /\ Limits \subseteq Nat
    /\ MaxLines \in Nat

VARIABLES
    limit,      \* the limit of this process, fixed for the run
    server,     \* the accepting thread: "bind", "accept" or "panicked"
    stream,     \* "none", "backlog" or, with its thread, "serving"
    peer,       \* how each peer is
    sent,       \* lines each peer has sent
    unread,     \* lines in the receive buffer of each stream
    replies,    \* lines the server has answered
    refused,    \* lines that were no UTF-8, logged and not answered
    unacked,    \* a reply was written to a peer that has vanished
    pipelined   \* the peer has sent a line before the last was answered

vars == <<limit, server, stream, peer, sent, unread, replies, refused,
          unacked, pipelined>>

Init ==
    /\ limit \in Limits
    /\ server = "bind"
    /\ stream = [c \in Conn |-> "none"]
    /\ peer = [c \in Conn |-> "open"]
    /\ sent = [c \in Conn |-> 0]
    /\ unread = [c \in Conn |-> 0]
    /\ replies = [c \in Conn |-> 0]
    /\ refused = [c \in Conn |-> 0]
    /\ unacked = [c \in Conn |-> FALSE]
    /\ pipelined = [c \in Conn |-> FALSE]

Served == {c \in Conn : stream[c] = "serving"}

-----------------------------------------------------------------------------
(* The accepting thread.                                                   *)

Bind ==
    /\ server = "bind"
    /\ server' = "accept"
    /\ UNCHANGED <<limit, stream, peer, sent, unread, replies, refused,
                   unacked, pipelined>>

(* The address is not there or in use, as it is for all but one of several *)
(* server workers: the result of bind is unwrapped.                        *)
BindErr ==
    /\ server = "bind"
    /\ server' = "panicked"
    /\ UNCHANGED <<limit, stream, peer, sent, unread, replies, refused,
                   unacked, pipelined>>

(* A stream is accepted and a thread spawned for it.                       *)
Accept(c) ==
    /\ server = "accept"
    /\ stream[c] = "backlog"
    /\ Cardinality(Served) < limit
    /\ stream' = [stream EXCEPT ![c] = "serving"]
    /\ UNCHANGED <<limit, server, peer, sent, unread, replies, refused,
                   unacked, pipelined>>

(* accept fails (or the thread cannot be spawned) and the error is         *)
(* unwrapped: the worker process ends, with all its threads.               *)
AcceptErr(c) ==
    /\ server = "accept"
    /\ stream[c] = "backlog"
    /\ Cardinality(Served) >= limit
    /\ server' = "panicked"
    /\ UNCHANGED <<limit, stream, peer, sent, unread, replies, refused,
                   unacked, pipelined>>

-----------------------------------------------------------------------------
(* The thread of a connection.  BufReader takes what is there, `lines'     *)
(* lines; read_line gives the first of them, and the rest is lost with the *)
(* BufReader, which is made anew for every line.                           *)

Running(c) == server # "panicked" /\ stream[c] = "serving"

Taken(c, lines) ==
    /\ Running(c)
    /\ lines \in 1..unread[c]
    /\ unread' = [unread EXCEPT ![c] = @ - lines]

ReadLinePeeks(c, lines) ==
    /\ Running(c)
    /\ peer[c] # "reset"
    /\ lines \in 1..unread[c]
    /\ replies' = [replies EXCEPT ![c] = @ + 1]
    /\ UNCHANGED <<limit, server, stream, peer, sent, unread, refused,
                   unacked, pipelined>>

ReadLineWaitsForMore(c, lines) ==
    /\ lines > 1
    /\ Taken(c, lines)
    /\ peer[c] # "reset"
    /\ replies' = [replies EXCEPT ![c] = @ + 1]
    /\ unacked' = [unacked EXCEPT ![c] = @ \/ peer[c] = "gone"]
    /\ UNCHANGED <<limit, server, stream, peer, sent, refused, pipelined>>

ReadLine(c, lines) ==
    /\ Taken(c, lines)
    /\ peer[c] # "reset"
    /\ replies' = [replies EXCEPT ![c] = @ + 1]
    /\ unacked' = [unacked EXCEPT ![c] = @ \/ peer[c] = "gone"]
    /\ UNCHANGED <<limit, server, stream, peer, sent, refused, pipelined>>

(* The line is no UTF-8: read_line returns an error, the loop goes on.     *)
ReadInvalid(c, lines) ==
    /\ Taken(c, lines)
    /\ refused' = [refused EXCEPT ![c] = @ + 1]
    /\ UNCHANGED <<limit, server, stream, peer, sent, replies, unacked,
                   pipelined>>

(* What was received before a reset can still be read; with nothing left,  *)
(* read reports the reset once and the loop goes on, to the end of stream. *)
ReadErr(c) ==
    /\ Running(c)
    /\ peer[c] = "reset"
    /\ unread[c] = 0
    /\ peer' = [peer EXCEPT ![c] = "ended"]
    /\ UNCHANGED <<limit, server, stream, sent, unread, replies, refused,
                   unacked, pipelined>>

(* The thread ends and its stream is dropped.                              *)
EndThread(c) ==
    /\ stream' = [stream EXCEPT ![c] = "none"]
    /\ peer' = [peer EXCEPT ![c] = "open"]
    /\ sent' = [sent EXCEPT ![c] = 0]
    /\ unread' = [unread EXCEPT ![c] = 0]
    /\ replies' = [replies EXCEPT ![c] = 0]
    /\ refused' = [refused EXCEPT ![c] = 0]
    /\ unacked' = [unacked EXCEPT ![c] = FALSE]
    /\ pipelined' = [pipelined EXCEPT ![c] = FALSE]
    /\ UNCHANGED <<limit, server>>

(* A line is read but the answer fails, as the stream was reset: the loop  *)
(* is left.                                                                *)
WriteErr(c) ==
    /\ Running(c)
    /\ peer[c] = "reset"
    /\ unread[c] > 0
    /\ EndThread(c)

(* Ok(0): the end of the stream, and of the loop.                          *)
ReadEofLoops(c) ==
    /\ Running(c)
    /\ peer[c] \in {"fin", "ended"}
    /\ unread[c] = 0
    /\ UNCHANGED vars

ReadEof(c) ==
    /\ Running(c)
    /\ peer[c] \in {"fin", "ended"}
    /\ unread[c] = 0
    /\ EndThread(c)

-----------------------------------------------------------------------------
(* The peers.                                                              *)

(* A handshake ends; a name that no stream has stands for the new stream.  *)
(* Names are no endpoints: from the endpoint of a stream that was reset a  *)
(* peer can connect again before the old thread has noticed, and the two   *)
(* streams have two names.  (A peer that tries while nobody listens is     *)
(* refused, which changes nothing here.)                                   *)
Connect(c) ==
    /\ server = "accept"
    /\ stream[c] = "none"
    /\ stream' = [stream EXCEPT ![c] = "backlog"]
    /\ UNCHANGED <<limit, server, peer, sent, unread, replies, refused,
                   unacked, pipelined>>

Established(c) == stream[c] \in {"backlog", "serving"}

Send(c) ==
    /\ Established(c)
    /\ peer[c] = "open"
    /\ sent[c] < MaxLines
    /\ sent' = [sent EXCEPT ![c] = @ + 1]
    /\ unread' = [unread EXCEPT ![c] = @ + 1]
    /\ pipelined' = [pipelined EXCEPT ![c] = @ \/ unread[c] > 0]
    /\ UNCHANGED <<limit, server, stream, peer, replies, refused, unacked>>

Leave(c, how) ==
    /\ Established(c)
    /\ peer[c] = "open"
    /\ peer' = [peer EXCEPT ![c] = how]
    /\ UNCHANGED <<limit, server, stream, sent, unread, replies, refused,
                   unacked, pipelined>>

(* A reply to a vanished peer is answered by a reset, or times out.        *)
Unreachable(c) ==
    /\ Established(c)
    /\ peer[c] = "gone"
    /\ unacked[c]
    /\ peer' = [peer EXCEPT ![c] = "reset"]
    /\ UNCHANGED <<limit, server, stream, sent, unread, replies, refused,
                   unacked, pipelined>>

(* A reply reaches a peer that has closed the stream altogether; or the    *)
(* client takes the endpoint of the vanished connection again, the kernel  *)
(* asks back, and smoltcp resets what it does not know.                    *)
Reset(c) ==
    /\ Established(c)
    /\ peer[c] \in {"fin", "gone"}
    /\ peer' = [peer EXCEPT ![c] = "reset"]
    /\ UNCHANGED <<limit, server, stream, sent, unread, replies, refused,
                   unacked, pipelined>>

Over == server = "panicked" /\ UNCHANGED vars

Thread(c) ==
    \/ \E lines \in 1..MaxLines : ReadLine(c, lines)
    \/ ReadErr(c) \/ WriteErr(c) \/ ReadEof(c)

Next ==
    \/ Bind \/ BindErr
    \/ \E c \in Conn :
          \/ Accept(c) \/ AcceptErr(c)
          \/ Thread(c)
          \/ \E lines \in 1..MaxLines : ReadInvalid(c, lines)
          \/ Connect(c) \/ Send(c)
          \/ \E how \in {"fin", "reset", "gone"} : Leave(c, how)
          \/ Unreachable(c) \/ Reset(c)
    \/ Over

Spec == Init /\ [][Next]_vars

(* Threads are scheduled, and the kernel's retransmissions end.  Peers     *)
(* need not do anything, invalid lines included.                           *)
Fairness ==
    \A c \in Conn :
       /\ WF_vars(Accept(c) \/ AcceptErr(c))
       /\ WF_vars(Thread(c))
       /\ WF_vars(Unreachable(c))

FairSpec == Spec /\ Fairness
-----------------------------------------------------------------------------
(* The state has the shape the code gives it.                              *)
TypeOK ==
    /\ limit \in Limits
    /\ server \in {"bind", "accept", "panicked"}
    /\ stream \in [Conn -> {"none", "backlog", "serving"}]
    /\ peer \in [Conn -> {"open", "fin", "reset", "gone", "ended"}]
    /\ sent \in [Conn -> 0..MaxLines]
    /\ unread \in [Conn -> 0..MaxLines]
    /\ replies \in [Conn -> 0..MaxLines]
    /\ refused \in [Conn -> 0..MaxLines]
    /\ unacked \in [Conn -> BOOLEAN]
    /\ pipelined \in [Conn -> BOOLEAN]

(* No line is answered twice; and a peer that waits for each answer before *)
(* it sends the next line, as one of a request-reply protocol does, loses  *)
(* none: the BufReader that is dropped with each line held nothing else.   *)
LockStepLossless ==
    \A c \in Conn :
       /\ replies[c] + refused[c] + unread[c] <= sent[c]
       /\ (~pipelined[c] /\ peer[c] \in {"open", "fin", "gone"})
            => replies[c] + refused[c] + unread[c] = sent[c]

(* A line that has come is answered or logged as invalid: a thread never   *)
(* leaves its loop, or waits, while its peer is there and has sent one.    *)
LinesConsumed ==
    \A c \in Conn :
       (Running(c) /\ unread[c] > 0)
         ~> (unread[c] = 0 \/ server = "panicked")

(* The thread, and the descriptor, of a stream that was ended or reset are *)
(* given back, also when the end comes while lines are unread or as an     *)
(* error: the loop that goes on after an error does not go on for ever.    *)
(* So are those of a vanished peer, once something was written to it.      *)
StreamsReleased ==
    \A c \in Conn :
       (Running(c) /\ (peer[c] \in {"fin", "reset"} \/ unacked[c]))
         ~> (stream[c] = "none" \/ server = "panicked")
=============================================================================
