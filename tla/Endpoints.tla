----------------------------- MODULE Endpoints -----------------------------
(***************************************************************************)
(* Two TCPConnections, x that connects and y that listens, each with an    *)
(* application that writes, reads and closes, over a network that loses    *)
(* segments and may reorder them.  Segments leave a connection's queue in  *)
(* the step that put them there.                                           *)
(***************************************************************************)
EXTENDS TCPState, SequencesExt

CONSTANTS SendCapacity, RecvCapacity,
          Isn,            \* the initial sequence number of each end
          StreamLengths,  \* how many bytes each end writes
          MaxLosses,      \* how many times the network loses what is sent in a step
          MaxOnWire,      \* no time passes while so many segments are on their way
          Reordered,      \* may segments overtake each other?
          MayDestroy      \* the ends whose connection may be destroyed at any time

Ends == {"x", "y"}

Peer(e) == IF e = "x" THEN "y" ELSE "x"

ASSUME EndpointsAssumption ==
    /\ {SendCapacity, RecvCapacity, MaxLosses, MaxOnWire} \subseteq Nat
    /\ Isn \in [Ends -> 0..(Modulus - 1)] /\ StreamLengths \in [Ends -> Nat]
    /\ Reordered \in BOOLEAN /\ MayDestroy \subseteq Ends

VARIABLES conn,     \* the connection at each end
          wire,     \* the segments on their way to each end, oldest first
          losses

vars == <<conn, wire, losses>>

Init ==
    /\ conn = [e \in Ends |-> NewConnection(SendCapacity, RecvCapacity, Isn[e])]
    /\ wire = [e \in Ends |-> <<>>]
    /\ losses = 0

(* End e goes to state c while the segments rest stay on their way to it,  *)
(* and what c has queued goes to the wire or gets lost.                    *)
Send(e, c, rest) ==
    LET left == [wire EXCEPT ![e] = rest]
        sent == [left EXCEPT ![Peer(e)] = @ \o c.segments_out]
    IN  /\ conn' = [conn EXCEPT ![e] = [c EXCEPT !.segments_out = <<>>]]
        /\ \/ c.segments_out = <<>> /\ wire' = left /\ UNCHANGED losses
           \/ c.segments_out # <<>> /\ wire' = sent /\ UNCHANGED losses
           \/ /\ c.segments_out # <<>> /\ losses < MaxLosses
              /\ losses' = losses + 1 /\ wire' = left

(* connect() is called once, on the connection the socket has just made.   *)
Connect ==
    /\ conn["x"] = NewConnection(SendCapacity, RecvCapacity, Isn["x"])
    /\ Send("x", ConnectionConnect(conn["x"]), wire["x"])

(* connect() and listen_and_accept() of the socket return to the           *)
(* application once the handshake is over, or has failed: what the         *)
(* application then writes or closes may meet a connection that has ended. *)
Open(e) == \A n \in {"LISTEN", "SYN_RCVD", "SYN_SENT"} : ~InState(conn[e], n)

Write(e, len) ==
    LET written == Outbound(conn[e]).total_written
    IN  /\ Open(e) /\ ~Outbound(conn[e]).input_ended
        /\ written + len <= StreamLengths[e]
        /\ Send(e, ConnectionWrite(conn[e], Substring(written, len)), wire[e])

(* The socket may call this twice: for the end of the owner's bytes, and   *)
(* when it cancels the rule that reads them.                               *)
Close(e) ==
    /\ Open(e)
    /\ Send(e, EndInputStream(conn[e]), wire[e])

Tick(e) ==
    /\ Len(wire["x"]) + Len(wire["y"]) < MaxOnWire
    /\ Send(e, ConnectionTick(conn[e], 1), wire[e])

Deliver(e, i) ==
    /\ Reordered \/ i = 1
    /\ Send(e, ConnectionReceived(conn[e], wire[e][i]), RemoveAt(wire[e], i))

Read(e) ==
    /\ conn' = [conn EXCEPT ![e] = ConnectionRead(@, RecvCapacity)]
    /\ UNCHANGED <<wire, losses>>

(* The destructor sends its RST into the queue it destroys.                *)
Destroy(e) ==
    /\ e \in MayDestroy /\ Active(conn[e])
    /\ conn' = [conn EXCEPT ![e] = [UncleanShutdown(@) EXCEPT !.segments_out = <<>>]]
    /\ UNCHANGED <<wire, losses>>

Next ==
    \/ Connect
    \/ \E e \in Ends : Close(e) \/ Tick(e) \/ Read(e) \/ Destroy(e)
    \/ \E e \in Ends, len \in 1..SendCapacity : Write(e, len)
    \/ \E e \in Ends : \E i \in DOMAIN wire[e] : Deliver(e, i)

Spec == Init /\ [][Next]_vars

(* Time goes on at both ends, the network delivers what it does not lose,  *)
(* and the applications read while their connections last: the event loop  *)
(* calls tick() after every wait, and a segment or a byte that is there    *)
(* makes poll() return.                                                    *)
Fairness ==
    \A e \in Ends :
        /\ []<>(ConnectionTick(conn[e], 1) = conn[e]) \/ []<><<Tick(e)>>_vars
        /\ []<>(wire[e] = <<>>) \/ []<><<Deliver(e, 1)>>_vars
        /\ []<>(Inbound(conn[e]).buf = <<>> \/ ~Active(conn[e]))

FairSpec == Spec /\ Fairness
-----------------------------------------------------------------------------
(* The states of RFC 793 and two that it has no name for: both ends have   *)
(* closed, this one's FIN still waits for the window to open, and it did   *)
(* not hear of the peer's FIN before it closed; and everything is          *)
(* acknowledged at the end that closed last, its application has not read  *)
(* all of the peer's bytes.                                                *)
States ==
    OfficialStates @@
    [FIN_UNSENT |-> [sender |-> "SYN_ACKED", receiver |-> "FIN_RECV",
                     active |-> TRUE, linger |-> TRUE],
     UNREAD     |-> [sender |-> "FIN_ACKED", receiver |-> "FIN_RECV",
                     active |-> TRUE, linger |-> FALSE]]

(* RFC 793's arrows, and what a single segment does that carries two       *)
(* events at once; from every state a connection can be RESET, from LISTEN *)
(* by its destructor.                                                      *)
Arrows ==
    [LISTEN      |-> {"SYN_RCVD", "SYN_SENT"},
     SYN_SENT    |-> {"ESTABLISHED"},
     SYN_RCVD    |-> {"ESTABLISHED", "CLOSE_WAIT"},
     ESTABLISHED |-> {"FIN_WAIT_1", "CLOSE_WAIT", "CLOSING", "FIN_UNSENT"},
     FIN_UNSENT  |-> {"CLOSING"},
     FIN_WAIT_1  |-> {"FIN_WAIT_2", "CLOSING", "TIME_WAIT"},
     FIN_WAIT_2  |-> {"TIME_WAIT"},
     CLOSING     |-> {"TIME_WAIT"},
     TIME_WAIT   |-> {"CLOSED"},
     CLOSE_WAIT  |-> {"LAST_ACK"},
     LAST_ACK    |-> {"CLOSED", "UNREAD"},
     UNREAD      |-> {"CLOSED"},
     CLOSED      |-> {},
     RESET       |-> {}]

(* Each connection, seen through TCPState, goes through the official       *)
(* states along the arrows of TCP: it never reaches a combination of       *)
(* sender, receiver and linger state with no name, never goes back and     *)
(* never leaves out TIME_WAIT at the end that closed first                 *)
(* (tcp_connection.cc:81, :87).                                            *)
StateMachine ==
    [][\A e \in Ends : \E n \in DOMAIN States :
          /\ ConnectionState(conn[e]) = States[n]
          /\ \E m \in Arrows[n] \cup {n, "RESET"} :
                ConnectionState(conn'[e]) = States[m]]_vars

(* A connection that ended without a reset has done its work: the peer     *)
(* has every byte this application wrote and knows that they are all, and  *)
(* this application has read all that the peer's wrote before it closed    *)
(* (tcp_connection.cc:96, :100).                                           *)
CleanEnd ==
    \A e \in Ends :
        LET here  == conn[e]
            there == conn[Peer(e)]
        IN  ~Active(here) /\ ~Outbound(here).error =>
                /\ Inbound(there).input_ended
                /\ Inbound(there).total_written = Outbound(here).total_written
                /\ Outbound(there).input_ended
                /\ Inbound(here).total_read = Outbound(there).total_written

(* A connection that is over stays over: no late segment, no tick, and no  *)
(* write, close or read of an application that does not know of its end    *)
(* yet, changes its sender, makes it active or makes it send; the wire to  *)
(* its peer only loses segments, to the peer (the early returns at         *)
(* tcp_connection.cc:32, :114, :131, :147).                                *)
EndsForGood ==
    [][\A e \in Ends : ~Active(conn[e]) =>
          /\ ~Active(conn'[e]) /\ conn'[e].sender = conn[e].sender
          /\ wire'[Peer(e)] \in {wire[Peer(e)]} \cup
                {RemoveAt(wire[Peer(e)], i) : i \in DOMAIN wire[Peer(e)]}]_vars

(* When both applications have closed, each connection comes to its end:   *)
(* TIME_WAIT runs out, and neither end waits for the other forever         *)
(* (tcp_connection.cc:96, :103).  It may only fail to when the peer's is   *)
(* over and was reset, the RST lost, or last spoke of a window of zero:    *)
(* what is sent again into a closed window is not counted                  *)
(* (tcp_sender.cc:166), and nobody answers it any more.                    *)
BothEnd ==
    []<>((\A e \in Ends : Outbound(conn[e]).input_ended) =>
            \A e \in Ends :
                LET there == conn[Peer(e)]
                IN  Active(conn[e]) =>
                        /\ ~Active(there)
                        /\ Outbound(there).error \/ conn[e].sender.wdn_sz = 0)
=============================================================================
