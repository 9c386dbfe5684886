-------------------------- MODULE TCPSpongeSocket --------------------------
(***************************************************************************)
(* The socket of tcp_helpers/tcp_sponge_socket.cc around end x of          *)
(* Endpoints: its owner calls connect() and then reads and writes one side *)
(* of a socket pair, while a thread serves the other side and the          *)
(* datagrams with the four rules of an EventLoop (util/eventloop.cc).  The *)
(* owner and the peer act between any two steps of the thread, which has   *)
(* one step for poll() and one for each callback.                          *)
(***************************************************************************)
EXTENDS Endpoints

CONSTANT PipeCapacity   \* the bytes each direction of the socket pair holds

ASSUME SocketAssumption == PipeCapacity \in Nat \ {0}

VARIABLES phase,   \* idle, connecting, running, over, or crashed by an exception
          pc,      \* what the thread does next: "poll", "serve" or "tick"
          todo,    \* the rules poll() found ready, served in their order
          rules,   \* the rules that are not cancelled
          pipe,    \* the socket pair and the flags of the socket
          owner    \* what the owner has written and read

socket_vars == <<phase, pc, todo, rules, pipe, owner>>
all_vars == <<vars, socket_vars>>

x == conn["x"]

SocketInit ==
    /\ Init
    /\ phase = "idle" /\ pc = "poll" /\ todo = {} /\ rules = {1, 2, 3, 4}
    /\ pipe = [to_thread |-> <<>>, to_owner |-> <<>>,
               owner_done |-> FALSE,   \* the owner shut down its writing side
               thread_eof |-> FALSE,   \* _thread_data.eof()
               outbound_shutdown |-> FALSE, inbound_shutdown |-> FALSE, abort |-> FALSE]
    /\ owner = [written |-> 0, read |-> <<>>, eof |-> FALSE]

(* The thread, or its owner in connect(), leaves connection c behind.      *)
SetConnection(c) == conn' = [conn EXCEPT !["x"] = c]

SocketConnect ==
    /\ phase = "idle" /\ phase' = "connecting"
    /\ SetConnection(ConnectionConnect(x))
    /\ UNCHANGED <<wire, losses, pc, todo, rules, pipe, owner>>

-----------------------------------------------------------------------------
(* There are bytes for the owner, or the end of them is still to announce. *)
InboundWaits(c) ==
    \/ BufferSize(Inbound(c)) > 0
    \/ (Eof(Inbound(c)) \/ Inbound(c).error) /\ ~pipe.inbound_shutdown

(* Mutant: the last segments of a connection that is over stay behind.     *)
SegmentsWhileActive(c) == Active(c) /\ c.segments_out # <<>>

SegmentsWait(c) == c.segments_out # <<>>

(* The rules' interest, and what poll() says of their file descriptors.    *)
Interest(i, c) ==
    CASE i = 1 -> Active(c)
      [] i = 2 -> /\ Active(c) /\ ~pipe.outbound_shutdown
                  /\ RemainingOutboundCapacity(c) > 0
      [] i = 3 -> InboundWaits(c)
      [] i = 4 -> SegmentsWait(c)

Ready(i) ==
    CASE i = 1 -> wire["x"] # <<>>
      [] i = 2 -> pipe.to_thread # <<>> \/ pipe.owner_done
      [] i = 3 -> Len(pipe.to_owner) < PipeCapacity
      [] i = 4 -> TRUE

(* Both directions of the socket pair are shut down.                       *)
HungUp(i) == i \in {2, 3} /\ pipe.owner_done /\ pipe.inbound_shutdown

(* wait_next_event up to poll(): rule 2 is cancelled once its descriptor   *)
(* is at its end, which ends the outbound stream; with no interest left    *)
(* the loop is over, and so is the thread.  When nothing is ready poll()   *)
(* waits until its timeout.                                                *)
Poll ==
    LET cancelled == {i \in rules \cap {2} : pipe.thread_eof}
        c         == IF cancelled = {} THEN x ELSE EndInputStream(x)
        asked     == {i \in rules \ cancelled : Interest(i, c)}
        ready     == {i \in asked : Ready(i)}
    IN  /\ pc = "poll"
        /\ \/ phase = "running"
           \/ phase = "connecting" /\ InState(x, "SYN_SENT")
        /\ SetConnection(c)
        /\ pipe' = [pipe EXCEPT !.outbound_shutdown = @ \/ cancelled # {}]
        /\ rules' = {i \in rules \ cancelled : ~(i \in asked \ ready /\ HungUp(i))}
        /\ todo' = ready
        /\ phase' = IF asked = {} THEN "over" ELSE phase
        /\ pc' = IF ready = {} THEN "tick" ELSE "serve"
        /\ UNCHANGED <<wire, losses, owner>>

(* The callback of rule i leaves connection c behind.                      *)
Serve(i, c) ==
    /\ pc = "serve" /\ i \in todo /\ \A j \in todo : i <= j
    /\ SetConnection(c)
    /\ todo' = todo \ {i}
    /\ pc' = IF todo' = {} THEN "tick" ELSE pc
    /\ UNCHANGED <<losses, rules, owner>>

(* Rule 1: a datagram has arrived.                                         *)
SegmentArrives ==
    /\ Serve(1, ConnectionReceived(x, Head(wire["x"])))
    /\ wire' = [wire EXCEPT !["x"] = Tail(@)]
    /\ UNCHANGED <<phase, pipe>>

(* What read() takes out of the socket pair.                               *)
FromPipe(c) == Take(pipe.to_thread,
                    Least(RemainingOutboundCapacity(c), Len(pipe.to_thread)))

(* Rule 2: bytes of the owner, or the end of them, go to the connection,   *)
(* which has to accept them all.                                           *)
OwnerBytes ==
    LET data     == FromPipe(x)
        eof      == data = <<>>
        accepted == IF Active(x) THEN Least(Len(data), RemainingOutboundCapacity(x)) ELSE 0
        written  == ConnectionWrite(x, data)
    IN  /\ Serve(2, IF eof THEN EndInputStream(written) ELSE written)
        /\ phase' = IF accepted # Len(data) THEN "crashed" ELSE phase
        /\ pipe' = [pipe EXCEPT !.to_thread = Drop(@, Len(data)), !.thread_eof = @ \/ eof,
                                !.outbound_shutdown = @ \/ eof]
        /\ UNCHANGED wire

(* Mutant: the peer's FIN ends the stream before its bytes are read.       *)
PeerFinished(s) == s.input_ended \/ s.error

InboundEnds(s) == Eof(s) \/ s.error

(* What write() puts into the socket pair: as much as it has room for.     *)
IntoPipe(c) == PeekOutput(Inbound(c), PipeCapacity - Len(pipe.to_owner))

(* Rule 3: bytes for the owner, and the end of them; once that is          *)
(* announced, a further write fails.                                       *)
BytesForOwner ==
    LET data == IntoPipe(x)
        c    == ConnectionRead(x, Len(data))
    IN  /\ Serve(3, c)
        /\ phase' = IF pipe.inbound_shutdown /\ data # <<>> THEN "crashed" ELSE phase
        /\ pipe' = [pipe EXCEPT !.to_owner = @ \o data,
                                !.inbound_shutdown = @ \/ InboundEnds(Inbound(c))]
        /\ UNCHANGED wire

(* Rule 4: all segments leave.                                             *)
SegmentsLeave ==
    /\ Serve(4, [x EXCEPT !.segments_out = <<>>])
    /\ wire' = [wire EXCEPT !["y"] = @ \o x.segments_out]
    /\ UNCHANGED <<phase, pipe>>

(* Mutant: the thread goes on until the owner has read everything.         *)
AbortOnceRead == pipe.abort /\ pipe.to_owner = <<>>

Abort == pipe.abort

(* After the wait: an abort ends the thread and destroys the connection,   *)
(* otherwise an active connection hears of the time that went by.          *)
AfterWait ==
    \E ms \in {0, 1} :
        /\ pc = "tick" /\ phase \in {"connecting", "running"}
        /\ ms = 1 => Len(wire["x"]) + Len(wire["y"]) < MaxOnWire
        /\ SetConnection(IF ~Abort THEN ConnectionTick(x, ms)
                         ELSE IF Active(x) THEN [UncleanShutdown(x) EXCEPT !.segments_out = <<>>]
                         ELSE x)
        /\ phase' = IF Abort THEN "over" ELSE phase
        /\ pc' = "poll"
        /\ UNCHANGED <<wire, losses, todo, rules, pipe, owner>>

(* connect() returns to the owner and the thread goes on.                  *)
Connected ==
    /\ phase = "connecting" /\ pc = "poll" /\ ~InState(x, "SYN_SENT")
    /\ phase' = "running"
    /\ UNCHANGED <<vars, pc, todo, rules, pipe, owner>>

Thread ==
    \/ Connected \/ Poll \/ AfterWait
    \/ phase # "crashed" /\ (SegmentArrives \/ OwnerBytes \/ BytesForOwner \/ SegmentsLeave)
-----------------------------------------------------------------------------
OwnerMayCall == phase \in {"running", "over"} /\ ~pipe.abort

OwnerWrites ==
    /\ OwnerMayCall /\ phase = "running" /\ ~pipe.owner_done
    /\ Len(pipe.to_thread) < PipeCapacity /\ owner.written < StreamLengths["x"]
    /\ pipe' = [pipe EXCEPT !.to_thread = Append(@, owner.written)]
    /\ owner' = [owner EXCEPT !.written = @ + 1]
    /\ UNCHANGED <<vars, phase, pc, todo, rules>>

OwnerReads ==
    /\ OwnerMayCall /\ ~owner.eof
    /\ pipe.to_owner # <<>> \/ pipe.inbound_shutdown \/ phase = "over"
    /\ owner' = [owner EXCEPT !.read = @ \o pipe.to_owner, !.eof = pipe.to_owner = <<>>]
    /\ pipe' = [pipe EXCEPT !.to_owner = <<>>]
    /\ UNCHANGED <<vars, phase, pc, todo, rules>>

(* shutdown(SHUT_WR), or wait_until_closed() once the owner has seen the   *)
(* end of what it reads.                                                   *)
OwnerCloses ==
    /\ OwnerMayCall /\ phase = "running" /\ ~pipe.owner_done
    /\ pipe' = [pipe EXCEPT !.owner_done = TRUE]
    /\ UNCHANGED <<vars, phase, pc, todo, rules, owner>>

(* ~TCPSpongeSocket                                                        *)
OwnerDestroys ==
    /\ OwnerMayCall /\ "x" \in MayDestroy /\ phase = "running"
    /\ pipe' = [pipe EXCEPT !.abort = TRUE]
    /\ UNCHANGED <<vars, phase, pc, todo, rules, owner>>

PeerActs ==
    /\ \/ Close("y") \/ Tick("y") \/ Read("y")
       \/ \E len \in 1..SendCapacity : Write("y", len)
       \/ wire["y"] # <<>> /\ Deliver("y", 1)
    /\ UNCHANGED socket_vars

SocketNext ==
    \/ SocketConnect \/ Thread \/ PeerActs
    \/ OwnerWrites \/ OwnerReads \/ OwnerCloses \/ OwnerDestroys

SocketSpec == SocketInit /\ [][SocketNext]_all_vars

(* The thread goes on, and time with it; the peer is as in Endpoints.  The *)
(* owner reads until it destroys the socket, and then waits for the thread *)
(* whatever it has left unread; an exception in the thread ends the        *)
(* program, the owner with it.                                             *)
SocketFairness ==
    /\ []<>(phase \in {"over", "crashed"}) \/ []<><<Thread>>_all_vars
    /\ []<>(ConnectionTick(x, 1) = x) \/ []<><<AfterWait /\ x' = ConnectionTick(x, 1)>>_all_vars
    /\ []<>(ConnectionTick(conn["y"], 1) = conn["y"]) \/ []<><<Tick("y")>>_vars
    /\ []<>(wire["y"] = <<>>) \/ []<><<Deliver("y", 1)>>_vars
    /\ []<>(Inbound(conn["y"]).buf = <<>>)
    /\ []<>(pipe.to_owner = <<>> \/ pipe.abort \/ phase = "crashed")

SocketFairSpec == SocketSpec /\ SocketFairness
-----------------------------------------------------------------------------
(* The owner reads what the peer's application wrote, in order; when it    *)
(* sees the end, and the connection was not reset or aborted, it has read  *)
(* everything and the peer has closed (tcp_sponge_socket.cc:132, :136).    *)
OwnerReadsAll ==
    LET wrote == Outbound(conn["y"])
    IN  /\ owner.read = Substring(0, Len(owner.read))
        /\ Len(owner.read) <= wrote.total_written
        /\ owner.eof /\ ~Inbound(x).error =>
               wrote.input_ended /\ Len(owner.read) = wrote.total_written

(* A thread that ends by itself leaves nothing behind: its last segments,  *)
(* a RST among them, are on the wire, and unless the connection was reset  *)
(* the owner can read every byte and the end of them                       *)
(* (eventloop.cc:92, tcp_sponge_socket.cc:149, :162).                      *)
NothingStranded ==
    phase = "over" /\ ~pipe.abort =>
        /\ x.segments_out = <<>>
        /\ ~Inbound(x).error => Inbound(x).buf = <<>> /\ pipe.inbound_shutdown

(* The thread throws only when the connection was reset: the stream always *)
(* takes the bytes that rule 2 hands to it, and rule 3 writes nothing      *)
(* after the end (tcp_sponge_socket.cc:102, :137).                         *)
ThrowsOnlyOnReset == phase = "crashed" => Inbound(x).error

(* The owner's wait for the thread comes to an end, in the destructor and, *)
(* when the peer closes as well, in wait_until_closed()                    *)
(* (tcp_sponge_socket.cc:186, :198).                                       *)
Joins ==
    []<>(pipe.abort \/ (pipe.owner_done /\ Outbound(conn["y"]).input_ended) =>
            phase \in {"over", "crashed"})

(* The thread never throws (tcp_sponge_socket.cc:103).                     *)
NeverThrows == phase # "crashed"
=============================================================================
