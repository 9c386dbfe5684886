------------------------------ MODULE TCPState ------------------------------
(***************************************************************************)
(* The summary of a connection in terms of the official TCP states, of     *)
(* libsponge/tcp_helpers/tcp_state.cc.                                     *)
(***************************************************************************)
EXTENDS TCPConnection

ReceiverSummary(r) ==
    CASE r.reassembler.output.error -> "ERROR"
      [] OTHER -> IF ~r.syn THEN "LISTEN"
                  ELSE IF r.reassembler.output.input_ended THEN "FIN_RECV" ELSE "SYN_RECV"

SenderSummary(s) ==
    CASE s.stream.error -> "ERROR"
      [] OTHER -> IF s.next_seqno = 0 THEN "CLOSED"
                  ELSE IF s.next_seqno = s.bytes_in_flight THEN "SYN_SENT"
                  ELSE IF ~Eof(s.stream) \/ s.next_seqno < s.stream.total_written + 2
                       THEN "SYN_ACKED"
                  ELSE IF s.bytes_in_flight > 0 THEN "FIN_SENT" ELSE "FIN_ACKED"

ConnectionState(c) ==
    [sender |-> SenderSummary(c.sender), receiver |-> ReceiverSummary(c.receiver),
     active |-> Active(c), linger |-> Active(c) /\ c.linger_after_streams_finish]

(* What each official state stands for.                                    *)
OfficialStates ==
    LET state(sender, receiver, active, linger) ==
            [sender |-> sender, receiver |-> receiver, active |-> active, linger |-> linger]
    IN  [LISTEN      |-> state("CLOSED",    "LISTEN",   TRUE,  TRUE),
         SYN_RCVD    |-> state("SYN_SENT",  "SYN_RECV", TRUE,  TRUE),
         SYN_SENT    |-> state("SYN_SENT",  "LISTEN",   TRUE,  TRUE),
         ESTABLISHED |-> state("SYN_ACKED", "SYN_RECV", TRUE,  TRUE),
         CLOSE_WAIT  |-> state("SYN_ACKED", "FIN_RECV", TRUE,  FALSE),
         LAST_ACK    |-> state("FIN_SENT",  "FIN_RECV", TRUE,  FALSE),
         CLOSING     |-> state("FIN_SENT",  "FIN_RECV", TRUE,  TRUE),
         FIN_WAIT_1  |-> state("FIN_SENT",  "SYN_RECV", TRUE,  TRUE),
         FIN_WAIT_2  |-> state("FIN_ACKED", "SYN_RECV", TRUE,  TRUE),
         TIME_WAIT   |-> state("FIN_ACKED", "FIN_RECV", TRUE,  TRUE),
         RESET       |-> state("ERROR",     "ERROR",    FALSE, FALSE),
         CLOSED      |-> state("FIN_ACKED", "FIN_RECV", FALSE, FALSE)]

InState(c, name) == ConnectionState(c) = OfficialStates[name]
=============================================================================
