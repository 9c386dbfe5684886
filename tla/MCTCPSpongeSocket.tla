---- MODULE MCTCPSpongeSocket ----
EXTENDS TCPSpongeSocket
IsnValue == [x |-> 30, y |-> 1]
StreamLengthsValue == [x |-> 1, y |-> 2]
====
