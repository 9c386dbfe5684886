---- MODULE MCAdapters ----
EXTENDS Adapters
AddressValue == [s |-> [ip |-> <<2560, 1>>, port |-> 80],
                 a |-> [ip |-> <<2560, 2>>, port |-> 40000],
                 b |-> [ip |-> <<2561, 3>>, port |-> 40001]]
EthernetValue == [s |-> <<512, 0, 1>>, a |-> <<512, 0, 2>>, b |-> <<512, 0, 3>>]
BroadcastValue == <<65535, 65535, 65535>>
Segment(seqno, ackno, ack, syn, fin, payload) ==
    [sport |-> 0, dport |-> 0, seqno |-> seqno, ackno |-> ackno, doff |-> 5, urg |-> FALSE,
     ack |-> ack, psh |-> FALSE, rst |-> FALSE, syn |-> syn, fin |-> fin, win |-> 64000,
     cksum |-> 0, uptr |-> 0, payload |-> payload]
Syn == Segment(<<65535, 65535>>, <<0, 0>>, FALSE, TRUE, FALSE, <<>>)
Data == Segment(<<0, 0>>, <<4660, 1>>, TRUE, FALSE, TRUE, <<0, 255, 7>>)
SynAck == Segment(<<4660, 0>>, <<0, 0>>, TRUE, TRUE, FALSE, <<>>)
SegmentsValue == [s |-> <<SynAck>>, a |-> <<Syn, Data>>, b |-> <<Syn>>]
====
