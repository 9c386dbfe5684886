---- MODULE MCEndpoints ----
EXTENDS Endpoints
IsnValue == [x |-> 30, y |-> 1]
StreamLengthsValue == [x |-> 1, y |-> 1]
====
