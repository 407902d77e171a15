-------------------------- MODULE MCHTTPRequestQueue --------------------------
(* Clients for the instances of HTTPRequestQueue.                           *)
EXTENDS HTTPRequestQueue

Messages(n, shapes) == UNION {[1..k -> shapes] : k \in 1..n}

ClientsWith(scripts, split, runOn) ==
    [script : scripts, split : {split}, runOn : {runOn}]

AllShapes == [headers : 0..2, body : {0, 1, 4}, keep : BOOLEAN]

\* A body comes only with the last message of the connection.
BodyLast == {s \in AllShapes : s.keep => s.body = 0}

\* One of each kind, so that three fit into one instance.
OneOfEach == {[headers |-> 0, body |-> 0, keep |-> TRUE],
              [headers |-> 1, body |-> 0, keep |-> TRUE],
              [headers |-> 0, body |-> 3, keep |-> TRUE],
              [headers |-> 0, body |-> 0, keep |-> FALSE]}

AllClients == ClientsWith(Messages(2, BodyLast), FALSE, FALSE)
              \cup ClientsWith(Messages(3, OneOfEach), TRUE, TRUE)

\* Small messages, bodies anywhere, each header block in reads of its own.
SmallClients ==
    ClientsWith(Messages(2, [headers : {0, 1}, body : {0, 4}, keep : BOOLEAN]), FALSE, FALSE)

\* One message with a body longer than its header block.
LongBody == ClientsWith({<<[headers |-> 0, body |-> 4, keep |-> FALSE]>>}, FALSE, TRUE)
=============================================================================
