---------------------------- MODULE HTTPConnection ----------------------------
(***************************************************************************)
(* One HTTPConnection (src/src/httpconnection.c) between its client, its   *)
(* request queue, the router and its response, from http_connection_new to *)
(* http_connection_destroy.  Server has many connections and hides what    *)
(* one does with its bytes; here one connection is followed in full.       *)
(*                                                                         *)
(* The client pipelines its messages.  A message is one unit here: how its *)
(* bytes go through the buffer is HTTPRequestQueue's subject.  events are  *)
(* the slots event_loop_run still has to test for the event of this        *)
(* connection; when there are none left the collector runs.                *)
(***************************************************************************)
EXTENDS HTTPResponse

CONSTANTS
    BUFSIZE,       \* items one read of the response returns at most
    MAX_REQUESTS,  \* slots of the request queue
    MaxMessages,   \* bound on the messages of the client
    Faulty         \* whether memory_resize may fail

ASSUME ConnectionAssumption ==
    /\ BUFSIZE \in Nat \ {0}
    /\ MAX_REQUESTS \in Nat \ {0}
    /\ MaxMessages \in 1 .. MAX_REQUESTS
    /\ Faulty \in BOOLEAN

VARIABLES
    keep,       \* whether the m-th message of the client is keep-alive
    sent,       \* messages the client has sent
    garbage,    \* whether they are followed by bytes that are no message
    peer,       \* what the client did with its end: "open", "shut", "reset"
    events,     \* slots of the event still to test
    parsed,     \* messages the parser has completed: outgoing_index
    todo,       \* how much of the current read is not parsed yet
    response,
    tcp,        \* "open", or "closed" by tcp_connection_close
    scheduled,  \* whether finish_callback has put it into the collector's list
    state,      \* "live", "freed", or "undefined" after a use of lost memory
    answers,    \* all items appended to the response so far
    handed,     \* how many were taken out again by on_write
    out,        \* what the socket took of them
    outcome     \* "open", "closed" by on_write, "dropped" otherwise

vars == <<keep, sent, garbage, peer, events, parsed, todo, response, tcp,
          scheduled, state, answers, handed, out, outcome>>

clientVars == <<keep, sent, garbage, peer>>
historyVars == <<answers, handed, out, outcome>>

Init ==
    /\ keep \in [1 .. MaxMessages -> BOOLEAN]
    /\ sent = 0 /\ garbage = FALSE /\ peer = "open"
    /\ events = {} /\ parsed = 0 /\ todo = 0
    /\ response = http_response_new
    /\ tcp = "open" /\ scheduled = FALSE /\ state = "live"
    /\ answers = <<>> /\ handed = 0 /\ out = <<>> /\ outcome = "open"

-----------------------------------------------------------------------------
(* The client.                                                             *)

ClientSends ==
    /\ peer = "open" /\ ~garbage /\ sent < MaxMessages
    /\ sent' = sent + 1
    /\ UNCHANGED <<keep, garbage, peer, events, parsed, todo, response, tcp, scheduled, state>>
    /\ UNCHANGED historyVars

ClientSendsGarbage ==
    /\ peer = "open" /\ ~garbage
    /\ garbage' = TRUE
    /\ UNCHANGED <<keep, sent, peer, events, parsed, todo, response, tcp, scheduled, state>>
    /\ UNCHANGED historyVars

ClientLeaves ==
    /\ peer = "open"
    /\ peer' \in {"shut", "reset"}
    /\ UNCHANGED <<keep, sent, garbage, events, parsed, todo, response, tcp, scheduled, state>>
    /\ UNCHANGED historyVars

Client == ClientSends \/ ClientSendsGarbage \/ ClientLeaves

-----------------------------------------------------------------------------
(* The event loop.                                                         *)

Live == state = "live"

\* What the client has sent and the parser has not seen.
Waiting == sent - parsed + (IF garbage THEN 1 ELSE 0)

\* epoll_wait reports an event of the connection; wr is whether the socket
\* can take output.
Poll(wr) ==
    /\ Live /\ events = {} /\ todo = 0 /\ ~scheduled
    /\ events' = (IF Waiting > 0 \/ peer # "open" THEN {"READ"} ELSE {})
                  \cup (IF wr THEN {"WRITE"} ELSE {})
                  \cup (IF peer # "open" THEN {"CLOSE"} ELSE {})
    /\ events' # {}
    /\ UNCHANGED <<parsed, todo, response, tcp, scheduled, state>>
    /\ UNCHANGED clientVars /\ UNCHANGED historyVars

\* The batch is done: collector_collect runs http_connection_destroy.
Collect ==
    /\ Live /\ events = {} /\ todo = 0 /\ scheduled
    /\ state' = "freed" /\ tcp' = "closed"
    /\ UNCHANGED <<events, parsed, todo, response, scheduled>>
    /\ UNCHANGED clientVars /\ UNCHANGED historyVars

\* The callback of this slot is the next to run: CLOSE before READ before
\* WRITE.
Slot(t) ==
    /\ Live /\ todo = 0 /\ t \in events
    /\ t # "CLOSE" => "CLOSE" \notin events
    /\ t = "WRITE" => "READ" \notin events

\* tcp_connection_close, which removes the other callbacks of the event, and
\* finish_callback, which hands the connection to the collector.
CloseAndFinish ==
    /\ tcp' = "closed"
    /\ scheduled' = TRUE
    /\ events' = {}

Dropped == IF outcome = "open" THEN "dropped" ELSE outcome

\* Mutant: finish_callback is not called.
OnClose_forgets ==
    /\ Slot("CLOSE")
    /\ tcp' = "closed" /\ events' = {}
    /\ outcome' = Dropped
    /\ UNCHANGED <<parsed, todo, response, scheduled, state, answers, handed, out>>
    /\ UNCHANGED clientVars

OnClose ==
    /\ Slot("CLOSE")
    /\ CloseAndFinish
    /\ outcome' = Dropped
    /\ UNCHANGED <<parsed, todo, response, state, answers, handed, out>>
    /\ UNCHANGED clientVars

-----------------------------------------------------------------------------
(* on_read.                                                                *)

\* The parser accepts nothing behind a message that is not keep-alive.
Dead == parsed > 0 /\ ~keep[parsed]

\* recv fails: the connection is given up.
OnReadError ==
    /\ Slot("READ") /\ peer = "reset"
    /\ scheduled' = TRUE
    /\ events' = events \ {"READ"}
    /\ outcome' = Dropped
    /\ UNCHANGED <<parsed, todo, response, tcp, state, answers, handed, out>>
    /\ UNCHANGED clientVars

\* recv returns some of what waits.
OnReadData ==
    /\ Slot("READ") /\ peer # "reset"
    /\ todo' \in 1 .. Waiting
    /\ events' = events \ {"READ"}
    /\ UNCHANGED <<parsed, response, tcp, scheduled, state>>
    /\ UNCHANGED clientVars /\ UNCHANGED historyVars

\* Mutant: what http_router_serve returns is not ignored, and a message it
\* cannot serve ends the parsing.
AppendDataFails_unserved ==
    /\ Live /\ todo > 0
    /\ todo' = 0
    /\ scheduled' = TRUE
    /\ outcome' = Dropped
    /\ UNCHANGED <<events, parsed, response, tcp, state, answers, handed, out>>
    /\ UNCHANGED clientVars

\* http_request_queue_append_data returns -1: what comes next in this read is
\* garbage, or behind the last message.
AppendDataFails ==
    /\ Live /\ todo > 0
    /\ Dead \/ parsed = sent
    /\ todo' = 0
    /\ scheduled' = TRUE
    /\ outcome' = Dropped
    /\ UNCHANGED <<events, parsed, response, tcp, state, answers, handed, out>>
    /\ UNCHANGED clientVars

\* The request m, with the response as set_last left it and the page a
\* container writes.
ServeRequest(m, r, page) ==
    /\ Live /\ todo > 0 /\ ~Dead /\ parsed < sent
    /\ parsed' = m
    /\ todo' = todo - 1
    /\ \E n \in 0 .. Len(page) :
        /\ answers' = answers \o SubSeq(page, 1, n)
        /\ \/ response' = http_response_append_data(r, SubSeq(page, 1, n))
           \/ Faulty /\ response' = append_failed(http_response_append_data(r, SubSeq(page, 1, n)))
    /\ UNCHANGED <<events, tcp, scheduled, state, handed, out, outcome>>
    /\ UNCHANGED clientVars

\* http_request_is_last.
is_last(m) == ~keep[m] \/ m = MAX_REQUESTS

\* Mutant: the flag is set after http_router_serve.
OnNewRequest_flag_late ==
    LET m == parsed + 1
    IN  ServeRequest(m, http_response_set_last(response, is_last(m)),
                     http_response_write_error_by_code(response, m))

\* on_message_complete and on_new_request: the flag of this request goes to
\* the response before http_router_serve, whose result is ignored, appends
\* the answer.  A container may stop anywhere, and the null container answers
\* nothing.
OnNewRequest ==
    LET m == parsed + 1
        r == http_response_set_last(response, is_last(m))
    IN  ServeRequest(m, r, http_response_write_error_by_code(r, m))

-----------------------------------------------------------------------------
(* on_write.                                                               *)

\* There is something to send: send takes a part of it, or nothing (EAGAIN,
\* or an error that is only logged); what it does not take is gone.
OnWriteData ==
    LET n == avaiable_length(response, BUFSIZE)
    IN  /\ Slot("WRITE") /\ n > 0 /\ ~Lost(response)
        /\ response' = http_response_read_data(response, BUFSIZE)
        /\ handed' = handed + n
        /\ \E k \in 0 .. n : out' = out \o SubSeq(response.buffer, 1, k)
        /\ events' = events \ {"WRITE"}
        /\ UNCHANGED <<parsed, todo, tcp, scheduled, state, answers, outcome>>
        /\ UNCHANGED clientVars

\* memcpy from the NULL buffer of a response that was lost.
OnWriteLost ==
    /\ Slot("WRITE") /\ Lost(response)
    /\ state' = "undefined"
    /\ UNCHANGED <<events, parsed, todo, response, tcp, scheduled>>
    /\ UNCHANGED clientVars /\ UNCHANGED historyVars

\* After the last request the connection is closed.  Mutants: always, never.
CloseIfLast_always == CloseAndFinish /\ outcome' = "closed"
CloseIfLast_never == events' = events \ {"WRITE"} /\ UNCHANGED <<tcp, scheduled, outcome>>
CloseIfLast ==
    IF response.is_last
    THEN CloseAndFinish /\ outcome' = "closed"
    ELSE events' = events \ {"WRITE"} /\ UNCHANGED <<tcp, scheduled, outcome>>

\* There is nothing to send.
OnWriteDone ==
    /\ Slot("WRITE") /\ response.buffer_length = 0
    /\ CloseIfLast
    /\ UNCHANGED <<parsed, todo, response, state, answers, handed, out>>
    /\ UNCHANGED clientVars

\* http_response_read_data returns -1, which on_write takes for no data.
OnWriteReadFails ==
    /\ Slot("WRITE") /\ Faulty
    /\ response.buffer_length > BUFSIZE /\ ~Lost(response)
    /\ response' = read_failed(response, BUFSIZE)
    /\ handed' = handed + BUFSIZE
    /\ CloseIfLast
    /\ UNCHANGED <<parsed, todo, state, answers, out>>
    /\ UNCHANGED clientVars

Ended == state # "live" /\ UNCHANGED vars

-----------------------------------------------------------------------------
LoopThread ==
    \/ \E wr \in BOOLEAN : Poll(wr)
    \/ Collect
    \/ OnClose
    \/ OnReadError \/ OnReadData
    \/ AppendDataFails
    \/ OnNewRequest
    \/ OnWriteData \/ OnWriteLost \/ OnWriteDone \/ OnWriteReadFails

Next == Client \/ LoopThread \/ Ended

Spec == Init /\ [][Next]_vars

\* The loop runs, and a client that is there takes its output again and again.
Fairness == WF_vars(LoopThread) /\ SF_vars(Poll(TRUE))

FairSpec == Spec /\ Fairness

-----------------------------------------------------------------------------
(* Properties.                                                             *)

Parts == {"status", "header", "server", "date", "close", "eol", "body"}
Items == [msg : 1 .. MaxMessages, part : Parts] \cup {JUNK}

\* The type invariant.
TypeOK ==
    /\ keep \in [1 .. MaxMessages -> BOOLEAN]
    /\ sent \in 0 .. MaxMessages /\ garbage \in BOOLEAN
    /\ peer \in {"open", "shut", "reset"}
    /\ events \subseteq {"CLOSE", "READ", "WRITE"}
    /\ parsed \in 0 .. sent /\ todo \in 0 .. Waiting
    /\ response.buffer \in Seq(Items) /\ response.buffer_length \in Nat
    /\ response.is_last \in BOOLEAN
    /\ tcp \in {"open", "closed"} /\ scheduled \in BOOLEAN
    /\ state \in {"live", "freed", "undefined"}
    /\ answers \in Seq(Items) /\ handed \in 0 .. Len(answers) /\ out \in Seq(Items)
    /\ outcome \in {"open", "closed", "dropped"}

\* The connection keeps what HTTPExchange promises.
Exchange == INSTANCE HTTPExchange
    WITH Chunk <- BUFSIZE, last <- response.is_last, state <- outcome
KeepsPromise == Exchange!Spec

\* No answer follows one that announced "Connection: Close", and when on_write
\* closes the connection, the answer to the latest request had announced it, if
\* its headers were written to their end.
AnnouncesClose ==
    \A i \in DOMAIN answers :
        /\ answers[i].part = "close" =>
             \A j \in DOMAIN answers : answers[j].msg <= answers[i].msg
        /\ answers[i].part = "eol" /\ outcome = "closed" /\ answers[i].msg = parsed =>
             i > 1 /\ answers[i - 1].part = "close"

\* The response holds exactly what was appended and not yet taken, across
\* pipelined requests, partial reads and regrowth of the buffer.
ResponseIsRest ==
    /\ response.buffer_length = Len(answers) - handed
    /\ ~Lost(response) /\ ~Faulty =>
            response.buffer = SubSeq(answers, handed + 1, Len(answers))

\* A client that stays, sends nothing but messages and nothing behind its last
\* one is never given up: a page the router does not find, a read cut anywhere,
\* a full socket or a callback that runs late is no reason.  One that is given
\* up for what it sent has had every message in front of that served.
GivenUpForCause ==
    outcome = "dropped" /\ peer = "open" =>
        /\ garbage \/ \E m \in 1 .. sent - 1 : ~keep[m]
        /\ \A m \in parsed + 1 .. sent : \E last \in 1 .. m - 1 : ~keep[last]

\* Once the last request has been served the server closes the connection and
\* frees it, unless memory is lost first, whatever else the client sends.
LastIsClosed == response.is_last ~> state # "live"

\* So does a connection whose client has left.
LeftIsFreed == peer # "open" ~> state # "live"

=============================================================================
