--------------------------- MODULE HTTPRequestQueue ---------------------------
(***************************************************************************)
(* One connection's request queue (src/src/httprequestqueue.c): the bytes  *)
(* a client streams, cut into reads, pass through a buffer that grows and  *)
(* shrinks under the parser's feet, and come out as requests whose parts   *)
(* are ranges into a copy of that buffer (src/src/httprequest.c).          *)
(*                                                                         *)
(* A byte is a token that knows which message and which part it is of.     *)
(* Every url, header field and header value is SpanLen tokens long.  The   *)
(* parser is joyent's http_parser, an external library: it is modelled by  *)
(* the callbacks it makes, by the nread, content_length and keep-alive     *)
(* the callbacks consult, and as the default strict build that accepts     *)
(* nothing after a message that is not keep-alive.                         *)
(*                                                                         *)
(* mem is the heap block behind queue->buffer at its physical size, so     *)
(* that what the parser reads after on_headers_complete has moved and      *)
(* shrunk the block is there to be read.                                   *)
(***************************************************************************)
EXTENDS Integers, Sequences, SequencesExt

CONSTANTS
    HTTP_REQUEST_MAX_HEADERS,
    MAX_REQUESTS,
    Clients,       \* what clients may send and how it may be cut
    SpanLen,       \* tokens in a url, a header field or a header value
    Faulty,        \* whether allocations may fail
    JUNK, NULL, FREED

Sent == [msg : Nat, part : {"url", "field", "value", "end", "body"}, h : Nat]

Tokens == Sent \cup {JUNK}

\* A memory range: its offset and its length.
Ranges == Nat \X Nat

RequestRecord == [url : Ranges, ranges : Seq(Ranges \X Ranges), key : Ranges,
                  headers_buffer : Seq(Tokens), body : Seq(Tokens), last : BOOLEAN]

ASSUME QueueAssumption ==
    /\ HTTP_REQUEST_MAX_HEADERS \in Nat \ {0}
    /\ MAX_REQUESTS \in Nat \ {0}
    /\ \A c \in Clients :
        /\ c.script \in Seq([headers : Nat, body : Nat, keep : BOOLEAN])
        /\ {c.split, c.runOn} \subseteq BOOLEAN
    /\ SpanLen \in Nat \ {0}
    /\ Faulty \in BOOLEAN
    /\ JUNK \notin Sent
    /\ NULL \notin RequestRecord /\ FREED \notin RequestRecord /\ NULL # FREED

VARIABLES
    pc,              \* where http_request_queue_append_data is
    client,          \* the client: its messages, whether a read may end inside
                     \* a url, field or value, and whether it may go on behind
                     \* the end of a header block
    got,             \* tokens of the stream read so far
    mem,             \* the block behind queue->buffer
    buffer_length,
    at, stop,        \* the parser's position in mem and the end of its input
    parser,
    current_header,
    requests,        \* the slots of queue->requests
    incoming_index,
    outgoing_index,
    served           \* the requests handed to the router, as they were then

vars == <<pc, client, got, mem, buffer_length, at, stop, parser,
          current_header, requests, incoming_index, outgoing_index, served>>

-----------------------------------------------------------------------------
(* The stream.                                                             *)

script == client.script

Span(m, part, h) == [j \in 1..SpanLen |-> [msg |-> m, part |-> part, h |-> h]]

Header(m, h) == Span(m, "field", h) \o Span(m, "value", h)

Headers(m, n) == FlattenSeq([h \in 1..n |-> Header(m, h)])

Body(m, n) == [j \in 1..n |-> [msg |-> m, part |-> "body", h |-> j]]

Message(m) ==
    Span(m, "url", 0) \o Headers(m, script[m].headers)
        \o <<[msg |-> m, part |-> "end", h |-> 0]>> \o Body(m, script[m].body)

Stream == FlattenSeq([m \in DOMAIN script |-> Message(m)])

\* The client's system may cut the stream after its e-th token.
MayEnd(e) ==
    /\ ~client.split /\ e < Len(Stream) => Stream[e] # Stream[e + 1]
    /\ ~client.runOn => \A i \in got + 1 .. e - 1 : Stream[i].part # "end"

-----------------------------------------------------------------------------
NewRequest == [url |-> <<0, 0>>, ranges |-> <<>>, key |-> <<0, 0>>,
               headers_buffer |-> <<>>, body |-> <<>>, last |-> FALSE]

\* EXTRACT_MEMORY_RANGE, which reads whatever lies behind a buffer that is too short.
extract(buffer, range) ==
    [i \in 1 .. range[2] |-> IF range[1] + i <= Len(buffer) THEN buffer[range[1] + i] ELSE JUNK]

IdleParser == [state |-> "start", nread |-> 0, body_left |-> 0, keep |-> TRUE]

Init ==
    /\ pc = "idle"
    /\ client \in Clients
    /\ got = 0
    /\ mem = <<>> /\ buffer_length = 0
    /\ at = 1 /\ stop = 0
    /\ parser = IdleParser
    /\ current_header = 0
    /\ requests = [i \in 0..MAX_REQUESTS - 1 |-> NULL]
    /\ incoming_index = 0 /\ outgoing_index = 0
    /\ served = <<>>

\* Mutant: buffer_length is not increased.
AppendData_keeps_length ==
    /\ pc = "idle"
    /\ \E e \in got + 1 .. Len(Stream) :
        /\ MayEnd(e)
        /\ got' = e
        /\ mem' = SubSeq(mem, 1, buffer_length) \o SubSeq(Stream, got + 1, e)
        /\ at' = buffer_length + 1
        /\ stop' = buffer_length + (e - got)
        /\ pc' = "parse"
    /\ UNCHANGED <<client, buffer_length, parser, current_header, requests,
                   incoming_index, outgoing_index, served>>

\* http_request_queue_append_data up to http_parser_execute.
AppendData ==
    /\ pc = "idle"
    /\ \E e \in got + 1 .. Len(Stream) :
        /\ MayEnd(e)
        /\ got' = e
        /\ \/ /\ mem' = SubSeq(mem, 1, buffer_length) \o SubSeq(Stream, got + 1, e)
              /\ at' = buffer_length + 1
              /\ buffer_length' = buffer_length + (e - got)
              /\ stop' = buffer_length'
              /\ pc' = "parse"
           \/ /\ Faulty
              /\ mem' = <<>>
              /\ pc' = "failed"
              /\ UNCHANGED <<buffer_length, at, stop>>
    /\ UNCHANGED <<client, parser, current_header, requests, incoming_index,
                   outgoing_index, served>>

-----------------------------------------------------------------------------
(* http_parser_execute.                                                    *)

Parsing == pc = "parse" /\ parser.state # "complete" /\ at <= stop
Token == mem[at]
Part == IF Token = JUNK THEN "junk" ELSE Token.part

\* The parts that may come next in a header block.
Follows == [begin |-> {"url"},
            url   |-> {"url", "field", "end"},
            field |-> {"field", "value"},
            value |-> {"value", "field", "end"}]

\* The parser meets a token of this part in the header block.
Meets(part) ==
    /\ Parsing
    /\ parser.state \in DOMAIN Follows
    /\ Part = part /\ part \in Follows[parser.state]

\* How many tokens from at on belong to one span: one callback's length.
Length == LET run == {n \in 1 .. stop - at + 1 : \A i \in 0 .. n - 1 : mem[at + i] = Token}
          IN  CHOOSE n \in run : \A k \in run : k <= n

Request == requests[incoming_index]

\* Mutant: the offset is off by one.
MemoryRange_off_by_one == <<at, Length>>
MemoryRange == <<at - 1, Length>>

\* A callback of the header block that returned 0 with the request as r.
Accept(state, r) ==
    /\ requests' = [requests EXCEPT ![incoming_index] = r]
    /\ parser' = [parser EXCEPT !.state = state, !.nread = parser.nread + Length]
    /\ at' = at + Length
    /\ UNCHANGED <<pc, client, got, mem, buffer_length, stop, incoming_index,
                   outgoing_index, served>>

\* A callback returned -1, or the input is no request: append_data returns
\* -1 and the connection is given up.
Fail(reason) ==
    /\ pc' = reason
    /\ UNCHANGED <<client, got, mem, buffer_length, at, stop, parser, current_header,
                   incoming_index, outgoing_index, served>>

\* on_message_begin.  The message after the last slot's is written behind
\* the array: the run is not followed any further.
OnMessageBegin ==
    /\ Parsing /\ parser.state = "start"
    /\ Part = "url"
    /\ IF incoming_index = MAX_REQUESTS
       THEN Fail("undefined") /\ UNCHANGED requests
       ELSE \/ /\ requests' = [requests EXCEPT ![incoming_index] = NewRequest]
               /\ parser' = [parser EXCEPT !.state = "begin", !.nread = 0]
               /\ UNCHANGED <<pc, client, got, mem, buffer_length, at, stop,
                              current_header, incoming_index, outgoing_index, served>>
            \/ /\ Faulty
               /\ requests' = [requests EXCEPT ![incoming_index] = NULL]
               /\ Fail("failed")

\* on_url: a piece of a url need not parse as a url.
OnUrl ==
    /\ Meets("url")
    /\ \/ Accept("url", [Request EXCEPT !.url = MemoryRange]) /\ UNCHANGED current_header
       \/ Length < SpanLen /\ Fail("failed") /\ UNCHANGED requests

\* on_header_field.
OnHeaderField ==
    /\ Meets("field")
    /\ IF current_header >= HTTP_REQUEST_MAX_HEADERS
       THEN Fail("failed") /\ UNCHANGED requests
       ELSE Accept("field", [Request EXCEPT !.key = MemoryRange]) /\ UNCHANGED current_header

\* on_header_value: the value is stored with the key of the same index, which
\* is empty when the value before was only the first piece of this one.
OnHeaderValue ==
    /\ Meets("value")
    /\ IF current_header >= HTTP_REQUEST_MAX_HEADERS
       THEN Fail("undefined") /\ UNCHANGED requests
       ELSE /\ Accept("value", [Request EXCEPT !.ranges = Append(Request.ranges, <<Request.key, MemoryRange>>),
                                               !.key = <<0, 0>>])
            /\ current_header' = current_header + 1

\* Mutant: the bytes behind the header block stay where they are.
Moved_not(nread, rest) ==
    {[i \in 1 .. Len(mem) |-> IF i <= rest \/ stale THEN mem[i] ELSE JUNK] : stale \in BOOLEAN}

\* The block after memmove and realloc: the bytes behind the header block now
\* lie in front, and the released tail keeps its contents or not.
Moved(nread, rest) ==
    {[i \in 1 .. Len(mem) |-> IF i <= rest THEN mem[i + nread]
                              ELSE IF stale THEN mem[i] ELSE JUNK] : stale \in BOOLEAN}

\* on_headers_complete.
OnHeadersComplete ==
    /\ Meets("end")
    /\ \/ LET nread == parser.nread + 1
              rest  == buffer_length - nread
              msg   == script[Token.msg]
          IN  /\ requests' = [requests EXCEPT ![incoming_index] =
                    [Request EXCEPT !.last = ~msg.keep,
                                    !.headers_buffer = SubSeq(mem, 1, nread)]]
              /\ buffer_length' = rest
              /\ IF rest = 0 THEN mem' = <<>> ELSE mem' \in Moved(nread, rest)
              /\ parser' = [state |-> IF msg.body > 0 THEN "body" ELSE "complete",
                            nread |-> nread, body_left |-> msg.body, keep |-> msg.keep]
              /\ at' = at + 1
              /\ UNCHANGED <<pc, client, got, stop, current_header, incoming_index,
                             outgoing_index, served>>
       \/ Faulty /\ Fail("failed") /\ UNCHANGED requests

\* on_body: what has arrived of the body, whatever it is.
OnBody ==
    /\ Parsing /\ parser.state = "body"
    /\ LET n == IF stop - at + 1 < parser.body_left THEN stop - at + 1 ELSE parser.body_left
       IN  /\ requests' = [requests EXCEPT ![incoming_index].body =
                                Request.body \o SubSeq(mem, at, at + n - 1)]
           /\ parser' = [parser EXCEPT !.body_left = parser.body_left - n,
                                       !.state = IF n = parser.body_left THEN "complete" ELSE "body"]
           /\ at' = at + n
    /\ UNCHANGED <<pc, client, got, mem, buffer_length, stop, current_header,
                   incoming_index, outgoing_index, served>>

\* Mutant: the slot before the last one counts as the last.
LastSlot_early(index) == index = MAX_REQUESTS - 1

\* Whether the request in front of this slot is the last one there is room for.
LastSlot(index) == index = MAX_REQUESTS

\* The message is complete; header and outgoing are what current_header and
\* outgoing_index become.
MessageComplete(header, outgoing) ==
    /\ pc = "parse" /\ parser.state = "complete"
    /\ incoming_index' = incoming_index + 1
    /\ current_header' = header
    /\ outgoing_index' = outgoing
    /\ LET done == [requests EXCEPT ![incoming_index].last = Request.last \/ LastSlot(incoming_index')]
       IN  /\ served' = Append(served, done[outgoing_index])
           /\ requests' = [done EXCEPT ![outgoing_index] = FREED]
    /\ parser' = [parser EXCEPT !.state = IF parser.keep THEN "start" ELSE "dead"]
    /\ UNCHANGED <<pc, client, got, mem, buffer_length, at, stop>>

\* Mutants: the header count goes on, the request is not taken off the queue.
OnMessageComplete_keeps_count == MessageComplete(current_header, outgoing_index + 1)
OnMessageComplete_keeps_request == MessageComplete(0, outgoing_index)

\* on_message_complete, with the callback on_new_request of httpconnection.c:
\* http_request_queue_get_next_request, the router, http_request_destroy.
OnMessageComplete == MessageComplete(0, outgoing_index + 1)

\* The input is no message, or comes behind the last one.
ParseError ==
    /\ Parsing
    /\ \/ parser.state = "dead"
       \/ parser.state = "start" /\ Part # "url"
       \/ /\ parser.state \in DOMAIN Follows
          /\ Part \notin Follows[parser.state]
    /\ Fail("failed") /\ UNCHANGED requests

\* Mutant: the callback at the end of the message is not waited for.
ExecuteDone_early ==
    /\ pc = "parse" /\ at > stop
    /\ pc' = "idle"
    /\ UNCHANGED <<client, got, mem, buffer_length, at, stop, parser, current_header,
                   requests, incoming_index, outgoing_index, served>>

\* http_parser_execute has consumed its input.
ExecuteDone ==
    /\ pc = "parse" /\ parser.state # "complete" /\ at > stop
    /\ pc' = "idle"
    /\ UNCHANGED <<client, got, mem, buffer_length, at, stop, parser, current_header,
                   requests, incoming_index, outgoing_index, served>>

\* http_request_queue_destroy, at any time between two reads.
Destroy ==
    /\ pc \in {"idle", "failed"}
    /\ mem' = <<>>
    /\ pc' = "destroyed"
    /\ UNCHANGED <<client, got, buffer_length, at, stop, parser, current_header,
                   requests, incoming_index, outgoing_index, served>>

Ended == pc \in {"destroyed", "undefined"} /\ UNCHANGED vars

Next ==
    \/ AppendData
    \/ OnMessageBegin
    \/ OnUrl
    \/ OnHeaderField
    \/ OnHeaderValue
    \/ OnHeadersComplete
    \/ OnBody
    \/ OnMessageComplete
    \/ ParseError
    \/ ExecuteDone
    \/ Destroy
    \/ Ended

Spec == Init /\ [][Next]_vars

-----------------------------------------------------------------------------
(* Properties.                                                             *)

\* The type invariant.
TypeOK ==
    /\ pc \in {"idle", "parse", "failed", "destroyed", "undefined"}
    /\ got \in 0 .. Len(Stream)
    /\ mem \in Seq(Tokens)
    /\ buffer_length \in Nat
    /\ at \in Nat /\ stop \in Nat
    /\ parser \in [state : DOMAIN Follows \cup {"start", "body", "complete", "dead"},
                   nread : Nat, body_left : Nat, keep : BOOLEAN]
    /\ current_header \in 0 .. HTTP_REQUEST_MAX_HEADERS
    /\ requests \in [0 .. MAX_REQUESTS - 1 -> RequestRecord \cup {NULL, FREED}]
    /\ served \in Seq(RequestRecord)
    /\ incoming_index \in 0 .. MAX_REQUESTS
    /\ outgoing_index \in 0 .. MAX_REQUESTS

\* However the stream is cut, the url the router matches for the j-th request
\* is the url of the client's j-th message: so the code's tests have it.
UrlAsSent ==
    \A j \in DOMAIN served :
        extract(served[j].headers_buffer, served[j].url) = Span(j, "url", 0)

\* The body is that of the message, whatever pieces it came in: so they have
\* it, too.
BodyAsSent == \A j \in DOMAIN served : served[j].body = Body(j, script[j].body)

\* The traffic the queue serves correctly: no url, field or value is cut in
\* two, no read goes on behind the end of a header block, and a message with
\* a body is the last.
Regular ==
    /\ ~client.split /\ ~client.runOn
    /\ \A m \in DOMAIN script : script[m].body > 0 => ~script[m].keep

\* The headers are those of the message, key by key and value by value.
HeadersAsSent ==
    \A j \in DOMAIN served :
        LET r == served[j]
        IN  /\ Len(r.ranges) = script[j].headers
            /\ \A h \in DOMAIN r.ranges :
                /\ extract(r.headers_buffer, r.ranges[h][1]) = Span(j, "field", h)
                /\ extract(r.headers_buffer, r.ranges[h][2]) = Span(j, "value", h)

\* Of such traffic every request has the url, the headers and the body of its
\* message, pipelined or not, in pieces cut wherever the client's system likes.
ServedAsSent == Regular => UrlAsSent /\ HeadersAsSent /\ BodyAsSent

\* The length of the header block never exceeds what the buffer holds, so the
\* unsigned subtraction in on_headers_complete (line 130) does not wrap, and
\* the bytes not parsed yet are never dropped from the buffer.
BufferAccounts ==
    pc = "parse" =>
        /\ parser.state \in DOMAIN Follows => parser.nread + (stop - at + 1) <= buffer_length
        /\ stop - at + 1 <= buffer_length

\* The header blocks of the requests handed out and of the one being parsed, in
\* the order they came.
HeaderBlocks ==
    FlattenSeq([j \in DOMAIN served |-> served[j].headers_buffer])
        \o (IF parser.state \in {"start", "dead"} THEN <<>> ELSE Request.headers_buffer)

\* No byte is lost, doubled or taken out of order on its way through the block
\* that append_data extends and on_headers_complete copies, moves and shrinks:
\* whatever the client sends and however it is cut, the header blocks and what
\* the buffer holds are, one after the other, all that was read.
BytesKept ==
    pc \in {"idle", "parse"} =>
        HeaderBlocks \o SubSeq(mem, 1, buffer_length) = SubSeq(Stream, 1, got)

\* A slot is live only while its message is being parsed, requests leave the
\* queue in the order they came, and none is handed out twice: the slots
\* before outgoing_index are freed, the next is live exactly inside a message.
RequestSlots ==
    pc # "undefined" =>
    /\ outgoing_index = incoming_index
    /\ \A i \in DOMAIN requests :
        /\ requests[i] = FREED <=> i < outgoing_index
        /\ i > incoming_index => requests[i] = NULL
        /\ i = incoming_index /\ pc \in {"idle", "parse"} =>
                (requests[i] = NULL <=> parser.state \in {"start", "dead"})

\* Between two reads every message that has arrived in full has been served, if
\* no read goes on behind a header block: a parser that was moved on in the
\* block skips messages and meets others twice.
NothingHeldBack ==
    pc = "idle" /\ ~client.runOn =>
        \A m \in DOMAIN script :
            Len(FlattenSeq([i \in 1..m |-> Message(i)])) <= got => Len(served) >= m

\* Once a request marked as the last was served no other follows it, so the
\* response's is_last flag (httpconnection.c:124) is never taken back.
LastIsFinal ==
    \A i, j \in DOMAIN served : i < j => ~served[i].last

\* A header field is refused only if HTTP_REQUEST_MAX_HEADERS fields came
\* before it in its message, unless a value was cut in two, since current_header
\* counts pieces of values, or the parser reads a block that has moved.
LimitIsOnFields ==
    /\ Meets("field") /\ current_header >= HTTP_REQUEST_MAX_HEADERS
    /\ ~client.split /\ ~client.runOn
    => Token.h > HTTP_REQUEST_MAX_HEADERS

=============================================================================
