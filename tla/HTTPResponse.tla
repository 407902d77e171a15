----------------------------- MODULE HTTPResponse -----------------------------
(***************************************************************************)
(* The response of a connection (src/src/httpresponse.c), as operators on  *)
(* one record: a byte FIFO that containers append to and on_write reads    *)
(* from, shared by all the requests of the connection, and the is_last     *)
(* flag of the request being served.                                       *)
(*                                                                         *)
(* The unit is one append: a status line, a header, the empty line or the  *)
(* body of the answer to one request.  A failed memory_resize leaves the   *)
(* buffer NULL and buffer_length as it was: Len(buffer) < buffer_length.   *)
(***************************************************************************)
EXTENDS Integers, Sequences, SequencesExt

CONSTANT JUNK   \* the contents of memory nothing was written to

http_response_new == [buffer |-> <<>>, buffer_length |-> 0, is_last |-> FALSE]

Lost(r) == Len(r.buffer) < r.buffer_length

http_response_set_last(r, last) == [r EXCEPT !.is_last = last]

\* http_response_append_data, once for each of these; a buffer that was lost
\* starts with bytes nobody wrote.
http_response_append_data(r, items) ==
    IF items = <<>> THEN r
    ELSE [r EXCEPT !.buffer = (IF Lost(r) THEN [i \in 1 .. r.buffer_length |-> JUNK]
                               ELSE r.buffer) \o items,
                   !.buffer_length = r.buffer_length + Len(items)]

\* ... when memory_resize fails.
append_failed(r) == [r EXCEPT !.buffer = <<>>]

\* http_response_read_data: how much it copies out, and what it leaves.
avaiable_length(r, length) == IF r.buffer_length < length THEN r.buffer_length ELSE length

\* Mutants: the rest is not moved to the front; length is taken off, not what
\* there was.
http_response_read_data_no_move(r, length) ==
    LET n == avaiable_length(r, length)
    IN  [r EXCEPT !.buffer = SubSeq(r.buffer, 1, Len(r.buffer) - n),
                  !.buffer_length = r.buffer_length - n]
http_response_read_data_underflows(r, length) ==
    [r EXCEPT !.buffer = SubSeq(r.buffer, length + 1, Len(r.buffer)),
              !.buffer_length = r.buffer_length - length]

http_response_read_data(r, length) ==
    LET n == avaiable_length(r, length)
    IN  [r EXCEPT !.buffer = SubSeq(r.buffer, n + 1, Len(r.buffer)),
                  !.buffer_length = r.buffer_length - n]

\* ... when memory_resize fails to shrink what it leaves: it returns -1.
read_failed(r, length) ==
    [r EXCEPT !.buffer = <<>>, !.buffer_length = r.buffer_length - length]

Item(m, part) == [msg |-> m, part |-> part]

\* What http_response_end_headers appends for the answer to request m.
http_response_end_headers(r, m) ==
    <<Item(m, "server"), Item(m, "date")>>
        \o (IF r.is_last THEN <<Item(m, "close")>> ELSE <<>>)
        \o <<Item(m, "eol")>>

\* What http_response_write_error_by_code, like a container that serves a
\* page, appends: the Content-Type and Content-Length headers are one item.
http_response_write_error_by_code(r, m) ==
    <<Item(m, "status"), Item(m, "header")>>
        \o http_response_end_headers(r, m)
        \o <<Item(m, "body")>>

=============================================================================
