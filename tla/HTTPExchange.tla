----------------------------- MODULE HTTPExchange -----------------------------
(***************************************************************************)
(* What a connection promises its client: the answers are sent in the      *)
(* order of the requests, nothing twice and nothing from nowhere, although *)
(* the end of a chunk the socket does not take is missing; and the server  *)
(* ends the connection of its own accord only after it answered a request  *)
(* that was the last one, and with everything handed to the socket.        *)
(***************************************************************************)
EXTENDS Integers, Sequences, SequencesExt

CONSTANT Chunk      \* what one send may carry

VARIABLES
    answers,    \* everything appended to the answers so far
    handed,     \* how much of it was taken for sending
    out,        \* what the client was sent
    last,       \* whether the latest request answered was the last one
    state       \* "open", "closed" by the server, "dropped" on an error

vars == <<answers, handed, out, last, state>>

Init == answers = <<>> /\ handed = 0 /\ out = <<>> /\ last = FALSE /\ state = "open"

\* A request is answered, completely, in part, or not at all.
Answer ==
    /\ state # "closed"
    /\ IsPrefix(answers, answers')
    /\ last' \in BOOLEAN
    /\ UNCHANGED <<handed, out, state>>

Send ==
    /\ state # "closed"
    /\ \E n \in 1 .. Chunk :
        /\ handed + n <= Len(answers)
        /\ handed' = handed + n
        /\ \E k \in 0 .. n : out' = out \o SubSeq(answers, handed + 1, handed + k)
    /\ UNCHANGED <<answers, last, state>>

Close ==
    /\ state # "closed"
    /\ last /\ handed = Len(answers)
    /\ state' = "closed"
    /\ UNCHANGED <<answers, handed, out, last>>

Drop ==
    /\ state = "open"
    /\ state' = "dropped"
    /\ UNCHANGED <<answers, handed, out, last>>

Next == Answer \/ Send \/ Close \/ Drop

Spec == Init /\ [][Next]_vars
=============================================================================
