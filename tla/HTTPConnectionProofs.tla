------------------------ MODULE HTTPConnectionProofs ------------------------
(***************************************************************************)
(* The safety of one connection, and that it implements HTTPExchange, for  *)
(* any number of messages, slots of the queue and size of a read.          *)
(***************************************************************************)
EXTENDS HTTPConnection, SequenceLemmas

-----------------------------------------------------------------------------
(* The response.                                                           *)

\* What a container appends; JUNK is only ever found in a lost buffer.
Written == [msg : 1 .. MaxMessages, part : Parts]

Fields == [buffer : Seq(Items), buffer_length : Nat, is_last : BOOLEAN]

Response(r) ==
    /\ r \in Fields
    /\ Len(r.buffer) <= r.buffer_length
    /\ ~Faulty => Len(r.buffer) = r.buffer_length

LEMMA WrittenItems == ASSUME NEW s \in Seq(Written) PROVE s \in Seq(Items)
<1>1. Written \subseteq Items
  BY DEF Written, Items
<1> QED
  BY <1>1, SeqMonotonic

\* Items of the answer to request m; a close is announced only in the answer to
\* the last request, and there the headers do not end without it.
AnswerTo(m, last, s) ==
    /\ s \in Seq(Written)
    /\ \A i \in 1 .. Len(s) :
        /\ s[i].msg = m
        /\ s[i].part = "close" => last
        /\ s[i].part = "eol" /\ last => i > 1 /\ s[i - 1].part = "close"

LEMMA AnswerJoined ==
    ASSUME NEW m, NEW last, NEW s, NEW t, AnswerTo(m, last, s), AnswerTo(m, last, t)
    PROVE  AnswerTo(m, last, s \o t)
<1>1. s \in Seq(Written) /\ t \in Seq(Written) /\ s \o t \in Seq(Written)
  BY Joined DEF AnswerTo
<1> DEFINE u == s \o t
<1>2. ASSUME NEW i \in 1 .. Len(u)
      PROVE  /\ u[i].msg = m
             /\ u[i].part = "close" => last
             /\ u[i].part = "eol" /\ last => i > 1 /\ u[i - 1].part = "close"
  <2>1. CASE /\ i \in 1 .. Len(s) /\ u[i] = s[i]
             /\ i > 1 => u[i - 1] = s[i - 1]
    <3> HIDE DEF u
    <3> QED
      BY <2>1 DEF AnswerTo
  <2>2. CASE \E j \in 1 .. Len(t) :
                /\ i = Len(s) + j /\ u[i] = t[j]
                /\ j > 1 => i > 1 /\ u[i - 1] = t[j - 1]
    <3> HIDE DEF u
    <3> QED
      BY <2>2 DEF AnswerTo
  <2>3. Comes(u, s, t, i)
    BY <1>1, JoinedAt
  <2> HIDE DEF u
  <2> QED
    BY <2>1, <2>2, <2>3 DEF Comes
<1> QED
  BY <1>1, <1>2 DEF AnswerTo

\* The same of the answers to the requests up to m, of which last tells which
\* is the last.
Marked(s, last, m) ==
    \A i \in 1 .. Len(s) :
        /\ s[i].msg <= m
        /\ s[i].part = "close" => last[s[i].msg]
        /\ s[i].part = "eol" /\ last[s[i].msg] => i > 1 /\ s[i - 1].part = "close"

LEMMA MarkedJoined ==
    ASSUME NEW s \in Seq(Written), NEW t, NEW last, NEW n \in Nat, MaxMessages \in Nat,
           Marked(s, last, n), AnswerTo(n + 1, last[n + 1], t)
    PROVE  Marked(s \o t, last, n + 1)
<1> DEFINE u == s \o t
           m == n + 1
<1>1. m \in Nat /\ n < m
  OBVIOUS
<1>2. s \in Seq(Written) /\ t \in Seq(Written) /\ s \o t \in Seq(Written)
  BY Joined DEF AnswerTo
<1> HIDE DEF m
<1>3. ASSUME NEW i \in 1 .. Len(u)
      PROVE  /\ u[i].msg <= m
             /\ u[i].part = "close" => last[u[i].msg]
             /\ u[i].part = "eol" /\ last[u[i].msg] => i > 1 /\ u[i - 1].part = "close"
  <2>1. CASE /\ i \in 1 .. Len(s) /\ u[i] = s[i]
             /\ i > 1 => u[i - 1] = s[i - 1]
    <3> HIDE DEF u
    <3>1. s[i] \in Written
      BY <2>1, ElementOfSeq
    <3>2. s[i].msg \in Nat /\ s[i].msg <= n
      BY <2>1, <3>1 DEF Written, Marked
    <3>3. s[i].msg <= m
      BY <1>1, <3>2
    <3> QED
      BY <2>1, <3>3 DEF Marked
  <2>2. CASE \E j \in 1 .. Len(t) :
                /\ i = Len(s) + j /\ u[i] = t[j]
                /\ j > 1 => i > 1 /\ u[i - 1] = t[j - 1]
    <3>1. PICK j \in 1 .. Len(t) :
                /\ u[i] = t[j]
                /\ j > 1 => i > 1 /\ u[i - 1] = t[j - 1]
      BY <2>2
    <3> HIDE DEF u
    <3>2. /\ t[j].msg = m
          /\ t[j].part = "close" => last[m]
          /\ t[j].part = "eol" /\ last[m] => j > 1 /\ t[j - 1].part = "close"
      BY DEF AnswerTo, m
    <3>3. m <= m
      BY <1>1
    <3> QED
      BY <3>1, <3>2, <3>3
  <2>3. Comes(u, s, t, i)
    BY <1>2, JoinedAt
  <2> HIDE DEF u
  <2> QED
    BY <2>1, <2>2, <2>3 DEF Comes
<1> QED
  BY <1>3 DEF Marked, m

\* The page a container writes, with and without the announcement of a close.
LEMMA Page ==
    ASSUME NEW r, r.is_last \in BOOLEAN, NEW m \in 1 .. MaxMessages
    PROVE  AnswerTo(m, r.is_last, http_response_write_error_by_code(r, m))
<1>1. \A part \in Parts : Item(m, part) \in Written
  BY DEF Item, Written
<1>2. Parts = {"status", "header", "server", "date", "close", "eol", "body"}
  BY DEF Parts
<1>3. \A p \in {"status", "server"}, q \in {"header", "date"} :
            AnswerTo(m, r.is_last, <<Item(m, p), Item(m, q)>>)
  BY <1>1, <1>2 DEF AnswerTo, Item
<1>4. AnswerTo(m, r.is_last, <<Item(m, "body")>>) /\ AnswerTo(m, r.is_last, <<>>)
  BY <1>1, <1>2 DEF AnswerTo, Item
<1> DEFINE headers == <<Item(m, "server"), Item(m, "date")>>
           announced == headers \o (IF r.is_last THEN <<Item(m, "close")>> ELSE <<>>)
           ended == announced \o <<Item(m, "eol")>>
           front == <<Item(m, "status"), Item(m, "header")>>
<1>5. http_response_write_error_by_code(r, m) = front \o ended \o <<Item(m, "body")>>
  BY DEF http_response_write_error_by_code, http_response_end_headers
<1>6. AnswerTo(m, r.is_last, headers) /\ AnswerTo(m, r.is_last, front)
  BY <1>3
<1>7. AnswerTo(m, r.is_last, ended)
  <2> HIDE DEF headers
  <2>1. CASE r.is_last
    <3> DEFINE c == <<Item(m, "close")>>
               e == <<Item(m, "eol")>>
    <3>1. AnswerTo(m, r.is_last, c)
      BY <1>1, <1>2, <2>1 DEF AnswerTo, Item
    <3>2. announced = headers \o c
      BY <2>1
    <3>3. c \in Seq(Written) /\ Len(c) = 1 /\ c[1].part = "close"
          /\ e \in Seq(Written) /\ Len(e) = 1 /\ e[1].part = "eol" /\ e[1].msg = m
      BY <1>1, <1>2 DEF Item
    <3> HIDE DEF c, announced, e
    <3>4. AnswerTo(m, r.is_last, announced)
      BY <1>6, <3>1, <3>2, AnswerJoined
    <3>5. Len(announced) = Len(headers) + 1 /\ announced[Len(headers) + 1].part = "close"
          /\ Len(headers) \in Nat
      <4>1. headers \in Seq(Written) /\ c \in Seq(Written)
        BY <1>6, <3>3 DEF AnswerTo
      <4>2. /\ Len(headers \o c) = Len(headers) + Len(c)
            /\ \A i \in 1 .. Len(c) : (headers \o c)[Len(headers) + i] = c[i]
        BY <4>1, Joined
      <4>3. Len(headers) \in Nat
        BY <4>1, LenProperties
      <4>4. Len(c) = 1 /\ 1 \in 1 .. Len(c) /\ c[1].part = "close"
        BY <3>3
      <4>5. Len(announced) = Len(headers) + 1
        BY <3>2, <4>2, <4>4
      <4>6. announced[Len(headers) + 1] = c[1]
        BY <3>2, <4>2, <4>4
      <4> QED
        BY <4>3, <4>4, <4>5, <4>6
    <3>6. /\ announced \o e \in Seq(Written) /\ Len(announced \o e) = Len(announced) + 1
          /\ \A i \in 1 .. Len(announced) : (announced \o e)[i] = announced[i]
          /\ (announced \o e)[Len(announced) + 1] = e[1]
      BY <3>3, <3>4, Joined DEF AnswerTo
    <3>7. AnswerTo(m, r.is_last, announced \o e)
      BY <3>3, <3>4, <3>5, <3>6 DEF AnswerTo
    <3> QED
      BY <3>7 DEF e
  <2>2. CASE ~r.is_last
    <3>1. AnswerTo(m, r.is_last, <<Item(m, "eol")>>)
      BY <1>1, <1>2, <2>2 DEF AnswerTo, Item
    <3>2. announced = headers \o <<>>
      BY <2>2
    <3> HIDE DEF announced
    <3> QED
      BY <1>4, <1>6, <3>1, <3>2, AnswerJoined
  <2> QED
    BY <2>1, <2>2
<1> HIDE DEF front, ended
<1>8. AnswerTo(m, r.is_last, front \o ended)
  BY <1>6, <1>7, AnswerJoined
<1> QED
  BY <1>4, <1>5, <1>8, AnswerJoined

\* http_response_append_data, also of nothing and to a buffer that was lost.
LEMMA Appended ==
    ASSUME NEW r, Response(r), NEW items \in Seq(Items)
    PROVE  LET s == http_response_append_data(r, items)
           IN  /\ Response(s) /\ s.is_last = r.is_last
               /\ s.buffer_length = r.buffer_length + Len(items)
               /\ ~Faulty => s.buffer = r.buffer \o items
<1> DEFINE s == http_response_append_data(r, items)
<1>1. CASE items = <<>>
  <2>1. s = r /\ Len(items) = 0
    BY <1>1 DEF http_response_append_data
  <2>2. r.buffer \o items = r.buffer
    BY <1>1, ConcatEmptySeq DEF Response, Fields
  <2> HIDE DEF s
  <2>3. /\ Response(s) /\ s.is_last = r.is_last
        /\ s.buffer_length = r.buffer_length + Len(items)
        /\ s.buffer = r.buffer \o items
    BY <2>1, <2>2 DEF Response, Fields
  <2> QED
    BY <2>3 DEF s
<1>2. CASE items # <<>>
  <2> DEFINE base == IF Lost(r) THEN [i \in 1 .. r.buffer_length |-> JUNK] ELSE r.buffer
  <2>1. base \in Seq(Items) /\ Len(base) = r.buffer_length
    <3>1. r.buffer \in Seq(Items) /\ r.buffer_length \in Nat /\ Len(r.buffer) <= r.buffer_length
          /\ Len(r.buffer) \in Nat
      BY DEF Response, Fields
    <3>2. CASE Lost(r)
      <4> DEFINE n == r.buffer_length
                 f == [i \in 1 .. n |-> JUNK]
      <4>1. f \in Seq(Items) /\ Len(f) = n
        <5>1. n \in Nat /\ JUNK \in Items
          BY <3>1 DEF Items
        <5> HIDE DEF n
        <5> QED
          BY <5>1
      <4> QED
        BY <3>2, <4>1
    <3>3. CASE ~Lost(r)
      <4>1. Len(r.buffer) = r.buffer_length
        BY <3>1, <3>3 DEF Lost
      <4> QED
        BY <3>1, <3>3, <4>1
    <3> QED
      BY <3>2, <3>3
  <2>2. ~Faulty => base = r.buffer
    BY DEF Response, Fields, Lost
  <2>3. s = [r EXCEPT !.buffer = base \o items, !.buffer_length = r.buffer_length + Len(items)]
    BY <1>2 DEF http_response_append_data
  <2> HIDE DEF base, s
  <2>4. base \o items \in Seq(Items) /\ Len(base \o items) = r.buffer_length + Len(items)
    <3>1. base \in Seq(Items) /\ items \in Seq(Items)
      BY <2>1
    <3>2. base \o items \in Seq(Items) /\ Len(base \o items) = Len(base) + Len(items)
      BY <3>1, ConcatProperties
    <3> QED
      BY <2>1, <3>2
  <2>5. Len(items) \in Nat
    BY LenProperties
  <2>7. r.buffer_length + Len(items) \in Nat
    BY <2>5 DEF Response, Fields
  <2>8. r \in Fields
    BY DEF Response
  <2> DEFINE b == base \o items
             n == r.buffer_length + Len(items)
  <2> HIDE DEF b, n
  <2>9. s \in Fields /\ s.buffer = b /\ s.buffer_length = n /\ s.is_last = r.is_last
    <3>1. b \in Seq(Items) /\ n \in Nat /\ s = [r EXCEPT !.buffer = b, !.buffer_length = n]
      BY <2>3, <2>4, <2>7 DEF b, n
    <3> QED
      BY <2>8, <3>1 DEF Fields
  <2>10. Len(b) = n /\ (~Faulty => b = r.buffer \o items)
    BY <2>2, <2>4 DEF b, n
  <2>11. Response(s)
    BY <2>9, <2>10 DEF Response, Fields
  <2> QED
    BY <2>9, <2>10, <2>11 DEF s, n
<1> QED
  BY <1>1, <1>2

\* http_response_read_data of a buffer that is there.
LEMMA ReadOut ==
    ASSUME NEW r, Response(r), ~Lost(r), BUFSIZE \in Nat \ {0}
    PROVE  LET n == avaiable_length(r, BUFSIZE)
               s == http_response_read_data(r, BUFSIZE)
           IN  /\ n \in 0 .. BUFSIZE /\ n <= r.buffer_length
               /\ Response(s) /\ s.is_last = r.is_last
               /\ s.buffer_length = r.buffer_length - n
               /\ s.buffer = SubSeq(r.buffer, n + 1, Len(r.buffer))
<1> DEFINE n == avaiable_length(r, BUFSIZE)
           s == http_response_read_data(r, BUFSIZE)
<1>1. n \in 0 .. BUFSIZE /\ n <= r.buffer_length
  BY DEF avaiable_length, Response, Fields
<1>2. Len(r.buffer) = r.buffer_length
  BY DEF Response, Fields, Lost
<1>3. s = [r EXCEPT !.buffer = SubSeq(r.buffer, n + 1, Len(r.buffer)),
                    !.buffer_length = r.buffer_length - n]
  BY DEF http_response_read_data
<1> HIDE DEF n, s
<1>4. /\ SubSeq(r.buffer, n + 1, Len(r.buffer)) \in Seq(Items)
      /\ Len(SubSeq(r.buffer, n + 1, Len(r.buffer))) = r.buffer_length - n
  BY <1>1, <1>2, SubSeqProperties DEF Response, Fields
<1>6. r.buffer_length - n \in Nat
  BY <1>1, <1>2 DEF Response, Fields
<1>5. r \in Fields
  BY DEF Response
<1> DEFINE b == SubSeq(r.buffer, n + 1, Len(r.buffer))
           k == r.buffer_length - n
<1> HIDE DEF b, k
<1>7. s \in Fields /\ s.buffer = b /\ s.buffer_length = k /\ s.is_last = r.is_last
  <2>1. b \in Seq(Items) /\ k \in Nat /\ s = [r EXCEPT !.buffer = b, !.buffer_length = k]
    BY <1>3, <1>4, <1>6 DEF b, k
  <2> QED
    BY <1>5, <2>1 DEF Fields
<1>8. Response(s)
  BY <1>4, <1>7 DEF Response, Fields, b, k
<1> QED
  BY <1>1, <1>7, <1>8 DEF n, s, b, k

-----------------------------------------------------------------------------
(* The inductive invariant.                                                *)

Types ==
    /\ keep \in [1 .. MaxMessages -> BOOLEAN]
    /\ sent \in 0 .. MaxMessages /\ garbage \in BOOLEAN
    /\ peer \in {"open", "shut", "reset"}
    /\ events \subseteq {"CLOSE", "READ", "WRITE"}
    /\ parsed \in 0 .. sent /\ todo \in 0 .. Waiting
    /\ tcp \in {"open", "closed"} /\ scheduled \in BOOLEAN
    /\ state \in {"live", "freed", "undefined"}
    /\ outcome \in {"open", "closed", "dropped"}

\* The response, what was appended to it and what was taken out.
Flow ==
    /\ Response(response)
    /\ answers \in Seq(Written) /\ handed \in 0 .. Len(answers) /\ out \in Seq(Items)
    /\ response.buffer_length = Len(answers) - handed
    /\ ~Faulty => response.buffer = SubSeq(answers, handed + 1, Len(answers))

\* A closed connection does nothing any more; the server closes of its own
\* accord only after the last request.
Closing ==
    /\ tcp = "closed" => scheduled /\ events = {} /\ todo = 0
    /\ outcome = "closed" => tcp = "closed" /\ response.is_last

\* The flag is that of the latest request, and no request follows the last.
Latest ==
    /\ response.is_last <=> parsed > 0 /\ is_last(parsed)
    /\ \A m \in 1 .. parsed - 1 : ~is_last(m)

\* The marks of the answers given so far.
LastOnes == [m \in 0 .. MaxMessages |-> is_last(m)]

Announced == Marked(answers, LastOnes, parsed)

IInv == Types /\ Flow /\ Closing /\ Latest /\ Announced

LEMMA Numbers ==
    ASSUME Types
    PROVE  /\ MaxMessages \in Nat /\ sent \in Nat /\ parsed \in Nat /\ todo \in Nat
           /\ Waiting \in Nat /\ parsed <= sent /\ sent <= MaxMessages /\ todo <= Waiting
<1>1. MaxMessages \in Nat /\ sent \in Nat /\ parsed \in Nat /\ parsed <= sent /\ sent <= MaxMessages
  BY ConnectionAssumption DEF Types
<1>2. Waiting \in Nat
  <2>1. (IF garbage THEN 1 ELSE 0) \in Nat
    OBVIOUS
  <2> QED
    BY <1>1, <2>1 DEF Waiting
<1> QED
  BY <1>1, <1>2 DEF Types

LEMMA InitIInv == Init => IInv
<1> SUFFICES ASSUME Init PROVE IInv
  OBVIOUS
<1> USE ConnectionAssumption DEF Init
<1>1. Types
  <2>1. Waiting = 0 /\ 0 \in 0 .. MaxMessages /\ 0 \in 0 .. 0
    BY DEF Waiting
  <2> QED
    BY <2>1 DEF Types
<1>2. Flow
  <2>1. response = [buffer |-> <<>>, buffer_length |-> 0, is_last |-> FALSE]
    BY DEF http_response_new
  <2>2. Response(response) /\ response.buffer_length = 0 /\ response.buffer = <<>>
    BY <2>1 DEF Response, Fields
  <2>3. SubSeq(answers, 1, 0) = <<>>
    BY SubSeqEmpty
  <2> QED
    BY <2>2, <2>3 DEF Flow
<1>3. response.is_last = FALSE /\ Len(answers) = 0
  BY DEF http_response_new
<1>4. Closing /\ Latest /\ Announced
  <2>1. 1 .. parsed - 1 = {} /\ 1 .. Len(answers) = {}
    BY <1>3
  <2> QED
    BY <1>3, <2>1 DEF Closing, Latest, Announced, Marked
<1> QED
  BY <1>1, <1>2, <1>4 DEF IInv

\* What the client and the loop do without touching the response.
LEMMA Elsewhere ==
    ASSUME IInv, UNCHANGED <<keep, parsed, response, answers, handed, out>>
    PROVE  Flow' /\ Latest' /\ Announced'
BY DEF IInv, Flow, Latest, Announced, LastOnes, is_last

LEMMA ClientStep == IInv /\ Client => IInv'
<1> SUFFICES ASSUME IInv, Client PROVE IInv'
  OBVIOUS
<1>1. UNCHANGED <<keep, parsed, todo, response, answers, handed, out, events, tcp, scheduled, state, outcome>>
  BY DEF Client, ClientSends, ClientSendsGarbage, ClientLeaves, historyVars
<1>2. Types'
  <2>1. /\ sent' \in 0 .. MaxMessages /\ sent <= sent' /\ garbage' \in BOOLEAN
        /\ peer' \in {"open", "shut", "reset"}
        /\ Waiting' \in Nat /\ Waiting <= Waiting'
    <3>1. CASE ClientSends
      BY <3>1, Numbers DEF ClientSends, historyVars, IInv, Types, Waiting
    <3>2. CASE ClientSendsGarbage
      <4>1. UNCHANGED <<sent, parsed, peer>> /\ ~garbage /\ garbage' = TRUE
        BY <3>2 DEF ClientSendsGarbage, historyVars
      <4>2. Waiting = sent - parsed /\ Waiting' = sent - parsed + 1
        BY <4>1, Numbers DEF Waiting, IInv
      <4> QED
        BY <4>1, <4>2, Numbers DEF IInv, Types
    <3>3. CASE ClientLeaves
      BY <3>3, Numbers DEF ClientLeaves, historyVars, IInv, Types, Waiting
    <3> QED
      BY <3>1, <3>2, <3>3 DEF Client
  <2>3. todo' \in 0 .. Waiting'
    BY <1>1, <2>1, Numbers DEF IInv
  <2>4. parsed' \in 0 .. sent'
    BY <1>1, <2>1, Numbers DEF IInv
  <2> QED
    BY <1>1, <2>1, <2>3, <2>4 DEF IInv, Types
<1>3. Closing'
  BY <1>1 DEF IInv, Closing
<1> QED
  BY <1>1, <1>2, <1>3, Elsewhere DEF IInv

LEMMA LoopStep ==
    IInv /\ (\/ \E wr \in BOOLEAN : Poll(wr)
             \/ Collect \/ OnClose \/ OnReadError \/ OnReadData \/ AppendDataFails)
        => IInv'
<1> SUFFICES ASSUME IInv,
                    (\E wr \in BOOLEAN : Poll(wr)) \/ Collect \/ OnClose \/ OnReadError
                        \/ OnReadData \/ AppendDataFails
             PROVE  IInv'
  OBVIOUS
<1> USE DEF clientVars, historyVars
<1>1. UNCHANGED <<keep, sent, garbage, peer, parsed, response, answers, handed, out>>
  BY DEF Poll, Collect, OnClose, OnReadError, OnReadData, AppendDataFails
<1>2. UNCHANGED Waiting
  BY <1>1 DEF Waiting
<1>3. Types' /\ Closing'
  <2>1. CASE \E wr \in BOOLEAN : Poll(wr)
    BY <1>1, <1>2, <2>1 DEF Poll, IInv, Types, Closing, Live
  <2>2. CASE Collect
    BY <1>1, <1>2, <2>2 DEF Collect, IInv, Types, Closing
  <2>3. CASE OnClose
    BY <1>1, <1>2, <2>3 DEF OnClose, CloseAndFinish, Slot, Dropped, IInv, Types, Closing
  <2>4. CASE OnReadError
    BY <1>1, <1>2, <2>4 DEF OnReadError, Slot, Dropped, IInv, Types, Closing
  <2>5. CASE OnReadData
    BY <1>1, <1>2, <2>5 DEF OnReadData, Slot, IInv, Types, Closing
  <2>6. CASE AppendDataFails
    BY <1>1, <1>2, <2>6, Numbers DEF AppendDataFails, Dropped, IInv, Types, Closing
  <2> QED
    BY <2>1, <2>2, <2>3, <2>4, <2>5, <2>6
<1> QED
  BY <1>1, <1>3, Elsewhere DEF IInv

\* A container may stop anywhere in its answer.
LEMMA AnswerPrefix ==
    ASSUME NEW m, NEW last, NEW s, AnswerTo(m, last, s), NEW n \in 0 .. Len(s)
    PROVE  AnswerTo(m, last, SubSeq(s, 1, n)) /\ Len(SubSeq(s, 1, n)) = n
<1> DEFINE t == SubSeq(s, 1, n)
<1>1. Len(s) \in Nat /\ \A i \in 1 .. n : s[i] \in Written
  BY DEF AnswerTo
<1>2. t \in Seq(Written) /\ Len(t) = n /\ \A i \in 1 .. n : t[i] = s[i]
  <2>1. /\ t \in Seq(Written) /\ Len(t) = (IF 1 <= n THEN n - 1 + 1 ELSE 0)
        /\ \A i \in 1 .. n - 1 + 1 : t[i] = s[1 + i - 1]
    BY <1>1, SubSeqProperties
  <2> HIDE DEF t
  <2>2. n \in Nat /\ \A i \in 1 .. n : 1 + i - 1 = i /\ n - 1 + 1 = n
    BY <1>1
  <2> QED
    BY <2>1, <2>2
<1> HIDE DEF t
<1>3. AnswerTo(m, last, t)
  BY <1>1, <1>2 DEF AnswerTo
<1> QED
  BY <1>2, <1>3 DEF t

\* What a served request does to the response and the answers.
LEMMA Served ==
    ASSUME IInv, OnNewRequest
    PROVE  \E items :
        /\ AnswerTo(parsed + 1, is_last(parsed + 1), items)
        /\ answers' = answers \o items
        /\ Response(response') /\ response'.is_last = is_last(parsed + 1)
        /\ response'.buffer_length = response.buffer_length + Len(items)
        /\ ~Faulty => response'.buffer = response.buffer \o items
<1> DEFINE m == parsed + 1
           last == is_last(m)
           r == http_response_set_last(response, last)
           page == http_response_write_error_by_code(r, m)
<1>1. m \in 1 .. MaxMessages /\ last \in BOOLEAN
  <2>1. parsed < sent
    BY DEF OnNewRequest, ServeRequest
  <2>2. m \in 1 .. MaxMessages
    BY <2>1, Numbers DEF IInv
  <2> QED
    BY <2>2 DEF is_last, IInv, Types
<1>2. /\ Response(r) /\ r.is_last = last
      /\ r.buffer = response.buffer /\ r.buffer_length = response.buffer_length
  <2>1. r = [response EXCEPT !.is_last = last] /\ Response(response)
    BY DEF http_response_set_last, IInv, Flow
  <2> HIDE DEF r, last
  <2> QED
    BY <1>1, <2>1 DEF Response, Fields
<1>3. PICK n \in 0 .. Len(page) :
            /\ answers' = answers \o SubSeq(page, 1, n)
            /\ \/ response' = http_response_append_data(r, SubSeq(page, 1, n))
               \/ Faulty /\ response' = append_failed(http_response_append_data(r, SubSeq(page, 1, n)))
  BY DEF OnNewRequest, ServeRequest
<1>4. AnswerTo(m, last, page)
  BY <1>1, <1>2, Page
<1> DEFINE items == SubSeq(page, 1, n)
<1>5. AnswerTo(m, last, items)
  BY <1>4, AnswerPrefix
<1> HIDE DEF m, last, r, page, items
<1>6. items \in Seq(Items)
  BY <1>5, WrittenItems DEF AnswerTo
<1> DEFINE s == http_response_append_data(r, items)
<1>7. /\ Response(s) /\ s.is_last = last
      /\ s.buffer_length = response.buffer_length + Len(items)
      /\ ~Faulty => s.buffer = response.buffer \o items
  BY <1>2, <1>6, Appended
<1> HIDE DEF s
<1>8. /\ Response(response') /\ response'.is_last = last
      /\ response'.buffer_length = response.buffer_length + Len(items)
      /\ ~Faulty => response'.buffer = response.buffer \o items
  <2>1. CASE response' = s
    BY <1>7, <2>1
  <2>2. CASE Faulty /\ response' = append_failed(s)
    <3>1. s \in Fields /\ response' = [s EXCEPT !.buffer = <<>>] /\ <<>> \in Seq(Items)
      BY <1>7, <2>2 DEF append_failed, Response
    <3>2. /\ response' \in Fields /\ response'.buffer = <<>>
          /\ response'.buffer_length = s.buffer_length /\ response'.is_last = s.is_last
      BY <3>1 DEF Fields
    <3>3. Response(response')
      <4>1. Len(response'.buffer) = 0 /\ response'.buffer_length \in Nat
        BY <3>2, EmptySeq DEF Fields
      <4> QED
        BY <2>2, <3>2, <4>1 DEF Response
    <3> QED
      BY <1>7, <2>2, <3>2, <3>3
  <2> QED
    BY <1>3, <2>1, <2>2 DEF s, items
<1>9. answers' = answers \o items
  BY <1>3 DEF items
<1> QED
  BY <1>5, <1>8, <1>9 DEF m, last

LEMMA RequestStep == IInv /\ OnNewRequest => IInv'
<1> SUFFICES ASSUME IInv, OnNewRequest PROVE IInv'
  OBVIOUS
<1> DEFINE m == parsed + 1
<1>1. PICK items :
        /\ AnswerTo(m, is_last(m), items)
        /\ answers' = answers \o items
        /\ Response(response') /\ response'.is_last = is_last(m)
        /\ response'.buffer_length = response.buffer_length + Len(items)
        /\ ~Faulty => response'.buffer = response.buffer \o items
  BY Served
<1>2. /\ todo > 0 /\ ~Dead /\ parsed < sent /\ parsed' = m /\ todo' = todo - 1
      /\ UNCHANGED <<keep, sent, garbage, peer, events, tcp, scheduled, state, handed, out, outcome>>
  BY DEF OnNewRequest, ServeRequest, clientVars
<1>3. /\ answers \in Seq(Written) /\ items \in Seq(Written) /\ handed \in 0 .. Len(answers)
      /\ Len(answers) \in Nat /\ Len(items) \in Nat
  BY <1>1 DEF IInv, Flow, AnswerTo
<1>nat. /\ parsed \in Nat /\ sent \in Nat /\ sent <= MaxMessages
      /\ MaxMessages \in Nat /\ MAX_REQUESTS \in Nat /\ MaxMessages <= MAX_REQUESTS
  BY ConnectionAssumption, Numbers DEF IInv
<1>4. /\ answers' \in Seq(Written) /\ Len(answers') = Len(answers) + Len(items)
      /\ \A i \in 1 .. Len(answers) : answers'[i] = answers[i]
      /\ \A i \in 1 .. Len(items) : answers'[Len(answers) + i] = items[i]
  BY <1>1, <1>3, Joined
<1>5. Types'
  <2>1. Waiting' = Waiting - 1
    BY <1>2, <1>nat, Numbers DEF Waiting, IInv, Types
  <2>2. todo' \in 0 .. Waiting' /\ parsed' \in 0 .. sent'
    BY <1>2, <1>nat, <2>1, Numbers DEF IInv
  <2> QED
    BY <1>2, <2>2 DEF IInv, Types
<1>6. Flow'
  <2>1. response'.buffer_length = Len(answers') - handed'
    BY <1>1, <1>2, <1>3, <1>4 DEF IInv, Flow
  <2>2. ASSUME ~Faulty PROVE response'.buffer = SubSeq(answers', handed' + 1, Len(answers'))
    <3>1. response'.buffer = SubSeq(answers, handed + 1, Len(answers)) \o items
      BY <1>1, <2>2 DEF IInv, Flow
    <3>2. handed + 1 \in 1 .. Len(answers) + 1
      BY <1>3
    <3>3. SubSeq(answers, handed + 1, Len(answers)) \o items
            = SubSeq(answers \o items, handed + 1, Len(answers) + Len(items))
      BY <1>3, <3>2, Rest
    <3> QED
      BY <1>1, <1>2, <1>4, <3>1, <3>3
  <2>3. handed' \in 0 .. Len(answers')
    BY <1>2, <1>3, <1>4
  <2> QED
    BY <1>1, <1>2, <1>4, <2>1, <2>2, <2>3 DEF IInv, Flow
<1>7. Closing'
  BY <1>2 DEF IInv, Closing, Types
<1>8. \A k : is_last(k)' <=> is_last(k)
  BY <1>2 DEF is_last
<1>9. \A k \in 1 .. parsed : ~is_last(k)
  <2>1. parsed # MAX_REQUESTS
    BY <1>2, <1>nat
  <2>2. parsed > 0 => ~is_last(parsed)
    BY <1>2, <2>1 DEF Dead, is_last
  <2>3. \A k \in 1 .. parsed : k \in 1 .. parsed - 1 \/ (k = parsed /\ parsed > 0)
    BY <1>nat
  <2>4. \A k \in 1 .. parsed - 1 : ~is_last(k)
    BY DEF IInv, Latest
  <2> QED
    BY <2>2, <2>3, <2>4
<1>10. Latest'
  <2>1. parsed' > 0 /\ parsed' - 1 = parsed
    BY <1>2, <1>nat
  <2>2. response'.is_last <=> is_last(parsed)'
    BY <1>1, <1>2 DEF is_last
  <2>3. \A k \in 1 .. parsed' - 1 : ~is_last(k)'
    BY <1>2, <1>9, <2>1 DEF is_last
  <2> QED
    BY <2>1, <2>2, <2>3 DEF Latest
<1>11. Announced'
  <2>1. LastOnes' = LastOnes
    BY <1>2 DEF LastOnes, is_last
  <2>2. LastOnes[m] = is_last(m)
    BY <1>2, <1>nat DEF LastOnes
  <2>3. Marked(answers \o items, LastOnes, m)
    BY <1>1, <1>3, <1>nat, <2>2, MarkedJoined DEF IInv, Announced
  <2> QED
    BY <1>1, <1>2, <2>1, <2>3 DEF Announced
<1> QED
  BY <1>5, <1>6, <1>7, <1>10, <1>11 DEF IInv

\* Closing after the last request, whatever on_write did to the response.
LEMMA CloseStep ==
    ASSUME IInv, Slot("WRITE"), CloseIfLast, response'.is_last = response.is_last,
           UNCHANGED <<keep, sent, garbage, peer, parsed, todo, state, answers>>
    PROVE  Types' /\ Closing' /\ Latest' /\ Announced'
<1>1. Waiting' = Waiting
  BY DEF Waiting
<1>2. Types'
  BY <1>1 DEF CloseIfLast, CloseAndFinish, IInv, Types
<1>3. Closing'
  BY DEF CloseIfLast, CloseAndFinish, Slot, IInv, Closing
<1>4. LastOnes' = LastOnes /\ Latest'
  BY DEF LastOnes, is_last, IInv, Latest
<1>5. Announced'
  BY <1>4 DEF IInv, Announced
<1> QED
  BY <1>2, <1>3, <1>4, <1>5

LEMMA WriteStep == IInv /\ (OnWriteData \/ OnWriteLost \/ OnWriteDone \/ OnWriteReadFails) => IInv'
<1> SUFFICES ASSUME IInv, OnWriteData \/ OnWriteLost \/ OnWriteDone \/ OnWriteReadFails
             PROVE  IInv'
  OBVIOUS
<1> USE DEF clientVars
<1>1. CASE OnWriteData
  <2>1. PICK k \in 0 .. avaiable_length(response, BUFSIZE) :
                out' = out \o SubSeq(response.buffer, 1, k)
    BY <1>1 DEF OnWriteData
  <2> DEFINE n == avaiable_length(response, BUFSIZE)
  <2>2. /\ n \in 0 .. BUFSIZE /\ n <= response.buffer_length
        /\ Response(response') /\ response'.is_last = response.is_last
        /\ response'.buffer_length = response.buffer_length - n
        /\ response'.buffer = SubSeq(response.buffer, n + 1, Len(response.buffer))
    BY <1>1, ReadOut, ConnectionAssumption DEF OnWriteData, IInv, Flow
  <2>3. /\ handed' = handed + n /\ ~Lost(response)
        /\ UNCHANGED <<keep, sent, garbage, peer, parsed, todo, tcp, scheduled, state, answers, outcome>>
        /\ events' \subseteq events
    BY <1>1 DEF OnWriteData
  <2> HIDE DEF n
  <2>4. /\ answers \in Seq(Written) /\ handed \in 0 .. Len(answers) /\ Len(answers) \in Nat
        /\ response.buffer_length = Len(answers) - handed
        /\ Len(response.buffer) = response.buffer_length
        /\ response.buffer \in Seq(Items)
    BY <2>3 DEF IInv, Flow, Response, Fields, Lost
  <2>5. /\ handed + n \in 0 .. Len(answers)
        /\ response.buffer_length - n = Len(answers) - (handed + n)
    BY <2>2, <2>4
  <2>6. ASSUME ~Faulty
        PROVE  SubSeq(response.buffer, n + 1, Len(response.buffer))
                = SubSeq(answers, handed + n + 1, Len(answers))
    <3> DEFINE m == n + 1
               e == Len(answers) - handed
    <3>1. response.buffer = SubSeq(answers, handed + 1, Len(answers)) /\ Len(response.buffer) = e
      BY <2>4, <2>6 DEF IInv, Flow
    <3>2. m \in 1 .. Len(answers) - handed + 1 /\ e \in m - 1 .. Len(answers) - handed
      BY <2>2, <2>4
    <3>3. handed + m = handed + n + 1 /\ handed + e = Len(answers)
      BY <2>2, <2>4
    <3> HIDE DEF m, e
    <3>4. SubSeq(SubSeq(answers, handed + 1, Len(answers)), m, e)
            = SubSeq(answers, handed + m, handed + e)
      BY <2>4, <3>2, PartOfRest
    <3> QED
      BY <3>1, <3>3, <3>4 DEF m
  <2>7. out' \in Seq(Items)
    <3>1. k \in Int /\ \A i \in 1 .. k : response.buffer[i] \in Items
      <4>1. k \in 0 .. Len(response.buffer)
        <5>1. k \in 0 .. n
          BY DEF n
        <5>2. n \in Nat /\ n <= Len(response.buffer) /\ Len(response.buffer) \in Nat
          BY <2>2, <2>4, ConnectionAssumption, LenProperties
        <5> QED
          BY <5>1, <5>2
      <4>2. k \in Int /\ \A i \in 1 .. k : i \in 1 .. Len(response.buffer)
        BY <2>4, <4>1
      <4> QED
        BY <2>4, <4>2, ElementOfSeq
    <3>2. SubSeq(response.buffer, 1, k) \in Seq(Items)
      BY <3>1, SubSeqProperties
    <3> QED
      BY <2>1, <3>2, ConcatProperties DEF IInv, Flow
  <2>8. Flow'
    BY <2>2, <2>3, <2>4, <2>5, <2>6, <2>7 DEF Flow
  <2>9. Waiting' = Waiting
    BY <2>3 DEF Waiting
  <2>10. Types'
    BY <2>3, <2>9 DEF IInv, Types
  <2>11. Closing' /\ Latest'
    BY <2>2, <2>3 DEF IInv, Closing, Latest, is_last
  <2>12. Announced'
    BY <2>3 DEF IInv, Announced, LastOnes, is_last
  <2> QED
    BY <2>8, <2>10, <2>11, <2>12 DEF IInv
<1>2. CASE OnWriteLost
  <2>1. UNCHANGED <<keep, sent, garbage, peer, events, parsed, todo, response, tcp, scheduled>>
        /\ UNCHANGED <<answers, handed, out, outcome>> /\ state' = "undefined"
    BY <1>2 DEF OnWriteLost, historyVars
  <2>2. Types' /\ Closing'
    BY <2>1 DEF IInv, Types, Closing, Waiting
  <2> QED
    BY <2>1, <2>2, Elsewhere DEF IInv
<1>3. CASE OnWriteDone
  <2>1. /\ Slot("WRITE") /\ CloseIfLast
        /\ UNCHANGED <<keep, sent, garbage, peer, parsed, todo, response, state, answers, handed, out>>
    BY <1>3 DEF OnWriteDone
  <2>2. Flow'
    BY <2>1 DEF IInv, Flow
  <2> QED
    BY <2>1, <2>2, CloseStep DEF IInv
<1>4. CASE OnWriteReadFails
  <2>1. /\ Slot("WRITE") /\ CloseIfLast /\ Faulty /\ handed' = handed + BUFSIZE
        /\ response.buffer_length > BUFSIZE /\ response' = read_failed(response, BUFSIZE)
        /\ UNCHANGED <<keep, sent, garbage, peer, parsed, todo, state, answers, out>>
    BY <1>4 DEF OnWriteReadFails
  <2> DEFINE k == response.buffer_length - BUFSIZE
  <2>2. /\ response.buffer_length \in Nat /\ BUFSIZE \in Nat /\ handed \in 0 .. Len(answers)
        /\ Len(answers) \in Nat /\ response.buffer_length = Len(answers) - handed
    BY ConnectionAssumption DEF IInv, Flow, Response, Fields
  <2>3. /\ k \in Nat /\ handed + BUFSIZE \in 0 .. Len(answers)
        /\ k = Len(answers) - (handed + BUFSIZE)
    BY <2>1, <2>2
  <2>4. /\ response' \in Fields /\ response'.buffer = <<>> /\ response'.buffer_length = k
        /\ response'.is_last = response.is_last
    <3>1. response \in Fields /\ <<>> \in Seq(Items)
      BY DEF IInv, Flow, Response
    <3>2. response' = [response EXCEPT !.buffer = <<>>, !.buffer_length = k]
      BY <2>1 DEF read_failed
    <3> HIDE DEF k
    <3> QED
      BY <2>3, <3>1, <3>2 DEF Fields
  <2>5. Response(response')
    <3>1. Len(response'.buffer) = 0
      BY <2>4, EmptySeq
    <3> QED
      BY <2>1, <2>3, <2>4, <3>1 DEF Response
  <2>6. Flow'
    BY <2>1, <2>3, <2>4, <2>5 DEF IInv, Flow
  <2> QED
    BY <2>1, <2>4, <2>6, CloseStep DEF IInv
<1> QED
  BY <1>1, <1>2, <1>3, <1>4

LEMMA NextIInv == IInv /\ [Next]_vars => IInv'
<1> SUFFICES ASSUME IInv, [Next]_vars PROVE IInv'
  OBVIOUS
<1>1. CASE Client
  BY <1>1, ClientStep
<1>2. CASE LoopThread
  BY <1>2, LoopStep, RequestStep, WriteStep DEF LoopThread
<1>3. CASE UNCHANGED vars
  <2>1. Types' /\ Closing'
    BY <1>3 DEF vars, IInv, Types, Closing, Waiting
  <2> QED
    BY <1>3, <2>1, Elsewhere DEF vars, IInv
<1> QED
  BY <1>1, <1>2, <1>3 DEF Next, Ended

LEMMA Invariance == Spec => []IInv
BY InitIInv, NextIInv, PTL DEF Spec

-----------------------------------------------------------------------------
(* The properties of the connection.                                       *)

\* Types over the whole exchange.
THEOREM TypeCorrect == Spec => []TypeOK
<1>1. IInv => TypeOK
  BY WrittenItems DEF IInv, Types, Flow, Response, Fields, TypeOK
<1> QED
  BY <1>1, Invariance, PTL

\* The response buffer, across pipelined requests, partial reads and regrowth,
\* is the FIFO its callers take it for.
THEOREM RestKept == Spec => []ResponseIsRest
<1>1. IInv => ResponseIsRest
  BY DEF IInv, Flow, ResponseIsRest
<1> QED
  BY <1>1, Invariance, PTL

\* What may still run of an event, and why a connection was given up under a
\* client that is there: for what is left to read, which stays unread.
Cause ==
    /\ "CLOSE" \in events => peer # "open"
    /\ todo > 0 => events \subseteq {"WRITE"}
    /\ outcome = "dropped" /\ peer = "open" =>
        /\ scheduled /\ todo = 0 /\ events \subseteq {"WRITE"}
        /\ Waiting > 0 /\ (Dead \/ parsed = sent)

LEMMA NextCause == IInv /\ Cause /\ [Next]_vars => Cause'
<1> SUFFICES ASSUME IInv, Cause, [Next]_vars PROVE Cause'
  OBVIOUS
<1>1. /\ sent \in Nat /\ parsed \in Nat /\ todo \in Nat /\ Waiting \in Nat
      /\ parsed <= sent /\ todo <= Waiting
      /\ events \subseteq {"CLOSE", "READ", "WRITE"}
      /\ outcome \in {"open", "closed", "dropped"}
  BY Numbers DEF IInv, Types
<1> USE DEF clientVars, historyVars
<1>2. CASE ClientSends
  <2>1. Waiting' = Waiting + 1 /\ Dead' = Dead
    BY <1>1, <1>2 DEF ClientSends, Waiting, Dead
  <2>2. parsed = sent => Waiting = 0
    BY <1>1, <1>2 DEF ClientSends, Waiting
  <2> QED
    BY <1>1, <1>2, <2>1, <2>2 DEF ClientSends, Cause
<1>3. CASE ClientSendsGarbage
  <2>1. Waiting' = Waiting + 1 /\ Dead' = Dead
    BY <1>1, <1>3 DEF ClientSendsGarbage, Waiting, Dead
  <2> QED
    BY <1>1, <1>3, <2>1 DEF ClientSendsGarbage, Cause
<1>4. CASE ClientLeaves
  BY <1>4 DEF ClientLeaves, Cause
<1>5. CASE ~Client /\ ~OnNewRequest
  <2>1. UNCHANGED <<keep, sent, garbage, peer, parsed>>
    BY <1>5 DEF Next, Client, LoopThread, Poll, Collect, OnClose, OnReadError, OnReadData,
                AppendDataFails, OnWriteData, OnWriteLost, OnWriteDone, OnWriteReadFails,
                Ended, vars
  <2>2. Waiting' = Waiting /\ Dead' = Dead
    BY <2>1 DEF Waiting, Dead
  <2>3. CASE \E wr \in BOOLEAN : Poll(wr)
    BY <1>1, <2>1, <2>2, <2>3 DEF Poll, Cause
  <2>4. CASE Collect
    BY <2>1, <2>2, <2>4 DEF Collect, Cause
  <2>5. CASE OnClose \/ OnReadError
    BY <1>1, <2>1, <2>2, <2>5 DEF OnClose, OnReadError, CloseAndFinish, Slot, Dropped, Cause
  <2>6. CASE OnReadData
    <3>1. events' \subseteq {"WRITE"} /\ outcome' = outcome /\ "READ" \in events
      BY <1>1, <2>6 DEF OnReadData, Slot
    <3> QED
      BY <2>1, <2>2, <3>1 DEF Cause
  <2>7. CASE AppendDataFails
    <3>1. events' = events /\ todo' = 0 /\ scheduled' = TRUE /\ todo > 0 /\ (Dead \/ parsed = sent)
      BY <2>7 DEF AppendDataFails
    <3>2. Waiting > 0
      BY <1>1, <3>1
    <3> QED
      BY <2>1, <2>2, <3>1, <3>2 DEF Cause
  <2>8. CASE OnWriteData \/ OnWriteLost \/ OnWriteDone \/ OnWriteReadFails
    <3>1. /\ events' \subseteq events /\ todo' = todo /\ (scheduled => scheduled')
          /\ outcome' = "dropped" => outcome = "dropped"
      BY <2>8 DEF OnWriteData, OnWriteLost, OnWriteDone, OnWriteReadFails, CloseIfLast, CloseAndFinish
    <3> QED
      BY <2>1, <2>2, <3>1 DEF Cause
  <2>9. CASE UNCHANGED vars
    BY <2>1, <2>2, <2>9 DEF vars, Cause
  <2> QED
    BY <1>5, <2>3, <2>4, <2>5, <2>6, <2>7, <2>8, <2>9 DEF Next, LoopThread, Ended
<1>6. CASE OnNewRequest
  <2>1. /\ todo > 0 /\ todo' = todo - 1 /\ UNCHANGED <<events, outcome, peer>>
    BY <1>6 DEF OnNewRequest, ServeRequest
  <2>2. ~(outcome = "dropped" /\ peer = "open")
    BY <1>1, <2>1 DEF Cause
  <2> QED
    BY <1>1, <2>1, <2>2 DEF Cause
<1> QED
  BY <1>2, <1>3, <1>4, <1>5, <1>6 DEF Client

\* A client that stays and sends nothing but messages, up to its last one, is
\* never given up; one that does otherwise has had the messages before that
\* served.
THEOREM NoneGivenUp == Spec => []GivenUpForCause
<1>1. Init => Cause
  BY DEF Init, Cause
<1>2. IInv /\ Cause => GivenUpForCause
  <2> SUFFICES ASSUME IInv, Cause, outcome = "dropped", peer = "open"
               PROVE  /\ garbage \/ \E m \in 1 .. sent - 1 : ~keep[m]
                      /\ \A m \in parsed + 1 .. sent : \E last \in 1 .. m - 1 : ~keep[last]
    BY DEF GivenUpForCause
  <2>1. sent \in Nat /\ parsed \in Nat /\ parsed <= sent
    BY Numbers DEF IInv
  <2>2. Waiting > 0 /\ (Dead \/ parsed = sent)
    BY DEF Cause
  <2>3. ~garbage => Waiting = sent - parsed
    BY <2>1 DEF Waiting
  <2>4. CASE parsed = sent
    <3>1. garbage
      BY <2>1, <2>2, <2>3, <2>4
    <3>2. parsed + 1 .. sent = {}
      BY <2>1, <2>4
    <3> QED
      BY <3>1, <3>2
  <2>5. CASE parsed # sent
    <3>1. parsed > 0 /\ ~keep[parsed]
      BY <2>2, <2>5 DEF Dead
    <3>2. parsed \in 1 .. sent - 1 /\ \A m \in parsed + 1 .. sent : parsed \in 1 .. m - 1
      BY <2>1, <2>5, <3>1
    <3> QED
      BY <3>1, <3>2
  <2> QED
    BY <2>4, <2>5
<1> QED
  BY <1>1, <1>2, InitIInv, NextIInv, NextCause, PTL DEF Spec

\* "Connection: Close" is sent with the answer to the last request and with no
\* other: the flag is set before the container writes, for the right request.
THEOREM CloseAnnounced == Spec => []AnnouncesClose
<1>1. IInv => AnnouncesClose
  <2> SUFFICES ASSUME IInv, NEW i \in 1 .. Len(answers)
               PROVE  /\ answers[i].part = "close" =>
                           \A j \in 1 .. Len(answers) : answers[j].msg <= answers[i].msg
                      /\ answers[i].part = "eol" /\ outcome = "closed" /\ answers[i].msg = parsed =>
                           i > 1 /\ answers[i - 1].part = "close"
    <3>1. DOMAIN answers = 1 .. Len(answers)
      BY DEF IInv, Flow
    <3> QED
      BY <3>1 DEF AnnouncesClose
  <2>1. /\ MaxMessages \in Nat /\ parsed \in Nat /\ parsed <= MaxMessages
    BY Numbers DEF IInv
  <2>2. answers[i] \in Written
    BY ElementOfSeq DEF IInv, Flow
  <2>3. answers[i].msg \in 1 .. MaxMessages
    BY <2>2 DEF Written
  <2>4. /\ \A j \in 1 .. Len(answers) : answers[j].msg <= parsed
        /\ answers[i].part = "close" => LastOnes[answers[i].msg]
        /\ answers[i].part = "eol" /\ LastOnes[answers[i].msg] => i > 1 /\ answers[i - 1].part = "close"
    BY DEF IInv, Announced, Marked
  <2>5. LastOnes[answers[i].msg] <=> is_last(answers[i].msg)
    BY <2>1, <2>3 DEF LastOnes
  <2>6. \A m \in 1 .. parsed - 1 : ~is_last(m)
    BY DEF IInv, Latest
  <2>7. ASSUME answers[i].part = "close"
        PROVE  \A j \in 1 .. Len(answers) : answers[j].msg <= answers[i].msg
    <3> DEFINE m == answers[i].msg
    <3>1. m <= parsed /\ is_last(m) /\ m \in 1 .. MaxMessages
      BY <2>3, <2>4, <2>5, <2>7
    <3> HIDE DEF m
    <3>2. m = parsed
      BY <2>1, <2>6, <3>1
    <3> QED
      BY <2>4, <3>2 DEF m
  <2>8. outcome = "closed" => is_last(parsed)
    BY DEF IInv, Closing, Latest
  <2> QED
    BY <2>4, <2>5, <2>7, <2>8
<1> QED
  BY <1>1, Invariance, PTL

-----------------------------------------------------------------------------
(* The connection implements HTTPExchange when memory does not run out.    *)

LEMMA InitRefines == Init => Exchange!Init
BY DEF Init, http_response_new, Exchange!Init

LEMMA NextRefines ==
    ASSUME ~Faulty, IInv, [Next]_vars
    PROVE  Exchange!Next \/ UNCHANGED <<answers, handed, out, response.is_last, outcome>>
<1>1. CASE Client \/ (\E wr \in BOOLEAN : Poll(wr)) \/ Collect \/ OnReadData \/ OnWriteLost
  BY <1>1 DEF Client, ClientSends, ClientSendsGarbage, ClientLeaves, Poll, Collect, OnReadData,
              OnWriteLost, historyVars
<1>2. CASE OnClose \/ OnReadError \/ AppendDataFails
  <2>1. outcome' = Dropped /\ UNCHANGED <<answers, handed, out, response>>
    BY <1>2 DEF OnClose, OnReadError, AppendDataFails
  <2> QED
    BY <2>1 DEF Dropped, Exchange!Next, Exchange!Drop
<1>3. CASE OnNewRequest
  <2>1. PICK items :
          /\ answers' = answers \o items /\ items \in Seq(Written)
          /\ response'.is_last = is_last(parsed + 1)
    BY <1>3, Served DEF AnswerTo
  <2>2. todo > 0 /\ parsed < sent /\ UNCHANGED <<keep, handed, out, outcome>>
    BY <1>3 DEF OnNewRequest, ServeRequest, clientVars
  <2>3. outcome # "closed"
    BY <2>2 DEF IInv, Closing, Types
  <2>4. Exchange!IsPrefix(answers, answers')
    <3>1. answers \in Seq(Written)
      BY DEF IInv, Flow
    <3>2. IsPrefix(answers, answers \o items)
      BY <2>1, <3>1, PrefixJoined
    <3> QED
      BY <2>1, <3>2 DEF IsPrefix, Exchange!IsPrefix
  <2>5. response'.is_last \in BOOLEAN
    BY <2>1 DEF is_last
  <2> QED
    BY <2>2, <2>3, <2>4, <2>5 DEF Exchange!Next, Exchange!Answer
<1>4. CASE OnWriteData
  <2> DEFINE n == avaiable_length(response, BUFSIZE)
  <2>1. PICK k \in 0 .. n : out' = out \o SubSeq(response.buffer, 1, k)
    BY <1>4 DEF OnWriteData
  <2>2. /\ n \in 0 .. BUFSIZE /\ n <= response.buffer_length
        /\ response'.is_last = response.is_last
    BY <1>4, ReadOut, ConnectionAssumption DEF OnWriteData, IInv, Flow
  <2>3. /\ handed' = handed + n /\ n > 0 /\ UNCHANGED <<answers, outcome>> /\ events # {}
    BY <1>4 DEF OnWriteData, Slot
  <2> HIDE DEF n
  <2>4. /\ answers \in Seq(Written) /\ handed \in 0 .. Len(answers) /\ Len(answers) \in Nat
        /\ response.buffer_length = Len(answers) - handed
        /\ response.buffer = SubSeq(answers, handed + 1, Len(answers))
    BY DEF IInv, Flow
  <2>5. n \in 1 .. BUFSIZE /\ handed + n <= Len(answers)
    BY <2>2, <2>3, <2>4, ConnectionAssumption
  <2>6. SubSeq(response.buffer, 1, k) = SubSeq(answers, handed + 1, handed + k)
    <3>1. 1 \in 1 .. Len(answers) - handed + 1 /\ k \in 1 - 1 .. Len(answers) - handed
      BY <2>4, <2>5
    <3> QED
      BY <2>4, <3>1, PartOfRest
  <2>7. outcome # "closed"
    BY <2>3 DEF IInv, Closing
  <2> QED
    BY <2>1, <2>2, <2>3, <2>5, <2>6, <2>7 DEF Exchange!Next, Exchange!Send
<1>5. CASE OnWriteDone
  <2>1. /\ response.buffer_length = 0 /\ CloseIfLast
        /\ UNCHANGED <<response, answers, handed, out>> /\ events # {}
    BY <1>5 DEF OnWriteDone, Slot
  <2>2. outcome # "closed"
    BY <2>1 DEF IInv, Closing
  <2>3. handed = Len(answers)
    BY <2>1 DEF IInv, Flow
  <2> QED
    BY <2>1, <2>2, <2>3 DEF CloseIfLast, CloseAndFinish, Exchange!Next, Exchange!Close
<1>6. CASE OnWriteReadFails
  BY <1>6 DEF OnWriteReadFails
<1>7. CASE UNCHANGED vars
  BY <1>7 DEF vars
<1> QED
  BY <1>1, <1>2, <1>3, <1>4, <1>5, <1>6, <1>7 DEF Next, LoopThread, Ended

\* What a client can rely on: the answers in the order of the requests, nothing
\* twice, and an end only after the last answer was handed to the socket.
THEOREM PromiseKept == ASSUME ~Faulty PROVE Spec => KeepsPromise
<1>1. IInv /\ [Next]_vars => [Exchange!Next]_(Exchange!vars)
  <2> SUFFICES ASSUME IInv, [Next]_vars
               PROVE  Exchange!Next \/ UNCHANGED <<answers, handed, out, response.is_last, outcome>>
    BY DEF Exchange!vars
  <2> QED
    BY NextRefines
<1> QED
  BY <1>1, InitRefines, Invariance, PTL DEF Spec, KeepsPromise, Exchange!Spec
=============================================================================
