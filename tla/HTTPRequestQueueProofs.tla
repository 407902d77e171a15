------------------------ MODULE HTTPRequestQueueProofs ------------------------
(***************************************************************************)
(* The safety of a request queue, for any messages, cut into any reads, any*)
(* length of their parts and any number of headers and of slots: the types,*)
(* the slots, the buffer and the bytes that pass through it for whatever a *)
(* client sends, what is served when for clients that do not go on behind a*)
(* header block, and the requests as they were sent for regular traffic.   *)
(***************************************************************************)
EXTENDS HTTPRequestQueue, SequenceLemmas

-----------------------------------------------------------------------------
(* The stream.                                                             *)

Shape == [headers : Nat, body : Nat, keep : BOOLEAN]

\* Tokens of the stream behind the m-th message and behind its header block,
\* and tokens of the first n headers of a message.
End(m) == Len(FlattenSeq([i \in 1 .. m |-> Message(i)]))
Size(m, n) == Len(Headers(m, n))
BlockLen(m) == SpanLen + Size(m, script[m].headers) + 1
BlockEnd(m) == End(m - 1) + BlockLen(m)

\* Tokens of the client's messages.
Known == {t \in Sent : t.msg \in DOMAIN script}

Tok(m, part, h) == [msg |-> m, part |-> part, h |-> h]

LEMMA ScriptIs ==
    ASSUME client \in Clients
    PROVE  /\ script \in Seq(Shape) /\ Len(script) \in Nat /\ DOMAIN script = 1 .. Len(script)
           /\ client.split \in BOOLEAN /\ client.runOn \in BOOLEAN
           /\ \A m \in 1 .. Len(script) :
                script[m].headers \in Nat /\ script[m].body \in Nat /\ script[m].keep \in BOOLEAN
<1>1. /\ script \in Seq(Shape)
      /\ client.split \in BOOLEAN /\ client.runOn \in BOOLEAN
  BY QueueAssumption DEF Shape, script
<1>2. \A m \in 1 .. Len(script) : script[m] \in Shape
  BY <1>1, ElementOfSeq
<1> QED
  BY <1>1, <1>2, LenProperties DEF Shape

\* A span.
LEMMA SpanIs ==
    ASSUME NEW m \in Nat, NEW part \in {"url", "field", "value", "end", "body"}, NEW h \in Nat
    PROVE  /\ Tok(m, part, h) \in Sent
           /\ Span(m, part, h) \in Seq({Tok(m, part, h)})
           /\ Len(Span(m, part, h)) = SpanLen
           /\ \A i \in 1 .. SpanLen : Span(m, part, h)[i] = Tok(m, part, h)
BY QueueAssumption DEF Span, Tok, Sent

\* A header: its field and its value.
LEMMA HeaderIs ==
    ASSUME NEW m \in Nat, NEW h \in Nat
    PROVE  /\ Header(m, h) \in Seq({Tok(m, "field", h), Tok(m, "value", h)})
           /\ Len(Header(m, h)) = SpanLen + SpanLen
           /\ \A i \in 1 .. SpanLen :
                /\ Header(m, h)[i] = Tok(m, "field", h)
                /\ Header(m, h)[SpanLen + i] = Tok(m, "value", h)
<1> DEFINE f == Span(m, "field", h)
           v == Span(m, "value", h)
           S == {Tok(m, "field", h), Tok(m, "value", h)}
<1>1. /\ f \in Seq({Tok(m, "field", h)}) /\ v \in Seq({Tok(m, "value", h)})
      /\ Len(f) = SpanLen /\ Len(v) = SpanLen
      /\ \A i \in 1 .. SpanLen : f[i] = Tok(m, "field", h) /\ v[i] = Tok(m, "value", h)
  BY SpanIs
<1>2. f \in Seq(S) /\ v \in Seq(S)
  <2>1. {Tok(m, "field", h)} \subseteq S /\ {Tok(m, "value", h)} \subseteq S
    OBVIOUS
  <2> HIDE DEF f, v, S
  <2> QED
    BY <1>1, <2>1, SeqMonotonic
<1>3. Header(m, h) = f \o v
  BY DEF Header
<1> HIDE DEF f, v
<1>4. /\ f \o v \in Seq(S) /\ Len(f \o v) = Len(f) + Len(v)
      /\ \A i \in 1 .. Len(f) : (f \o v)[i] = f[i]
      /\ \A i \in 1 .. Len(v) : (f \o v)[Len(f) + i] = v[i]
  BY <1>2, Joined
<1> QED
  BY <1>1, <1>3, <1>4

\* What headers consist of.
HeaderTokens(m) == {Tok(m, part, h) : part \in {"field", "value"}, h \in Nat}

\* The headers of a message, one behind the other.
LEMMA HeadersAre ==
    ASSUME NEW m \in Nat, NEW n \in Nat
    PROVE  /\ Headers(m, n) \in Seq(HeaderTokens(m)) /\ Size(m, n) \in Nat
           /\ Size(m, 0) = 0
           /\ \A h \in 1 .. n :
                /\ Size(m, h - 1) \in Nat
                /\ Size(m, h) = Size(m, h - 1) + (SpanLen + SpanLen)
                /\ Size(m, h) <= Size(m, n)
                /\ \A i \in 1 .. SpanLen :
                    /\ Headers(m, n)[Size(m, h - 1) + i] = Tok(m, "field", h)
                    /\ Headers(m, n)[Size(m, h - 1) + (SpanLen + i)] = Tok(m, "value", h)
<1>0. SpanLen \in Nat
  BY QueueAssumption
<1> DEFINE S == HeaderTokens(m)
           seqs == [h \in 1 .. n |-> Header(m, h)]
<1>1. \A h \in Nat : Header(m, h) \in Seq(S)
  <2> SUFFICES ASSUME NEW h \in Nat
               PROVE  Header(m, h) \in Seq(S)
    OBVIOUS
  <2>1. {Tok(m, "field", h), Tok(m, "value", h)} \subseteq S
    BY DEF HeaderTokens
  <2>2. Header(m, h) \in Seq({Tok(m, "field", h), Tok(m, "value", h)})
    BY HeaderIs
  <2> HIDE DEF S
  <2> QED
    BY <2>1, <2>2, SeqMonotonic
<1>2. seqs \in Seq(Seq(S)) /\ Len(seqs) = n
  <2> HIDE DEF S
  <2> QED
    BY <1>1
<1>3. \A k \in 0 .. n : Initial(seqs, k) = Headers(m, k)
  <2> SUFFICES ASSUME NEW k \in 0 .. n
               PROVE  Initial(seqs, k) = Headers(m, k)
    OBVIOUS
  <2>1. [i \in 1 .. k |-> seqs[i]] = [h \in 1 .. k |-> Header(m, h)]
    OBVIOUS
  <2> HIDE DEF seqs
  <2> QED
    BY <2>1 DEF Initial, Headers
<1>4. FlattenSeq(seqs) = Headers(m, n)
  BY DEF Headers
<1>5. Headers(m, n) \in Seq(S)
  BY <1>2, <1>4, FlattenTyped
<1>6. Size(m, 0) = 0
  <2>1. Headers(m, 0) = <<>>
    <3>1. Initial(seqs, 0) = Headers(m, 0)
      BY <1>3
    <3> HIDE DEF seqs, S
    <3> QED
      BY <1>2, <3>1, FrontEnds
  <2> QED
    BY <2>1, EmptySeq DEF Size
<1>7. ASSUME NEW h \in 1 .. n
      PROVE  /\ Size(m, h - 1) \in Nat
             /\ Size(m, h) = Size(m, h - 1) + (SpanLen + SpanLen)
             /\ Size(m, h) <= Size(m, n)
             /\ \A i \in 1 .. SpanLen :
                 /\ Headers(m, n)[Size(m, h - 1) + i] = Tok(m, "field", h)
                 /\ Headers(m, n)[Size(m, h - 1) + (SpanLen + i)] = Tok(m, "value", h)
  <2>1. /\ h \in 1 .. Len(seqs) /\ seqs[h] = Header(m, h) /\ h \in Nat
        /\ Initial(seqs, h) = Headers(m, h) /\ Initial(seqs, h - 1) = Headers(m, h - 1)
    BY <1>2, <1>3
  <2> HIDE DEF seqs, S
  <2>2. /\ Len(Initial(seqs, h - 1)) \in Nat
        /\ Len(Initial(seqs, h)) = Len(Initial(seqs, h - 1)) + Len(seqs[h])
        /\ Len(Initial(seqs, h)) <= Len(FlattenSeq(seqs))
        /\ \A i \in 1 .. Len(seqs[h]) :
                FlattenSeq(seqs)[Len(Initial(seqs, h - 1)) + i] = seqs[h][i]
    <3>1. seqs \in Seq(Seq(S)) /\ h \in 1 .. Len(seqs)
      BY <1>2, <2>1
    <3>2. LiesAt(seqs, h)
      BY <3>1, FlattenAt
    <3> QED
      BY <3>2 DEF LiesAt
  <2>3. /\ Len(Header(m, h)) = SpanLen + SpanLen
        /\ \A i \in 1 .. SpanLen :
                /\ Header(m, h)[i] = Tok(m, "field", h)
                /\ Header(m, h)[SpanLen + i] = Tok(m, "value", h)
    BY <2>1, HeaderIs
  <2>4. \A i \in 1 .. SpanLen + SpanLen :
            Headers(m, n)[Size(m, h - 1) + i] = Header(m, h)[i]
    BY <1>4, <2>1, <2>2, <2>3 DEF Size
  <2>5. \A i \in 1 .. SpanLen : i \in 1 .. SpanLen + SpanLen /\ SpanLen + i \in 1 .. SpanLen + SpanLen
    BY <1>0
  <2> QED
    BY <1>4, <2>1, <2>2, <2>3, <2>4, <2>5 DEF Size
<1> QED
  BY <1>5, <1>6, <1>7, LenProperties DEF Size

\* What the m-th message puts where in a stream whose tokens before it are n.
UrlAt(s, n, m) == \A i \in 1 .. SpanLen : s[n + i] = Tok(m, "url", 0)
HeadersAt(s, n, m) ==
    \A h \in 1 .. script[m].headers : \A i \in 1 .. SpanLen :
        /\ s[n + (SpanLen + Size(m, h - 1) + i)] = Tok(m, "field", h)
        /\ s[n + (SpanLen + Size(m, h - 1) + (SpanLen + i))] = Tok(m, "value", h)
EndAt(s, n, m) == s[n + BlockLen(m)] = Tok(m, "end", 0)
BodyAt(s, n, m) == \A i \in 1 .. script[m].body : s[n + (BlockLen(m) + i)] = Tok(m, "body", i)
NoEndBefore(s, n, m) == \A i \in 1 .. BlockLen(m) - 1 : s[n + i].part # "end"
MessageAt(s, n, m) ==
    UrlAt(s, n, m) /\ HeadersAt(s, n, m) /\ EndAt(s, n, m) /\ BodyAt(s, n, m) /\ NoEndBefore(s, n, m)

LEMMA MessageIs ==
    ASSUME client \in Clients, NEW m \in 1 .. Len(script)
    PROVE  /\ Message(m) \in Seq(Known)
           /\ BlockLen(m) \in Nat /\ BlockLen(m) > SpanLen
           /\ Len(Message(m)) = BlockLen(m) + script[m].body
           /\ MessageAt(Message(m), 0, m)
<1> USE QueueAssumption
<1> DEFINE n == script[m].headers
           b == script[m].body
           url == Span(m, "url", 0)
           hs == Headers(m, n)
           e == <<[msg |-> m, part |-> "end", h |-> 0]>>
           bd == Body(m, b)
           P == url \o hs
           Q == P \o e
           R == Q \o bd
           z == Size(m, n)
<1>1. m \in Nat /\ n \in Nat /\ b \in Nat /\ m \in DOMAIN script
  BY ScriptIs
<1>2. Message(m) = R
  BY DEF Message
<1>3. \A part \in {"url", "field", "value", "end", "body"}, h \in Nat : Tok(m, part, h) \in Known
  BY <1>1 DEF Known, Sent, Tok
<1>4. /\ url \in Seq(Known) /\ Len(url) = SpanLen
      /\ \A i \in 1 .. SpanLen : url[i] = Tok(m, "url", 0)
  <2>1. /\ url \in Seq({Tok(m, "url", 0)}) /\ Len(url) = SpanLen
        /\ \A i \in 1 .. SpanLen : url[i] = Tok(m, "url", 0)
    BY <1>1, SpanIs
  <2>2. {Tok(m, "url", 0)} \subseteq Known
    BY <1>3
  <2> HIDE DEF url
  <2> QED
    BY <2>1, <2>2, SeqMonotonic
<1>5. /\ hs \in Seq(Known) /\ Len(hs) = z /\ z \in Nat
      /\ \A h \in 1 .. n :
          /\ Size(m, h - 1) \in Nat
          /\ Size(m, h) = Size(m, h - 1) + (SpanLen + SpanLen)
          /\ Size(m, h) <= z
          /\ \A i \in 1 .. SpanLen :
              /\ hs[Size(m, h - 1) + i] = Tok(m, "field", h)
              /\ hs[Size(m, h - 1) + (SpanLen + i)] = Tok(m, "value", h)
      /\ hs \in Seq(HeaderTokens(m))
  <2>1. HeaderTokens(m) \subseteq Known
    BY <1>3 DEF HeaderTokens
  <2> HIDE DEF n
  <2>2. hs \in Seq(HeaderTokens(m))
    BY <1>1, HeadersAre
  <2>3. hs \in Seq(Known)
    BY <2>1, <2>2, SeqMonotonic
  <2> QED
    BY <1>1, <2>2, <2>3, HeadersAre DEF Size
<1>6. e \in Seq(Known) /\ Len(e) = 1 /\ e[1] = Tok(m, "end", 0)
  <2>1. [msg |-> m, part |-> "end", h |-> 0] = Tok(m, "end", 0)
    BY DEF Tok
  <2> QED
    BY <1>3, <2>1
<1>7. /\ bd \in Seq(Known) /\ Len(bd) = b
      /\ \A i \in 1 .. b : bd[i] = Tok(m, "body", i)
  <2>1. \A i \in 1 .. b : [msg |-> m, part |-> "body", h |-> i] \in Known
    BY <1>1, <1>3 DEF Tok
  <2> HIDE DEF b
  <2> QED
    BY <1>1, <2>1 DEF Body, Tok
<1> HIDE DEF n, b, url, hs, e, bd, z
<1>8. /\ P \in Seq(Known) /\ Len(P) = SpanLen + z
      /\ \A i \in 1 .. SpanLen : P[i] = url[i]
      /\ \A i \in 1 .. z : P[SpanLen + i] = hs[i]
  <2>1. /\ P \in Seq(Known) /\ Len(P) = Len(url) + Len(hs)
        /\ \A i \in 1 .. Len(url) : P[i] = url[i]
        /\ \A i \in 1 .. Len(hs) : P[Len(url) + i] = hs[i]
    <3>1. url \in Seq(Known) /\ hs \in Seq(Known)
      BY <1>4, <1>5
    <3> QED
      BY <3>1, Joined
  <2> HIDE DEF P
  <2> QED
    BY <1>4, <1>5, <2>1
<1> HIDE DEF P
<1>9. /\ Q \in Seq(Known) /\ Len(Q) = SpanLen + z + 1
      /\ \A i \in 1 .. SpanLen + z : Q[i] = P[i]
      /\ Q[SpanLen + z + 1] = Tok(m, "end", 0)
  <2>1. /\ Q \in Seq(Known) /\ Len(Q) = Len(P) + Len(e)
        /\ \A i \in 1 .. Len(P) : Q[i] = P[i]
        /\ \A i \in 1 .. Len(e) : Q[Len(P) + i] = e[i]
    BY SMTT(30), <1>6, <1>8, Joined
  <2> HIDE DEF Q
  <2> QED
    BY <1>6, <1>8, <2>1
<1> HIDE DEF Q
<1> DEFINE l == SpanLen + z + 1
<1>10. l = BlockLen(m)
  BY DEF BlockLen, z, n
<1>11. l \in Nat /\ l > SpanLen
  BY <1>5
<1>12. /\ R \in Seq(Known) /\ Len(R) = l + b
       /\ \A i \in 1 .. l : R[i] = Q[i]
       /\ \A i \in 1 .. b : R[l + i] = bd[i]
  <2>1. /\ R \in Seq(Known) /\ Len(R) = Len(Q) + Len(bd)
        /\ \A i \in 1 .. Len(Q) : R[i] = Q[i]
        /\ \A i \in 1 .. Len(bd) : R[Len(Q) + i] = bd[i]
    <3>1. Q \in Seq(Known) /\ bd \in Seq(Known)
      BY <1>7, <1>9
    <3> QED
      BY <3>1, Joined
  <2> HIDE DEF R
  <2> QED
    BY <1>7, <1>9, <2>1
<1> HIDE DEF R
<1>13. \A i \in 1 .. SpanLen : R[i] = Tok(m, "url", 0)
  BY <1>4, <1>5, <1>8, <1>9, <1>12
<1>14. \A i \in 1 .. z : R[SpanLen + i] = hs[i]
  <2> SUFFICES ASSUME NEW i \in 1 .. z
               PROVE  R[SpanLen + i] = hs[i]
    OBVIOUS
  <2>1. SpanLen + i \in 1 .. SpanLen + z /\ SpanLen + i \in 1 .. l
    BY <1>5
  <2> QED
    BY <1>8, <1>9, <1>12, <2>1
<1>15. R[l] = Tok(m, "end", 0)
  BY <1>9, <1>11, <1>12
<1>16. UrlAt(R, 0, m)
  BY <1>13 DEF UrlAt
<1>17. HeadersAt(R, 0, m)
  <2> SUFFICES ASSUME NEW h \in 1 .. n, NEW i \in 1 .. SpanLen
               PROVE  /\ R[0 + (SpanLen + Size(m, h - 1) + i)] = Tok(m, "field", h)
                      /\ R[0 + (SpanLen + Size(m, h - 1) + (SpanLen + i))] = Tok(m, "value", h)
    BY DEF HeadersAt, n
  <2> DEFINE p == Size(m, h - 1)
             q == Size(m, h)
  <2>1. /\ p \in Nat /\ q = p + (SpanLen + SpanLen) /\ q <= z
        /\ hs[p + i] = Tok(m, "field", h) /\ hs[p + (SpanLen + i)] = Tok(m, "value", h)
    BY <1>5
  <2> HIDE DEF p, q
  <2>2. p + i \in 1 .. z /\ p + (SpanLen + i) \in 1 .. z
    BY <1>5, <2>1
  <2>3. /\ R[SpanLen + (p + i)] = Tok(m, "field", h)
        /\ R[SpanLen + (p + (SpanLen + i))] = Tok(m, "value", h)
    BY <1>14, <2>1, <2>2
  <2>4. /\ 0 + (SpanLen + p + i) = SpanLen + (p + i)
        /\ 0 + (SpanLen + p + (SpanLen + i)) = SpanLen + (p + (SpanLen + i))
    BY <2>1
  <2> QED
    BY <2>3, <2>4 DEF p
<1>18. EndAt(R, 0, m)
  BY <1>10, <1>11, <1>15 DEF EndAt
<1>19. BodyAt(R, 0, m)
  <2> SUFFICES ASSUME NEW i \in 1 .. b
               PROVE  R[0 + (l + i)] = Tok(m, "body", i)
    BY <1>10 DEF BodyAt, b
  <2>1. 0 + (l + i) = l + i
    BY <1>11
  <2> QED
    BY <1>7, <1>12, <2>1
<1>20. NoEndBefore(R, 0, m)
  <2> SUFFICES ASSUME NEW i \in 1 .. l - 1
               PROVE  R[0 + i].part # "end"
    BY <1>10 DEF NoEndBefore
  <2>1. 0 + i = i
    OBVIOUS
  <2>2. CASE i <= SpanLen
    BY <1>13, <2>1, <2>2 DEF Tok
  <2>3. CASE i > SpanLen
    <3>1. i - SpanLen \in 1 .. z /\ SpanLen + (i - SpanLen) = i
      BY <1>5, <2>3
    <3> DEFINE k == i - SpanLen
    <3>2. hs[k] \in HeaderTokens(m)
      <4>1. hs \in Seq(HeaderTokens(m)) /\ k \in 1 .. Len(hs)
        BY <1>5, <3>1
      <4> HIDE DEF k
      <4> QED
        BY <4>1, ElementOfSeq
    <3>3. R[i] = hs[k]
      BY <1>14, <3>1
    <3> HIDE DEF k
    <3> QED
      BY <2>1, <3>2, <3>3 DEF HeaderTokens, Tok
  <2> QED
    BY <1>11, <2>2, <2>3
<1> QED
  BY <1>2, <1>10, <1>11, <1>12, <1>16, <1>17, <1>18, <1>19, <1>20 DEF MessageAt, b

\* Tokens before and behind a header of the block.
LEMMA SizesAre ==
    ASSUME client \in Clients, NEW m \in 1 .. Len(script)
    PROVE  /\ Size(m, 0) = 0
           /\ Size(m, script[m].headers) \in Nat
           /\ BlockLen(m) = SpanLen + Size(m, script[m].headers) + 1
           /\ \A h \in 1 .. script[m].headers :
                /\ Size(m, h - 1) \in Nat
                /\ Size(m, h) = Size(m, h - 1) + (SpanLen + SpanLen)
                /\ Size(m, h) <= Size(m, script[m].headers)
<1>1. m \in Nat /\ script[m].headers \in Nat
  BY ScriptIs
<1> QED
  BY <1>1, HeadersAre DEF BlockLen

\* The same elements in another place.
LEMMA MessageMoved ==
    ASSUME client \in Clients, NEW m \in 1 .. Len(script), NEW s, NEW t, NEW n \in Nat,
           MessageAt(s, 0, m),
           \A i \in 1 .. BlockLen(m) + script[m].body : t[n + i] = s[i]
    PROVE  MessageAt(t, n, m)
<1> USE QueueAssumption
<1> DEFINE l == BlockLen(m)
           b == script[m].body
           z == Size(m, script[m].headers)
<1>1. b \in Nat /\ z \in Nat /\ l = SpanLen + z + 1 /\ l \in Nat
  BY SizesAre, ScriptIs
<1>2. \A i \in 1 .. l + b : t[n + i] = s[i] /\ 0 + i = i
  BY <1>1
<1> HIDE DEF l, b, z
<1>3. UrlAt(t, n, m)
  <2> SUFFICES ASSUME NEW i \in 1 .. SpanLen
               PROVE  t[n + i] = Tok(m, "url", 0)
    BY DEF UrlAt
  <2>1. i \in 1 .. l + b
    BY <1>1
  <2>2. s[0 + i] = Tok(m, "url", 0)
    BY DEF MessageAt, UrlAt
  <2> QED
    BY <1>2, <2>1, <2>2
<1>4. HeadersAt(t, n, m)
  <2> SUFFICES ASSUME NEW h \in 1 .. script[m].headers, NEW i \in 1 .. SpanLen
               PROVE  /\ t[n + (SpanLen + Size(m, h - 1) + i)] = Tok(m, "field", h)
                      /\ t[n + (SpanLen + Size(m, h - 1) + (SpanLen + i))] = Tok(m, "value", h)
    BY DEF HeadersAt
  <2> DEFINE p == SpanLen + Size(m, h - 1) + i
             q == SpanLen + Size(m, h - 1) + (SpanLen + i)
  <2>1. p \in 1 .. l + b /\ q \in 1 .. l + b
    <3> DEFINE a == Size(m, h - 1)
               c == Size(m, h)
    <3>1. a \in Nat /\ c = a + (SpanLen + SpanLen) /\ c <= z
      BY SizesAre DEF z
    <3> HIDE DEF a, c
    <3>2. SpanLen + a + i \in 1 .. l + b /\ SpanLen + a + (SpanLen + i) \in 1 .. l + b
      BY SMTT(30), <1>1, <3>1
    <3> QED
      BY <3>2 DEF a
  <2>2. s[0 + p] = Tok(m, "field", h) /\ s[0 + q] = Tok(m, "value", h)
    BY DEF MessageAt, HeadersAt
  <2> HIDE DEF p, q
  <2>3. t[n + p] = Tok(m, "field", h) /\ t[n + q] = Tok(m, "value", h)
    BY <1>2, <2>1, <2>2
  <2> QED
    BY <2>3 DEF p, q
<1>5. EndAt(t, n, m)
  <2>1. l \in 1 .. l + b
    BY <1>1
  <2>2. s[0 + l] = Tok(m, "end", 0)
    BY DEF MessageAt, EndAt, l
  <2>3. t[n + l] = Tok(m, "end", 0)
    BY <1>2, <2>1, <2>2
  <2> QED
    BY <2>3 DEF EndAt, l
<1>6. BodyAt(t, n, m)
  <2> SUFFICES ASSUME NEW i \in 1 .. b
               PROVE  t[n + (l + i)] = Tok(m, "body", i)
    BY DEF BodyAt, l, b
  <2> DEFINE p == l + i
  <2>1. p \in 1 .. l + b
    BY <1>1
  <2>2. s[0 + p] = Tok(m, "body", i)
    BY DEF MessageAt, BodyAt, l, b
  <2> HIDE DEF p
  <2>3. t[n + p] = Tok(m, "body", i)
    BY <1>2, <2>1, <2>2
  <2> QED
    BY <2>3 DEF p
<1>7. NoEndBefore(t, n, m)
  <2> SUFFICES ASSUME NEW i \in 1 .. l - 1
               PROVE  t[n + i].part # "end"
    BY DEF NoEndBefore, l
  <2>1. i \in 1 .. l + b
    BY <1>1
  <2>2. s[0 + i].part # "end"
    BY DEF MessageAt, NoEndBefore, l
  <2> QED
    BY <1>2, <2>1, <2>2
<1> QED
  BY <1>3, <1>4, <1>5, <1>6, <1>7 DEF MessageAt

Messages == [m \in DOMAIN script |-> Message(m)]

LEMMA MessagesAre ==
    ASSUME client \in Clients
    PROVE  /\ Messages \in Seq(Seq(Known)) /\ Len(Messages) = Len(script)
           /\ \A m \in 1 .. Len(script) : Messages[m] = Message(m)
           /\ \A m \in 0 .. Len(script) : End(m) = Len(Initial(Messages, m))
           /\ Stream = FlattenSeq(Messages)
<1>1. Len(script) \in Nat /\ DOMAIN script = 1 .. Len(script)
  BY ScriptIs
<1>2. \A m \in 1 .. Len(script) : Message(m) \in Seq(Known)
  BY MessageIs
<1>3. Messages \in Seq(Seq(Known)) /\ Len(Messages) = Len(script)
  BY <1>1, <1>2 DEF Messages
<1>4. \A m \in 1 .. Len(script) : Messages[m] = Message(m)
  BY <1>1 DEF Messages
<1>5. ASSUME NEW m \in 0 .. Len(script)
      PROVE  End(m) = Len(Initial(Messages, m))
  <2>1. [i \in 1 .. m |-> Messages[i]] = [i \in 1 .. m |-> Message(i)]
    BY <1>1, <1>4
  <2> QED
    BY <2>1 DEF End, Initial
<1>6. Stream = FlattenSeq(Messages)
  BY DEF Stream, Messages
<1> QED
  BY <1>3, <1>4, <1>5, <1>6

\* Where the messages are in the stream.
LEMMA StreamIs ==
    ASSUME client \in Clients
    PROVE  /\ Stream \in Seq(Known) /\ Len(Stream) \in Nat
           /\ End(0) = 0 /\ End(Len(script)) = Len(Stream)
           /\ \A m \in 1 .. Len(script) :
                /\ End(m - 1) \in Nat /\ End(m) \in Nat
                /\ BlockLen(m) \in Nat /\ BlockLen(m) > SpanLen
                /\ End(m) = BlockEnd(m) + script[m].body
                /\ BlockEnd(m) = End(m - 1) + BlockLen(m)
                /\ End(m) <= Len(Stream)
                /\ MessageAt(Stream, End(m - 1), m)
<1>1. /\ Messages \in Seq(Seq(Known)) /\ Len(Messages) = Len(script)
      /\ \A m \in 1 .. Len(script) : Messages[m] = Message(m)
      /\ \A m \in 0 .. Len(script) : End(m) = Len(Initial(Messages, m))
      /\ Stream = FlattenSeq(Messages)
  BY MessagesAre
<1>2. Stream \in Seq(Known) /\ Len(Stream) \in Nat
  <2>1. Stream \in Seq(Known)
    BY <1>1, FlattenTyped
  <2> QED
    BY <2>1, LenProperties
<1>3. Len(script) \in Nat
  BY ScriptIs
<1>4. End(0) = 0 /\ End(Len(script)) = Len(Stream)
  <2>1. Initial(Messages, 0) = <<>> /\ Initial(Messages, Len(script)) = Stream
    BY <1>1, FrontEnds
  <2>2. End(0) = Len(Initial(Messages, 0)) /\ End(Len(script)) = Len(Initial(Messages, Len(script)))
    BY <1>1, <1>3
  <2> QED
    BY <2>1, <2>2, EmptySeq
<1>5. ASSUME NEW m \in 1 .. Len(script)
      PROVE  /\ End(m - 1) \in Nat /\ End(m) \in Nat
             /\ BlockLen(m) \in Nat /\ BlockLen(m) > SpanLen
             /\ End(m) = BlockEnd(m) + script[m].body
             /\ BlockEnd(m) = End(m - 1) + BlockLen(m)
             /\ End(m) <= Len(Stream)
             /\ MessageAt(Stream, End(m - 1), m)
  <2>1. /\ Len(Initial(Messages, m - 1)) \in Nat
        /\ Len(Initial(Messages, m)) = Len(Initial(Messages, m - 1)) + Len(Messages[m])
        /\ Len(Initial(Messages, m)) <= Len(FlattenSeq(Messages))
        /\ \A i \in 1 .. Len(Messages[m]) :
                FlattenSeq(Messages)[Len(Initial(Messages, m - 1)) + i] = Messages[m][i]
    <3>1. Messages \in Seq(Seq(Known)) /\ m \in 1 .. Len(Messages)
      BY <1>1
    <3>2. LiesAt(Messages, m)
      BY <3>1, FlattenAt
    <3> QED
      BY <3>2 DEF LiesAt
  <2>2. /\ End(m - 1) = Len(Initial(Messages, m - 1)) /\ End(m) = Len(Initial(Messages, m))
        /\ Messages[m] = Message(m)
    BY <1>1, <1>3
  <2>3. /\ BlockLen(m) \in Nat /\ BlockLen(m) > SpanLen /\ script[m].body \in Nat
        /\ Len(Message(m)) = BlockLen(m) + script[m].body
        /\ MessageAt(Message(m), 0, m)
    BY MessageIs, ScriptIs
  <2>4. /\ End(m - 1) \in Nat
        /\ End(m) = End(m - 1) + (BlockLen(m) + script[m].body)
        /\ End(m) <= Len(Stream)
        /\ \A i \in 1 .. BlockLen(m) + script[m].body :
                Stream[End(m - 1) + i] = Message(m)[i]
    BY <1>1, <2>1, <2>2, <2>3
  <2>5. MessageAt(Stream, End(m - 1), m)
    BY <2>3, <2>4, MessageMoved
  <2>6. BlockEnd(m) = End(m - 1) + BlockLen(m)
    BY DEF BlockEnd
  <2> QED
    BY <2>3, <2>4, <2>5, <2>6
<1> QED
  BY <1>2, <1>4, <1>5

\* The messages come one behind the other.
LEMMA EndsGrow ==
    ASSUME client \in Clients, NEW m \in 0 .. Len(script), NEW n \in 0 .. Len(script), m <= n
    PROVE  End(m) \in Nat /\ End(n) \in Nat /\ End(m) <= End(n)
<1> DEFINE e == Len(script)
<1>1. e \in Nat
  BY ScriptIs
<1>2. \A k \in 0 .. e : End(k) \in Nat
  <2> SUFFICES ASSUME NEW k \in 0 .. e
               PROVE  End(k) \in Nat
    OBVIOUS
  <2>1. CASE k = 0
    BY <2>1, StreamIs
  <2>2. CASE k # 0
    <3>1. k \in 1 .. Len(script)
      BY <1>1, <2>2
    <3> QED
      BY <3>1, StreamIs
  <2> QED
    BY <2>1, <2>2
<1>3. \A k \in 1 .. e : End(k - 1) <= End(k)
  <2> SUFFICES ASSUME NEW k \in 1 .. e
               PROVE  End(k - 1) <= End(k)
    OBVIOUS
  <2>1. /\ End(k - 1) \in Nat /\ BlockLen(k) \in Nat /\ script[k].body \in Nat
        /\ End(k) = BlockEnd(k) + script[k].body /\ BlockEnd(k) = End(k - 1) + BlockLen(k)
    BY StreamIs, ScriptIs
  <2> QED
    BY <2>1
<1> DEFINE N == {k \in 0 .. e : m <= k /\ ~(End(m) <= End(k))}
<1>4. ASSUME N # {}
      PROVE  FALSE
  <2>1. PICK k \in N : \A j \in N : k <= j
    <3>1. N \subseteq Nat
      BY <1>1
    <3> HIDE DEF N
    <3> QED
      BY <1>4, <3>1, LeastNumber
  <2>2. k \in 0 .. e /\ m \in 0 .. e /\ m <= k /\ k # m
    BY <1>2
  <2>3. k - 1 \in 0 .. e /\ m <= k - 1 /\ k \in 1 .. e
    BY <1>1, <2>2
  <2>4. k - 1 \notin N
    <3> HIDE DEF N
    <3> QED
      BY <1>1, <2>1, <2>3
  <2>5. End(m) <= End(k - 1)
    BY <2>3, <2>4
  <2>6. ~(End(m) <= End(k))
    OBVIOUS
  <2> HIDE DEF N, e
  <2>7. End(k - 1) <= End(k)
    BY <1>3, <2>3
  <2> QED
    BY <1>2, <2>2, <2>3, <2>5, <2>6, <2>7
<1> QED
  BY <1>2, <1>4

-----------------------------------------------------------------------------
(* The inductive invariant.                                                *)

\* The message that is being parsed, or comes next, and the tokens parsed.
Current == incoming_index + 1
Parsed == got - (stop - at + 1)

Live == pc \in {"idle", "parse"}
InBlock == parser.state \in DOMAIN Follows
InMessage == InBlock \/ parser.state \in {"body", "complete"}

\* The types, with tokens that name messages of the client.
Typed ==
    /\ TypeOK
    /\ client \in Clients
    /\ mem \in Seq(Known \cup {JUNK})

\* Where the parser is in the block, and what the block holds.
Accounts ==
    Live =>
        /\ 1 <= at /\ at <= stop + 1
        /\ pc = "idle" => at = stop + 1 /\ parser.state # "complete"
        /\ buffer_length <= Len(mem)
        /\ at <= stop => stop <= Len(mem)
        /\ InBlock => parser.nread + (stop - at + 1) <= buffer_length
        /\ stop - at + 1 <= buffer_length
        /\ buffer_length <= got

\* The slots.
Slots ==
    /\ outgoing_index = incoming_index /\ Len(served) = incoming_index
    /\ \A i \in 0 .. MAX_REQUESTS - 1 :
        /\ requests[i] = FREED <=> i < incoming_index
        /\ i > incoming_index => requests[i] = NULL
    /\ Live =>
        IF InMessage THEN incoming_index < MAX_REQUESTS /\ Request \in RequestRecord
        ELSE incoming_index < MAX_REQUESTS => Request = NULL

\* The mark of the last request.
Marks ==
    /\ \A i \in DOMAIN served : served[i].last =>
        i = Len(served) /\ (parser.state = "dead" \/ incoming_index = MAX_REQUESTS)
    /\ Live /\ parser.state \in {"body", "complete"} => Request.last = ~parser.keep

\* Without reads behind a header block the parser meets the stream.
Aligned ==
    pc = "parse" =>
        /\ at <= stop => stop <= buffer_length
        /\ \A i \in at .. stop : mem[i] = Stream[got - stop + i]
        /\ \A i \in at .. stop - 1 : mem[i].part # "end"

\* Then the state of the parser tells where it is in the stream.
Position ==
    Live =>
        /\ Parsed \in Nat /\ incoming_index <= Len(script)
        /\ InMessage => Current <= Len(script)
        /\ parser.state \in {"start", "dead", "begin"} => Parsed = End(incoming_index)
        /\ InBlock =>
            /\ End(incoming_index) <= Parsed /\ Parsed < BlockEnd(Current)
            /\ Request.body = <<>>
        /\ parser.state \in {"body", "complete"} =>
            /\ parser.body_left <= script[Current].body
            /\ parser.state = "body" <=> parser.body_left > 0
            /\ parser.keep = script[Current].keep
            /\ Parsed + parser.body_left = End(Current)
            /\ Request.body = Body(Current, script[Current].body - parser.body_left)

\* If no span is cut in two either, the parser stands between two spans.
Placed ==
    Live =>
        /\ got > 0 /\ got < Len(Stream) => Stream[got] # Stream[got + 1]
        /\ parser.state \in {"start", "dead", "begin", "url"} => current_header = 0
        /\ parser.state = "url" => Parsed = End(incoming_index) + SpanLen
        /\ parser.state = "field" =>
            /\ current_header < script[Current].headers
            /\ Parsed = End(incoming_index) + SpanLen + Size(Current, current_header) + SpanLen
        /\ parser.state = "value" =>
            /\ 0 < current_header /\ current_header <= script[Current].headers
            /\ Parsed = End(incoming_index) + SpanLen + Size(Current, current_header)

\* Where the parts of a request lie in its header block.
KeyRange(m, h) == <<SpanLen + Size(m, h - 1), SpanLen>>
ValueRange(m, h) == <<SpanLen + Size(m, h - 1) + SpanLen, SpanLen>>
RangesOf(m, n) == [h \in 1 .. n |-> <<KeyRange(m, h), ValueRange(m, h)>>]

\* The request has the url, the headers and the header block of message m.
HasBlock(r, m) ==
    /\ r.url = <<0, SpanLen>>
    /\ r.ranges = RangesOf(m, script[m].headers)
    /\ r.headers_buffer = SubSeq(Stream, End(m - 1) + 1, BlockEnd(m))

\* Of regular traffic the buffer holds the header block that is being parsed,
\* and nothing else;
BufferIs ==
    /\ parser.state = "start" =>
        buffer_length = stop - at + 1 /\ (at <= stop => at = 1)
    /\ parser.state = "complete" /\ parser.keep => buffer_length = 0 /\ at = stop + 1
    /\ InBlock =>
        /\ parser.nread = at - 1 /\ buffer_length = stop
        /\ End(incoming_index) + stop = got
        /\ \A i \in 1 .. stop : mem[i] = Stream[End(incoming_index) + i]

\* the request has the parts of the message that were parsed;
RequestIs ==
    /\ InBlock =>
        /\ parser.state # "begin" => Request.url = <<0, SpanLen>>
        /\ parser.state = "field" => Request.key = KeyRange(Current, current_header + 1)
        /\ Request.ranges = RangesOf(Current, current_header)
    /\ parser.state \in {"body", "complete"} => HasBlock(Request, Current)

\* and those that were served have them all.
ServedIs ==
    \A m \in DOMAIN served :
        m <= Len(script) /\ HasBlock(served[m], m) /\ served[m].body = Body(m, script[m].body)

Filled == (Live => BufferIs /\ RequestIs) /\ ServedIs

\* The inductive invariant.
IInv ==
    /\ Typed /\ Accounts /\ Slots /\ Marks
    /\ ~client.runOn => Aligned /\ Position
    /\ ~client.runOn /\ ~client.split => Placed
    /\ Regular => Filled

\* No step changes the client, nor what follows from it.
LEMMA SameClient ==
    ASSUME client' = client
    PROVE  /\ script' = script /\ Known' = Known /\ Stream' = Stream
           /\ \A m : End(m)' = End(m)
           /\ \A m : BlockEnd(m)' = BlockEnd(m)
           /\ \A m, n : Size(m, n)' = Size(m, n) /\ RangesOf(m, n)' = RangesOf(m, n)
           /\ \A m, h : KeyRange(m, h)' = KeyRange(m, h)
           /\ \A r, m : HasBlock(r, m)' = HasBlock(r, m)
           /\ Regular' = Regular
<1>1. script' = script /\ Known' = Known
  BY DEF script, Known
<1>2. \A m : Message(m)' = Message(m)
  BY <1>1 DEF Message
<1>3. Stream' = Stream
  BY <1>1, <1>2 DEF Stream
<1>4. \A m : End(m)' = End(m)
  BY <1>2 DEF End
<1>5. \A m : BlockEnd(m)' = BlockEnd(m)
  BY <1>1, <1>4 DEF BlockEnd, BlockLen
<1>6. \A m, n : Size(m, n)' = Size(m, n) /\ RangesOf(m, n)' = RangesOf(m, n)
  BY DEF Size, RangesOf
<1>9. \A m, h : KeyRange(m, h)' = KeyRange(m, h)
  BY DEF KeyRange
<1>7. \A r, m : HasBlock(r, m)' = HasBlock(r, m)
  BY <1>1, <1>3, <1>4, <1>5, <1>6 DEF HasBlock
<1>8. Regular' = Regular
  BY <1>1 DEF Regular
<1> QED
  BY <1>1, <1>3, <1>4, <1>5, <1>6, <1>7, <1>8, <1>9

LEMMA ServedKept ==
    ASSUME client' = client, served' = served, ServedIs
    PROVE  ServedIs'
<1> SUFFICES ASSUME NEW m \in DOMAIN served
             PROVE  /\ m <= Len(script') /\ HasBlock(served[m], m)'
                    /\ served[m].body = Body(m, script'[m].body)
  BY DEF ServedIs
<1> QED
  BY SameClient DEF ServedIs

\* One callback's length.
LEMMA LengthIs ==
    ASSUME at \in Nat, stop \in Nat, at <= stop
    PROVE  /\ Length \in 1 .. stop - at + 1
           /\ \A i \in 0 .. Length - 1 : mem[at + i] = Token
           /\ at + Length <= stop => mem[at + Length] # Token
<1> DEFINE N == stop - at + 1
           run == {n \in 1 .. N : \A i \in 0 .. n - 1 : mem[at + i] = Token}
<1>1. N \in Nat /\ 1 \in run /\ run \subseteq 0 .. N
  BY DEF Token
<1>2. PICK n \in run : \A k \in run : k <= n
  <2> HIDE DEF run, N
  <2> QED
    BY <1>1, GreatestNumber
<1>3. Length \in run /\ \A k \in run : k <= Length
  <2>1. Length = CHOOSE k \in run : \A j \in run : j <= k
    BY DEF Length
  <2> HIDE DEF run
  <2> QED
    BY <1>2, <2>1
<1>4. Length \in 1 .. N /\ \A i \in 0 .. Length - 1 : mem[at + i] = Token
  BY <1>3
<1> DEFINE l == Length
<1>5. ASSUME at + l <= stop, mem[at + l] = Token
      PROVE  FALSE
  <2>1. l \in Nat /\ l + 1 \in 1 .. N
    BY <1>4, <1>5
  <2>2. \A i \in 0 .. (l + 1) - 1 : i \in 0 .. l - 1 \/ i = l
    BY <2>1
  <2> HIDE DEF l
  <2>3. l + 1 \in run
    BY <1>4, <1>5, <2>1, <2>2 DEF l
  <2> HIDE DEF run
  <2> QED
    BY <1>3, <2>1, <2>3 DEF l
<1> QED
  BY <1>4, <1>5

\* The states of the parser.
LEMMA FollowsIs ==
    /\ DOMAIN Follows = {"begin", "url", "field", "value"}
    /\ Follows["begin"] = {"url"} /\ Follows["url"] = {"url", "field", "end"}
    /\ Follows["field"] = {"field", "value"} /\ Follows["value"] = {"value", "field", "end"}
BY DEF Follows

\* The types as they are used.
LEMMA TypesAre ==
    ASSUME Typed
    PROVE  /\ client \in Clients /\ got \in 0 .. Len(Stream) /\ got \in Nat
           /\ mem \in Seq(Known \cup {JUNK}) /\ Len(mem) \in Nat
           /\ buffer_length \in Nat /\ at \in Nat /\ stop \in Nat
           /\ parser \in [state : {"start", "begin", "url", "field", "value", "body", "complete", "dead"},
                          nread : Nat, body_left : Nat, keep : BOOLEAN]
           /\ current_header \in Nat /\ current_header <= HTTP_REQUEST_MAX_HEADERS
           /\ requests \in [0 .. MAX_REQUESTS - 1 -> RequestRecord \cup {NULL, FREED}]
           /\ served \in Seq(RequestRecord)
           /\ incoming_index \in Nat /\ incoming_index <= MAX_REQUESTS
           /\ MAX_REQUESTS \in Nat \ {0} /\ SpanLen \in Nat \ {0}
           /\ HTTP_REQUEST_MAX_HEADERS \in Nat \ {0}
<1> USE QueueAssumption
<1>1. Len(Stream) \in Nat
  BY StreamIs DEF Typed
<1>2. Len(mem) \in Nat
  BY LenProperties DEF Typed
<1> QED
  BY <1>1, <1>2, FollowsIs DEF Typed, TypeOK

LEMMA InitIInv == ASSUME Init PROVE IInv
<1> USE QueueAssumption
<1>1. /\ client \in Clients /\ Len(script) \in Nat /\ Len(Stream) \in Nat /\ End(0) = 0
      /\ Stream \in Seq(Known)
  BY ScriptIs, StreamIs DEF Init
<1>2. Typed
  <2>1. requests \in [0 .. MAX_REQUESTS - 1 -> RequestRecord \cup {NULL, FREED}]
    BY DEF Init
  <2>2. parser \in [state : DOMAIN Follows \cup {"start", "body", "complete", "dead"},
                   nread : Nat, body_left : Nat, keep : BOOLEAN]
    BY DEF Init, IdleParser
  <2>3. /\ got \in 0 .. Len(Stream) /\ mem \in Seq(Tokens) /\ mem \in Seq(Known \cup {JUNK})
        /\ buffer_length \in Nat /\ at \in Nat /\ stop \in Nat
        /\ current_header \in 0 .. HTTP_REQUEST_MAX_HEADERS
        /\ served \in Seq(RequestRecord)
        /\ incoming_index \in 0 .. MAX_REQUESTS /\ outgoing_index \in 0 .. MAX_REQUESTS
    BY <1>1 DEF Init
  <2>4. pc \in {"idle", "parse", "failed", "destroyed", "undefined"}
    BY DEF Init
  <2> QED
    BY <1>1, <2>1, <2>2, <2>3, <2>4 DEF Typed, TypeOK
<1>3. ~InMessage /\ ~InBlock /\ parser.state = "start"
  BY FollowsIs DEF Init, IdleParser, InMessage, InBlock
<1>4. Len(mem) = 0 /\ Len(served) = 0 /\ DOMAIN served = {}
  BY DEF Init
<1>5. Accounts
  BY <1>3, <1>4 DEF Init, IdleParser, Accounts
<1>6. Slots
  BY <1>3, <1>4 DEF Init, Slots, Request
<1>7. Marks
  BY <1>3, <1>4 DEF Marks
<1>8. Aligned
  BY DEF Init, Aligned
<1>9. Position
  <2>1. Parsed = 0
    BY DEF Init, Parsed
  <2> QED
    BY <1>1, <1>3, <2>1 DEF Init, Position
<1>10. Placed
  BY <1>3 DEF Init, Placed
<1>11. Filled
  BY <1>3, <1>4 DEF Init, Filled, BufferIs, RequestIs, ServedIs
<1> QED
  BY <1>2, <1>5, <1>6, <1>7, <1>8, <1>9, <1>10, <1>11 DEF IInv

\* The parser stops for good: nothing is promised but the types, and that the
\* slots and what was served stay as they are.
LEMMA StopStep ==
    ASSUME IInv, pc' \in {"failed", "destroyed", "undefined"},
           got' \in 0 .. Len(Stream), mem' \in {mem, <<>>},
           UNCHANGED <<client, buffer_length, at, stop, parser, current_header, requests,
                       incoming_index, outgoing_index, served>>
    PROVE  IInv'
<1>1. client' = client /\ Stream' = Stream /\ Known' = Known /\ Regular' = Regular
  BY SameClient
<1>2. Typed'
  <2>1. mem' \in Seq(Tokens) /\ mem' \in Seq(Known \cup {JUNK})
    <3>1. mem \in Seq(Tokens) /\ mem \in Seq(Known \cup {JUNK})
      BY DEF IInv, Typed, TypeOK
    <3> QED
      BY <3>1, EmptySeq
  <2> QED
    BY <1>1, <2>1 DEF IInv, Typed, TypeOK
<1>3. ~Live' /\ pc' # "parse"
  BY DEF Live
<1>4. Accounts' /\ Aligned' /\ Position' /\ Placed'
  BY <1>3 DEF Accounts, Aligned, Position, Placed
<1>5. Slots'
  BY <1>3 DEF IInv, Slots
<1>6. Marks'
  BY <1>3 DEF IInv, Marks
<1>7. Regular => Filled'
  BY <1>1, <1>3, ServedKept DEF IInv, Filled
<1> QED
  BY <1>1, <1>2, <1>4, <1>5, <1>6, <1>7 DEF IInv

\* What is known of the messages and slots of a parser that is in a message.
LEMMA InMessageIs ==
    ASSUME IInv, Live, InMessage
    PROVE  /\ incoming_index < MAX_REQUESTS /\ incoming_index \in DOMAIN requests
           /\ Request \in RequestRecord
BY TypesAre DEF IInv, Slots, Typed, TypeOK

\* http_request_queue_append_data with a buffer that could grow.
Reads(e) ==
    /\ pc = "idle" /\ pc' = "parse"
    /\ MayEnd(e)
    /\ got' = e
    /\ mem' = SubSeq(mem, 1, buffer_length) \o SubSeq(Stream, got + 1, e)
    /\ at' = buffer_length + 1
    /\ buffer_length' = buffer_length + (e - got)
    /\ stop' = buffer_length'
    /\ UNCHANGED <<client, parser, current_header, requests, incoming_index,
                   outgoing_index, served>>

LEMMA AppendStep ==
    ASSUME IInv, NEW e \in got + 1 .. Len(Stream), Reads(e)
    PROVE  IInv'
<1> DEFINE b == buffer_length
           k == e - got
           S == Known \cup {JUNK}
<1>1. /\ got \in Nat /\ b \in Nat /\ at \in Nat /\ stop \in Nat /\ mem \in Seq(S) /\ Len(mem) \in Nat
      /\ client \in Clients
  BY TypesAre DEF IInv
<1>2. Stream \in Seq(Known) /\ Len(Stream) \in Nat
  BY <1>1, StreamIs
<1>3. e \in Nat /\ k \in Nat /\ k >= 1 /\ e <= Len(Stream) /\ e = got + k
  BY <1>1, <1>2
<1>4. Live /\ Live' /\ pc = "idle"
  BY DEF Reads, Live
<1>5. b <= Len(mem) /\ at = stop + 1 /\ parser.state # "complete" /\ b <= got
  BY <1>4 DEF IInv, Accounts
<1>6. /\ client' = client /\ script' = script /\ Stream' = Stream /\ Known' = Known /\ Regular' = Regular
      /\ \A m : End(m)' = End(m) /\ BlockEnd(m)' = BlockEnd(m)
      /\ InBlock' = InBlock /\ InMessage' = InMessage /\ Request' = Request /\ Current' = Current
  BY SameClient DEF Reads, InBlock, InMessage, Request, Current
<1> HIDE DEF S, k
<1>7. /\ mem' \in Seq(S) /\ Len(mem') = b + k
      /\ \A i \in 1 .. b : mem'[i] = mem[i]
      /\ \A i \in 1 .. k : mem'[b + i] = Stream[got + i]
  <2> DEFINE old == SubSeq(mem, 1, b)
             new == SubSeq(Stream, got + 1, e)
  <2>1. old \in Seq(S) /\ Len(old) = b /\ \A i \in 1 .. b : old[i] = mem[i]
    <3>1. 0 \in Nat /\ 0 <= b /\ 0 + 1 = 1 /\ b - 0 = b /\ \A i \in 1 .. b : 0 + i = i
      BY <1>1
    <3> HIDE DEF b
    <3> QED
      BY <1>1, <1>5, <3>1, PartIs
  <2>2. new \in Seq(S) /\ Len(new) = k /\ \A i \in 1 .. k : new[i] = Stream[got + i]
    <3>1. Stream \in Seq(S)
      <4>1. Known \subseteq S
        BY DEF S
      <4> QED
        BY <1>2, <4>1, SeqMonotonic
    <3>2. got <= e /\ e - got = k
      BY <1>1, <1>3
    <3> QED
      BY <1>1, <1>3, <3>1, <3>2, PartIs
  <2> HIDE DEF old, new
  <2>3. /\ old \o new \in Seq(S) /\ Len(old \o new) = Len(old) + Len(new)
        /\ \A i \in 1 .. Len(old) : (old \o new)[i] = old[i]
        /\ \A i \in 1 .. Len(new) : (old \o new)[Len(old) + i] = new[i]
    <3>1. old \in Seq(S) /\ new \in Seq(S)
      BY <2>1, <2>2
    <3> QED
      BY <3>1, Joined
  <2>4. mem' = old \o new
    BY DEF Reads, old, new
  <2> QED
    BY <2>1, <2>2, <2>3, <2>4
<1>8. at' = b + 1 /\ stop' = b + k /\ buffer_length' = b + k /\ got' = got + k
  BY <1>3 DEF k, Reads
<1> HIDE DEF b
<1>9. Typed'
  <2>1. mem' \in Seq(Tokens)
    <3>1. S \subseteq Tokens
      BY DEF S, Tokens, Known
    <3> QED
      BY <1>7, <3>1, SeqMonotonic
  <2>2. got' \in 0 .. Len(Stream') /\ at' \in Nat /\ stop' \in Nat /\ buffer_length' \in Nat
    BY <1>1, <1>2, <1>3, <1>6, <1>8
  <2> QED
    BY <1>6, <1>7, <2>1, <2>2 DEF Reads, IInv, Typed, TypeOK, S
<1>10. Accounts'
  <2>1. InBlock => parser.nread \in Nat /\ parser.nread <= b
    <3>1. InBlock => parser.nread + (stop - at + 1) <= buffer_length
      BY <1>4 DEF IInv, Accounts
    <3>2. parser.nread \in Nat
      BY TypesAre DEF IInv
    <3> QED
      BY <1>1, <1>5, <3>1, <3>2 DEF b
  <2>2. /\ 1 <= at' /\ at' <= stop' + 1 /\ buffer_length' <= Len(mem') /\ stop' <= Len(mem')
        /\ InBlock => parser.nread + (stop' - at' + 1) <= buffer_length'
        /\ stop' - at' + 1 <= buffer_length' /\ buffer_length' <= got'
    BY SMTT(30), <1>1, <1>3, <1>5, <1>7, <1>8, <2>1 DEF b
  <2> QED
    BY <1>4, <1>6, <2>2 DEF Reads, Accounts
<1>11. Slots'
  BY <1>4, <1>6 DEF Reads, IInv, Slots
<1>12. Marks'
  BY <1>4, <1>6 DEF Reads, IInv, Marks
<1>13. ~client.runOn => Aligned'
  <2> SUFFICES ASSUME ~client.runOn
               PROVE  Aligned'
    OBVIOUS
  <2>1. ASSUME NEW i \in at' .. stop'
        PROVE  mem'[i] = Stream[got' - stop' + i] /\ (i # stop' => mem'[i].part # "end")
    <3>1. /\ i - b \in 1 .. k /\ b + (i - b) = i /\ got + (i - b) = got' - stop' + i
          /\ i # stop' => got + (i - b) \in got + 1 .. e - 1
      BY <1>1, <1>3, <1>8
    <3>2. mem'[i] = Stream[got + (i - b)]
      BY <1>7, <3>1
    <3>3. i # stop' => Stream[got + (i - b)].part # "end"
      BY <3>1 DEF Reads, MayEnd
    <3> QED
      BY <3>1, <3>2, <3>3
  <2>2. \A i \in at' .. stop' - 1 : i \in at' .. stop' /\ i # stop'
    BY <1>1, <1>3, <1>8
  <2>3. stop' <= buffer_length'
    BY <1>1, <1>3, <1>8
  <2> QED
    BY <1>6, <2>1, <2>2, <2>3 DEF Aligned
<1>14. Parsed' = Parsed /\ Parsed = got
  BY <1>1, <1>3, <1>5, <1>8 DEF Parsed
<1>15. ~client.runOn => Position'
  BY <1>4, <1>6, <1>14 DEF Reads, IInv, Position
<1>16. ~client.runOn /\ ~client.split => Placed'
  <2>1. ~client.split => (got' < Len(Stream) => Stream[got'] # Stream[got' + 1])
    BY DEF Reads, MayEnd
  <2> QED
    BY <1>4, <1>6, <1>14, <2>1, SameClient DEF Reads, IInv, Placed
<1>17. Regular => Filled'
  <2> SUFFICES ASSUME Regular
               PROVE  Filled'
    OBVIOUS
  <2>1. parser.state = "start" => buffer_length' = stop' - at' + 1 /\ (at' <= stop' => at' = 1)
    <3>1. parser.state = "start" => buffer_length = stop - at + 1
      BY <1>4 DEF IInv, Filled, BufferIs
    <3> QED
      BY <1>1, <1>3, <1>5, <1>8, <3>1 DEF b
  <2>2. ASSUME InBlock
        PROVE  /\ parser.nread = at' - 1 /\ buffer_length' = stop'
               /\ End(incoming_index) + stop' = got'
               /\ \A i \in 1 .. stop' : mem'[i] = Stream[End(incoming_index) + i]
    <3>1. /\ parser.nread = at - 1 /\ buffer_length = stop
          /\ End(incoming_index) + stop = got
      BY <1>4, <2>2 DEF IInv, Filled, BufferIs
    <3>5. \A i \in 1 .. stop : mem[i] = Stream[End(incoming_index) + i]
      BY <1>4, <2>2 DEF IInv, Filled, BufferIs
    <3>2. End(incoming_index) \in Nat
      <4>1. incoming_index \in 0 .. Len(script)
        BY <1>4, TypesAre DEF IInv, Regular, Position
      <4> QED
        BY <1>1, <4>1, EndsGrow, ScriptIs
    <3> DEFINE n == End(incoming_index)
    <3>3. ASSUME NEW i \in 1 .. stop'
          PROVE  mem'[i] = Stream[n + i]
      <4> HIDE DEF n
      <4>1. CASE i <= b
        <5>1. i \in 1 .. b /\ i \in 1 .. stop
          BY <1>1, <1>8, <3>1, <4>1 DEF b
        <5> QED
          BY <1>7, <3>5, <5>1 DEF n
      <4>2. CASE i > b
        <5>1. i - b \in 1 .. k /\ b + (i - b) = i /\ got + (i - b) = n + i
          BY SMTT(30), <1>1, <1>3, <1>8, <3>1, <3>2, <4>2 DEF b, n
        <5> QED
          BY <1>7, <5>1
      <4> QED
        BY <1>1, <1>8, <4>1, <4>2
    <3>4. parser.nread = at' - 1 /\ buffer_length' = stop' /\ End(incoming_index) + stop' = got'
      BY <1>1, <1>3, <1>5, <1>8, <3>1, <3>2 DEF b
    <3> QED
      BY <3>3, <3>4
  <2>3. BufferIs'
    BY <1>5, <1>6, <2>1, <2>2 DEF Reads, BufferIs
  <2>4. RequestIs'
    <3>1. RequestIs
      BY <1>4 DEF IInv, Filled
    <3> QED
      BY <1>6, <3>1, SameClient DEF Reads, RequestIs
  <2>5. ServedIs'
    BY <1>6, ServedKept DEF Reads, IInv, Filled
  <2> QED
    BY <2>3, <2>4, <2>5 DEF Filled
<1> QED
  BY <1>6, <1>9, <1>10, <1>11, <1>12, <1>13, <1>15, <1>16, <1>17 DEF IInv

\* http_parser_execute has consumed its input.
LEMMA DoneStep ==
    ASSUME IInv, ExecuteDone
    PROVE  IInv'
<1>1. Live /\ Live' /\ pc' = "idle"
  BY DEF ExecuteDone, Live
<1>2. /\ client' = client /\ script' = script /\ Stream' = Stream /\ Known' = Known /\ Regular' = Regular
      /\ \A m : End(m)' = End(m) /\ BlockEnd(m)' = BlockEnd(m)
      /\ InBlock' = InBlock /\ InMessage' = InMessage /\ Request' = Request /\ Current' = Current
      /\ Parsed' = Parsed
  BY SameClient DEF ExecuteDone, InBlock, InMessage, Request, Current, Parsed
<1>3. Typed'
  BY <1>2 DEF ExecuteDone, IInv, Typed, TypeOK
<1>4. Accounts'
  <2>1. at = stop + 1
    <3>1. at \in Nat /\ stop \in Nat
      BY TypesAre DEF IInv
    <3> QED
      BY <1>1, <3>1 DEF ExecuteDone, IInv, Accounts
  <2> QED
    BY <1>1, <1>2, <2>1 DEF ExecuteDone, IInv, Accounts
<1>5. Slots' /\ Marks'
  BY <1>1, <1>2 DEF ExecuteDone, IInv, Slots, Marks
<1>6. Aligned'
  BY <1>1 DEF Aligned
<1>7. ~client.runOn => Position'
  BY <1>1, <1>2 DEF ExecuteDone, IInv, Position
<1>8. ~client.runOn /\ ~client.split => Placed'
  BY <1>1, <1>2, SameClient DEF ExecuteDone, IInv, Placed
<1>9. Regular => Filled'
  <2> SUFFICES ASSUME Regular
               PROVE  Filled'
    OBVIOUS
  <2>1. BufferIs /\ RequestIs /\ ServedIs
    BY <1>1 DEF IInv, Filled
  <2>2. BufferIs'
    BY <1>2, <2>1 DEF ExecuteDone, BufferIs
  <2>3. RequestIs'
    BY <1>2, <2>1, SameClient DEF ExecuteDone, RequestIs
  <2>4. ServedIs'
    BY <1>2, <2>1, ServedKept DEF ExecuteDone
  <2> QED
    BY <2>2, <2>3, <2>4 DEF Filled
<1> QED
  BY <1>2, <1>3, <1>4, <1>5, <1>6, <1>7, <1>8, <1>9 DEF IInv

\* Where a parser is that only reads the stream.
LEMMA PositionIs ==
    ASSUME IInv, Live, ~client.runOn
    PROVE  /\ Parsed \in Nat /\ Parsed + (stop - at + 1) = got /\ got <= Len(Stream)
           /\ Len(script) \in Nat /\ Len(Stream) \in Nat
           /\ incoming_index \in 0 .. Len(script) /\ End(incoming_index) \in Nat
           /\ InMessage => Current \in 1 .. Len(script)
           /\ Current - 1 = incoming_index
<1>1. /\ client \in Clients /\ incoming_index \in Nat /\ Len(script) \in Nat
      /\ got \in Nat /\ at \in Nat /\ stop \in Nat /\ got \in 0 .. Len(Stream) /\ Len(Stream) \in Nat
  BY TypesAre, ScriptIs, StreamIs DEF IInv
<1>2. /\ Parsed \in Nat /\ incoming_index <= Len(script)
      /\ InMessage => Current <= Len(script)
  BY DEF IInv, Position
<1>3. incoming_index \in 0 .. Len(script) /\ Len(script) \in 0 .. Len(script)
  BY <1>1, <1>2
<1>4. End(incoming_index) \in Nat
  BY <1>1, <1>3, EndsGrow
<1>5. Parsed + (stop - at + 1) = got
  BY <1>1 DEF Parsed
<1>6. Current - 1 = incoming_index /\ (InMessage => Current \in 1 .. Len(script))
  BY <1>1, <1>2 DEF Current
<1> QED
  BY <1>1, <1>2, <1>3, <1>4, <1>5, <1>6

\* What it meets there.
LEMMA InputIs ==
    ASSUME IInv, Parsing, ~client.runOn
    PROVE  \A i \in 0 .. stop - at :
                mem[at + i] = Stream[Parsed + (1 + i)] /\ Parsed + (1 + i) \in 1 .. Len(Stream)
<1>1. Live /\ at \in Nat /\ stop \in Nat /\ got \in Nat
  BY TypesAre DEF IInv, Live, Parsing
<1>2. \A i \in at .. stop : mem[i] = Stream[got - stop + i]
  BY DEF IInv, Aligned, Parsing
<1>3. Parsed \in Nat /\ Parsed + (stop - at + 1) = got /\ got <= Len(Stream) /\ Len(Stream) \in Nat
  BY <1>1, PositionIs
<1> SUFFICES ASSUME NEW i \in 0 .. stop - at
             PROVE  mem[at + i] = Stream[Parsed + (1 + i)] /\ Parsed + (1 + i) \in 1 .. Len(Stream)
  OBVIOUS
<1>4. at + i \in at .. stop /\ got - stop + (at + i) = Parsed + (1 + i)
      /\ Parsed + (1 + i) \in 1 .. Len(Stream)
  BY <1>1, <1>3
<1> QED
  BY <1>2, <1>4


\* on_message_begin with a slot and memory for the message.
StartsMessage ==
    /\ Parsing /\ parser.state = "start"
    /\ incoming_index # MAX_REQUESTS
    /\ requests' = [requests EXCEPT ![incoming_index] = NewRequest]
    /\ parser' = [parser EXCEPT !.state = "begin", !.nread = 0]
    /\ UNCHANGED <<pc, client, got, mem, buffer_length, at, stop,
                   current_header, incoming_index, outgoing_index, served>>

LEMMA NewRequestIs == NewRequest \in RequestRecord
BY DEF NewRequest, RequestRecord, Ranges

LEMMA BeginStep ==
    ASSUME IInv, StartsMessage
    PROVE  IInv'
<1>1. Live /\ Live' /\ pc = "parse" /\ pc' = "parse" /\ at <= stop /\ parser.state = "start"
  BY DEF StartsMessage, Parsing, Live
<1>2. /\ client' = client /\ script' = script /\ Stream' = Stream /\ Known' = Known /\ Regular' = Regular
      /\ \A m : End(m)' = End(m) /\ BlockEnd(m)' = BlockEnd(m)
      /\ Current' = Current /\ Parsed' = Parsed
  BY SameClient DEF StartsMessage, Current, Parsed
<1>3. /\ parser.nread \in Nat /\ parser.body_left \in Nat /\ parser.keep \in BOOLEAN
      /\ parser' = [state |-> "begin", nread |-> 0, body_left |-> parser.body_left, keep |-> parser.keep]
  BY TypesAre DEF IInv, StartsMessage
<1>4. parser'.state = "begin" /\ parser'.nread = 0 /\ InBlock' /\ InMessage' /\ ~InBlock /\ ~InMessage
  BY <1>1, <1>3, FollowsIs DEF InBlock, InMessage
<1>5. /\ incoming_index \in Nat /\ incoming_index < MAX_REQUESTS /\ incoming_index \in 0 .. MAX_REQUESTS - 1
      /\ at \in Nat /\ stop \in Nat /\ buffer_length \in Nat /\ got \in Nat /\ MAX_REQUESTS \in Nat
  BY TypesAre DEF IInv, StartsMessage
<1>6. /\ requests' \in [0 .. MAX_REQUESTS - 1 -> RequestRecord \cup {NULL, FREED}]
      /\ requests'[incoming_index] = NewRequest
      /\ \A i \in 0 .. MAX_REQUESTS - 1 : i # incoming_index => requests'[i] = requests[i]
  BY <1>5, TypesAre, NewRequestIs DEF IInv, StartsMessage
<1>7. Request' = NewRequest
  BY <1>6 DEF StartsMessage, Request
<1>8. Typed'
  <2>1. parser' \in [state : DOMAIN Follows \cup {"start", "body", "complete", "dead"},
                     nread : Nat, body_left : Nat, keep : BOOLEAN]
    BY <1>3, FollowsIs
  <2> QED
    BY <1>2, <1>6, <2>1 DEF StartsMessage, IInv, Typed, TypeOK
<1>9. Accounts'
  <2>1. /\ 1 <= at /\ buffer_length <= Len(mem) /\ stop <= Len(mem)
        /\ stop - at + 1 <= buffer_length /\ buffer_length <= got
    BY <1>1 DEF IInv, Accounts
  <2>2. 0 + (stop - at + 1) <= buffer_length /\ at <= stop + 1
    BY <1>1, <1>5, <2>1
  <2> QED
    BY <1>1, <1>2, <1>4, <2>1, <2>2 DEF StartsMessage, Accounts
<1>10. Slots'
  <2>1. \A i \in 0 .. MAX_REQUESTS - 1 :
            /\ requests'[i] = FREED <=> i < incoming_index
            /\ i > incoming_index => requests'[i] = NULL
    <3> SUFFICES ASSUME NEW i \in 0 .. MAX_REQUESTS - 1
                 PROVE  /\ requests'[i] = FREED <=> i < incoming_index
                        /\ i > incoming_index => requests'[i] = NULL
      OBVIOUS
    <3>1. CASE i = incoming_index
      BY <1>5, <1>6, <3>1, NewRequestIs, QueueAssumption
    <3>2. CASE i # incoming_index
      BY <1>6, <3>2 DEF IInv, Slots
    <3> QED
      BY <3>1, <3>2
  <2> QED
    BY <1>1, <1>4, <1>5, <1>7, <2>1, NewRequestIs DEF StartsMessage, IInv, Slots
<1>11. Marks'
  <2>1. \A i \in DOMAIN served : ~served[i].last
    BY <1>1, <1>5 DEF IInv, Marks
  <2> QED
    BY <1>4, <2>1 DEF StartsMessage, Marks
<1>12. ~client.runOn => Aligned'
  BY <1>1, <1>2 DEF StartsMessage, IInv, Aligned
<1>13. ASSUME ~client.runOn
       PROVE  /\ Parsed \in Nat /\ Parsed = End(incoming_index) /\ Current \in 1 .. Len(script)
              /\ Parsed < BlockEnd(Current) /\ Len(script) \in Nat
  <2>1. Parsed = End(incoming_index)
    BY <1>1, <1>13 DEF IInv, Position
  <2>2. /\ Parsed \in Nat /\ Parsed + (stop - at + 1) = got /\ got <= Len(Stream)
        /\ incoming_index \in 0 .. Len(script) /\ Len(script) \in Nat /\ Len(Stream) \in Nat
        /\ Current - 1 = incoming_index
    BY <1>1, <1>13, PositionIs
  <2>3. client \in Clients
    BY TypesAre DEF IInv
  <2>4. Parsed < Len(Stream)
    BY <1>1, <1>5, <2>2
  <2>5. incoming_index # Len(script)
    BY <2>1, <2>2, <2>3, <2>4, StreamIs
  <2>6. Current \in 1 .. Len(script)
    BY <1>5, <2>2, <2>5 DEF Current
  <2>7. /\ BlockLen(Current) \in Nat /\ BlockLen(Current) > SpanLen
        /\ BlockEnd(Current) = End(incoming_index) + BlockLen(Current)
    BY <2>2, <2>3, <2>6, StreamIs
  <2>8. SpanLen \in Nat
    BY QueueAssumption
  <2> QED
    BY <2>1, <2>2, <2>6, <2>7, <2>8
<1>14. ~client.runOn => Position'
  <2> SUFFICES ASSUME ~client.runOn
               PROVE  Position'
    OBVIOUS
  <2>1. Current <= Len(script) /\ incoming_index <= Len(script) /\ Parsed <= Parsed
    BY <1>13, <1>5 DEF Current
  <2> QED
    BY <1>1, <1>2, <1>4, <1>7, <1>13, <2>1 DEF StartsMessage, Position, NewRequest
<1>15. ~client.runOn /\ ~client.split => Placed'
  <2> SUFFICES ASSUME ~client.runOn, ~client.split
               PROVE  Placed'
    OBVIOUS
  <2>1. current_header = 0 /\ (got > 0 /\ got < Len(Stream) => Stream[got] # Stream[got + 1])
    BY <1>1 DEF IInv, Placed
  <2> QED
    BY <1>1, <1>2, <1>4, <2>1 DEF StartsMessage, Placed
<1>16. Regular => Filled'
  <2> SUFFICES ASSUME Regular
               PROVE  Filled'
    OBVIOUS
  <2>1. BufferIs /\ ServedIs
    BY <1>1 DEF IInv, Filled
  <2>2. at = 1 /\ buffer_length = stop
    BY <1>1, <1>5, <2>1 DEF BufferIs
  <2>3. End(incoming_index) + stop = got /\ got - stop = End(incoming_index)
    <3>1. Parsed = End(incoming_index) /\ Parsed \in Nat /\ Parsed + (stop - at + 1) = got
      BY <1>1, <1>13, PositionIs DEF Regular
    <3> QED
      BY <1>5, <2>2, <3>1
  <2>4. \A i \in 1 .. stop : mem[i] = Stream[End(incoming_index) + i]
    <3>1. \A i \in 1 .. stop : mem[i] = Stream[got - stop + i]
      BY <1>1, <2>2 DEF IInv, Aligned, Regular
    <3> QED
      BY <2>3, <3>1
  <2>5. BufferIs'
    BY <1>2, <1>4, <2>2, <2>3, <2>4 DEF StartsMessage, BufferIs
  <2>6. RequestIs'
    <3>1. current_header = 0
      BY <1>1 DEF IInv, Placed, Regular
    <3>2. NewRequest.ranges = RangesOf(Current, 0)
      BY DEF NewRequest, RangesOf
    <3> QED
      BY <1>2, <1>4, <1>7, <3>1, <3>2, SameClient DEF StartsMessage, RequestIs
  <2>7. ServedIs'
    BY <1>2, <2>1, ServedKept DEF StartsMessage
  <2> QED
    BY <2>5, <2>6, <2>7 DEF Filled
<1> QED
  BY <1>2, <1>8, <1>9, <1>10, <1>11, <1>12, <1>14, <1>15, <1>16 DEF IInv

\* The parser meets a token of a header block that does not end it.
InsideBlock == Parsing /\ InBlock /\ Token # JUNK /\ Token.part # "end"

\* A callback of the header block returned 0.
LEMMA AcceptStep ==
    ASSUME IInv, InsideBlock, NEW state \in {"url", "field", "value"}, NEW r \in RequestRecord,
           Accept(state, r), r.body = Request.body,
           current_header' \in 0 .. HTTP_REQUEST_MAX_HEADERS
    PROVE  /\ Typed' /\ Accounts' /\ Slots' /\ Marks'
           /\ ~client.runOn => Aligned' /\ Position'
           /\ Regular => BufferIs' /\ ServedIs'
           /\ Live' /\ client' = client /\ Regular' = Regular
           /\ parser'.state = state /\ Request' = r /\ Current' = Current
           /\ Parsed' = Parsed + Length
<1> DEFINE l == Length
<1>1. /\ Live /\ Live' /\ pc = "parse" /\ pc' = "parse" /\ at <= stop /\ InBlock /\ InMessage
  BY DEF InsideBlock, Accept, Parsing, Live, InMessage
<1>2. /\ client' = client /\ script' = script /\ Stream' = Stream /\ Known' = Known /\ Regular' = Regular
      /\ \A m : End(m)' = End(m) /\ BlockEnd(m)' = BlockEnd(m)
      /\ Current' = Current
  BY SameClient DEF Accept, Current
<1>3. /\ at \in Nat /\ stop \in Nat /\ buffer_length \in Nat /\ got \in Nat /\ MAX_REQUESTS \in Nat
      /\ incoming_index \in Nat /\ parser.nread \in Nat
  BY TypesAre DEF IInv
<1>4. /\ l \in 1 .. stop - at + 1
      /\ \A i \in 0 .. l - 1 : mem[at + i] = Token
  BY <1>1, <1>3, LengthIs
<1>5. at' = at + l
  BY DEF Accept
<1> HIDE DEF l
<1>6. /\ parser.body_left \in Nat /\ parser.keep \in BOOLEAN
      /\ parser' = [state |-> state, nread |-> parser.nread + l,
                    body_left |-> parser.body_left, keep |-> parser.keep]
  BY TypesAre DEF IInv, Accept, l
<1>7. parser'.state = state /\ parser'.nread = parser.nread + l /\ InBlock' /\ InMessage'
  BY <1>6, FollowsIs DEF InBlock, InMessage
<1>8. incoming_index < MAX_REQUESTS /\ incoming_index \in 0 .. MAX_REQUESTS - 1
  BY <1>1, <1>3, InMessageIs
<1>9. /\ requests' \in [0 .. MAX_REQUESTS - 1 -> RequestRecord \cup {NULL, FREED}]
      /\ requests'[incoming_index] = r
      /\ \A i \in 0 .. MAX_REQUESTS - 1 : i # incoming_index => requests'[i] = requests[i]
  BY <1>8, TypesAre DEF IInv, Accept
<1>10. Request' = r
  BY <1>9 DEF Accept, Request
<1>11. Parsed' = Parsed + l
  BY <1>3, <1>4, <1>5 DEF Accept, Parsed
<1>12. Typed'
  <2>1. parser' \in [state : DOMAIN Follows \cup {"start", "body", "complete", "dead"},
                     nread : Nat, body_left : Nat, keep : BOOLEAN]
    BY <1>3, <1>4, <1>6, FollowsIs
  <2>2. at' \in Nat
    BY <1>3, <1>4, <1>5
  <2> QED
    BY <1>2, <1>9, <2>1, <2>2 DEF Accept, IInv, Typed, TypeOK
<1>13. Accounts'
  <2>1. /\ 1 <= at /\ buffer_length <= Len(mem) /\ stop <= Len(mem)
        /\ stop - at + 1 <= buffer_length /\ buffer_length <= got
        /\ parser.nread + (stop - at + 1) <= buffer_length
    BY <1>1 DEF IInv, Accounts
  <2>2. /\ 1 <= at' /\ at' <= stop + 1 /\ stop - at' + 1 <= buffer_length
        /\ (parser.nread + l) + (stop - at' + 1) <= buffer_length
    BY <1>3, <1>4, <1>5, <2>1
  <2> QED
    BY <1>1, <1>2, <1>7, <2>1, <2>2 DEF Accept, Accounts
<1>14. Slots'
  <2>1. \A i \in 0 .. MAX_REQUESTS - 1 :
            /\ requests'[i] = FREED <=> i < incoming_index
            /\ i > incoming_index => requests'[i] = NULL
    <3> SUFFICES ASSUME NEW i \in 0 .. MAX_REQUESTS - 1
                 PROVE  /\ requests'[i] = FREED <=> i < incoming_index
                        /\ i > incoming_index => requests'[i] = NULL
      OBVIOUS
    <3>1. CASE i = incoming_index
      BY <1>3, <1>9, <3>1, QueueAssumption
    <3>2. CASE i # incoming_index
      BY <1>9, <3>2 DEF IInv, Slots
    <3> QED
      BY <3>1, <3>2
  <2> QED
    BY <1>1, <1>7, <1>8, <1>10, <2>1 DEF Accept, IInv, Slots
<1>15. Marks'
  <2>1. parser.state # "dead"
    BY <1>1, FollowsIs DEF InBlock
  <2>2. \A i \in DOMAIN served : ~served[i].last
    BY <1>3, <1>8, <2>1 DEF IInv, Marks
  <2> QED
    BY <1>7, <2>2 DEF Accept, Marks
<1>16. ~client.runOn => Aligned'
  <2> SUFFICES ASSUME ~client.runOn
               PROVE  Aligned'
    OBVIOUS
  <2>1. /\ stop <= buffer_length
        /\ \A i \in at .. stop : mem[i] = Stream[got - stop + i]
        /\ \A i \in at .. stop - 1 : mem[i].part # "end"
    BY <1>1 DEF IInv, Aligned
  <2>2. \A i : (i \in at' .. stop => i \in at .. stop) /\ (i \in at' .. stop - 1 => i \in at .. stop - 1)
    BY <1>3, <1>4, <1>5
  <2> QED
    BY <1>2, <2>1, <2>2 DEF Accept, Aligned
<1>17. ~client.runOn => Position'
  <2> SUFFICES ASSUME ~client.runOn
               PROVE  Position'
    OBVIOUS
  <2> DEFINE n == End(incoming_index)
             b == BlockEnd(Current)
  <2>1. /\ Parsed \in Nat /\ n \in Nat /\ Parsed + (stop - at + 1) = got
        /\ Current \in 1 .. Len(script) /\ incoming_index \in 0 .. Len(script) /\ Len(script) \in Nat
        /\ Current - 1 = incoming_index
    BY <1>1, PositionIs
  <2>2. n <= Parsed /\ Parsed < b /\ r.body = <<>>
    BY <1>1 DEF IInv, Position
  <2>3. /\ BlockLen(Current) \in Nat /\ b = n + BlockLen(Current)
        /\ Stream[n + BlockLen(Current)] = Tok(Current, "end", 0)
    <3>1. client \in Clients
      BY TypesAre DEF IInv
    <3> QED
      BY <2>1, <3>1, StreamIs DEF MessageAt, EndAt
  <2>4. b \in Nat /\ Stream[b] = Tok(Current, "end", 0)
    BY <2>1, <2>3
  <2> HIDE DEF n, b
  <2>5. ASSUME b <= Parsed + l
        PROVE  FALSE
    <3> DEFINE i == b - Parsed - 1
    <3>1. i \in 0 .. l - 1 /\ i \in 0 .. stop - at /\ Parsed + (1 + i) = b
      BY <1>3, <1>4, <2>1, <2>2, <2>4, <2>5
    <3> HIDE DEF i
    <3>2. mem[at + i] = Stream[Parsed + (1 + i)]
      BY <3>1, InputIs DEF InsideBlock
    <3>3. Token = Tok(Current, "end", 0)
      BY <1>4, <2>4, <3>1, <3>2
    <3> QED
      BY <3>3 DEF InsideBlock, Tok
  <2>6. Parsed' \in Nat /\ n <= Parsed' /\ Parsed' < b
    BY <1>4, <1>11, <2>1, <2>2, <2>4, <2>5
  <2> QED
    BY <1>1, <1>2, <1>7, <1>10, <2>1, <2>2, <2>6 DEF Accept, Position, n, b
<1>18. Regular => BufferIs' /\ ServedIs'
  <2> SUFFICES ASSUME Regular
               PROVE  BufferIs' /\ ServedIs'
    OBVIOUS
  <2>1. BufferIs /\ ServedIs
    BY <1>1 DEF IInv, Filled
  <2>2. ServedIs'
    BY <1>2, <2>1, ServedKept DEF Accept
  <2>3. /\ parser.nread = at - 1 /\ buffer_length = stop
        /\ End(incoming_index) + stop = got
        /\ \A i \in 1 .. stop : mem[i] = Stream[End(incoming_index) + i]
    BY <1>1, <2>1 DEF BufferIs
  <2>4. parser.nread + l = at' - 1
    BY <1>3, <1>4, <1>5, <2>3
  <2>5. BufferIs'
    BY <1>2, <1>7, <2>3, <2>4 DEF Accept, BufferIs
  <2> QED
    BY <2>2, <2>5
<1> QED
  BY <1>1, <1>2, <1>7, <1>10, <1>11, <1>12, <1>13, <1>14, <1>15, <1>16, <1>17, <1>18 DEF l

\* A span that is not cut is met as a whole.
LEMMA SpanRead ==
    ASSUME IInv, Parsing, ~client.runOn, ~client.split,
           NEW tok, \A i \in 1 .. SpanLen : Stream[Parsed + i] = tok,
           Parsed + SpanLen < Len(Stream), Stream[Parsed + (SpanLen + 1)] # tok
    PROVE  Token = tok /\ Length = SpanLen
<1> DEFINE l == Length
           z == SpanLen
           p == Parsed
<1>1. /\ Live /\ at \in Nat /\ stop \in Nat /\ at <= stop /\ z \in Nat /\ z > 0 /\ got \in Nat
  BY TypesAre DEF IInv, Parsing, Live
<1>2. /\ p \in Nat /\ p + (stop - at + 1) = got /\ got <= Len(Stream) /\ Len(Stream) \in Nat
  BY <1>1, PositionIs
<1>3. /\ l \in 1 .. stop - at + 1
      /\ \A i \in 0 .. l - 1 : mem[at + i] = Token
      /\ at + l <= stop => mem[at + l] # Token
  BY <1>1, LengthIs
<1>4. \A i \in 0 .. stop - at : mem[at + i] = Stream[p + (1 + i)]
  BY InputIs
<1>5. \A i \in 1 .. z : Stream[p + i] = tok
  OBVIOUS
<1>6. Stream[p + (z + 1)] # tok /\ p + z < Len(Stream)
  OBVIOUS
<1>7. Stream[got] # Stream[got + 1] \/ got = 0 \/ got >= Len(Stream)
  BY <1>1, <1>2 DEF IInv, Placed
<1>8. Token = mem[at]
  BY DEF Token
<1> HIDE DEF l, z, p
<1>9. Token = tok
  <2>1. 0 \in 0 .. stop - at /\ at + 0 = at /\ p + (1 + 0) = p + 1 /\ 1 \in 1 .. z
    BY <1>1, <1>2
  <2> QED
    BY <1>4, <1>5, <1>8, <2>1
<1>10. ASSUME l > z
       PROVE  FALSE
  <2>1. z \in 0 .. l - 1 /\ z \in 0 .. stop - at /\ 1 + z = z + 1
    BY <1>1, <1>3, <1>10
  <2> QED
    BY <1>3, <1>4, <1>6, <1>9, <2>1
<1>11. ASSUME stop - at + 1 < z
       PROVE  FALSE
  <2> DEFINE q == stop - at + 1
  <2>1. q \in 1 .. z /\ q + 1 \in 1 .. z /\ p + q = got /\ p + (q + 1) = got + 1
        /\ got > 0 /\ got < Len(Stream)
    BY <1>1, <1>2, <1>6, <1>11
  <2> HIDE DEF q
  <2>2. Stream[got] = tok /\ Stream[got + 1] = tok
    BY <1>5, <2>1
  <2> QED
    BY <1>1, <1>2, <1>7, <2>1, <2>2
<1>12. ASSUME l < z
       PROVE  FALSE
  <2>1. l \in 0 .. stop - at /\ at + l <= stop /\ 1 + l \in 1 .. z
    BY <1>1, <1>3, <1>11, <1>12
  <2>2. mem[at + l] = tok
    BY <1>4, <1>5, <2>1
  <2> QED
    BY <1>3, <1>9, <2>1, <2>2
<1>13. l = z
  BY <1>1, <1>3, <1>10, <1>12
<1> QED
  BY <1>9, <1>13 DEF l, z

\* Tokens of the stream before the header behind the h-th of message m.
Here(m, h) == End(m - 1) + SpanLen + Size(m, h)

\* What follows there.
LEMMA HereIs ==
    ASSUME client \in Clients, NEW m \in 1 .. Len(script), NEW h \in 0 .. script[m].headers
    PROVE  /\ Here(m, h) \in Nat /\ Here(m, h) < Len(Stream) /\ Len(Stream) \in Nat
           /\ End(m - 1) \in Nat
           /\ Size(m, h) \in Nat /\ Here(m, h) = End(m - 1) + SpanLen + Size(m, h)
           /\ h < script[m].headers =>
                /\ Here(m, h + 1) = Here(m, h) + SpanLen + SpanLen
                /\ \A i \in 1 .. SpanLen :
                    /\ Stream[Here(m, h) + i] = Tok(m, "field", h + 1)
                    /\ Stream[Here(m, h) + SpanLen + i] = Tok(m, "value", h + 1)
           /\ h = script[m].headers =>
                /\ Here(m, h) + 1 = BlockEnd(m)
                /\ Stream[Here(m, h) + 1] = Tok(m, "end", 0)
<1> DEFINE n == End(m - 1)
           z == Size(m, h)
           k == script[m].headers
           t == Size(m, k)
           p == Here(m, h)
           s == SpanLen
<1>1. s \in Nat /\ s > 0 /\ k \in Nat /\ h \in 0 .. k
  BY QueueAssumption, ScriptIs
<1>2. /\ n \in Nat /\ End(m) \in Nat /\ Len(Stream) \in Nat /\ End(m) <= Len(Stream)
      /\ BlockLen(m) \in Nat /\ BlockEnd(m) = n + BlockLen(m)
      /\ End(m) = BlockEnd(m) + script[m].body /\ script[m].body \in Nat
      /\ HeadersAt(Stream, n, m) /\ EndAt(Stream, n, m)
  BY StreamIs, ScriptIs DEF MessageAt
<1>3. /\ t \in Nat /\ BlockLen(m) = s + t + 1 /\ Size(m, 0) = 0
      /\ \A j \in 1 .. k :
            /\ Size(m, j - 1) \in Nat
            /\ Size(m, j) = Size(m, j - 1) + (s + s)
            /\ Size(m, j) <= t
  BY SizesAre
<1>4. p = n + s + z
  BY DEF Here
<1>5. z \in Nat /\ z <= t
  <2>1. CASE h = 0
    BY <1>3, <2>1
  <2>2. CASE h # 0
    <3>1. h \in 1 .. k
      BY <1>1, <2>2
    <3> HIDE DEF t, k, s
    <3> DEFINE y == Size(m, h - 1)
    <3>2. y \in Nat /\ z = y + (s + s) /\ z <= t
      BY <1>3, <3>1
    <3> HIDE DEF y, z
    <3> QED
      BY <1>1, <3>2
  <2> QED
    BY <2>1, <2>2
<1>6. p \in Nat /\ p < Len(Stream)
  <2> HIDE DEF n, z, k, t, p, s
  <2> QED
    BY <1>1, <1>2, <1>3, <1>4, <1>5
<1>7. ASSUME h < k
      PROVE  /\ Here(m, h + 1) = p + s + s
             /\ \A i \in 1 .. s :
                 /\ Stream[p + i] = Tok(m, "field", h + 1)
                 /\ Stream[p + s + i] = Tok(m, "value", h + 1)
  <2> DEFINE j == h + 1
  <2>1. j \in 1 .. k /\ j - 1 = h
    BY <1>1, <1>7
  <2>2. Size(m, j) = z + (s + s)
    <3> HIDE DEF j, k, s, t
    <3> QED
      BY <1>3, <2>1
  <2>3. Here(m, j) = n + s + Size(m, j)
    BY DEF Here
  <2>4. \A i \in 1 .. s :
            /\ Stream[n + (s + z + i)] = Tok(m, "field", j)
            /\ Stream[n + (s + z + (s + i))] = Tok(m, "value", j)
    <3> HIDE DEF j
    <3> QED
      BY <1>2, <2>1 DEF HeadersAt
  <2> HIDE DEF n, z, k, t, p, s
  <2>5. Here(m, j) = p + s + s
    BY <1>1, <1>2, <1>4, <1>5, <2>2, <2>3
  <2>6. \A i \in 1 .. s : n + (s + z + i) = p + i /\ n + (s + z + (s + i)) = p + s + i
    BY SMTT(30), <1>1, <1>2, <1>4, <1>5
  <2> QED
    BY <2>4, <2>5, <2>6
<1>8. ASSUME h = k
      PROVE  p + 1 = BlockEnd(m) /\ Stream[p + 1] = Tok(m, "end", 0)
  <2>1. z = t
    BY <1>8
  <2>2. p + 1 = n + BlockLen(m)
    <3> HIDE DEF n, z, t, p, s
    <3> QED
      BY <1>1, <1>2, <1>3, <1>4, <1>5, <2>1
  <2> QED
    BY <1>2, <2>2 DEF EndAt
<1> QED
  BY <1>2, <1>4, <1>5, <1>6, <1>7, <1>8

LEMMA NextIs ==
    ASSUME client \in Clients, NEW m \in 1 .. Len(script), NEW h \in 0 .. script[m].headers
    PROVE  Stream[Here(m, h) + 1].part \in {"field", "end"}
<1>1. script[m].headers \in Nat /\ SpanLen \in Nat /\ 1 \in 1 .. SpanLen
  BY ScriptIs, QueueAssumption
<1>2. CASE h < script[m].headers
  <2>1. \A i \in 1 .. SpanLen : Stream[Here(m, h) + i] = Tok(m, "field", h + 1)
    BY <1>2, HereIs
  <2> QED
    BY <1>1, <2>1 DEF Tok
<1>3. CASE h = script[m].headers
  <2>1. Stream[Here(m, h) + 1] = Tok(m, "end", 0)
    BY <1>3, HereIs
  <2> QED
    BY <2>1 DEF Tok
<1> QED
  BY <1>1, <1>2, <1>3

\* The url.
LEMMA UrlIs ==
    ASSUME client \in Clients, NEW m \in 1 .. Len(script)
    PROVE  /\ Here(m, 0) = End(m - 1) + SpanLen
           /\ \A i \in 1 .. SpanLen : Stream[End(m - 1) + i] = Tok(m, "url", 0)
           /\ End(m - 1) \in Nat
<1>1. Size(m, 0) = 0 /\ End(m - 1) \in Nat /\ SpanLen \in Nat
  BY SizesAre, StreamIs, QueueAssumption
<1>2. UrlAt(Stream, End(m - 1), m)
  BY StreamIs DEF MessageAt
<1> QED
  BY <1>1, <1>2 DEF Here, UrlAt

\* What the parser meets, between two spans.
LEMMA MeetsIs ==
    ASSUME IInv, NEW part \in {"url", "field", "value", "end"}, Meets(part)
    PROVE  /\ Live /\ pc = "parse" /\ at <= stop /\ InBlock /\ InMessage
           /\ Token # JUNK /\ Token.part = part
           /\ part # "end" => InsideBlock
           /\ parser.state \in {"begin", "url", "field", "value"}
           /\ part \in Follows[parser.state]
           /\ ~client.runOn => Token = Stream[Parsed + 1]
<1>1. Parsing /\ InBlock /\ Part = part /\ part \in Follows[parser.state]
  BY DEF Meets, InBlock
<1>2. Token # JUNK /\ Token.part = part
  BY <1>1 DEF Part
<1>3. Live /\ pc = "parse" /\ at <= stop /\ at \in Nat /\ stop \in Nat
  BY <1>1, TypesAre DEF IInv, Live, Parsing
<1>4. ASSUME ~client.runOn
      PROVE  Token = Stream[Parsed + 1]
  <2>1. 0 \in 0 .. stop - at /\ at + 0 = at /\ 1 + 0 = 1
    BY <1>3
  <2> QED
    BY <1>1, <1>4, <2>1, InputIs DEF Token
<1> QED
  BY <1>1, <1>2, <1>3, <1>4, FollowsIs DEF InsideBlock, InBlock, InMessage

LEMMA MeetsUrl ==
    ASSUME IInv, Meets("url"), ~client.runOn, ~client.split
    PROVE  parser.state = "begin" /\ Parsed = End(incoming_index) /\ Length = SpanLen
           /\ current_header = 0
<1> DEFINE m == Current
<1>1. /\ Live /\ Token.part = "url" /\ Token = Stream[Parsed + 1] /\ Parsing
      /\ parser.state \in {"begin", "url", "field", "value"} /\ InMessage
      /\ "url" \in Follows[parser.state]
  BY MeetsIs DEF Meets
<1>2. /\ client \in Clients /\ m \in 1 .. Len(script) /\ m - 1 = incoming_index
      /\ script[m].headers \in Nat
  BY <1>1, PositionIs, TypesAre, ScriptIs DEF IInv
<1> HIDE DEF m
<1>3. /\ Here(m, 0) \in Nat /\ Here(m, 0) < Len(Stream) /\ Here(m, 0) = End(incoming_index) + SpanLen
      /\ Stream[Here(m, 0) + 1].part \in {"field", "end"}
      /\ \A i \in 1 .. SpanLen : Stream[End(incoming_index) + i] = Tok(m, "url", 0)
      /\ End(incoming_index) \in Nat /\ SpanLen \in Nat
  <2>1. 0 \in 0 .. script[m].headers /\ 1 \in 1 .. SpanLen /\ SpanLen \in Nat
    BY <1>2, QueueAssumption
  <2>2. Stream[Here(m, 0) + 1].part \in {"field", "end"}
    BY <1>2, <2>1, NextIs
  <2>3. Here(m, 0) \in Nat /\ Here(m, 0) < Len(Stream)
    BY <1>2, <2>1, HereIs
  <2> QED
    BY <1>2, <2>1, <2>2, <2>3, UrlIs
<1>4. parser.state = "begin" \/ parser.state = "url"
  BY <1>1, FollowsIs
<1>5. parser.state # "url"
  <2>1. parser.state = "url" => Parsed = End(incoming_index) + SpanLen
    BY <1>1 DEF IInv, Placed
  <2> QED
    BY <1>1, <1>3, <2>1
<1>6. Parsed = End(incoming_index) /\ current_header = 0
  BY <1>1, <1>4, <1>5 DEF IInv, Position, Placed
<1>7. Length = SpanLen
  <2> DEFINE p == End(incoming_index)
             tok == Tok(m, "url", 0)
  <2>1. p + (SpanLen + 1) = Here(m, 0) + 1 /\ p + SpanLen < Len(Stream)
    BY <1>3
  <2>2. Stream[p + (SpanLen + 1)] # tok
    BY <1>3, <2>1 DEF Tok
  <2>3. \A i \in 1 .. SpanLen : Stream[p + i] = tok
    BY <1>3
  <2> HIDE DEF p, tok
  <2>4. p = Parsed
    BY <1>6 DEF p
  <2> QED
    BY <1>1, <2>1, <2>2, <2>3, <2>4, SpanRead
<1> QED
  BY <1>4, <1>5, <1>6, <1>7

LEMMA MeetsField ==
    ASSUME IInv, Meets("field"), ~client.runOn, ~client.split
    PROVE  /\ Parsed = Here(Current, current_header)
           /\ Token = Tok(Current, "field", current_header + 1)
           /\ current_header < script[Current].headers
           /\ Length = SpanLen
<1> DEFINE m == Current
           h == current_header
<1>1. /\ Live /\ Token.part = "field" /\ Token = Stream[Parsed + 1] /\ Parsing
      /\ parser.state \in {"begin", "url", "field", "value"} /\ InMessage
      /\ "field" \in Follows[parser.state]
  BY MeetsIs DEF Meets
<1>2. /\ client \in Clients /\ m \in 1 .. Len(script) /\ m - 1 = incoming_index
      /\ script[m].headers \in Nat /\ SpanLen \in Nat /\ SpanLen > 0 /\ h \in Nat
  <2>1. client \in Clients /\ SpanLen \in Nat \ {0} /\ h \in Nat
    BY TypesAre DEF IInv
  <2>2. m \in 1 .. Len(script) /\ m - 1 = incoming_index
    BY <1>1, PositionIs
  <2>3. script[m].headers \in Nat
    BY <2>1, <2>2, ScriptIs
  <2> QED
    BY <2>1, <2>2, <2>3
<1>3. /\ parser.state = "url" => h = 0 /\ Parsed = End(m - 1) + SpanLen
      /\ parser.state = "field" => h < script[m].headers /\ Parsed = End(m - 1) + SpanLen + Size(m, h) + SpanLen
      /\ parser.state = "value" => h <= script[m].headers /\ Parsed = End(m - 1) + SpanLen + Size(m, h)
  BY <1>1, <1>2 DEF IInv, Placed
<1>4. parser.state \in {"url", "field", "value"}
  BY <1>1, FollowsIs
<1> HIDE DEF m, h
<1>5. h \in 0 .. script[m].headers
  BY <1>2, <1>3, <1>4
<1>6. /\ Here(m, h) \in Nat /\ Here(m, h) < Len(Stream)
      /\ Here(m, h) = End(m - 1) + SpanLen + Size(m, h)
  BY <1>2, <1>5, HereIs
<1>7. parser.state # "field"
  <2> SUFFICES ASSUME parser.state = "field"
               PROVE  FALSE
    OBVIOUS
  <2>1. h < script[m].headers /\ Parsed = Here(m, h) + SpanLen /\ 1 \in 1 .. SpanLen
    BY <1>2, <1>3, <1>6
  <2>2. Stream[Here(m, h) + SpanLen + 1] = Tok(m, "value", h + 1)
    BY <1>2, <1>5, <2>1, HereIs
  <2> QED
    BY <1>1, <2>1, <2>2 DEF Tok
<1>8. Parsed = Here(m, h)
  <2>1. CASE parser.state = "url"
    <3>1. h = 0 /\ Parsed = End(m - 1) + SpanLen
      BY <1>3, <2>1
    <3> QED
      BY <1>2, <3>1, UrlIs
  <2>2. CASE parser.state = "value"
    BY <1>3, <1>6, <2>2
  <2> QED
    BY <1>4, <1>7, <2>1, <2>2
<1>9. h < script[m].headers
  <2>1. h = script[m].headers => Stream[Here(m, h) + 1] = Tok(m, "end", 0)
    BY <1>2, <1>5, HereIs
  <2>2. h # script[m].headers
    BY <1>1, <1>8, <2>1 DEF Tok
  <2> QED
    BY <1>2, <1>5, <2>2
<1>10. \A i \in 1 .. SpanLen :
            /\ Stream[Here(m, h) + i] = Tok(m, "field", h + 1)
            /\ Stream[Here(m, h) + SpanLen + i] = Tok(m, "value", h + 1)
  BY <1>2, <1>5, <1>9, HereIs
<1>11. Length = SpanLen /\ Token = Tok(m, "field", h + 1)
  <2> DEFINE p == Here(m, h)
             tok == Tok(m, "field", h + 1)
  <2>1. p + (SpanLen + 1) = p + SpanLen + 1 /\ 1 \in 1 .. SpanLen
    BY <1>2, <1>6
  <2>2. Stream[p + (SpanLen + 1)] # tok
    BY <1>10, <2>1 DEF Tok
  <2>3. \A i \in 1 .. SpanLen : Stream[p + i] = tok
    BY <1>10
  <2>4. p + SpanLen < Len(Stream)
    <3>1. h + 1 \in 0 .. script[m].headers
      BY <1>2, <1>5, <1>9
    <3>2. Here(m, h + 1) = p + SpanLen + SpanLen
      BY <1>2, <1>5, <1>9, HereIs
    <3>3. Here(m, h + 1) < Len(Stream) /\ Len(Stream) \in Nat
      BY <1>2, <3>1, HereIs
    <3> QED
      BY <1>2, <1>6, <3>2, <3>3
  <2> HIDE DEF p, tok
  <2>5. p = Parsed
    BY <1>8 DEF p
  <2>6. Length = SpanLen /\ Token = tok
    BY <1>1, <2>2, <2>3, <2>4, <2>5, SpanRead
  <2> QED
    BY <2>6 DEF tok
<1> QED
  BY <1>8, <1>9, <1>11 DEF m, h

LEMMA MeetsValue ==
    ASSUME IInv, Meets("value"), ~client.runOn, ~client.split
    PROVE  /\ parser.state = "field"
           /\ Parsed = Here(Current, current_header) + SpanLen
           /\ current_header < script[Current].headers
           /\ Length = SpanLen
<1> DEFINE m == Current
           h == current_header
<1>1. /\ Live /\ Token.part = "value" /\ Token = Stream[Parsed + 1] /\ Parsing
      /\ parser.state \in {"begin", "url", "field", "value"} /\ InMessage
      /\ "value" \in Follows[parser.state]
  BY MeetsIs DEF Meets
<1>2. /\ client \in Clients /\ m \in 1 .. Len(script) /\ m - 1 = incoming_index
      /\ script[m].headers \in Nat /\ SpanLen \in Nat /\ SpanLen > 0 /\ h \in Nat
  <2>1. client \in Clients /\ SpanLen \in Nat \ {0} /\ h \in Nat
    BY TypesAre DEF IInv
  <2>2. m \in 1 .. Len(script) /\ m - 1 = incoming_index
    BY <1>1, PositionIs
  <2>3. script[m].headers \in Nat
    BY <2>1, <2>2, ScriptIs
  <2> QED
    BY <2>1, <2>2, <2>3
<1>3. /\ parser.state = "field" => h < script[m].headers /\ Parsed = End(m - 1) + SpanLen + Size(m, h) + SpanLen
      /\ parser.state = "value" => h <= script[m].headers /\ Parsed = End(m - 1) + SpanLen + Size(m, h)
  BY <1>1, <1>2 DEF IInv, Placed
<1>4. parser.state \in {"field", "value"}
  BY <1>1, FollowsIs
<1> HIDE DEF m, h
<1>5. h \in 0 .. script[m].headers
  BY <1>2, <1>3, <1>4
<1>6. /\ Here(m, h) \in Nat /\ Here(m, h) = End(m - 1) + SpanLen + Size(m, h)
  BY <1>2, <1>5, HereIs
<1>7. parser.state = "field"
  <2>1. Stream[Here(m, h) + 1].part \in {"field", "end"}
    BY <1>2, <1>5, NextIs
  <2> QED
    BY <1>1, <1>3, <1>4, <1>6, <2>1
<1>8. Parsed = Here(m, h) + SpanLen /\ h < script[m].headers
  BY <1>3, <1>6, <1>7
<1>9. Length = SpanLen
  <2> DEFINE p == Here(m, h) + SpanLen
             tok == Tok(m, "value", h + 1)
             s == SpanLen
  <2>1. h + 1 \in 0 .. script[m].headers
    BY <1>2, <1>5, <1>8
  <2>2. Here(m, h + 1) = p + SpanLen /\ \A i \in 1 .. SpanLen : Stream[p + i] = tok
    BY <1>2, <1>5, <1>8, HereIs
  <2>3. Here(m, h + 1) < Len(Stream)
    BY <1>2, <2>1, HereIs
  <2>4. Stream[Here(m, h + 1) + 1].part \in {"field", "end"}
    BY <1>2, <2>1, NextIs
  <2>5. tok.part = "value" /\ p \in Nat
    BY <1>2, <1>6 DEF Tok
  <2> HIDE DEF p, tok
  <2>6. p + (SpanLen + 1) = Here(m, h + 1) + 1 /\ p + SpanLen < Len(Stream)
    BY <1>2, <2>2, <2>3, <2>5
  <2>7. p = Parsed
    BY <1>8 DEF p
  <2>8. Stream[p + (SpanLen + 1)] # tok
    BY <2>4, <2>5, <2>6
  <2> QED
    BY <1>1, <2>2, <2>6, <2>7, <2>8, SpanRead
<1> QED
  BY <1>7, <1>8, <1>9 DEF m, h

\* Where a parser in this state with c headers stands that only meets whole spans,
PlacedAt(state, c, parsed) ==
    /\ state = "url" => c = 0 /\ parsed = End(incoming_index) + SpanLen
    /\ state = "field" =>
        /\ c < script[Current].headers
        /\ parsed = End(incoming_index) + SpanLen + Size(Current, c) + SpanLen
    /\ state = "value" =>
        /\ 0 < c /\ c <= script[Current].headers
        /\ parsed = End(incoming_index) + SpanLen + Size(Current, c)

\* and what its request is then.
PartsAre(state, c, r) ==
    /\ r.url = <<0, SpanLen>>
    /\ state = "field" => r.key = KeyRange(Current, c + 1)
    /\ r.ranges = RangesOf(Current, c)

LEMMA AcceptedIInv ==
    ASSUME IInv, InsideBlock, NEW state \in {"url", "field", "value"}, NEW r \in RequestRecord,
           Accept(state, r), r.body = Request.body,
           NEW c \in 0 .. HTTP_REQUEST_MAX_HEADERS, current_header' = c,
           ~client.runOn /\ ~client.split => PlacedAt(state, c, Parsed + Length),
           Regular => PartsAre(state, c, r)
    PROVE  IInv'
<1>1. /\ Typed' /\ Accounts' /\ Slots' /\ Marks'
      /\ ~client.runOn => Aligned' /\ Position'
      /\ Regular => BufferIs' /\ ServedIs'
      /\ Live' /\ client' = client /\ Regular' = Regular
      /\ parser'.state = state /\ Request' = r /\ Current' = Current
      /\ Parsed' = Parsed + Length
  BY AcceptStep
<1>2. InBlock'
  BY <1>1, FollowsIs DEF InBlock
<1>3. ~client.runOn /\ ~client.split => Placed'
  <2> SUFFICES ASSUME ~client.runOn, ~client.split
               PROVE  Placed'
    OBVIOUS
  <2>1. got > 0 /\ got < Len(Stream) => Stream[got] # Stream[got + 1]
    BY DEF IInv, Placed, InsideBlock, Parsing, Live
  <2>2. got' = got /\ incoming_index' = incoming_index
    BY DEF Accept
  <2> HIDE DEF Accept
  <2> QED
    BY <1>1, <2>1, <2>2, SameClient DEF Placed, PlacedAt
<1>4. Regular => RequestIs'
  BY <1>1, <1>2, SameClient DEF RequestIs, PartsAre
<1> QED
  BY <1>1, <1>3, <1>4 DEF IInv, Filled

\* Where the parser is in the buffer, of regular traffic.
LEMMA AtIs ==
    ASSUME IInv, Live, InBlock, Regular
    PROVE  Parsed = End(incoming_index) + (at - 1)
<1>1. /\ End(incoming_index) + stop = got
  BY DEF IInv, Filled, BufferIs
<1>2. /\ at \in Nat /\ stop \in Nat /\ End(incoming_index) \in Nat /\ got \in Nat
  BY TypesAre, PositionIs DEF IInv, Regular
<1> QED
  BY <1>1, <1>2 DEF Parsed

\* A callback's memory range.
LEMMA RangeIs ==
    ASSUME IInv, Live, at <= stop
    PROVE  MemoryRange \in Ranges
<1>1. at \in Nat /\ stop \in Nat /\ 1 <= at
  BY TypesAre DEF IInv, Accounts
<1>2. Length \in Nat
  BY <1>1, LengthIs
<1> QED
  BY <1>1, <1>2 DEF MemoryRange, Ranges

LEMMA UrlStep ==
    ASSUME IInv, Meets("url"), Accept("url", [Request EXCEPT !.url = MemoryRange]),
           UNCHANGED current_header
    PROVE  IInv'
<1> DEFINE r == [Request EXCEPT !.url = MemoryRange]
<1>1. InsideBlock /\ Live /\ at <= stop /\ InMessage /\ InBlock
  BY MeetsIs
<1>2. Request \in RequestRecord /\ MemoryRange \in Ranges
  BY <1>1, InMessageIs, RangeIs
<1>3. r \in RequestRecord /\ r.url = MemoryRange /\ r.ranges = Request.ranges /\ r.body = Request.body
  BY <1>2 DEF RequestRecord
<1>4. current_header \in 0 .. HTTP_REQUEST_MAX_HEADERS /\ current_header' = current_header
  BY DEF IInv, Typed, TypeOK
<1>5. ~client.runOn /\ ~client.split => PlacedAt("url", current_header, Parsed + Length)
  BY MeetsUrl DEF PlacedAt
<1>6. Regular => PartsAre("url", current_header, r)
  <2> SUFFICES ASSUME Regular
               PROVE  PartsAre("url", current_header, r)
    OBVIOUS
  <2>1. Parsed = End(incoming_index) /\ Length = SpanLen
    BY MeetsUrl DEF Regular
  <2>2. at \in Nat /\ End(incoming_index) \in Nat /\ Parsed = End(incoming_index) + (at - 1)
    BY <1>1, AtIs, TypesAre, PositionIs DEF IInv, Regular
  <2>3. at - 1 = 0
    BY <2>1, <2>2
  <2>4. Request.ranges = RangesOf(Current, current_header)
    BY <1>1 DEF IInv, Filled, RequestIs
  <2> QED
    BY <1>3, <2>1, <2>3, <2>4 DEF PartsAre, MemoryRange
<1> HIDE DEF r
<1> QED
  BY <1>1, <1>3, <1>4, <1>5, <1>6, AcceptedIInv DEF r

LEMMA FieldStep ==
    ASSUME IInv, Meets("field"), Accept("field", [Request EXCEPT !.key = MemoryRange]),
           UNCHANGED current_header
    PROVE  IInv'
<1> DEFINE r == [Request EXCEPT !.key = MemoryRange]
           h == current_header
<1>1. InsideBlock /\ Live /\ at <= stop /\ InMessage /\ InBlock /\ parser.state \in {"url", "field", "value"}
  BY MeetsIs, FollowsIs
<1>2. Request \in RequestRecord /\ MemoryRange \in Ranges
  BY <1>1, InMessageIs, RangeIs
<1>3. /\ r \in RequestRecord /\ r.key = MemoryRange /\ r.ranges = Request.ranges
      /\ r.url = Request.url /\ r.body = Request.body
  BY <1>2 DEF RequestRecord
<1>4. h \in 0 .. HTTP_REQUEST_MAX_HEADERS /\ current_header' = h
  BY DEF IInv, Typed, TypeOK
<1>5. ASSUME ~client.runOn, ~client.split
      PROVE  /\ Parsed = End(incoming_index) + SpanLen + Size(Current, h)
             /\ Length = SpanLen /\ h < script[Current].headers
  <2>1. /\ Parsed = Here(Current, h) /\ Length = SpanLen /\ h < script[Current].headers
    BY <1>5, MeetsField
  <2>2. Current - 1 = incoming_index
    BY <1>1, <1>5, PositionIs
  <2> QED
    BY <2>1, <2>2 DEF Here
<1>6. ~client.runOn /\ ~client.split => PlacedAt("field", h, Parsed + Length)
  BY <1>5 DEF PlacedAt
<1>7. Regular => PartsAre("field", h, r)
  <2> SUFFICES ASSUME Regular
               PROVE  PartsAre("field", h, r)
    OBVIOUS
  <2> DEFINE n == End(incoming_index)
             z == Size(Current, h)
  <2>1. Parsed = n + SpanLen + z /\ Length = SpanLen /\ h < script[Current].headers
    BY <1>5 DEF Regular
  <2>2. at \in Nat /\ n \in Nat /\ Parsed = n + (at - 1)
    BY <1>1, AtIs, TypesAre, PositionIs DEF IInv, Regular
  <2>3. z \in Nat /\ SpanLen \in Nat /\ h \in Nat
    <3>1. client \in Clients /\ Current \in 1 .. Len(script) /\ h \in Nat /\ SpanLen \in Nat
      BY <1>1, PositionIs, TypesAre DEF IInv, Regular
    <3>2. h \in 0 .. script[Current].headers
      BY <2>1, <3>1, ScriptIs
    <3> QED
      BY <3>1, <3>2, HereIs
  <2>4. at - 1 = SpanLen + z
    <3> HIDE DEF n, z
    <3> QED
      BY <2>1, <2>2, <2>3
  <2>5. MemoryRange = KeyRange(Current, h + 1)
    <3>1. (h + 1) - 1 = h
      BY <2>3
    <3> QED
      BY <2>1, <2>4, <3>1 DEF MemoryRange, KeyRange
  <2>6. Request.url = <<0, SpanLen>> /\ Request.ranges = RangesOf(Current, h)
    BY <1>1 DEF IInv, Filled, RequestIs
  <2> QED
    BY <1>3, <2>5, <2>6 DEF PartsAre
<1> HIDE DEF r, h
<1> QED
  BY <1>1, <1>3, <1>4, <1>6, <1>7, AcceptedIInv DEF r

\* One more header of the message has its ranges.
LEMMA RangesGrow ==
    ASSUME NEW m, NEW h \in Nat
    PROVE  Append(RangesOf(m, h), <<KeyRange(m, h + 1), ValueRange(m, h + 1)>>) = RangesOf(m, h + 1)
<1> DEFINE f == RangesOf(m, h)
           e == <<KeyRange(m, h + 1), ValueRange(m, h + 1)>>
           g == RangesOf(m, h + 1)
<1>1. f = [i \in 1 .. h |-> <<KeyRange(m, i), ValueRange(m, i)>>]
  BY DEF RangesOf
<1>2. g = [i \in 1 .. h + 1 |-> <<KeyRange(m, i), ValueRange(m, i)>>]
  BY DEF RangesOf
<1>3. Len(f) = h /\ DOMAIN f = 1 .. h
  BY <1>1
<1>4. Append(f, e) = [i \in 1 .. h + 1 |-> IF i \in 1 .. h THEN f[i] ELSE e]
  BY <1>3
<1>5. \A i \in 1 .. h + 1 : (IF i \in 1 .. h THEN f[i] ELSE e) = g[i]
  BY SMTT(30), <1>1, <1>2
<1> QED
  BY <1>2, <1>4, <1>5

LEMMA ValueStep ==
    ASSUME IInv, Meets("value"), current_header < HTTP_REQUEST_MAX_HEADERS,
           Accept("value", [Request EXCEPT !.ranges = Append(Request.ranges, <<Request.key, MemoryRange>>),
                                           !.key = <<0, 0>>]),
           current_header' = current_header + 1
    PROVE  IInv'
<1> DEFINE t == Append(Request.ranges, <<Request.key, MemoryRange>>)
           r == [Request EXCEPT !.ranges = Append(Request.ranges, <<Request.key, MemoryRange>>),
                                !.key = <<0, 0>>]
           h == current_header
           c == h + 1
<1>1. InsideBlock /\ Live /\ at <= stop /\ InMessage /\ InBlock /\ parser.state \in {"field", "value"}
  BY MeetsIs, FollowsIs
<1>2. Request \in RequestRecord /\ MemoryRange \in Ranges
  BY <1>1, InMessageIs, RangeIs
<1>3. r \in RequestRecord /\ r.ranges = t /\ r.url = Request.url /\ r.body = Request.body
  <2>1. Request.ranges \in Seq(Ranges \X Ranges) /\ Request.key \in Ranges /\ <<0, 0>> \in Ranges
    BY <1>2 DEF RequestRecord, Ranges
  <2>2. t \in Seq(Ranges \X Ranges)
    BY <1>2, <2>1
  <2> HIDE DEF t
  <2> QED
    BY <1>2, <2>1, <2>2 DEF RequestRecord, t
<1>4. h \in Nat /\ c \in 0 .. HTTP_REQUEST_MAX_HEADERS /\ current_header' = c
  BY SMTT(30), TypesAre DEF IInv
<1>5. ASSUME ~client.runOn, ~client.split
      PROVE  /\ parser.state = "field"
             /\ Parsed = End(incoming_index) + SpanLen + Size(Current, h) + SpanLen
             /\ Length = SpanLen /\ h < script[Current].headers
             /\ End(incoming_index) \in Nat /\ SpanLen \in Nat /\ Size(Current, h) \in Nat
             /\ Size(Current, c) = Size(Current, h) + (SpanLen + SpanLen)
             /\ c <= script[Current].headers
  <2>1. /\ parser.state = "field" /\ Parsed = Here(Current, h) + SpanLen
        /\ Length = SpanLen /\ h < script[Current].headers
    BY <1>5, MeetsValue
  <2>2. /\ Current - 1 = incoming_index /\ Current \in 1 .. Len(script) /\ client \in Clients
        /\ SpanLen \in Nat
    BY <1>1, <1>5, PositionIs, TypesAre DEF IInv
  <2>3. script[Current].headers \in Nat
    BY <2>2, ScriptIs
  <2>4. h \in 0 .. script[Current].headers /\ c \in 1 .. script[Current].headers /\ c - 1 = h
    BY <1>4, <2>1, <2>3
  <2> HIDE DEF h, c
  <2>5. /\ Here(Current, h) = End(incoming_index) + SpanLen + Size(Current, h)
        /\ End(incoming_index) \in Nat /\ Size(Current, h) \in Nat
    BY <2>2, <2>4, HereIs
  <2>6. Size(Current, c) = Size(Current, h) + (SpanLen + SpanLen)
    BY <2>2, <2>4, SizesAre
  <2> QED
    BY <2>1, <2>2, <2>3, <2>4, <2>5, <2>6
<1>6. ~client.runOn /\ ~client.split => PlacedAt("value", c, Parsed + Length)
  <2> SUFFICES ASSUME ~client.runOn, ~client.split
               PROVE  PlacedAt("value", c, Parsed + Length)
    OBVIOUS
  <2> DEFINE n == End(incoming_index)
             z == Size(Current, h)
             y == Size(Current, c)
  <2>1. /\ Parsed = n + SpanLen + z + SpanLen /\ Length = SpanLen
        /\ n \in Nat /\ SpanLen \in Nat /\ z \in Nat /\ y = z + (SpanLen + SpanLen)
        /\ c <= script[Current].headers
    BY <1>5
  <2> HIDE DEF n, z, y
  <2>2. Parsed + Length = n + SpanLen + y /\ 0 < c
    BY <1>4, <2>1
  <2> QED
    BY <2>1, <2>2 DEF PlacedAt, n, y
<1>7. Regular => PartsAre("value", c, r)
  <2> SUFFICES ASSUME Regular
               PROVE  PartsAre("value", c, r)
    OBVIOUS
  <2> DEFINE n == End(incoming_index)
             z == Size(Current, h)
  <2>1. /\ Parsed = n + SpanLen + z + SpanLen /\ Length = SpanLen /\ parser.state = "field"
        /\ n \in Nat /\ SpanLen \in Nat /\ z \in Nat
    BY <1>5 DEF Regular
  <2>2. at \in Nat /\ Parsed = n + (at - 1)
    BY <1>1, AtIs, TypesAre DEF IInv, Regular
  <2>3. at - 1 = SpanLen + z + SpanLen
    <3> HIDE DEF n, z
    <3> QED
      BY <2>1, <2>2
  <2>4. MemoryRange = ValueRange(Current, c)
    <3>1. c - 1 = h
      BY <1>4
    <3> QED
      BY <2>1, <2>3, <3>1 DEF MemoryRange, ValueRange
  <2>5. Request.url = <<0, SpanLen>> /\ Request.ranges = RangesOf(Current, h)
        /\ Request.key = KeyRange(Current, c)
    BY <1>1, <2>1 DEF IInv, Filled, RequestIs
  <2>6. t = RangesOf(Current, c)
    BY <1>4, <2>4, <2>5, RangesGrow
  <2> QED
    BY <1>3, <2>5, <2>6 DEF PartsAre
<1> HIDE DEF r, c, t
<1> QED
  BY <1>1, <1>3, <1>4, <1>6, <1>7, AcceptedIInv DEF r

\* The end of a header block is the last token of its read.
LEMMA MeetsEnd ==
    ASSUME IInv, Meets("end"), ~client.runOn
    PROVE  /\ Parsed + 1 = BlockEnd(Current) /\ Token = Tok(Current, "end", 0)
           /\ at = stop
           /\ Current \in 1 .. Len(script) /\ Current - 1 = incoming_index
<1> DEFINE n == End(incoming_index)
           p == Parsed
           b == BlockLen(Current)
<1>1. /\ Live /\ pc = "parse" /\ at <= stop /\ InBlock /\ InMessage /\ Token.part = "end"
      /\ Token = Stream[Parsed + 1] /\ at \in Nat /\ stop \in Nat /\ client \in Clients
  BY MeetsIs, TypesAre DEF IInv
<1>2. Current \in 1 .. Len(script) /\ Current - 1 = incoming_index /\ p \in Nat
  BY <1>1, PositionIs
<1>3. /\ n \in Nat /\ b \in Nat /\ BlockEnd(Current) = n + b
      /\ Stream[n + b] = Tok(Current, "end", 0)
      /\ \A i \in 1 .. b - 1 : Stream[n + i].part # "end"
  BY <1>1, <1>2, StreamIs DEF MessageAt, EndAt, NoEndBefore
<1>4. n <= p /\ p < BlockEnd(Current)
  BY <1>1 DEF IInv, Position
<1>5. at = stop
  <2>1. \A i \in at .. stop - 1 : mem[i].part # "end"
    BY <1>1 DEF IInv, Aligned
  <2>2. at \notin at .. stop - 1
    BY <1>1, <2>1 DEF Token
  <2> QED
    BY <1>1, <2>2
<1>6. Token = Stream[p + 1]
  BY <1>1
<1> HIDE DEF n, p, b
<1>7. p + 1 = n + b
  <2> DEFINE i == p + 1 - n
  <2>1. i \in Nat /\ n + i = p + 1 /\ (i # b => i \in 1 .. b - 1)
    BY <1>2, <1>3, <1>4
  <2>2. i \notin 1 .. b - 1
    <3> HIDE DEF i
    <3> QED
      BY <1>1, <1>3, <1>6, <2>1
  <2> HIDE DEF i
  <2> QED
    BY <1>3, <2>1, <2>2
<1> QED
  BY <1>2, <1>3, <1>5, <1>6, <1>7 DEF p

\* Then the request has all of its headers.
LEMMA HeadersParsed ==
    ASSUME IInv, Meets("end"), Regular
    PROVE  /\ Request.url = <<0, SpanLen>>
           /\ Request.ranges = RangesOf(Current, script[Current].headers)
<1> DEFINE m == Current
           h == current_header
<1>1. /\ Live /\ InBlock /\ Token.part = "end" /\ Token = Stream[Parsed + 1]
      /\ parser.state \in {"begin", "url", "field", "value"}
      /\ "end" \in Follows[parser.state]
  BY MeetsIs DEF Regular
<1>2. /\ client \in Clients /\ m \in 1 .. Len(script) /\ m - 1 = incoming_index
      /\ script[m].headers \in Nat /\ SpanLen \in Nat /\ SpanLen > 0 /\ h \in Nat
  <2>1. client \in Clients /\ SpanLen \in Nat \ {0} /\ h \in Nat
    BY TypesAre DEF IInv
  <2>2. m \in 1 .. Len(script) /\ m - 1 = incoming_index
    BY MeetsEnd DEF Regular
  <2>3. script[m].headers \in Nat
    BY <2>1, <2>2, ScriptIs
  <2> QED
    BY <2>1, <2>2, <2>3
<1>3. parser.state \in {"url", "value"}
  BY <1>1, FollowsIs
<1>4. /\ parser.state = "url" => h = 0 /\ Parsed = End(m - 1) + SpanLen
      /\ parser.state = "value" => h <= script[m].headers /\ Parsed = End(m - 1) + SpanLen + Size(m, h)
  BY <1>1, <1>2 DEF IInv, Placed, Regular
<1>5. Request.url = <<0, SpanLen>> /\ Request.ranges = RangesOf(m, h)
  BY <1>1, <1>3 DEF IInv, Filled, RequestIs
<1> HIDE DEF m, h
<1>6. h \in 0 .. script[m].headers
  BY <1>2, <1>3, <1>4
<1>7. Parsed = Here(m, h)
  <2>1. Here(m, h) = End(m - 1) + SpanLen + Size(m, h)
    BY <1>2, <1>6, HereIs
  <2>2. CASE parser.state = "url"
    <3>1. h = 0 /\ Parsed = End(m - 1) + SpanLen
      BY <1>4, <2>2
    <3> QED
      BY <1>2, <3>1, UrlIs
  <2>3. CASE parser.state = "value"
    BY <1>4, <2>1, <2>3
  <2> QED
    BY <1>3, <2>2, <2>3
<1>8. h = script[m].headers
  <2> SUFFICES ASSUME h < script[m].headers
               PROVE  FALSE
    BY <1>2, <1>6
  <2>1. \A i \in 1 .. SpanLen : Stream[Here(m, h) + i] = Tok(m, "field", h + 1)
    BY <1>2, <1>6, HereIs
  <2>2. 1 \in 1 .. SpanLen
    BY <1>2
  <2> QED
    BY <1>1, <1>7, <2>1, <2>2 DEF Tok
<1> QED
  BY <1>5, <1>8 DEF m

\* What is left of the block has its size and its tokens.
LEMMA MovedIs ==
    ASSUME Typed, NEW nread \in Nat, NEW rest \in Nat, nread + rest <= Len(mem),
           NEW block, block \in Moved(nread, rest)
    PROVE  block \in Seq(Known \cup {JUNK}) /\ Len(block) = Len(mem)
<1> DEFINE S == Known \cup {JUNK}
           n == Len(mem)
<1>1. PICK stale \in BOOLEAN :
        block = [i \in 1 .. n |-> IF i <= rest THEN mem[i + nread]
                                  ELSE IF stale THEN mem[i] ELSE JUNK]
  BY DEF Moved
<1>2. n \in Nat /\ mem \in [1 .. n -> S] /\ JUNK \in S
  <2>1. mem \in Seq(S)
    BY DEF Typed
  <2> HIDE DEF S
  <2>2. n \in Nat /\ mem \in [1 .. n -> S]
    BY <2>1
  <2> QED
    BY <2>2 DEF S
<1> HIDE DEF S, n
<1>3. \A i \in 1 .. n : i <= rest => i + nread \in 1 .. n
  BY <1>2 DEF n
<1>4. block \in [1 .. n -> S]
  BY <1>1, <1>2, <1>3
<1>5. block \in Seq(S) /\ Len(block) = n
  BY <1>2, <1>4
<1> QED
  BY <1>5 DEF S, n

\* on_headers_complete with memory for the request.
CompletesHeaders ==
    LET nread == parser.nread + 1
        rest  == buffer_length - nread
        msg   == script[Token.msg]
    IN  /\ requests' = [requests EXCEPT ![incoming_index] =
              [Request EXCEPT !.last = ~msg.keep,
                              !.headers_buffer = SubSeq(mem, 1, nread)]]
        /\ buffer_length' = rest
        /\ IF rest = 0 THEN mem' = <<>> ELSE mem' \in Moved(nread, rest)
        /\ parser' = [state |-> IF msg.body > 0 THEN "body" ELSE "complete",
                      nread |-> nread, body_left |-> msg.body, keep |-> msg.keep]
        /\ at' = at + 1
        /\ UNCHANGED <<pc, client, got, stop, current_header, incoming_index,
                       outgoing_index, served>>

LEMMA HeadersCompleteStep ==
    ASSUME IInv, Meets("end"), CompletesHeaders
    PROVE  IInv'
<1> DEFINE nread == parser.nread + 1
           rest == buffer_length - nread
           msg == script[Token.msg]
           hb == SubSeq(mem, 1, nread)
           r == [Request EXCEPT !.last = ~msg.keep, !.headers_buffer = SubSeq(mem, 1, nread)]
           state == IF msg.body > 0 THEN "body" ELSE "complete"
<1>1. /\ Live /\ pc = "parse" /\ at <= stop /\ InBlock /\ InMessage
      /\ Token # JUNK /\ Token.part = "end"
  BY MeetsIs
<1>2. /\ client' = client /\ script' = script /\ Stream' = Stream /\ Known' = Known /\ Regular' = Regular
      /\ \A m : End(m)' = End(m) /\ BlockEnd(m)' = BlockEnd(m)
      /\ Current' = Current /\ Live' /\ pc' = "parse"
  BY <1>1, SameClient DEF CompletesHeaders, Current, Live
<1>3. /\ at \in Nat /\ stop \in Nat /\ buffer_length \in Nat /\ got \in Nat /\ MAX_REQUESTS \in Nat
      /\ incoming_index \in Nat /\ parser.nread \in Nat /\ Len(mem) \in Nat /\ client \in Clients
      /\ mem \in Seq(Known \cup {JUNK})
  BY TypesAre DEF IInv
<1>4. /\ 1 <= at /\ buffer_length <= Len(mem) /\ stop <= Len(mem)
      /\ stop - at + 1 <= buffer_length /\ buffer_length <= got
      /\ parser.nread + (stop - at + 1) <= buffer_length
  BY <1>1 DEF IInv, Accounts
<1>5. /\ nread \in Nat /\ rest \in Nat /\ nread + rest = buffer_length /\ nread <= Len(mem)
      /\ stop - at <= rest /\ rest <= Len(mem) /\ rest <= got /\ nread > 0
  BY SMTT(30), <1>1, <1>3, <1>4
<1>6. msg.body \in Nat /\ msg.keep \in BOOLEAN
  <2>1. Token \in Known \cup {JUNK}
    <3>1. at \in 1 .. Len(mem)
      BY <1>1, <1>3, <1>4
    <3> QED
      BY <1>3, <3>1 DEF Token
  <2>2. Token.msg \in DOMAIN script
    BY <1>1, <2>1 DEF Known
  <2> QED
    BY <1>3, <2>2, ScriptIs
<1>7. hb \in Seq(Tokens)
  <2>1. mem \in Seq(Tokens)
    BY DEF IInv, Typed, TypeOK
  <2>2. 0 \in Nat /\ 0 <= nread /\ 0 + 1 = 1
    BY <1>5
  <2> HIDE DEF nread
  <2> QED
    BY <1>5, <2>1, <2>2, PartIs
<1>8. Request \in RequestRecord /\ incoming_index < MAX_REQUESTS /\ incoming_index \in 0 .. MAX_REQUESTS - 1
  BY <1>1, <1>3, InMessageIs
<1>9. /\ r \in RequestRecord /\ r.url = Request.url /\ r.ranges = Request.ranges
      /\ r.headers_buffer = hb /\ r.body = Request.body /\ r.last = ~msg.keep
  <2> HIDE DEF hb
  <2>1. r = [Request EXCEPT !.last = ~msg.keep, !.headers_buffer = hb]
    BY DEF hb
  <2> HIDE DEF msg, r
  <2> QED
    BY <1>6, <1>7, <1>8, <2>1 DEF RequestRecord
<1>10. /\ requests' = [requests EXCEPT ![incoming_index] = r]
       /\ buffer_length' = rest
       /\ IF rest = 0 THEN mem' = <<>> ELSE mem' \in Moved(nread, rest)
       /\ parser' = [state |-> state, nread |-> nread, body_left |-> msg.body, keep |-> msg.keep]
       /\ at' = at + 1
       /\ UNCHANGED <<got, stop, current_header, incoming_index, outgoing_index, served>>
  BY DEF CompletesHeaders
<1>11. /\ requests' \in [0 .. MAX_REQUESTS - 1 -> RequestRecord \cup {NULL, FREED}]
       /\ requests'[incoming_index] = r /\ Request' = r
       /\ \A i \in 0 .. MAX_REQUESTS - 1 : i # incoming_index => requests'[i] = requests[i]
  <2> HIDE DEF r
  <2>1. requests \in [0 .. MAX_REQUESTS - 1 -> RequestRecord \cup {NULL, FREED}]
    BY TypesAre DEF IInv
  <2> QED
    BY <1>8, <1>9, <1>10, <2>1 DEF Request
<1>12. mem' \in Seq(Known \cup {JUNK}) /\ Len(mem') \in Nat /\ rest <= Len(mem')
       /\ (rest # 0 => Len(mem') = Len(mem))
  <2>1. CASE rest = 0
    BY <1>10, <2>1, EmptySeq
  <2>2. CASE rest # 0
    <3>1. Typed /\ nread + rest <= Len(mem) /\ mem' \in Moved(nread, rest)
      BY <1>4, <1>5, <1>10, <2>2 DEF IInv
    <3> HIDE DEF nread, rest
    <3>2. mem' \in Seq(Known \cup {JUNK}) /\ Len(mem') = Len(mem)
      BY <1>5, <3>1, MovedIs
    <3> QED
      BY <1>3, <1>5, <3>2
  <2> QED
    BY <2>1, <2>2
<1>13. /\ state \in {"body", "complete"} /\ (state = "body" <=> msg.body > 0)
       /\ parser'.state = state /\ parser'.body_left = msg.body /\ parser'.keep = msg.keep
  BY <1>6, <1>10
<1>14. ~InBlock' /\ InMessage'
  BY <1>13, FollowsIs DEF InBlock, InMessage
<1> HIDE DEF nread, rest, msg, hb, r, state
<1>15. Parsed' = Parsed + 1
  BY <1>3, <1>10 DEF Parsed
<1>16. Typed'
  <2>1. parser' \in [state : DOMAIN Follows \cup {"start", "body", "complete", "dead"},
                     nread : Nat, body_left : Nat, keep : BOOLEAN]
    BY <1>5, <1>6, <1>10, <1>13
  <2>2. at' \in Nat /\ buffer_length' \in Nat
    BY <1>3, <1>5, <1>10
  <2>3. mem' \in Seq(Tokens)
    <3>1. Known \cup {JUNK} \subseteq Tokens
      BY DEF Known, Tokens
    <3> QED
      BY <1>12, <3>1
  <2>4. UNCHANGED <<got, stop, current_header, incoming_index, outgoing_index, served>>
    BY <1>10
  <2> QED
    BY <1>2, <1>11, <1>12, <2>1, <2>2, <2>3, <2>4 DEF IInv, Typed, TypeOK
<1>17. Accounts'
  <2>1. /\ 1 <= at + 1 /\ at + 1 <= stop + 1 /\ stop - (at + 1) + 1 <= rest
        /\ (at + 1 <= stop => rest # 0)
    BY <1>1, <1>3, <1>5
  <2>2. at + 1 <= stop => stop <= Len(mem')
    BY <1>4, <1>12, <2>1
  <2> QED
    BY <1>2, <1>5, <1>10, <1>12, <1>14, <2>1, <2>2 DEF Accounts
<1>18. Slots'
  <2>1. \A i \in 0 .. MAX_REQUESTS - 1 :
            /\ requests'[i] = FREED <=> i < incoming_index
            /\ i > incoming_index => requests'[i] = NULL
    <3> SUFFICES ASSUME NEW i \in 0 .. MAX_REQUESTS - 1
                 PROVE  /\ requests'[i] = FREED <=> i < incoming_index
                        /\ i > incoming_index => requests'[i] = NULL
      OBVIOUS
    <3>1. CASE i = incoming_index
      BY <1>3, <1>9, <1>11, <3>1, QueueAssumption
    <3>2. CASE i # incoming_index
      BY <1>11, <3>2 DEF IInv, Slots
    <3> QED
      BY <3>1, <3>2
  <2> QED
    BY <1>1, <1>8, <1>9, <1>10, <1>11, <1>14, <2>1 DEF IInv, Slots
<1>19. Marks'
  <2>1. parser.state # "dead"
    BY <1>1, FollowsIs DEF InBlock
  <2>2. \A i \in DOMAIN served : ~served[i].last
    BY <1>3, <1>8, <2>1 DEF IInv, Marks
  <2> QED
    BY <1>9, <1>10, <1>11, <1>13, <2>2 DEF Marks
<1>20. ASSUME ~client.runOn
       PROVE  /\ Parsed + 1 = BlockEnd(Current) /\ Token = Tok(Current, "end", 0)
              /\ at = stop
              /\ Current \in 1 .. Len(script) /\ Current - 1 = incoming_index
              /\ msg = script[Current]
  <2>1. Token.msg = Current
    BY <1>20, MeetsEnd DEF Tok
  <2> QED
    BY <1>20, <2>1, MeetsEnd DEF msg
<1>21. ~client.runOn => Aligned'
  <2> SUFFICES ASSUME ~client.runOn
               PROVE  Aligned'
    OBVIOUS
  <2>1. at' = stop + 1 /\ stop' = stop
    BY <1>10, <1>20
  <2>2. ~(at' <= stop') /\ (\A i : i \notin at' .. stop' /\ i \notin at' .. stop' - 1)
    BY <1>3, <2>1
  <2> QED
    BY <2>2 DEF Aligned
<1>22. ~client.runOn => Position'
  <2> SUFFICES ASSUME ~client.runOn
               PROVE  Position'
    OBVIOUS
  <2> DEFINE b == script[Current].body
             p == Parsed
  <2>1. /\ p \in Nat /\ incoming_index <= Len(script) /\ Current <= Len(script) /\ Request.body = <<>>
    BY <1>1 DEF IInv, Position
  <2>2. /\ End(Current) = BlockEnd(Current) + b /\ b \in Nat
    BY <1>3, <1>20, StreamIs, ScriptIs
  <2>3. (p + 1) + b = End(Current) /\ p + 1 \in Nat /\ b <= b /\ b - b = 0
    BY <1>20, <2>1, <2>2
  <2>4. Body(Current, b - b) = <<>>
    BY <2>3 DEF Body
  <2> HIDE DEF b, p
  <2>5. /\ msg.body = b /\ msg.keep = script[Current].keep /\ Parsed' = p + 1
    BY <1>15, <1>20 DEF b, p
  <2> QED
    BY <1>2, <1>9, <1>10, <1>11, <1>13, <1>14, <2>1, <2>3, <2>4, <2>5, SameClient DEF Position, b
<1>23. ~client.runOn /\ ~client.split => Placed'
  <2> SUFFICES ASSUME ~client.runOn, ~client.split
               PROVE  Placed'
    OBVIOUS
  <2>1. got > 0 /\ got < Len(Stream) => Stream[got] # Stream[got + 1]
    BY <1>1 DEF IInv, Placed
  <2> QED
    BY <1>2, <1>10, <1>13, <2>1 DEF Placed
<1>24. Regular => Filled'
  <2> SUFFICES ASSUME Regular
               PROVE  Filled'
    OBVIOUS
  <2> DEFINE n == End(incoming_index)
             m == Current
  <2>1. BufferIs /\ ServedIs
    BY <1>1 DEF IInv, Filled
  <2>2. /\ parser.nread = at - 1 /\ buffer_length = stop
        /\ n + stop = got
        /\ \A i \in 1 .. stop : mem[i] = Stream[n + i]
    BY <1>1, <2>1 DEF BufferIs
  <2>3. at = stop /\ Parsed + 1 = BlockEnd(m) /\ m - 1 = incoming_index /\ m \in 1 .. Len(script)
    BY <1>20 DEF Regular
  <2>4. rest = 0 /\ nread = at /\ at + 1 = stop + 1
    BY <1>3, <2>2, <2>3 DEF rest, nread
  <2>5. BufferIs'
    BY <1>10, <1>13, <1>14, <2>4 DEF BufferIs
  <2>6. hb = SubSeq(Stream, n + 1, BlockEnd(m))
    <3>1. n \in Nat /\ Parsed = n + (at - 1) /\ Len(Stream) \in Nat /\ got <= Len(Stream)
      BY <1>1, AtIs, PositionIs DEF Regular
    <3>2. BlockEnd(m) = n + at
      BY <1>3, <2>3, <3>1
    <3>3. hb = SubSeq(mem, 1, at)
      BY <2>4 DEF hb
    <3> HIDE DEF n, m
    <3> DEFINE S == Known \cup {JUNK}
               u == SubSeq(mem, 1, at)
               v == SubSeq(Stream, n + 1, n + at)
    <3>4. u \in Seq(S) /\ Len(u) = at /\ \A i \in 1 .. at : u[i] = mem[i]
      <4>1. 0 \in Nat /\ 0 <= at /\ at <= Len(mem) /\ 0 + 1 = 1 /\ at - 0 = at
            /\ \A i \in 1 .. at : 0 + i = i
        BY <1>3, <1>4, <2>3
      <4>2. mem \in Seq(S) /\ at \in Nat
        BY <1>3
      <4> HIDE DEF S
      <4>3. /\ SubSeq(mem, 0 + 1, at) \in Seq(S) /\ Len(SubSeq(mem, 0 + 1, at)) = at - 0
            /\ \A i \in 1 .. at - 0 : SubSeq(mem, 0 + 1, at)[i] = mem[0 + i]
        BY <4>1, <4>2, PartIs
      <4> QED
        BY <4>1, <4>3
    <3>5. v \in Seq(S) /\ Len(v) = at /\ \A i \in 1 .. at : v[i] = Stream[n + i]
      <4>1. n + at \in Nat /\ n <= n + at /\ n + at <= Len(Stream) /\ (n + at) - n = at
        BY <1>3, <2>2, <2>3, <3>1
      <4>2. Stream \in Seq(S)
        <5>1. Stream \in Seq(Known)
          BY <1>3, StreamIs
        <5> QED
          BY <5>1
      <4> HIDE DEF S
      <4> QED
        BY <3>1, <4>1, <4>2, PartIs
    <3>6. \A i \in 1 .. at : u[i] = v[i]
      <4> HIDE DEF u, v
      <4> QED
        BY <2>2, <2>3, <3>4, <3>5
    <3> HIDE DEF u, v, S
    <3>7. u = v
      BY <3>4, <3>5, <3>6, SeqEqual
    <3> QED
      BY <3>2, <3>3, <3>7 DEF u, v
  <2>7. HasBlock(r, m)
    BY <1>9, <2>3, <2>6, HeadersParsed DEF HasBlock
  <2>8. RequestIs'
    BY <1>2, <1>11, <1>14, <2>7, SameClient DEF RequestIs
  <2>9. ServedIs'
    BY <1>2, <1>10, <2>1, ServedKept
  <2> QED
    BY <2>5, <2>8, <2>9 DEF Filled
<1> QED
  BY <1>2, <1>16, <1>17, <1>18, <1>19, <1>21, <1>22, <1>23, <1>24 DEF IInv

\* The n tokens of message m's body behind its first k.
PieceIs(piece, m, k, n) ==
    Len(piece) = n /\ \A i \in 1 .. n : piece[i] = Tok(m, "body", k + i)

\* The body that was read, and a piece that follows it in the stream.
LEMMA BodyJoined ==
    ASSUME NEW m \in Nat, NEW k \in Nat, NEW n \in Nat, NEW piece \in Seq(Tokens),
           PieceIs(piece, m, k, n)
    PROVE  Body(m, k) \o piece = Body(m, k + n)
<1> DEFINE s == Body(m, k)
           t == Body(m, k + n)
           u == s \o piece
<1>1. \A j \in Nat : /\ Body(m, j) \in Seq(Tokens) /\ Len(Body(m, j)) = j
                     /\ \A i \in 1 .. j : Body(m, j)[i] = Tok(m, "body", i)
  <2> SUFFICES ASSUME NEW j \in Nat
               PROVE  /\ Body(m, j) \in Seq(Tokens) /\ Len(Body(m, j)) = j
                      /\ \A i \in 1 .. j : Body(m, j)[i] = Tok(m, "body", i)
    OBVIOUS
  <2>1. Body(m, j) = [i \in 1 .. j |-> Tok(m, "body", i)]
    BY DEF Body, Tok
  <2>2. \A i \in 1 .. j : Tok(m, "body", i) \in Tokens
    BY DEF Tok, Tokens, Sent
  <2>3. Body(m, j) \in [1 .. j -> Tokens]
    BY <2>1, <2>2
  <2>4. Body(m, j) \in Seq(Tokens) /\ Len(Body(m, j)) = j
    BY <2>3
  <2>5. \A i \in 1 .. j : Body(m, j)[i] = Tok(m, "body", i)
    BY <2>1
  <2> QED
    BY <2>4, <2>5
<1>2. /\ s \in Seq(Tokens) /\ Len(s) = k /\ \A i \in 1 .. k : s[i] = Tok(m, "body", i)
  BY <1>1
<1>3. /\ t \in Seq(Tokens) /\ Len(t) = k + n /\ \A i \in 1 .. k + n : t[i] = Tok(m, "body", i)
  BY <1>1
<1> HIDE DEF s, t
<1>4. /\ u \in Seq(Tokens) /\ Len(u) = k + n
      /\ \A i \in 1 .. k : u[i] = s[i]
      /\ \A i \in 1 .. n : u[k + i] = piece[i]
  <2>1. s \in Seq(Tokens) /\ piece \in Seq(Tokens)
    BY <1>2
  <2>2. /\ s \o piece \in Seq(Tokens) /\ Len(s \o piece) = Len(s) + Len(piece)
        /\ \A i \in 1 .. Len(s) : (s \o piece)[i] = s[i]
        /\ \A i \in 1 .. Len(piece) : (s \o piece)[Len(s) + i] = piece[i]
    BY <2>1, Joined
  <2> QED
    BY <1>2, <2>2 DEF PieceIs
<1> HIDE DEF u
<1>5. ASSUME NEW i \in 1 .. k + n
      PROVE  u[i] = t[i]
  <2>1. CASE i \in 1 .. k
    BY <1>2, <1>3, <1>4, <2>1
  <2>2. CASE i \notin 1 .. k
    <3> DEFINE j == i - k
    <3>1. j \in 1 .. n /\ i = k + j
      BY <2>2
    <3> HIDE DEF j
    <3> QED
      BY <1>3, <1>4, <3>1 DEF PieceIs
  <2> QED
    BY <2>1, <2>2
<1>6. u = t
  BY <1>3, <1>4, <1>5, SeqEqual
<1> QED
  BY <1>6 DEF s, t, u

LEMMA BodyStep ==
    ASSUME IInv, OnBody
    PROVE  IInv'
<1> DEFINE left == parser.body_left
           n == IF stop - at + 1 < left THEN stop - at + 1 ELSE left
           piece == SubSeq(mem, at, at + n - 1)
           r == [Request EXCEPT !.body = Request.body \o piece]
           state == IF n = left THEN "complete" ELSE "body"
<1>1. Live /\ Live' /\ pc = "parse" /\ pc' = "parse" /\ at <= stop /\ parser.state = "body" /\ Parsing
  BY DEF OnBody, Parsing, Live
<1>2. /\ client' = client /\ script' = script /\ Stream' = Stream /\ Known' = Known /\ Regular' = Regular
      /\ \A m : End(m)' = End(m) /\ BlockEnd(m)' = BlockEnd(m)
      /\ Current' = Current
  BY SameClient DEF OnBody, Current
<1>3. /\ at \in Nat /\ stop \in Nat /\ buffer_length \in Nat /\ got \in Nat /\ MAX_REQUESTS \in Nat
      /\ incoming_index \in Nat /\ parser.nread \in Nat /\ Len(mem) \in Nat /\ client \in Clients
      /\ left \in Nat /\ parser.keep \in BOOLEAN /\ mem \in Seq(Tokens)
  <2>1. mem \in Seq(Tokens)
    BY DEF IInv, Typed, TypeOK
  <2> QED
    BY <2>1, TypesAre DEF IInv
<1>4. /\ 1 <= at /\ buffer_length <= Len(mem) /\ stop <= Len(mem)
      /\ stop - at + 1 <= buffer_length /\ buffer_length <= got
  BY <1>1 DEF IInv, Accounts
<1>5. n \in Nat /\ n <= left /\ n <= stop - at + 1 /\ (n = left <=> left - n = 0)
  BY <1>1, <1>3
<1>6. ~InBlock /\ InMessage
  BY <1>1, FollowsIs DEF InBlock, InMessage
<1>7. Request \in RequestRecord /\ incoming_index < MAX_REQUESTS /\ incoming_index \in 0 .. MAX_REQUESTS - 1
  BY <1>1, <1>3, <1>6, InMessageIs
<1>8. /\ requests' = [requests EXCEPT ![incoming_index] = r]
      /\ parser' = [parser EXCEPT !.body_left = left - n, !.state = state]
      /\ at' = at + n
      /\ UNCHANGED <<pc, client, got, mem, buffer_length, stop, current_header,
                     incoming_index, outgoing_index, served>>
  <2>1. requests' = [requests EXCEPT ![incoming_index].body = Request.body \o piece]
    BY DEF OnBody
  <2>2. requests' = [requests EXCEPT ![incoming_index] = r]
    BY <2>1 DEF Request
  <2> QED
    BY <2>2 DEF OnBody
<1> HIDE DEF n, left
<1>9. piece \in Seq(Tokens) /\ Len(piece) = n /\ \A i \in 1 .. n : piece[i] = mem[at + (i - 1)]
  <2> DEFINE a == at - 1
             b == at + n - 1
  <2>1. a \in Nat /\ b \in Nat /\ a <= b /\ b <= Len(mem) /\ b - a = n /\ a + 1 = at
        /\ \A i \in 1 .. n : a + i = at + (i - 1)
    BY <1>1, <1>3, <1>4, <1>5
  <2> HIDE DEF a, b
  <2>2. /\ SubSeq(mem, a + 1, b) \in Seq(Tokens) /\ Len(SubSeq(mem, a + 1, b)) = b - a
        /\ \A i \in 1 .. b - a : SubSeq(mem, a + 1, b)[i] = mem[a + i]
    <3>1. mem \in Seq(Tokens) /\ a \in Nat /\ b \in Nat /\ a <= b /\ b <= Len(mem)
      BY <1>3, <2>1
    <3> QED
      BY <3>1, PartIs
  <2>3. piece = SubSeq(mem, a + 1, b)
    BY <2>1 DEF b
  <2> QED
    BY <2>1, <2>2, <2>3
<1> HIDE DEF piece
<1>10. /\ r \in RequestRecord /\ r.url = Request.url /\ r.ranges = Request.ranges
       /\ r.headers_buffer = Request.headers_buffer /\ r.last = Request.last
       /\ r.body = Request.body \o piece
  <2>1. Request.body \in Seq(Tokens)
    BY <1>7 DEF RequestRecord
  <2>2. Request.body \o piece \in Seq(Tokens)
    BY <1>9, <2>1, Joined
  <2> QED
    BY <1>7, <2>2 DEF RequestRecord
<1>11. /\ parser' = [state |-> state, nread |-> parser.nread, body_left |-> left - n, keep |-> parser.keep]
       /\ state \in {"body", "complete"} /\ (state = "complete" <=> left - n = 0)
       /\ left - n \in Nat
  <2>1. left - n \in Nat
    BY <1>3, <1>5
  <2> QED
    BY <1>5, <1>8, <2>1, TypesAre DEF IInv
<1> HIDE DEF state, r
<1>12. /\ parser'.state = state /\ parser'.body_left = left - n /\ parser'.keep = parser.keep
       /\ ~InBlock' /\ InMessage'
  BY <1>11, FollowsIs DEF InBlock, InMessage
<1>13. /\ requests' \in [0 .. MAX_REQUESTS - 1 -> RequestRecord \cup {NULL, FREED}]
       /\ requests'[incoming_index] = r /\ Request' = r
       /\ \A i \in 0 .. MAX_REQUESTS - 1 : i # incoming_index => requests'[i] = requests[i]
  <2>1. requests \in [0 .. MAX_REQUESTS - 1 -> RequestRecord \cup {NULL, FREED}]
    BY TypesAre DEF IInv
  <2> QED
    BY <1>7, <1>8, <1>10, <2>1 DEF Request
<1>14. Parsed' = Parsed + n
  BY <1>3, <1>5, <1>8 DEF Parsed
<1>15. Typed'
  <2>1. parser' \in [state : DOMAIN Follows \cup {"start", "body", "complete", "dead"},
                     nread : Nat, body_left : Nat, keep : BOOLEAN]
    BY <1>3, <1>11
  <2>2. at' \in Nat
    BY <1>3, <1>5, <1>8
  <2> QED
    BY <1>2, <1>8, <1>13, <2>1, <2>2 DEF IInv, Typed, TypeOK
<1>16. Accounts'
  <2>1. /\ 1 <= at + n /\ at + n <= stop + 1 /\ stop - (at + n) + 1 <= buffer_length
    BY <1>1, <1>3, <1>4, <1>5
  <2> QED
    BY <1>1, <1>4, <1>8, <1>12, <2>1 DEF Accounts
<1>17. Slots'
  <2>1. \A i \in 0 .. MAX_REQUESTS - 1 :
            /\ requests'[i] = FREED <=> i < incoming_index
            /\ i > incoming_index => requests'[i] = NULL
    <3> SUFFICES ASSUME NEW i \in 0 .. MAX_REQUESTS - 1
                 PROVE  /\ requests'[i] = FREED <=> i < incoming_index
                        /\ i > incoming_index => requests'[i] = NULL
      OBVIOUS
    <3>1. CASE i = incoming_index
      BY <1>3, <1>10, <1>13, <3>1, QueueAssumption
    <3>2. CASE i # incoming_index
      BY <1>13, <3>2 DEF IInv, Slots
    <3> QED
      BY <3>1, <3>2
  <2> QED
    BY <1>1, <1>7, <1>8, <1>10, <1>12, <1>13, <2>1 DEF IInv, Slots
<1>18. Marks'
  <2>1. \A i \in DOMAIN served : ~served[i].last
    BY <1>1, <1>3, <1>7 DEF IInv, Marks
  <2>2. Request.last = ~parser.keep
    BY <1>1 DEF IInv, Marks
  <2> QED
    BY <1>8, <1>10, <1>12, <1>13, <2>1, <2>2 DEF Marks
<1>19. ~client.runOn => Aligned'
  <2> SUFFICES ASSUME ~client.runOn
               PROVE  Aligned'
    OBVIOUS
  <2>1. /\ stop <= buffer_length
        /\ \A i \in at .. stop : mem[i] = Stream[got - stop + i]
        /\ \A i \in at .. stop - 1 : mem[i].part # "end"
    BY <1>1 DEF IInv, Aligned
  <2>2. \A i : (i \in at' .. stop => i \in at .. stop) /\ (i \in at' .. stop - 1 => i \in at .. stop - 1)
    BY <1>3, <1>5, <1>8
  <2> QED
    BY <1>2, <1>8, <2>1, <2>2 DEF Aligned
<1>20. ~client.runOn => Position'
  <2> SUFFICES ASSUME ~client.runOn
               PROVE  Position'
    OBVIOUS
  <2> DEFINE b == script[Current].body
             p == Parsed
             m == Current
             e == BlockEnd(Current)
             k == b - left
  <2>1. /\ p \in Nat /\ incoming_index <= Len(script) /\ m <= Len(script) /\ m \in 1 .. Len(script)
        /\ m - 1 = incoming_index
        /\ left <= b /\ parser.keep = script[m].keep
        /\ p + left = End(m)
        /\ Request.body = Body(m, k)
    BY <1>1, <1>6, PositionIs DEF IInv, Position, left
  <2>2. /\ End(m) = e + b /\ b \in Nat /\ e \in Nat /\ m \in Nat
        /\ e = End(m - 1) + BlockLen(m) /\ End(m - 1) \in Nat /\ BlockLen(m) \in Nat
        /\ BodyAt(Stream, End(m - 1), m)
    BY SMTT(30), <1>3, <2>1, StreamIs, ScriptIs DEF MessageAt
  <2>3. \A i \in 1 .. b : Stream[e + i] = Tok(m, "body", i)
    <3> DEFINE z == End(m - 1)
               l == BlockLen(m)
    <3>1. \A i \in 1 .. b : Stream[z + (l + i)] = Tok(m, "body", i)
      BY <2>2 DEF BodyAt
    <3> HIDE DEF z, l, e, b, m
    <3>2. \A i \in 1 .. b : z + (l + i) = e + i
      BY <2>2 DEF z, l
    <3> QED
      BY <3>1, <3>2
  <2> HIDE DEF b, p, m, e, k
  <2>4. k \in Nat /\ p = e + k /\ k + n <= b /\ k + n = b - (left - n)
    <3>1. p \in Nat /\ left <= b /\ p + left = e + b
      BY <2>1, <2>2
    <3>2. e \in Nat /\ b \in Nat
      BY <2>2
    <3>3. left \in Nat /\ n \in Nat /\ n <= left
      BY <1>3, <1>5
    <3> QED
      BY <3>1, <3>2, <3>3 DEF k
  <2>5. \A i \in 1 .. n : piece[i] = Tok(m, "body", k + i)
    <3> SUFFICES ASSUME NEW i \in 1 .. n
                 PROVE  piece[i] = Tok(m, "body", k + i)
      OBVIOUS
    <3> DEFINE j == i - 1
    <3>1. j \in 0 .. stop - at /\ p + (1 + j) = e + (k + i) /\ k + i \in 1 .. b
      BY SMTT(30), <1>3, <1>5, <2>2, <2>4
    <3>2. piece[i] = mem[at + j]
      BY <1>9
    <3> HIDE DEF j
    <3>3. mem[at + j] = Stream[p + (1 + j)]
      BY <1>1, <3>1, InputIs DEF p
    <3> QED
      BY <2>3, <3>1, <3>2, <3>3
  <2>6. r.body = Body(m, b - (left - n))
    <3>1. Body(m, k) \o piece = Body(m, k + n)
      <4>1. m \in Nat /\ k \in Nat /\ n \in Nat /\ piece \in Seq(Tokens) /\ Len(piece) = n
        BY <1>5, <1>9, <2>2, <2>4
      <4>2. PieceIs(piece, m, k, n)
        BY <2>5, <4>1 DEF PieceIs
      <4> QED
        BY ZenonT(30), <4>1, <4>2, BodyJoined
    <3> QED
      BY <1>10, <2>1, <2>4, <3>1
  <2>7. p + n \in Nat /\ (p + n) + (left - n) = End(m) /\ left - n <= b
        /\ (left - n > 0 <=> left - n # 0)
    BY SMTT(30), <1>3, <1>5, <1>11, <2>1, <2>2
  <2>8. Parsed' = p + n
    BY <1>14 DEF p
  <2> QED
    BY <1>2, <1>8, <1>11, <1>12, <1>13, <2>1, <2>6, <2>7, <2>8, SameClient DEF Position, b, m
<1>21. ~client.runOn /\ ~client.split => Placed'
  <2> SUFFICES ASSUME ~client.runOn, ~client.split
               PROVE  Placed'
    OBVIOUS
  <2>1. got > 0 /\ got < Len(Stream) => Stream[got] # Stream[got + 1]
    BY <1>1 DEF IInv, Placed
  <2> QED
    BY <1>2, <1>8, <1>11, <1>12, <2>1 DEF Placed
<1>22. Regular => Filled'
  <2> SUFFICES ASSUME Regular
               PROVE  Filled'
    OBVIOUS
  <2>1. RequestIs /\ ServedIs
    BY <1>1 DEF IInv, Filled
  <2>2. ~parser.keep
    <3> DEFINE b == script[Current].body
    <3>1. /\ Current \in 1 .. Len(script) /\ left <= b /\ left > 0 /\ parser.keep = script[Current].keep
      BY <1>1, <1>6, PositionIs DEF IInv, Position, Regular, left
    <3>2. b \in Nat /\ Current \in DOMAIN script
      BY <1>3, <3>1, ScriptIs
    <3>3. b > 0
      BY <1>3, <3>1, <3>2
    <3> QED
      BY <3>1, <3>2, <3>3 DEF Regular
  <2>3. BufferIs'
    BY <1>11, <1>12, <2>2 DEF BufferIs
  <2>4. HasBlock(Request, Current)
    BY <1>1, <2>1 DEF RequestIs
  <2>5. HasBlock(r, Current)
    BY <1>10, <2>4 DEF HasBlock
  <2>6. RequestIs'
    BY <1>2, <1>12, <1>13, <2>5, SameClient DEF RequestIs
  <2>7. ServedIs'
    BY <1>2, <1>8, <2>1, ServedKept
  <2> QED
    BY <2>3, <2>6, <2>7 DEF Filled
<1> QED
  BY <1>2, <1>15, <1>16, <1>17, <1>18, <1>19, <1>20, <1>21, <1>22 DEF IInv

LEMMA CompleteStep ==
    ASSUME IInv, OnMessageComplete
    PROVE  IInv'
<1> DEFINE i0 == incoming_index
           i1 == incoming_index + 1
           d == [Request EXCEPT !.last = Request.last \/ LastSlot(i1)]
           done == [requests EXCEPT ![i0].last = Request.last \/ LastSlot(i1)]
           state == IF parser.keep THEN "start" ELSE "dead"
<1>1. Live /\ Live' /\ pc = "parse" /\ pc' = "parse" /\ parser.state = "complete"
  BY DEF OnMessageComplete, MessageComplete, Live
<1>2. /\ client' = client /\ script' = script /\ Stream' = Stream /\ Known' = Known /\ Regular' = Regular
      /\ \A m : End(m)' = End(m) /\ BlockEnd(m)' = BlockEnd(m)
      /\ Parsed' = Parsed
  BY SameClient DEF OnMessageComplete, MessageComplete, Parsed
<1>3. /\ at \in Nat /\ stop \in Nat /\ buffer_length \in Nat /\ got \in Nat /\ MAX_REQUESTS \in Nat
      /\ i0 \in Nat /\ parser.nread \in Nat /\ parser.body_left \in Nat /\ client \in Clients
      /\ parser.keep \in BOOLEAN
      /\ requests \in [0 .. MAX_REQUESTS - 1 -> RequestRecord \cup {NULL, FREED}]
      /\ served \in Seq(RequestRecord) /\ Len(served) \in Nat
  <2>1. served \in Seq(RequestRecord)
    BY TypesAre DEF IInv
  <2> QED
    BY <2>1, TypesAre, LenProperties DEF IInv
<1>4. ~InBlock /\ InMessage
  BY <1>1, FollowsIs DEF InBlock, InMessage
<1>5. Request \in RequestRecord /\ i0 < MAX_REQUESTS /\ i0 \in 0 .. MAX_REQUESTS - 1
  BY <1>1, <1>3, <1>4, InMessageIs
<1>6. outgoing_index = i0 /\ Len(served) = i0
  BY DEF IInv, Slots
<1>7. /\ incoming_index' = i1 /\ outgoing_index' = i1 /\ current_header' = 0
      /\ served' = Append(served, done[outgoing_index])
      /\ requests' = [done EXCEPT ![outgoing_index] = FREED]
      /\ parser' = [parser EXCEPT !.state = state]
      /\ UNCHANGED <<pc, client, got, mem, buffer_length, at, stop>>
  <2>1. outgoing_index + 1 = i1
    BY <1>6
  <2> QED
    BY <2>1 DEF OnMessageComplete, MessageComplete
<1>8. /\ d \in RequestRecord /\ d.url = Request.url /\ d.ranges = Request.ranges /\ d.body = Request.body
      /\ d.headers_buffer = Request.headers_buffer
      /\ d.last => Request.last \/ i1 = MAX_REQUESTS
  <2> DEFINE b == Request.last \/ LastSlot(i1)
  <2>1. b \in BOOLEAN
    BY <1>5 DEF RequestRecord, LastSlot
  <2>2. b => Request.last \/ i1 = MAX_REQUESTS
    BY DEF LastSlot
  <2> HIDE DEF b
  <2>3. [Request EXCEPT !.last = b] \in RequestRecord
    BY <1>5, <2>1 DEF RequestRecord
  <2>4. /\ [Request EXCEPT !.last = b].url = Request.url
        /\ [Request EXCEPT !.last = b].ranges = Request.ranges
        /\ [Request EXCEPT !.last = b].body = Request.body
        /\ [Request EXCEPT !.last = b].headers_buffer = Request.headers_buffer
        /\ [Request EXCEPT !.last = b].last = b
    BY <1>5 DEF RequestRecord
  <2> QED
    BY <2>2, <2>3, <2>4 DEF b
<1>9. done = [requests EXCEPT ![i0] = d]
  BY DEF Request
<1> HIDE DEF d, done
<1>10. /\ done[i0] = d
       /\ requests' \in [0 .. MAX_REQUESTS - 1 -> RequestRecord \cup {NULL, FREED}]
       /\ requests'[i0] = FREED
       /\ \A i \in 0 .. MAX_REQUESTS - 1 : i # i0 => requests'[i] = requests[i]
  <2>1. done \in [0 .. MAX_REQUESTS - 1 -> RequestRecord \cup {NULL, FREED}]
    BY <1>3, <1>5, <1>8, <1>9
  <2>2. requests' = [done EXCEPT ![i0] = FREED]
    BY <1>6, <1>7
  <2> QED
    BY <1>3, <1>5, <1>9, <2>1, <2>2
<1>11. /\ served' \in Seq(RequestRecord) /\ Len(served') = i1
       /\ served'[i1] = d
       /\ \A i \in 1 .. i0 : served'[i] = served[i]
       /\ DOMAIN served = 1 .. i0 /\ DOMAIN served' = 1 .. i1
  <2>1. served' = Append(served, d)
    BY <1>6, <1>7, <1>10
  <2>2. served \in Seq(RequestRecord) /\ d \in RequestRecord
    BY <1>3, <1>8
  <2>3. /\ served' \in Seq(RequestRecord) /\ Len(served') = Len(served) + 1
        /\ served'[Len(served) + 1] = d
        /\ \A i \in 1 .. Len(served) : served'[i] = served[i]
    BY <2>1, <2>2, AppendProperties
  <2>4. DOMAIN served = 1 .. Len(served) /\ DOMAIN served' = 1 .. Len(served')
    BY <2>2, <2>3, LenProperties
  <2> QED
    BY <1>6, <2>3, <2>4
<1>12. /\ parser' = [state |-> state, nread |-> parser.nread, body_left |-> parser.body_left,
                     keep |-> parser.keep]
       /\ state \in {"start", "dead"} /\ (state = "start" <=> parser.keep)
  BY <1>3, <1>7, TypesAre DEF IInv
<1>13. parser'.state = state /\ ~InBlock' /\ ~InMessage'
  BY <1>12, FollowsIs DEF InBlock, InMessage
<1> HIDE DEF state
<1>14. Typed'
  <2>1. parser' \in [state : DOMAIN Follows \cup {"start", "body", "complete", "dead"},
                     nread : Nat, body_left : Nat, keep : BOOLEAN]
    BY <1>3, <1>12
  <2>2. i1 \in 0 .. MAX_REQUESTS
    BY <1>3, <1>5
  <2>3. current_header' \in 0 .. HTTP_REQUEST_MAX_HEADERS
    BY <1>7, QueueAssumption
  <2> QED
    BY <1>2, <1>7, <1>10, <1>11, <2>1, <2>2, <2>3 DEF IInv, Typed, TypeOK
<1>15. Accounts'
  BY <1>1, <1>7, <1>13 DEF IInv, Accounts
<1>16. Slots'
  <2>1. \A i \in 0 .. MAX_REQUESTS - 1 :
            /\ requests'[i] = FREED <=> i < i1
            /\ i > i1 => requests'[i] = NULL
    <3> SUFFICES ASSUME NEW i \in 0 .. MAX_REQUESTS - 1
                 PROVE  /\ requests'[i] = FREED <=> i < i1
                        /\ i > i1 => requests'[i] = NULL
      OBVIOUS
    <3>1. CASE i = i0
      BY <1>3, <1>10, <3>1
    <3>2. CASE i # i0
      <4>1. requests'[i] = requests[i] /\ (i < i1 <=> i < i0) /\ (i > i1 => i > i0)
        BY <1>3, <1>10, <3>2
      <4> QED
        BY <4>1 DEF IInv, Slots
    <3> QED
      BY <3>1, <3>2
  <2>2. i1 < MAX_REQUESTS => requests'[i1] = NULL
    <3> SUFFICES ASSUME i1 < MAX_REQUESTS
                 PROVE  requests'[i1] = NULL
      OBVIOUS
    <3>1. i1 \in 0 .. MAX_REQUESTS - 1 /\ i1 > i0 /\ i1 # i0
      BY <1>3
    <3>2. requests[i1] = NULL
      BY <3>1 DEF IInv, Slots
    <3> QED
      BY <1>10, <3>1, <3>2
  <2> QED
    BY <1>7, <1>11, <1>13, <2>1, <2>2 DEF Slots, Request
<1>17. Marks'
  <2>1. \A i \in DOMAIN served : ~served[i].last
    BY <1>1, <1>3, <1>5 DEF IInv, Marks
  <2>2. Request.last = ~parser.keep
    BY <1>1 DEF IInv, Marks
  <2>3. ASSUME NEW i \in DOMAIN served', served'[i].last
        PROVE  i = i1 /\ (state = "dead" \/ i1 = MAX_REQUESTS)
    <3>1. i \in 1 .. i1 /\ i \notin 1 .. i0
      BY <1>11, <2>1, <2>3
    <3>2. i = i1
      BY <1>3, <3>1
    <3> QED
      BY <1>8, <1>11, <1>12, <2>2, <2>3, <3>2
  <2> QED
    BY <1>7, <1>11, <1>12, <1>13, <2>3 DEF Marks
<1>18. ~client.runOn => Aligned'
  BY <1>1, <1>2, <1>7 DEF IInv, Aligned
<1>19. ASSUME ~client.runOn
       PROVE  /\ Parsed \in Nat /\ i1 <= Len(script) /\ Parsed = End(i1)
              /\ Request.body = Body(i1, script[i1].body) /\ Current = i1
  <2>1. Current = i1
    BY DEF Current
  <2> DEFINE b == script[Current].body
             e == End(Current)
  <2>2. /\ Parsed \in Nat /\ Current <= Len(script)
        /\ ~(parser.body_left > 0)
        /\ Parsed + parser.body_left = e
        /\ Request.body = Body(Current, b - parser.body_left)
    BY <1>1, <1>4, <1>19 DEF IInv, Position
  <2>3. b \in Nat
    BY <1>1, <1>3, <1>4, <1>19, PositionIs, ScriptIs
  <2> HIDE DEF b, e
  <2>4. parser.body_left = 0 /\ b - parser.body_left = b /\ Parsed = e
    BY <1>3, <2>2, <2>3
  <2> QED
    BY <2>1, <2>2, <2>4 DEF b, e
<1>20. ~client.runOn => Position'
  BY <1>2, <1>7, <1>12, <1>13, <1>19 DEF Position
<1>21. ~client.runOn /\ ~client.split => Placed'
  <2> SUFFICES ASSUME ~client.runOn, ~client.split
               PROVE  Placed'
    OBVIOUS
  <2>1. got > 0 /\ got < Len(Stream) => Stream[got] # Stream[got + 1]
    BY <1>1 DEF IInv, Placed
  <2> QED
    BY <1>2, <1>7, <1>12, <1>13, <2>1 DEF Placed
<1>22. Regular => Filled'
  <2> SUFFICES ASSUME Regular
               PROVE  Filled'
    OBVIOUS
  <2>1. BufferIs /\ RequestIs /\ ServedIs
    BY <1>1 DEF IInv, Filled
  <2>2. parser.keep => buffer_length = 0 /\ at = stop + 1 /\ stop - at + 1 = 0 /\ ~(at <= stop)
    BY <1>1, <1>3, <2>1 DEF BufferIs
  <2>3. BufferIs'
    BY <1>7, <1>12, <1>13, <2>2 DEF BufferIs
  <2>4. RequestIs'
    BY <1>12, <1>13 DEF RequestIs
  <2>5. i1 <= Len(script) /\ HasBlock(d, i1) /\ d.body = Body(i1, script[i1].body)
    <3>1. HasBlock(Request, i1)
      BY <1>1, <1>19, <2>1 DEF RequestIs, Regular
    <3> QED
      BY <1>8, <1>19, <3>1 DEF HasBlock, Regular
  <2>6. ASSUME NEW m \in DOMAIN served'
        PROVE  /\ m <= Len(script) /\ HasBlock(served'[m], m) /\ served'[m].body = Body(m, script[m].body)
    <3>1. m \in 1 .. i1
      BY <1>11, <2>6
    <3>2. CASE m = i1
      BY <1>11, <2>5, <3>2
    <3>3. CASE m # i1
      <4>1. m \in 1 .. i0
        BY <1>3, <3>1, <3>3
      <4> QED
        BY <1>11, <2>1, <4>1 DEF ServedIs
    <3> QED
      BY <3>2, <3>3
  <2>7. ServedIs'
    <3> SUFFICES ASSUME NEW m \in DOMAIN served'
                 PROVE  /\ m <= Len(script') /\ HasBlock(served[m], m)'
                        /\ served'[m].body = Body(m, script'[m].body)
      BY DEF ServedIs
    <3>1. HasBlock(served'[m], m)
      BY <2>6
    <3>2. HasBlock(served[m], m)'
      BY <1>2, <3>1, SameClient DEF HasBlock
    <3> QED
      BY <1>2, <2>6, <3>2
  <2> QED
    BY <2>3, <2>4, <2>7 DEF Filled
<1> QED
  BY <1>2, <1>14, <1>15, <1>16, <1>17, <1>18, <1>20, <1>21, <1>22 DEF IInv

\* A callback that fails, and input that is no message.
LEMMA FailStep ==
    ASSUME IInv, NEW reason \in {"failed", "undefined"}, Fail(reason), requests' = requests
    PROVE  IInv'
<1>1. got \in 0 .. Len(Stream)
  BY DEF IInv, Typed, TypeOK
<1>2. /\ pc' \in {"failed", "destroyed", "undefined"}
      /\ got' \in 0 .. Len(Stream) /\ mem' \in {mem, <<>>}
      /\ UNCHANGED <<client, buffer_length, at, stop, parser, current_header, requests,
                     incoming_index, outgoing_index, served>>
  BY <1>1 DEF Fail
<1> QED
  BY <1>2, StopStep

LEMMA StutterStep ==
    ASSUME IInv, UNCHANGED vars
    PROVE  IInv'
<1>1. /\ client' = client /\ script' = script /\ Stream' = Stream /\ Known' = Known /\ Regular' = Regular
      /\ \A m : End(m)' = End(m) /\ BlockEnd(m)' = BlockEnd(m)
      /\ InBlock' = InBlock /\ InMessage' = InMessage /\ Request' = Request /\ Current' = Current
      /\ Parsed' = Parsed /\ Live' = Live
  BY SameClient DEF vars, InBlock, InMessage, Request, Current, Parsed, Live
<1>2. Typed'
  BY <1>1 DEF vars, IInv, Typed, TypeOK
<1>3. Accounts' /\ Slots' /\ Marks'
  BY <1>1 DEF vars, IInv, Accounts, Slots, Marks
<1>4. ~client.runOn => Aligned'
  BY <1>1 DEF vars, IInv, Aligned
<1>5. ~client.runOn => Position'
  BY <1>1 DEF vars, IInv, Position
<1>6. ~client.runOn /\ ~client.split => Placed'
  BY <1>1, SameClient DEF vars, IInv, Placed
<1>7. Regular => Filled'
  <2> SUFFICES ASSUME Regular
               PROVE  Filled'
    OBVIOUS
  <2>1. (Live => BufferIs /\ RequestIs) /\ ServedIs
    BY DEF IInv, Filled
  <2>2. Live => BufferIs'
    BY <1>1, <2>1 DEF vars, BufferIs
  <2>3. Live => RequestIs'
    BY <1>1, <2>1, SameClient DEF vars, RequestIs
  <2>4. ServedIs'
    BY <1>1, <2>1, ServedKept DEF vars
  <2> QED
    BY <1>1, <2>2, <2>3, <2>4 DEF Filled
<1> QED
  BY <1>1, <1>2, <1>3, <1>4, <1>5, <1>6, <1>7 DEF IInv

LEMMA NextIInv == IInv /\ [Next]_vars => IInv'
<1> SUFFICES ASSUME IInv, [Next]_vars
             PROVE  IInv'
  OBVIOUS
<1>1. CASE AppendData
  <2>1. PICK e \in got + 1 .. Len(Stream) :
            \/ Reads(e)
            \/ /\ got' = e /\ mem' = <<>> /\ pc' = "failed"
               /\ UNCHANGED <<client, buffer_length, at, stop, parser, current_header, requests,
                              incoming_index, outgoing_index, served>>
    BY <1>1 DEF AppendData, Reads
  <2>2. CASE Reads(e)
    BY <2>2, AppendStep
  <2>3. CASE ~Reads(e)
    <3>1. got \in Nat /\ Len(Stream) \in Nat
      <4>1. client \in Clients /\ got \in Nat
        BY TypesAre DEF IInv
      <4> QED
        BY <4>1, StreamIs
    <3>2. got' \in 0 .. Len(Stream) /\ mem' \in {mem, <<>>} /\ pc' \in {"failed", "destroyed", "undefined"}
      BY <2>1, <2>3, <3>1
    <3> QED
      BY <2>1, <2>3, <3>2, StopStep
  <2> QED
    BY <2>2, <2>3
<1>2. CASE OnMessageBegin
  <2>1. CASE incoming_index = MAX_REQUESTS
    <3>1. Fail("undefined") /\ requests' = requests
      BY <1>2, <2>1 DEF OnMessageBegin
    <3> QED
      BY <3>1, FailStep
  <2>2. CASE incoming_index # MAX_REQUESTS
    <3>1. CASE StartsMessage
      BY <3>1, BeginStep
    <3>2. CASE ~StartsMessage
      <4>1. Fail("failed") /\ requests' = [requests EXCEPT ![incoming_index] = NULL]
        BY <1>2, <2>2, <3>2 DEF OnMessageBegin, StartsMessage
      <4>2. Live /\ parser.state = "start"
        BY <1>2 DEF OnMessageBegin, Parsing, Live
      <4>3. ~InMessage
        BY <4>2, FollowsIs DEF InMessage, InBlock
      <4>4. /\ incoming_index \in Nat /\ incoming_index < MAX_REQUESTS
            /\ requests \in [0 .. MAX_REQUESTS - 1 -> RequestRecord \cup {NULL, FREED}]
        BY <2>2, TypesAre DEF IInv
      <4>5. requests[incoming_index] = NULL
        BY <4>2, <4>3, <4>4 DEF IInv, Slots, Request
      <4>6. requests' = requests
        BY <4>1, <4>4, <4>5
      <4> QED
        BY <4>1, <4>6, FailStep
    <3> QED
      BY <3>1, <3>2
  <2> QED
    BY <2>1, <2>2
<1>3. CASE OnUrl
  <2>1. \/ /\ Meets("url") /\ Accept("url", [Request EXCEPT !.url = MemoryRange])
           /\ UNCHANGED current_header
        \/ Fail("failed") /\ UNCHANGED requests
    BY <1>3 DEF OnUrl
  <2> QED
    BY <2>1, UrlStep, FailStep
<1>4. CASE OnHeaderField
  <2>1. \/ /\ Meets("field") /\ Accept("field", [Request EXCEPT !.key = MemoryRange])
           /\ UNCHANGED current_header
        \/ Fail("failed") /\ UNCHANGED requests
    BY <1>4 DEF OnHeaderField
  <2> QED
    BY <2>1, FieldStep, FailStep
<1>5. CASE OnHeaderValue
  <2>1. CASE current_header >= HTTP_REQUEST_MAX_HEADERS
    <3>1. Fail("undefined") /\ requests' = requests
      BY <1>5, <2>1 DEF OnHeaderValue
    <3> QED
      BY <3>1, FailStep
  <2>2. CASE ~(current_header >= HTTP_REQUEST_MAX_HEADERS)
    <3>1. current_header < HTTP_REQUEST_MAX_HEADERS
      BY <2>2, TypesAre DEF IInv
    <3>2. /\ Meets("value")
          /\ Accept("value", [Request EXCEPT !.ranges = Append(Request.ranges, <<Request.key, MemoryRange>>),
                                             !.key = <<0, 0>>])
          /\ current_header' = current_header + 1
      BY <1>5, <2>2 DEF OnHeaderValue
    <3> QED
      BY <3>1, <3>2, ValueStep
  <2> QED
    BY <2>1, <2>2
<1>6. CASE OnHeadersComplete
  <2>1. \/ Meets("end") /\ CompletesHeaders
        \/ Fail("failed") /\ UNCHANGED requests
    BY <1>6 DEF OnHeadersComplete, CompletesHeaders
  <2> QED
    BY <2>1, HeadersCompleteStep, FailStep
<1>7. CASE OnBody
  BY <1>7, BodyStep
<1>8. CASE OnMessageComplete
  BY <1>8, CompleteStep
<1>9. CASE ParseError
  <2>1. Fail("failed") /\ requests' = requests
    BY <1>9 DEF ParseError
  <2> QED
    BY <2>1, FailStep
<1>10. CASE ExecuteDone
  BY <1>10, DoneStep
<1>11. CASE Destroy
  <2>1. got \in 0 .. Len(Stream)
    BY DEF IInv, Typed, TypeOK
  <2>2. /\ pc' \in {"failed", "destroyed", "undefined"}
        /\ got' \in 0 .. Len(Stream) /\ mem' \in {mem, <<>>}
        /\ UNCHANGED <<client, buffer_length, at, stop, parser, current_header, requests,
                       incoming_index, outgoing_index, served>>
    BY <1>11, <2>1 DEF Destroy
  <2> QED
    BY <2>2, StopStep
<1>12. CASE Ended
  BY <1>12, StutterStep DEF Ended
<1>13. CASE UNCHANGED vars
  BY <1>13, StutterStep
<1> QED
  BY <1>1, <1>2, <1>3, <1>4, <1>5, <1>6, <1>7, <1>8, <1>9, <1>10, <1>11, <1>12, <1>13 DEF Next

\* The facts the theorems below rest on hold together in every reachable state.
THEOREM Invariant == Spec => []IInv
<1> QED
  BY InitIInv, NextIInv, PTL DEF Spec

-----------------------------------------------------------------------------
(* The bytes the buffer takes in and the header blocks it gives out.       *)

HandedOut == FlattenSeq([j \in DOMAIN served |-> served[j].headers_buffer])
Block == IF parser.state \in {"start", "dead"} THEN <<>> ELSE Request.headers_buffer
Held == SubSeq(mem, 1, buffer_length)

\* Nothing is lost, and a request has no header block before its end.
Kept ==
    Live => /\ (HandedOut \o Block) \o Held = SubSeq(Stream, 1, got)
            /\ InBlock => Block = <<>>

\* The header blocks handed out, as a sequence.
LEMMA BlocksAre ==
    ASSUME NEW reqs \in Seq(RequestRecord)
    PROVE  /\ [j \in DOMAIN reqs |-> reqs[j].headers_buffer] \in Seq(Seq(Tokens))
           /\ Len([j \in DOMAIN reqs |-> reqs[j].headers_buffer]) = Len(reqs)
<1>1. Len(reqs) \in Nat /\ DOMAIN reqs = 1 .. Len(reqs)
  BY LenProperties
<1>2. \A j \in 1 .. Len(reqs) : reqs[j].headers_buffer \in Seq(Tokens)
  <2>1. \A j \in 1 .. Len(reqs) : reqs[j] \in RequestRecord
    BY ElementOfSeq
  <2>2. \A r \in RequestRecord : r.headers_buffer \in Seq(Tokens)
    BY DEF RequestRecord
  <2> QED
    BY <2>1, <2>2
<1> DEFINE n == Len(reqs)
           f == [j \in 1 .. n |-> reqs[j].headers_buffer]
<1>3. f \in [1 .. n -> Seq(Tokens)]
  BY <1>2
<1>4. f \in Seq(Seq(Tokens)) /\ Len(f) = n
  <2> HIDE DEF f, n
  <2>1. n \in Nat
    BY <1>1 DEF n
  <2> QED
    BY <1>3, <2>1
<1>5. f = [j \in DOMAIN reqs |-> reqs[j].headers_buffer]
  BY <1>1
<1> QED
  BY <1>4, <1>5

\* One more request: its block comes last.
LEMMA BlocksGrow ==
    ASSUME NEW reqs \in Seq(RequestRecord), NEW r \in RequestRecord
    PROVE  FlattenSeq([j \in DOMAIN Append(reqs, r) |-> Append(reqs, r)[j].headers_buffer])
               = FlattenSeq([j \in DOMAIN reqs |-> reqs[j].headers_buffer]) \o r.headers_buffer
<1> DEFINE more == Append(reqs, r)
           old == [j \in DOMAIN reqs |-> reqs[j].headers_buffer]
           new == [j \in DOMAIN more |-> more[j].headers_buffer]
           hb == r.headers_buffer
<1>1. /\ Len(reqs) \in Nat /\ DOMAIN reqs = 1 .. Len(reqs)
      /\ more \in Seq(RequestRecord) /\ Len(more) = Len(reqs) + 1
      /\ DOMAIN more = 1 .. Len(more)
      /\ \A j \in 1 .. Len(reqs) : more[j] = reqs[j]
      /\ more[Len(reqs) + 1] = r
  BY AppendProperties, LenProperties
<1>2. hb \in Seq(Tokens)
  BY DEF RequestRecord
<1> HIDE DEF more
<1>3. /\ old \in Seq(Seq(Tokens)) /\ Len(old) = Len(reqs)
      /\ new \in Seq(Seq(Tokens)) /\ Len(new) = Len(reqs) + 1
  BY <1>1, BlocksAre
<1>4. /\ \A j \in 1 .. Len(reqs) : new[j] = old[j]
      /\ new[Len(reqs) + 1] = hb
  BY <1>1
<1> HIDE DEF old, new, hb
<1>5. /\ Append(old, hb) \in Seq(Seq(Tokens)) /\ Len(Append(old, hb)) = Len(reqs) + 1
      /\ \A j \in 1 .. Len(reqs) : Append(old, hb)[j] = old[j]
      /\ Append(old, hb)[Len(reqs) + 1] = hb
  BY <1>2, <1>3, AppendProperties
<1>6. \A j \in 1 .. Len(reqs) + 1 : j \in 1 .. Len(reqs) \/ j = Len(reqs) + 1
  BY <1>1
<1>7. \A j \in 1 .. Len(new) : new[j] = Append(old, hb)[j]
  BY <1>3, <1>4, <1>5, <1>6
<1>8. new = Append(old, hb)
  BY <1>3, <1>5, <1>7, SeqEqual
<1> QED
  BY <1>2, <1>3, <1>8, FlattenAppend DEF more, old, new, hb

\* The types of the three parts, and of the stream.
LEMMA KeptTypes ==
    ASSUME IInv, Live
    PROVE  /\ HandedOut \in Seq(Tokens) /\ Block \in Seq(Tokens) /\ Held \in Seq(Tokens)
           /\ Len(Held) = buffer_length /\ mem \in Seq(Tokens) /\ buffer_length <= Len(mem)
           /\ Stream \in Seq(Tokens) /\ Len(Stream) \in Nat /\ got \in 0 .. Len(Stream)
<1>1. /\ served \in Seq(RequestRecord) /\ mem \in Seq(Tokens)
      /\ got \in 0 .. Len(Stream) /\ buffer_length \in Nat /\ client \in Clients
  BY DEF IInv, Typed, TypeOK
<1>2. HandedOut \in Seq(Tokens)
  <2>1. [j \in DOMAIN served |-> served[j].headers_buffer] \in Seq(Seq(Tokens))
    BY <1>1, BlocksAre
  <2> QED
    BY <2>1, FlattenTyped DEF HandedOut
<1>3. Block \in Seq(Tokens)
  <2>1. CASE parser.state \in {"start", "dead"}
    BY <2>1, EmptySeq DEF Block
  <2>2. CASE parser.state \notin {"start", "dead"}
    <3>1. InMessage
      BY <2>2, TypesAre, FollowsIs DEF IInv, InMessage, InBlock
    <3>2. Request \in RequestRecord
      BY <3>1, InMessageIs
    <3> QED
      BY <2>2, <3>2 DEF Block, RequestRecord
  <2> QED
    BY <2>1, <2>2
<1>4. buffer_length <= Len(mem)
  BY DEF IInv, Accounts
<1>5. Held \in Seq(Tokens) /\ Len(Held) = buffer_length
  <2> DEFINE b == buffer_length
  <2>1. 0 \in Nat /\ 0 <= b /\ 0 + 1 = 1 /\ b - 0 = b
    BY <1>1
  <2>2. SubSeq(mem, 0 + 1, b) \in Seq(Tokens) /\ Len(SubSeq(mem, 0 + 1, b)) = b - 0
    <3> HIDE DEF b
    <3>1. b \in Nat /\ b <= Len(mem)
      BY <1>1, <1>4 DEF b
    <3> QED
      BY <1>1, <2>1, <3>1, PartIs
  <2> QED
    BY <2>1, <2>2 DEF Held
<1>6. Stream \in Seq(Tokens) /\ Len(Stream) \in Nat
  <2>1. Stream \in Seq(Known) /\ Len(Stream) \in Nat
    BY <1>1, StreamIs
  <2>2. Known \subseteq Tokens
    BY DEF Known, Tokens
  <2>3. \A i \in 1 .. Len(Stream) : Stream[i] \in Tokens
    BY <2>1, <2>2, ElementOfSeq
  <2> QED
    BY <2>1, <2>3
<1> QED
  BY <1>1, <1>2, <1>3, <1>4, <1>5, <1>6

\* http_request_queue_append_data puts what was read behind what the buffer holds.
LEMMA AppendKeeps ==
    ASSUME IInv, Kept, NEW e \in got + 1 .. Len(Stream), Reads(e)
    PROVE  Kept'
<1> DEFINE out == HandedOut \o Block
           piece == SubSeq(Stream, got + 1, e)
<1>1. Live /\ Live' /\ client' = client /\ served' = served /\ parser' = parser
      /\ Request' = Request /\ got' = e
  BY DEF Reads, Live, Request
<1>2. /\ HandedOut \in Seq(Tokens) /\ Block \in Seq(Tokens) /\ Held \in Seq(Tokens)
      /\ Len(Held) = buffer_length /\ buffer_length \in Nat
      /\ Stream \in Seq(Tokens) /\ Len(Stream) \in Nat /\ got \in Nat /\ got <= Len(Stream)
  BY <1>1, KeptTypes, TypesAre DEF IInv
<1>3. HandedOut' = HandedOut /\ Block' = Block /\ InBlock' = InBlock /\ Stream' = Stream
  BY <1>1, SameClient DEF HandedOut, Block, InBlock
<1>4. e \in Nat /\ got <= e /\ e <= Len(Stream) /\ e - got \in Nat
  BY <1>2
<1>5. piece \in Seq(Tokens) /\ Len(piece) = e - got
  BY <1>2, <1>4, PartIs
<1>6. mem' = Held \o piece /\ buffer_length' = Len(Held) + Len(piece)
  BY <1>2, <1>5 DEF Reads, Held
<1>7. Held' = Held \o piece
  <2>1. Held \o piece \in Seq(Tokens) /\ Len(Held \o piece) = Len(Held) + Len(piece)
    BY <1>2, <1>5, Joined
  <2>2. SubSeq(Held \o piece, 1, Len(Held \o piece)) = Held \o piece
    BY <2>1, SubSeqFull
  <2>3. Held' = SubSeq(mem', 1, buffer_length')
    BY DEF Held
  <2> QED
    BY <1>6, <2>1, <2>2, <2>3
<1>8. out \in Seq(Tokens) /\ out' = out
  BY <1>2, <1>3, Joined
<1>9. out \o Held = SubSeq(Stream, 1, got) /\ (InBlock => Block = <<>>)
  BY <1>1 DEF Kept
<1>10. SubSeq(Stream, 1, got) \o piece = SubSeq(Stream, 1, e)
  <2>1. 1 \in 1 .. Len(Stream) + 1 /\ got \in 1 - 1 .. Len(Stream) /\ e \in got .. Len(Stream)
    BY <1>2, <1>4
  <2> QED
    BY <1>2, <2>1, ConcatAdjacentSubSeq
<1> HIDE DEF out, piece
<1>11. (out \o Held) \o piece = out \o (Held \o piece)
  <2>1. out \in Seq(Tokens) /\ Held \in Seq(Tokens) /\ piece \in Seq(Tokens)
    BY <1>2, <1>5, <1>8
  <2> QED
    BY <2>1, ConcatAssociative
<1>12. out' \o Held' = SubSeq(Stream', 1, got')
  BY <1>1, <1>3, <1>7, <1>8, <1>9, <1>10, <1>11
<1> QED
  BY <1>3, <1>9, <1>12 DEF Kept, out

\* A step that hands nothing out and takes nothing in.
LEMMA StaysKept ==
    ASSUME Kept, Live, client' = client, served' = served, got' = got, mem' = mem,
           buffer_length' = buffer_length, Block' = Block, InBlock' => InBlock \/ Block = <<>>
    PROVE  Kept'
<1>1. HandedOut' = HandedOut /\ Held' = Held /\ Stream' = Stream
  BY SameClient DEF HandedOut, Held
<1> QED
  BY <1>1 DEF Kept

\* The request in the slot that is being filled.
LEMMA RequestNow ==
    ASSUME IInv, NEW r, incoming_index \in 0 .. MAX_REQUESTS - 1,
           requests' = [requests EXCEPT ![incoming_index] = r], incoming_index' = incoming_index
    PROVE  Request' = r
<1>1. incoming_index \in DOMAIN requests
  BY TypesAre DEF IInv
<1> QED
  BY <1>1 DEF Request

\* The blocks of the messages that are no message yet, or no more.
LEMMA BlockIs ==
    ASSUME IInv
    PROVE  /\ InBlock => Block = Request.headers_buffer
           /\ parser.state \in {"body", "complete"} => Block = Request.headers_buffer
           /\ InBlock => parser.state \in {"begin", "url", "field", "value"}
BY FollowsIs DEF Block, InBlock

\* on_message_begin.
LEMMA BeginKeeps ==
    ASSUME IInv, Kept, StartsMessage
    PROVE  Kept'
<1>1. /\ Live /\ parser.state = "start" /\ parser'.state = "begin"
      /\ incoming_index' = incoming_index
  BY TypesAre DEF StartsMessage, Parsing, Live, IInv
<1>2. incoming_index \in 0 .. MAX_REQUESTS - 1
  BY TypesAre DEF StartsMessage, IInv
<1>3. Request' = NewRequest
  BY <1>1, <1>2, RequestNow DEF StartsMessage
<1>4. Block = <<>> /\ Block' = <<>>
  BY <1>1, <1>3 DEF Block, NewRequest
<1> QED
  BY <1>1, <1>4, StaysKept DEF StartsMessage

\* A callback inside the header block leaves its bytes in the buffer.
LEMMA AcceptKeeps ==
    ASSUME IInv, Kept, Live, InBlock, NEW state \in {"url", "field", "value"},
           NEW r, r.headers_buffer = Request.headers_buffer, Accept(state, r)
    PROVE  Kept'
<1>1. InMessage /\ parser'.state = state
  BY TypesAre DEF InMessage, Accept, IInv
<1>2. incoming_index \in 0 .. MAX_REQUESTS - 1 /\ incoming_index' = incoming_index
  BY <1>1, InMessageIs, TypesAre DEF Accept, IInv
<1>3. Request' = r
  BY <1>2, RequestNow DEF Accept
<1>4. Block' = r.headers_buffer /\ Block = Request.headers_buffer
  BY <1>1, <1>3, BlockIs DEF Block
<1> QED
  BY <1>4, StaysKept DEF Accept

\* The live part of the block in front of the header block's end, and behind it.
LEMMA HeldSplit ==
    ASSUME NEW S, mem \in Seq(S), NEW nread \in Nat, NEW rest \in Nat,
           nread + rest = buffer_length, buffer_length <= Len(mem)
    PROVE  /\ Held = SubSeq(mem, 1, nread) \o SubSeq(mem, nread + 1, buffer_length)
           /\ SubSeq(mem, 1, nread) \in Seq(S)
           /\ SubSeq(mem, nread + 1, buffer_length) \in Seq(S)
           /\ Len(SubSeq(mem, nread + 1, buffer_length)) = rest
           /\ \A i \in 1 .. rest : SubSeq(mem, nread + 1, buffer_length)[i] = mem[nread + i]
<1> DEFINE b == buffer_length
<1>1. /\ Len(mem) \in Nat /\ b \in Nat /\ nread <= b /\ nread <= Len(mem) /\ b - nread = rest
      /\ 0 \in Nat /\ 0 <= nread /\ 0 + 1 = 1
      /\ 1 \in 1 .. Len(mem) + 1 /\ nread \in 1 - 1 .. Len(mem) /\ b \in nread .. Len(mem)
  BY LenProperties
<1> HIDE DEF b
<1>2. b <= Len(mem)
  BY DEF b
<1>3. /\ SubSeq(mem, nread + 1, b) \in Seq(S)
      /\ Len(SubSeq(mem, nread + 1, b)) = b - nread
      /\ \A i \in 1 .. b - nread : SubSeq(mem, nread + 1, b)[i] = mem[nread + i]
  BY <1>1, <1>2, PartIs
<1>4. SubSeq(mem, 0 + 1, nread) \in Seq(S)
  BY <1>1, PartIs
<1>5. SubSeq(mem, 1, nread) \o SubSeq(mem, nread + 1, b) = SubSeq(mem, 1, b)
  BY <1>1, ConcatAdjacentSubSeq
<1> QED
  BY <1>1, <1>3, <1>4, <1>5 DEF b, Held

\* on_headers_complete: the copy and what was moved to the front are what the
\* buffer held.
LEMMA HeadersCompleteKeeps ==
    ASSUME IInv, Kept, Meets("end"), CompletesHeaders
    PROVE  Kept'
<1> DEFINE nread == parser.nread + 1
           rest == buffer_length - nread
           hb == SubSeq(mem, 1, nread)
           tail == SubSeq(mem, nread + 1, buffer_length)
<1>1. Live /\ InBlock /\ InMessage /\ at <= stop
  BY MeetsIs
<1>2. /\ Live' /\ client' = client /\ served' = served /\ got' = got
      /\ incoming_index' = incoming_index /\ parser'.state \in {"body", "complete"}
      /\ buffer_length' = rest
      /\ IF rest = 0 THEN mem' = <<>> ELSE mem' \in Moved(nread, rest)
  BY <1>1 DEF CompletesHeaders, Live
<1>3. /\ HandedOut \in Seq(Tokens) /\ Held \in Seq(Tokens) /\ mem \in Seq(Tokens)
      /\ buffer_length <= Len(mem)
  BY <1>1, KeptTypes
<1>4. nread \in Nat /\ rest \in Nat /\ nread + rest = buffer_length
  <2>1. /\ parser.nread \in Nat /\ buffer_length \in Nat /\ at \in Nat /\ stop \in Nat
        /\ parser.nread + (stop - at + 1) <= buffer_length
    BY <1>1, TypesAre DEF IInv, Accounts
  <2> QED
    BY <1>1, <2>1
<1>5. incoming_index \in 0 .. MAX_REQUESTS - 1
  BY <1>1, InMessageIs, TypesAre DEF IInv
<1>6. Request'.headers_buffer = hb
  <2> DEFINE msg == script[Token.msg]
             r == [Request EXCEPT !.last = ~msg.keep, !.headers_buffer = hb]
  <2>1. requests' = [requests EXCEPT ![incoming_index] = r]
    BY DEF CompletesHeaders
  <2>2. Request \in RequestRecord
    BY <1>1, InMessageIs
  <2> HIDE DEF hb, msg
  <2>3. r.headers_buffer = hb
    BY <2>2 DEF RequestRecord
  <2> HIDE DEF r
  <2> QED
    BY <1>2, <1>5, <2>1, <2>3, RequestNow
<1>7. Block = <<>> /\ Block' = hb /\ ~InBlock'
  BY <1>1, <1>2, <1>6, FollowsIs DEF Kept, Block, InBlock
<1>8. /\ Held = hb \o tail /\ hb \in Seq(Tokens) /\ tail \in Seq(Tokens) /\ Len(tail) = rest
      /\ \A i \in 1 .. rest : tail[i] = mem[nread + i]
  <2> HIDE DEF nread, rest
  <2> QED
    BY <1>3, <1>4, HeldSplit
<1>9. Held' = tail
  <2>1. Held' = SubSeq(mem', 1, rest)
    BY <1>2 DEF Held
  <2> HIDE DEF nread, rest, tail
  <2>2. CASE rest = 0
    <3>1. SubSeq(mem', 1, rest) = <<>>
      BY <2>2, SubSeqEmpty
    <3>2. tail = <<>>
      BY <1>8, <2>2, EmptySeq
    <3> QED
      BY <2>1, <3>1, <3>2
  <2>3. CASE rest # 0
    <3>1. mem' \in Moved(nread, rest) /\ nread + rest <= Len(mem) /\ Len(mem) \in Nat
      BY <1>2, <1>3, <1>4, <2>3, LenProperties
    <3>2. PICK stale \in BOOLEAN :
            mem' = [i \in 1 .. Len(mem) |-> IF i <= rest THEN mem[i + nread]
                                            ELSE IF stale THEN mem[i] ELSE JUNK]
      BY <3>1 DEF Moved
    <3>3. \A i \in 1 .. rest : i \in 1 .. Len(mem) /\ i <= rest /\ i + nread = nread + i
                               /\ 1 + i - 1 = i
      BY <1>4, <3>1
    <3>4. \A i \in 1 .. rest : mem'[i] = tail[i]
      BY <1>8, <3>2, <3>3
    <3>5. \A i \in 1 .. rest : mem'[i] \in Tokens
      BY <1>8, <3>4, ElementOfSeq
    <3> DEFINE block == mem'
    <3>6. \A i \in 1 .. rest : block[i] = tail[i] /\ block[i] \in Tokens
      BY <3>4, <3>5
    <3> HIDE DEF block
    <3>7. 1 \in Int /\ rest \in Int /\ 1 <= rest /\ rest - 1 + 1 = rest
      BY <1>4, <2>3
    <3>8. /\ SubSeq(block, 1, rest) \in Seq(Tokens) /\ Len(SubSeq(block, 1, rest)) = rest
          /\ \A i \in 1 .. rest : SubSeq(block, 1, rest)[i] = block[1 + i - 1]
      <4>1. /\ SubSeq(block, 1, rest) \in Seq(Tokens)
            /\ Len(SubSeq(block, 1, rest)) = IF 1 <= rest THEN rest - 1 + 1 ELSE 0
            /\ \A i \in 1 .. rest - 1 + 1 : SubSeq(block, 1, rest)[i] = block[1 + i - 1]
        BY <3>6, <3>7, SubSeqProperties
      <4> QED
        BY <3>7, <4>1
    <3>9. \A i \in 1 .. rest : SubSeq(block, 1, rest)[i] = tail[i]
      BY <3>3, <3>6, <3>8
    <3>10. SubSeq(block, 1, rest) = tail
      BY <1>8, <3>8, <3>9, SeqEqual
    <3> QED
      BY <2>1, <3>10 DEF block
  <2> QED
    BY <2>2, <2>3
<1>10. HandedOut' = HandedOut /\ Stream' = Stream
  BY <1>2, SameClient DEF HandedOut
<1>11. HandedOut \o Held = SubSeq(Stream, 1, got)
  <2>1. (HandedOut \o Block) \o Held = SubSeq(Stream, 1, got)
    BY <1>1 DEF Kept
  <2>2. HandedOut \o <<>> = HandedOut
    BY <1>3, ConcatEmptySeq
  <2> QED
    BY <1>7, <2>1, <2>2
<1> HIDE DEF hb, tail
<1>12. (HandedOut \o hb) \o tail = HandedOut \o (hb \o tail)
  BY <1>3, <1>8, ConcatAssociative
<1>13. (HandedOut' \o Block') \o Held' = SubSeq(Stream', 1, got')
  BY <1>2, <1>7, <1>8, <1>9, <1>10, <1>11, <1>12
<1> QED
  BY <1>7, <1>13 DEF Kept

\* on_body copies from the buffer and takes nothing off it.
LEMMA BodyKeeps ==
    ASSUME IInv, Kept, OnBody
    PROVE  Kept'
<1>1. Live /\ InMessage /\ ~InBlock /\ parser.state = "body"
  BY FollowsIs DEF OnBody, Parsing, Live, InMessage, InBlock
<1>2. Request \in RequestRecord /\ incoming_index \in 0 .. MAX_REQUESTS - 1
  BY <1>1, InMessageIs, TypesAre DEF IInv
<1>3. PICK body : requests' = [requests EXCEPT ![incoming_index].body = body]
  BY DEF OnBody
<1>4. incoming_index' = incoming_index /\ parser'.state \in {"body", "complete"}
  BY TypesAre DEF OnBody, IInv
<1>5. Request' = [Request EXCEPT !.body = body]
  <2>1. requests' = [requests EXCEPT ![incoming_index] = [Request EXCEPT !.body = body]]
    BY <1>3 DEF Request
  <2> QED
    BY <1>2, <1>4, <2>1, RequestNow
<1>6. Request'.headers_buffer = Request.headers_buffer
  BY <1>2, <1>5 DEF RequestRecord
<1>7. Block' = Block /\ ~InBlock'
  BY <1>1, <1>4, <1>6, FollowsIs DEF Block, InBlock
<1> QED
  BY <1>1, <1>7, StaysKept DEF OnBody

\* on_message_complete: the block goes out with its request.
LEMMA CompleteKeeps ==
    ASSUME IInv, Kept, OnMessageComplete
    PROVE  Kept'
<1>1. /\ Live /\ Live' /\ parser.state = "complete"
  BY DEF OnMessageComplete, MessageComplete, Live
<1>2. InMessage /\ parser'.state \in {"start", "dead"}
  BY <1>1, TypesAre DEF OnMessageComplete, MessageComplete, InMessage, IInv
<1>3. /\ Request \in RequestRecord /\ incoming_index \in DOMAIN requests
      /\ outgoing_index = incoming_index /\ served \in Seq(RequestRecord)
  BY <1>1, <1>2, InMessageIs, TypesAre DEF IInv, Slots
<1>4. PICK b \in BOOLEAN :
        served' = Append(served, [requests EXCEPT ![incoming_index].last = b][incoming_index])
  <2>1. Request.last \in BOOLEAN
    BY <1>3 DEF RequestRecord
  <2>2. (Request.last \/ LastSlot(incoming_index')) \in BOOLEAN
    BY <2>1 DEF LastSlot
  <2> QED
    BY <1>3, <2>2 DEF OnMessageComplete, MessageComplete
<1> DEFINE r == [Request EXCEPT !.last = b]
<1>5. served' = Append(served, r)
  <2>1. [requests EXCEPT ![incoming_index].last = b][incoming_index] = r
    BY <1>3 DEF Request
  <2> QED
    BY <1>4, <2>1
<1>6. r \in RequestRecord /\ r.headers_buffer = Request.headers_buffer
  BY <1>3 DEF RequestRecord
<1> HIDE DEF r
<1>7. HandedOut' = HandedOut \o Request.headers_buffer
  <2>1. FlattenSeq([j \in DOMAIN Append(served, r) |-> Append(served, r)[j].headers_buffer])
            = HandedOut \o r.headers_buffer
    BY <1>3, <1>6, BlocksGrow DEF HandedOut
  <2>2. HandedOut' = FlattenSeq([j \in DOMAIN served' |-> served'[j].headers_buffer])
    BY DEF HandedOut
  <2> QED
    BY <1>5, <1>6, <2>1, <2>2
<1>8. Block = Request.headers_buffer /\ Block' = <<>> /\ ~InBlock'
  BY <1>1, <1>2, FollowsIs DEF Block, InBlock
<1>9. Held' = Held /\ Stream' = Stream /\ got' = got
  BY SameClient DEF OnMessageComplete, MessageComplete, Held
<1>10. (HandedOut \o Block) \o <<>> = HandedOut \o Block
  <2>1. HandedOut \o Block \in Seq(Tokens)
    BY <1>1, KeptTypes, Joined
  <2> QED
    BY <2>1, ConcatEmptySeq
<1>11. (HandedOut \o Block) \o Held = SubSeq(Stream, 1, got)
  BY <1>1 DEF Kept
<1>12. (HandedOut' \o Block') \o Held' = SubSeq(Stream', 1, got')
  BY <1>7, <1>8, <1>9, <1>10, <1>11
<1> QED
  BY <1>8, <1>12 DEF Kept

LEMMA InitKept == ASSUME Init PROVE Kept
<1>1. client \in Clients /\ got = 0 /\ mem = <<>> /\ buffer_length = 0 /\ served = <<>>
      /\ parser.state = "start" /\ Live
  BY DEF Init, IdleParser, Live
<1>2. HandedOut = <<>>
  <2> DEFINE f == [j \in DOMAIN served |-> served[j].headers_buffer]
  <2>1. served \in Seq(RequestRecord) /\ Len(served) = 0
    BY <1>1, EmptySeq
  <2>2. f \in Seq(Seq(Tokens)) /\ Len(f) = 0
    BY <2>1, BlocksAre
  <2>3. f = <<>>
    <3> HIDE DEF f
    <3> QED
      BY <2>2, EmptySeq
  <2> QED
    BY <2>3, FlattenEmpty DEF HandedOut
<1>3. Block = <<>> /\ ~InBlock
  BY <1>1, FollowsIs DEF Block, InBlock
<1>4. Held = <<>> /\ SubSeq(Stream, 1, got) = <<>>
  BY <1>1, SubSeqEmpty DEF Held
<1>5. <<>> \o <<>> = <<>>
  BY EmptySeq, ConcatEmptySeq
<1> QED
  BY <1>2, <1>3, <1>4, <1>5 DEF Kept

LEMMA NextKept == IInv /\ Kept /\ [Next]_vars => Kept'
<1> SUFFICES ASSUME IInv, Kept, [Next]_vars, Live'
             PROVE  Kept'
  BY DEF Kept
<1> USE DEF Live
<1>1. CASE AppendData
  <2>1. PICK e \in got + 1 .. Len(Stream) : Reads(e)
    BY <1>1 DEF AppendData, Reads
  <2> QED
    BY <2>1, AppendKeeps
<1>2. CASE OnMessageBegin
  <2>1. StartsMessage
    BY <1>2 DEF OnMessageBegin, StartsMessage, Fail
  <2> QED
    BY <2>1, BeginKeeps
<1>3. CASE OnUrl
  <2>1. Meets("url") /\ Accept("url", [Request EXCEPT !.url = MemoryRange])
    BY <1>3 DEF OnUrl, Fail
  <2>2. InBlock /\ InMessage
    BY <2>1, MeetsIs
  <2>3. [Request EXCEPT !.url = MemoryRange].headers_buffer = Request.headers_buffer
    BY <2>1, <2>2, MeetsIs, InMessageIs DEF RequestRecord
  <2> QED
    BY <2>1, <2>2, <2>3, MeetsIs, AcceptKeeps
<1>4. CASE OnHeaderField
  <2>1. Meets("field") /\ Accept("field", [Request EXCEPT !.key = MemoryRange])
    BY <1>4 DEF OnHeaderField, Fail
  <2>2. InBlock /\ InMessage
    BY <2>1, MeetsIs
  <2>3. [Request EXCEPT !.key = MemoryRange].headers_buffer = Request.headers_buffer
    BY <2>1, <2>2, MeetsIs, InMessageIs DEF RequestRecord
  <2> QED
    BY <2>1, <2>2, <2>3, MeetsIs, AcceptKeeps
<1>5. CASE OnHeaderValue
  <2> DEFINE r == [Request EXCEPT !.ranges = Append(Request.ranges, <<Request.key, MemoryRange>>),
                                  !.key = <<0, 0>>]
  <2>1. Meets("value") /\ Accept("value", r)
    BY <1>5 DEF OnHeaderValue, Fail
  <2>2. InBlock /\ InMessage
    BY <2>1, MeetsIs
  <2>3. r.headers_buffer = Request.headers_buffer
    BY <2>1, <2>2, MeetsIs, InMessageIs DEF RequestRecord
  <2> QED
    BY <2>1, <2>2, <2>3, MeetsIs, AcceptKeeps
<1>6. CASE OnHeadersComplete
  <2>1. Meets("end") /\ CompletesHeaders
    BY <1>6 DEF OnHeadersComplete, CompletesHeaders, Fail
  <2> QED
    BY <2>1, HeadersCompleteKeeps
<1>7. CASE OnBody
  BY <1>7, BodyKeeps
<1>8. CASE OnMessageComplete
  BY <1>8, CompleteKeeps
<1>9. CASE ParseError
  BY <1>9 DEF ParseError, Fail
<1>10. CASE ExecuteDone
  <2>1. Block' = Block /\ InBlock' = InBlock
    BY <1>10 DEF ExecuteDone, Block, InBlock, Request
  <2> QED
    BY <1>10, <2>1, StaysKept DEF ExecuteDone
<1>11. CASE Destroy
  BY <1>11 DEF Destroy
<1>12. CASE UNCHANGED vars
  <2>1. Block' = Block /\ InBlock' = InBlock
    BY <1>12 DEF vars, Block, InBlock, Request
  <2> QED
    BY <1>12, <2>1, StaysKept DEF vars
<1> QED
  BY <1>1, <1>2, <1>3, <1>4, <1>5, <1>6, <1>7, <1>8, <1>9, <1>10, <1>11, <1>12 DEF Next, Ended

-----------------------------------------------------------------------------
(* The theorems.                                                           *)

\* Every variable keeps its type, whatever a client sends, however it is cut
\* and whichever allocation fails.
THEOREM TypeCorrect == Spec => []TypeOK
<1>1. IInv => TypeOK
  BY DEF IInv, Typed
<1> QED
  BY <1>1, Invariant, PTL

\* The slots of queue->requests: the requests leave in the order they came,
\* none is handed out twice, and a slot is live exactly inside a message, for
\* any number of slots and any client.
THEOREM SlotsHold == Spec => []RequestSlots
<1>1. IInv => RequestSlots
  <2> SUFFICES ASSUME IInv
               PROVE  RequestSlots
    OBVIOUS
  <2>1. /\ outgoing_index = incoming_index
        /\ \A i \in 0 .. MAX_REQUESTS - 1 :
            /\ requests[i] = FREED <=> i < incoming_index
            /\ i > incoming_index => requests[i] = NULL
    BY DEF IInv, Slots
  <2>2. DOMAIN requests = 0 .. MAX_REQUESTS - 1 /\ incoming_index \in Nat /\ MAX_REQUESTS \in Nat
    BY TypesAre DEF IInv
  <2>3. ASSUME incoming_index \in DOMAIN requests, pc \in {"idle", "parse"}
        PROVE  requests[incoming_index] = NULL <=> parser.state \in {"start", "dead"}
    <3>1. Live /\ incoming_index < MAX_REQUESTS
      BY <2>2, <2>3 DEF Live
    <3>2. InMessage <=> parser.state \notin {"start", "dead"}
      BY TypesAre, FollowsIs DEF IInv, InMessage, InBlock
    <3>3. IF InMessage THEN Request \in RequestRecord ELSE Request = NULL
      BY <3>1 DEF IInv, Slots
    <3> QED
      BY <3>2, <3>3, QueueAssumption DEF Request
  <2> QED
    BY <2>1, <2>2, <2>3 DEF RequestSlots
<1> QED
  BY <1>1, Invariant, PTL

\* The subtraction in on_headers_complete never wraps and the bytes that are
\* not parsed yet stay in the buffer, also of clients that go on behind a
\* header block.
THEOREM BufferKeeps == Spec => []BufferAccounts
<1>1. IInv => BufferAccounts
  <2> SUFFICES ASSUME IInv
               PROVE  BufferAccounts
    OBVIOUS
  <2>1. Accounts
    BY DEF IInv
  <2> QED
    BY <2>1 DEF Accounts, BufferAccounts, Live, InBlock
<1> QED
  BY <1>1, Invariant, PTL

\* The buffer between the socket and the parser loses nothing and turns nothing
\* round, whatever a client sends and however it is cut: what
\* append_data was given are the header blocks the requests took with them, one
\* after the other, and what the buffer still holds.
THEOREM BufferConserves == Spec => []BytesKept
<1>1. IInv /\ Kept => BytesKept
  BY DEF Kept, BytesKept, HeaderBlocks, HandedOut, Block, Held, Live
<1> QED
  BY <1>1, InitIInv, NextIInv, InitKept, NextKept, PTL DEF Spec

\* No request follows one that was marked as the last: the mark is set on the
\* last slot's request or with a message that is not keep-alive, after which
\* the parser accepts no other.
THEOREM LastStaysLast == Spec => []LastIsFinal
<1>1. IInv => LastIsFinal
  <2> SUFFICES ASSUME IInv, NEW i \in DOMAIN served, NEW j \in DOMAIN served, i < j
               PROVE  ~served[i].last
    BY DEF LastIsFinal
  <2>1. served[i].last => i = Len(served)
    BY DEF IInv, Marks
  <2>2. DOMAIN served = 1 .. Len(served) /\ Len(served) \in Nat
    <3>1. served \in Seq(RequestRecord)
      BY TypesAre DEF IInv
    <3> QED
      BY <3>1, LenProperties
  <2> QED
    BY <2>1, <2>2
<1> QED
  BY <1>1, Invariant, PTL

\* on_header_field refuses only a field behind HTTP_REQUEST_MAX_HEADERS others,
\* when no value is cut in two and the parser reads the stream.
THEOREM LimitHolds == Spec => []LimitIsOnFields
<1>1. IInv => LimitIsOnFields
  <2> SUFFICES ASSUME IInv, Meets("field"), current_header >= HTTP_REQUEST_MAX_HEADERS,
                      ~client.split, ~client.runOn
               PROVE  Token.h > HTTP_REQUEST_MAX_HEADERS
    BY DEF LimitIsOnFields
  <2>1. Token.h = current_header + 1
    BY MeetsField DEF Tok
  <2>2. current_header \in Nat /\ HTTP_REQUEST_MAX_HEADERS \in Nat
    BY TypesAre DEF IInv
  <2> QED
    BY <2>1, <2>2
<1> QED
  BY <1>1, Invariant, PTL

\* Between two reads no message that has arrived in full waits in the buffer,
\* of clients that do not go on behind a header block.
THEOREM NothingWaits == Spec => []NothingHeldBack
<1>1. IInv => NothingHeldBack
  <2> SUFFICES ASSUME IInv, pc = "idle", ~client.runOn, NEW m \in DOMAIN script, End(m) <= got
               PROVE  Len(served) >= m
    BY DEF NothingHeldBack, End
  <2>1. Live /\ client \in Clients
    BY TypesAre DEF IInv, Live
  <2>2. /\ Parsed \in Nat /\ Parsed + (stop - at + 1) = got
        /\ incoming_index \in 0 .. Len(script) /\ Len(script) \in Nat
        /\ Current - 1 = incoming_index
    BY <2>1, PositionIs
  <2>3. Len(served) = incoming_index /\ m \in 1 .. Len(script)
    BY <2>1, ScriptIs DEF IInv, Slots
  <2>4. Parsed = got
    <3>1. at = stop + 1 /\ at \in Nat /\ stop \in Nat /\ got \in Nat
      BY <2>1, TypesAre DEF IInv, Accounts
    <3> QED
      BY <2>2, <3>1
  <2> SUFFICES ASSUME m > incoming_index
               PROVE  FALSE
    BY <2>2, <2>3
  <2>5. Current \in 1 .. Len(script) /\ Current \in 0 .. Len(script) /\ Current <= m /\ m \in 0 .. Len(script)
    BY <2>2, <2>3 DEF Current
  <2>6. End(Current) <= End(m) /\ End(Current) \in Nat /\ End(m) \in Nat
    BY <2>1, <2>5, EndsGrow
  <2>7. /\ End(incoming_index) \in Nat /\ BlockLen(Current) \in Nat /\ BlockLen(Current) > SpanLen
        /\ End(Current) = BlockEnd(Current) + script[Current].body
        /\ BlockEnd(Current) = End(incoming_index) + BlockLen(Current)
        /\ script[Current].body \in Nat /\ SpanLen \in Nat
    BY <2>1, <2>2, <2>5, StreamIs, ScriptIs, QueueAssumption
  <2>8. End(Current) <= Parsed
    <3>1. got \in Nat
      BY TypesAre DEF IInv
    <3> QED
      BY <2>4, <2>6, <3>1
  <2>9. CASE parser.state \in {"start", "dead", "begin"}
    <3>1. Parsed = End(incoming_index)
      BY <2>1, <2>9 DEF IInv, Position
    <3> QED
      BY <2>7, <2>8, <3>1
  <2>10. CASE parser.state \in {"url", "field", "value"}
    <3>1. InBlock
      BY <2>10, FollowsIs DEF InBlock
    <3>2. Parsed < BlockEnd(Current)
      BY <2>1, <3>1 DEF IInv, Position
    <3> QED
      BY <2>2, <2>7, <2>8, <3>2
  <2>11. CASE parser.state = "body"
    <3>1. parser.body_left > 0 /\ Parsed + parser.body_left = End(Current) /\ parser.body_left \in Nat
      BY <2>1, <2>11, TypesAre DEF IInv, Position
    <3> QED
      BY <2>2, <2>8, <3>1
  <2>12. parser.state # "complete"
    BY <2>1 DEF IInv, Accounts
  <2> QED
    BY <2>9, <2>10, <2>11, <2>12, TypesAre DEF IInv
<1> QED
  BY <1>1, Invariant, PTL

\* A part of a message that lies in its header block is what a range for it extracts.
PartAt(m, offset, part, h) ==
    \A i \in 1 .. SpanLen : Stream[End(m - 1) + (offset + i)] = Tok(m, part, h)

LEMMA Extracted ==
    ASSUME client \in Clients, NEW m \in 1 .. Len(script), NEW offset \in Nat,
           offset + SpanLen <= BlockLen(m), NEW part, NEW h, PartAt(m, offset, part, h)
    PROVE  extract(SubSeq(Stream, End(m - 1) + 1, BlockEnd(m)), <<offset, SpanLen>>) = Span(m, part, h)
<1> DEFINE n == End(m - 1)
           e == BlockEnd(m)
           u == SubSeq(Stream, n + 1, e)
           l == BlockLen(m)
           s == SpanLen
<1>1. /\ n \in Nat /\ l \in Nat /\ e = n + l /\ Stream \in Seq(Known) /\ Len(Stream) \in Nat
      /\ e <= Len(Stream) /\ s \in Nat /\ offset + s <= l
  <2>1. /\ n \in Nat /\ l \in Nat /\ e = n + l /\ Stream \in Seq(Known) /\ Len(Stream) \in Nat
        /\ End(m) = e + script[m].body /\ End(m) <= Len(Stream)
    BY StreamIs
  <2>2. script[m].body \in Nat /\ s \in Nat
    BY ScriptIs, QueueAssumption
  <2> HIDE DEF n, e, l, s
  <2>3. offset + s <= l
    BY DEF s, l
  <2> QED
    BY <2>1, <2>2, <2>3
<1>2. \A i \in 1 .. s : Stream[n + (offset + i)] = Tok(m, part, h)
  BY DEF PartAt
<1> HIDE DEF n, e, l, s
<1>3. Len(u) = l /\ \A i \in 1 .. l : u[i] = Stream[n + i]
  <2>1. Stream \in Seq(Known) /\ n \in Nat /\ e \in Nat /\ n <= e /\ e <= Len(Stream) /\ e - n = l
    BY <1>1
  <2> QED
    BY <2>1, PartIs
<1> HIDE DEF u
<1>4. extract(u, <<offset, s>>) =
        [i \in 1 .. s |-> IF offset + i <= Len(u) THEN u[offset + i] ELSE JUNK]
  BY DEF extract
<1>5. Span(m, part, h) = [i \in 1 .. s |-> Tok(m, part, h)]
  BY DEF Span, Tok, s
<1>6. ASSUME NEW i \in 1 .. s
      PROVE  (IF offset + i <= Len(u) THEN u[offset + i] ELSE JUNK) = Tok(m, part, h)
  <2>1. offset + i \in 1 .. l /\ offset + i <= Len(u)
    BY <1>1, <1>3
  <2> QED
    BY <1>2, <1>3, <2>1
<1>7. extract(u, <<offset, s>>) = Span(m, part, h)
  BY <1>4, <1>5, <1>6
<1> QED
  BY <1>7 DEF u, n, e, s

\* Where the parts are.
LEMMA PartsLie ==
    ASSUME client \in Clients, NEW m \in 1 .. Len(script)
    PROVE  /\ 0 + SpanLen <= BlockLen(m) /\ PartAt(m, 0, "url", 0)
           /\ \A h \in 1 .. script[m].headers :
                /\ KeyRange(m, h)[1] \in Nat /\ KeyRange(m, h)[2] = SpanLen
                /\ KeyRange(m, h)[1] + SpanLen <= BlockLen(m)
                /\ PartAt(m, KeyRange(m, h)[1], "field", h)
                /\ ValueRange(m, h)[1] \in Nat /\ ValueRange(m, h)[2] = SpanLen
                /\ ValueRange(m, h)[1] + SpanLen <= BlockLen(m)
                /\ PartAt(m, ValueRange(m, h)[1], "value", h)
<1> DEFINE n == End(m - 1)
           k == script[m].headers
           t == Size(m, k)
           s == SpanLen
<1>1. /\ s \in Nat /\ n \in Nat /\ BlockLen(m) \in Nat /\ BlockLen(m) > s
      /\ UrlAt(Stream, n, m) /\ HeadersAt(Stream, n, m)
  BY StreamIs, QueueAssumption DEF MessageAt
<1>2. /\ t \in Nat /\ BlockLen(m) = s + t + 1
      /\ \A j \in 1 .. k :
            /\ Size(m, j - 1) \in Nat
            /\ Size(m, j) = Size(m, j - 1) + (s + s)
            /\ Size(m, j) <= t
  BY SizesAre
<1>3. 0 + s <= BlockLen(m) /\ PartAt(m, 0, "url", 0)
  <2>1. \A i \in 1 .. s : 0 + i = i
    OBVIOUS
  <2>2. \A i \in 1 .. s : Stream[n + i] = Tok(m, "url", 0)
    BY <1>1 DEF UrlAt
  <2> QED
    BY <1>1, <2>1, <2>2 DEF PartAt
<1>4. ASSUME NEW h \in 1 .. k
      PROVE  /\ KeyRange(m, h)[1] \in Nat /\ KeyRange(m, h)[2] = SpanLen
             /\ KeyRange(m, h)[1] + SpanLen <= BlockLen(m)
             /\ PartAt(m, KeyRange(m, h)[1], "field", h)
             /\ ValueRange(m, h)[1] \in Nat /\ ValueRange(m, h)[2] = SpanLen
             /\ ValueRange(m, h)[1] + SpanLen <= BlockLen(m)
             /\ PartAt(m, ValueRange(m, h)[1], "value", h)
  <2> DEFINE z == Size(m, h - 1)
             a == s + z
             b == s + z + s
  <2>1. KeyRange(m, h) = <<a, s>> /\ ValueRange(m, h) = <<b, s>>
    BY DEF KeyRange, ValueRange
  <2>2. z \in Nat /\ Size(m, h) = z + (s + s) /\ Size(m, h) <= t
    <3> HIDE DEF t, s, k
    <3> QED
      BY <1>2, <1>4
  <2>3. \A i \in 1 .. s :
            /\ Stream[n + (s + z + i)] = Tok(m, "field", h)
            /\ Stream[n + (s + z + (s + i))] = Tok(m, "value", h)
    BY <1>1, <1>4 DEF HeadersAt
  <2> HIDE DEF z, t, k, n
  <2>4. a \in Nat /\ b \in Nat /\ a + s <= BlockLen(m) /\ b + s <= BlockLen(m)
    BY <1>1, <1>2, <2>2
  <2>5. \A i \in 1 .. s : s + z + (s + i) = b + i
    BY <1>1, <2>2
  <2>6. PartAt(m, a, "field", h) /\ PartAt(m, b, "value", h)
    BY <2>3, <2>5 DEF PartAt, n
  <2> HIDE DEF a, b
  <2> QED
    BY <2>1, <2>4, <2>6
<1> QED
  BY <1>3, <1>4

\* Of regular traffic, whatever its messages and however it is cut between
\* their parts, the router is handed the url, the headers and the body that
\* were sent, message by message.
THEOREM RequestsAreAsSent == Spec => []ServedAsSent
<1>1. IInv => ServedAsSent
  <2> SUFFICES ASSUME IInv, Regular
               PROVE  UrlAsSent /\ HeadersAsSent /\ BodyAsSent
    BY DEF ServedAsSent
  <2>1. client \in Clients /\ Len(script) \in Nat
    BY TypesAre, ScriptIs DEF IInv
  <2>2. ASSUME NEW m \in DOMAIN served
        PROVE  /\ m \in 1 .. Len(script) /\ HasBlock(served[m], m)
               /\ served[m].body = Body(m, script[m].body)
    <3>1. m <= Len(script) /\ HasBlock(served[m], m) /\ served[m].body = Body(m, script[m].body)
      BY DEF IInv, Filled, ServedIs
    <3>2. m \in Nat /\ m >= 1
      <4>1. served \in Seq(RequestRecord)
        BY TypesAre DEF IInv
      <4>2. DOMAIN served = 1 .. Len(served) /\ Len(served) \in Nat
        BY <4>1, LenProperties
      <4> QED
        BY <4>2
    <3> QED
      BY <2>1, <3>1, <3>2
  <2>3. UrlAsSent
    <3> SUFFICES ASSUME NEW j \in DOMAIN served
                 PROVE  extract(served[j].headers_buffer, served[j].url) = Span(j, "url", 0)
      BY DEF UrlAsSent
    <3>1. /\ j \in 1 .. Len(script) /\ served[j].url = <<0, SpanLen>>
          /\ served[j].headers_buffer = SubSeq(Stream, End(j - 1) + 1, BlockEnd(j))
      BY <2>2 DEF HasBlock
    <3>2. 0 \in Nat /\ 0 + SpanLen <= BlockLen(j) /\ PartAt(j, 0, "url", 0)
      BY <2>1, <3>1, PartsLie
    <3> QED
      BY <2>1, <3>1, <3>2, Extracted
  <2>4. HeadersAsSent
    <3> SUFFICES ASSUME NEW j \in DOMAIN served
                 PROVE  /\ Len(served[j].ranges) = script[j].headers
                        /\ \A h \in DOMAIN served[j].ranges :
                            /\ extract(served[j].headers_buffer, served[j].ranges[h][1]) = Span(j, "field", h)
                            /\ extract(served[j].headers_buffer, served[j].ranges[h][2]) = Span(j, "value", h)
      BY DEF HeadersAsSent
    <3>1. /\ j \in 1 .. Len(script) /\ served[j].ranges = RangesOf(j, script[j].headers)
          /\ served[j].headers_buffer = SubSeq(Stream, End(j - 1) + 1, BlockEnd(j))
      BY <2>2 DEF HasBlock
    <3>2. script[j].headers \in Nat
      BY <2>1, <3>1, ScriptIs
    <3>3. /\ Len(served[j].ranges) = script[j].headers
          /\ DOMAIN served[j].ranges = 1 .. script[j].headers
          /\ \A h \in 1 .. script[j].headers :
                served[j].ranges[h][1] = KeyRange(j, h) /\ served[j].ranges[h][2] = ValueRange(j, h)
      BY <3>1, <3>2 DEF RangesOf
    <3>4. ASSUME NEW h \in 1 .. script[j].headers
          PROVE  /\ extract(served[j].headers_buffer, KeyRange(j, h)) = Span(j, "field", h)
                 /\ extract(served[j].headers_buffer, ValueRange(j, h)) = Span(j, "value", h)
      <4> DEFINE a == KeyRange(j, h)[1]
                 b == ValueRange(j, h)[1]
      <4>1. /\ a \in Nat /\ a + SpanLen <= BlockLen(j) /\ PartAt(j, a, "field", h)
            /\ b \in Nat /\ b + SpanLen <= BlockLen(j) /\ PartAt(j, b, "value", h)
        BY <2>1, <3>1, PartsLie
      <4>2. KeyRange(j, h) = <<a, SpanLen>> /\ ValueRange(j, h) = <<b, SpanLen>>
        BY DEF KeyRange, ValueRange
      <4> HIDE DEF a, b
      <4>3. extract(served[j].headers_buffer, <<a, SpanLen>>) = Span(j, "field", h)
        BY <2>1, <3>1, <4>1, Extracted
      <4>4. extract(served[j].headers_buffer, <<b, SpanLen>>) = Span(j, "value", h)
        BY <2>1, <3>1, <4>1, Extracted
      <4> QED
        BY <4>2, <4>3, <4>4
    <3> QED
      BY <3>3, <3>4
  <2>5. BodyAsSent
    BY <2>2 DEF BodyAsSent
  <2> QED
    BY <2>3, <2>4, <2>5
<1> QED
  BY <1>1, Invariant, PTL

=============================================================================
