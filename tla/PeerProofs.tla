----------------------------- MODULE PeerProofs -----------------------------
(***************************************************************************)
(* For every set of messages: each decoder understands what it gets of the *)
(* message it is for, and so the properties of Peer hold.                  *)
(***************************************************************************)
EXTENDS PeerLemmas

-----------------------------------------------------------------------------
(* The cases of the definitions, by the kind of message.                    *)

\* The kinds of messages are different.
LEMMA KindsDiffer ==
  /\ "error" # "ok" /\ "error" # "hello" /\ "error" # "login"
  /\ "error" # "query" /\ "error" # "prepared" /\ "error" # "execute"
  /\ "error" # "count" /\ "ok" # "hello" /\ "ok" # "login" /\ "ok" # "query"
  /\ "ok" # "prepared" /\ "ok" # "execute" /\ "ok" # "count"
  /\ "hello" # "login" /\ "hello" # "query" /\ "hello" # "prepared"
  /\ "hello" # "execute" /\ "hello" # "count" /\ "login" # "query"
  /\ "login" # "prepared" /\ "login" # "execute" /\ "login" # "count"
  /\ "query" # "prepared" /\ "query" # "execute" /\ "query" # "count"
  /\ "prepared" # "execute" /\ "prepared" # "count" /\ "execute" # "count"
  OBVIOUS

\* The decoder of each kind.
LEMMA DecodedCases ==
  ASSUME NEW m, NEW p
  PROVE  /\ m.kind = "error" => Decoded(m, p) = DecodeErrResponse(p)
         /\ m.kind = "ok" => Decoded(m, p) = DecodeOkResponse(p)
         /\ m.kind = "hello" => Decoded(m, p) = DecodeHandshakeV10(p)
         /\ m.kind = "login" => Decoded(m, p) = DecodeHandshakeResponse41(p)
         /\ m.kind = "query" => Decoded(m, p) = DecodeQueryRequest(p)
         /\ m.kind = "prepared" =>
              Decoded(m, p) = DecodeComStmtPrepareOkResponse(p)
         /\ m.kind = "execute" =>
              Decoded(m, p) = DecodeComStmtExecuteRequest(p, Len(m.params))
         /\ m.kind = "count" => Decoded(m, p) = Ok(NullBitmapLength(m.n))
  BY KindsDiffer, Zenon DEF Decoded

\* The body of each kind.
LEMMA BodyCases ==
  ASSUME NEW m
  PROVE  /\ m.kind = "error" => Body(m) = ErrorBody(m)
         /\ m.kind = "ok" => Body(m) = OkBody(m)
         /\ m.kind = "hello" => Body(m) = HelloBody(m)
         /\ m.kind = "login" => Body(m) = LoginBody(m)
         /\ m.kind = "query" => Body(m) = QueryBody(m)
         /\ m.kind = "prepared" => Body(m) = PreparedBody(m)
         /\ m.kind = "execute" => Body(m) = ExecuteBody(m)
  BY KindsDiffer, Zenon DEF Body

\* What each kind means.
LEMMA MeaningCases ==
  ASSUME NEW m
  PROVE  /\ m.kind = "error" => Meaning(m) = m.text
         /\ m.kind = "query" => Meaning(m) = m.text
         /\ m.kind = "ok" =>
              Meaning(m) = [type |-> 0, rows |-> m.rows, insert |-> m.insert]
         /\ m.kind = "hello" =>
              Meaning(m) =
                [version |-> m.version, server |-> m.server, id |-> m.id,
                 caps |-> m.caps,
                 plugin |-> IF Flag(m.caps, PluginAuth) THEN m.plugin ELSE <<>>]
         /\ m.kind = "login" =>
              Meaning(m) = [caps |-> m.caps, charset |-> m.charset]
         /\ m.kind = "prepared" =>
              Meaning(m) = [id |-> m.id, params |-> m.params]
         /\ m.kind = "execute" =>
              Meaning(m) =
                [id |-> m.id,
                 params |-> [j \in DOMAIN m.params |->
                               [type |-> m.params[j].type,
                                val |-> m.params[j].val,
                                flag |-> m.params[j].flag]]]
  BY KindsDiffer, Zenon DEF Meaning

\* A packet is the header of four bytes and the body.
LEMMA Encoded ==
  ASSUME NEW m, m.kind # "count", NEW b \in Seq(Octet), b = Body(m)
  PROVE  /\ Encode(m) \in Seq(Octet) /\ Len(Encode(m)) = 4 + Len(b)
         /\ Holds(Encode(m), 4, b)
  <1>1. PICK h : h = Number(Len(b), 3)
    OBVIOUS
  <1>2. h \in Seq(Octet) /\ Len(h) = 3
    <2>1. Len(b) \in Nat /\ 3 \in Nat
      OBVIOUS
    <2> QED
      BY <1>1, <2>1, NumberOctets
  <1>3. PICK z : z = << 0 >>
    OBVIOUS
  <1>4. z \in Seq(Octet) /\ Len(z) = 1
    <2>1. 0 \in Octet
      BY DEF Octet
    <2> QED
      BY <1>3, <2>1
  <1>5. Encode(m) = h \o z \o b
    BY <1>1, <1>3 DEF Encode
  <1>6. h \o z \in Seq(Octet) /\ Len(h \o z) = 4
    <2>1. h \o z \in Seq(Octet) /\ Len(h \o z) = Len(h) + Len(z)
      BY <1>2, <1>4, Join
    <2> QED
      BY <1>2, <1>4, <2>1
  <1>7. /\ (h \o z) \o b \in Seq(Octet)
        /\ Len((h \o z) \o b) = 4 + Len(b)
    BY <1>6, Join
  <1>8. PICK e : e = (h \o z) \o b
    OBVIOUS
  <1>9. PICK a : a = h \o z
    OBVIOUS
  <1>10. Holds(e, 0 + Len(a), b)
    <2>1. e \in Seq(Octet) /\ a \in Seq(Octet)
      BY <1>6, <1>7, <1>8, <1>9
    <2>2. Holds(e, 0, a \o b)
      BY <1>8, <1>9, <2>1, HoldsAll
    <2> QED
      BY <2>1, <2>2, HoldsParts, Zenon
  <1>11. 0 + Len(a) = 4
    BY <1>6, <1>9
  <1> QED
    BY <1>5, <1>7, <1>8, <1>10, <1>11

\* The same with the length of the body.
LEMMA EncodedSized ==
  ASSUME NEW m, m.kind # "count", NEW n, Sized(Body(m), n)
  PROVE  /\ Encode(m) \in Seq(Octet) /\ Len(Encode(m)) = 4 + n
         /\ Holds(Encode(m), 4, Body(m))
  BY Encoded DEF Sized

-----------------------------------------------------------------------------
(* What is proved of each kind of message.                                  *)

\* The results of a decoder.
Errors == {"nil", "length", "type", "EOF", "field", "panic"}

\* What the theorems say of the result r of decoding the part p of m.
Understood(m, p, r) ==
  /\ r.err \in Errors
  /\ r.err = "panic" => m.kind = "execute" /\ HasNull(m)
  /\ m.kind = "prepared" /\ r.err = "nil" => r.val.params \in Word
  /\ p = Encode(m) => Right(m, r)
  /\ r.err = "nil" => Faded(m, r.val)

\* The fields of a result.
LEMMA Results ==
  /\ \A v : Ok(v).err = "nil" /\ Ok(v).val = v
  /\ \A x : Fail(x).err = x
  BY DEF Ok, Fail

\* NullBitmapLength is not given a packet.
LEMMA CountUnderstood ==
  ASSUME NEW m \in CountMsgs, NEW p
  PROVE  Understood(m, p, Decoded(m, p))
  <1>1. m.kind = "count" /\ Decoded(m, p).err = "nil"
    BY DecodedCases, Results DEF CountMsgs
  <1> QED
    BY <1>1 DEF Understood, Errors, Right, Faded

\* The cases of DecodeQueryRequest.
LEMMA QueryCases ==
  ASSUME NEW p
  PROVE  /\ Len(p) < 6 => DecodeQueryRequest(p) = Fail("length")
         /\ Len(p) >= 6 /\ Byte(p, 4) \notin {ComQuery, ComStmtPrepare} =>
              DecodeQueryRequest(p) = Fail("type")
         /\ ~(Len(p) < 6) /\ Byte(p, 4) \in {ComQuery, ComStmtPrepare} =>
              DecodeQueryRequest(p) = Ok(ReadEOFLengthString(p, 5))
  <1>1. Len(p) < 6 => ~(Len(p) >= 6 /\ Byte(p, 4) \notin
                                         {ComQuery, ComStmtPrepare})
    <2> SUFFICES ASSUME Len(p) < 6, Len(p) >= 6 PROVE FALSE
      OBVIOUS
    <2> QED
      OBVIOUS
  <1> QED
    BY <1>1, Zenon DEF DecodeQueryRequest

\* Where the parts of a query are.
LEMMA QueryParts ==
  ASSUME NEW m \in QueryMsgs
  PROVE  /\ Encode(m) \in Seq(Octet) /\ Len(Encode(m)) = 5 + Len(m.text)
         /\ Holds(Encode(m), 4, <<m.type>>) /\ Holds(Encode(m), 5, m.text)
  <1>1. PICK e : e = Encode(m)
    OBVIOUS
  <1>2. PICK s \in Seq(Octet) : s = m.text
    BY DEF QueryMsgs
  <1>3. PICK x \in {ComQuery, ComStmtPrepare} : x = m.type
    BY DEF QueryMsgs
  <1>4. m.kind = "query" /\ Len(s) \in Nat /\ x \in Octet
    BY DEF QueryMsgs, ComQuery, ComStmtPrepare, Octet
  <1>5. Body(m) = <<x>> \o s
    BY <1>2, <1>3, <1>4, BodyCases DEF QueryBody
  <1>6. Sized(<<x>>, 1) /\ Sized(s, Len(s))
    BY <1>4, SizedByte DEF Sized
  <1>7. Sized(Body(m), 1 + Len(s))
    BY <1>5, <1>6, SizedJoin
  <1>8. /\ e \in Seq(Octet) /\ Len(e) = 4 + (1 + Len(s))
        /\ Holds(e, 4, <<x>> \o s)
    BY <1>1, <1>4, <1>5, <1>7, EncodedSized
  <1>9. Holds(e, 4, <<x>>) /\ Holds(e, 5, s)
    <2>1. Holds(e, 4, <<x>>) /\ Holds(e, 4 + 1, s)
      BY <1>6, <1>8, SizedSplit, Zenon
    <2> QED
      BY <2>1
  <1> QED
    BY <1>1, <1>2, <1>3, <1>4, <1>8, <1>9

\* DecodeQueryRequest understands queries.
LEMMA QueryUnderstood ==
  ASSUME NEW m \in QueryMsgs, NEW p, Beginning(p, Encode(m))
  PROVE  Understood(m, p, Decoded(m, p))
  <1>1. PICK r : r = Decoded(m, p)
    OBVIOUS
  <1>2. PICK e : e = Encode(m)
    OBVIOUS
  <1>3. PICK s \in Seq(Octet) : s = m.text
    BY DEF QueryMsgs
  <1>4. PICK x \in {ComQuery, ComStmtPrepare} : x = m.type
    BY DEF QueryMsgs
  <1>5. m.kind = "query" /\ Len(s) \in Nat
    BY DEF QueryMsgs
  <1>6. r = DecodeQueryRequest(p)
    BY <1>1, <1>5, DecodedCases
  <1>9. /\ e \in Seq(Octet) /\ Len(e) = 5 + Len(s)
        /\ Holds(e, 4, <<x>>) /\ Holds(e, 5, s)
    BY <1>2, <1>3, <1>4, QueryParts
  <1>11. Beginning(p, e) /\ Len(p) \in Nat
    BY <1>2 DEF Beginning
  <1>12. CASE Len(p) < 6
    <2>1. r.err = "length"
      BY <1>6, <1>12, QueryCases, Results
    <2>2. p = Encode(m) => m.text = <<>>
      <3> SUFFICES ASSUME p = e PROVE s = <<>>
        BY <1>2, <1>3
      <3>1. Len(s) = 0
        BY <1>5, <1>9, <1>12
      <3> QED
        BY <3>1
    <2>3. Understood(m, p, r)
      BY <1>5, <2>1, <2>2 DEF Understood, Errors, Right
    <2> QED
      BY <1>1, <2>3
  <1>13. CASE ~(Len(p) < 6)
    <2>1. Byte(p, 4) = x
      <3>1. Byte(p, 4) = IF 4 < Len(p) THEN x ELSE 0
        BY <1>9, <1>11, ByteRead
      <3> QED
        BY <1>11, <1>13, <3>1
    <2>2. r = Ok(ReadEOFLengthString(p, 5))
      BY <1>6, <1>13, <2>1, QueryCases
    <2>3. r.err = "nil" /\ r.val = ReadEOFLengthString(p, 5)
      BY <2>2, Results
    <2>4. FadedSeq(r.val, s) /\ (p = e => r.val = s)
      <3>1. Len(e) = 5 + Len(s) /\ 5 <= Len(p) /\ 5 \in Nat
        BY <1>5, <1>9, <1>11, <1>13
      <3> QED
        BY <1>9, <1>11, <2>3, <3>1, EofFaded
    <2>5. Meaning(m) = s
      BY <1>3, <1>5, MeaningCases
    <2>6. Understood(m, p, r)
      BY <1>2, <1>3, <1>5, <2>3, <2>4, <2>5
         DEF Understood, Errors, Right, Faded
    <2> QED
      BY <1>1, <2>6
  <1> QED
    BY <1>12, <1>13

\* Where the parts of an error are; u is what is taken for its message.
LEMMA ErrorParts ==
  ASSUME NEW m \in ErrorMsgs, NEW u, u = << 35 >> \o m.state \o m.text
  PROVE  /\ Encode(m) \in Seq(Octet) /\ u \in Seq(Octet)
         /\ Len(Encode(m)) = 7 + Len(u) /\ Len(u) >= 1
         /\ Holds(Encode(m), 4, << 255 >>) /\ Holds(Encode(m), 7, u)
  <1>2. PICK e : e = Encode(m)
    OBVIOUS
  <1>3. PICK s \in Seq(Octet) : s = m.state
    BY DEF ErrorMsgs
  <1>4. PICK t \in Seq(Octet) : t = m.text
    BY DEF ErrorMsgs
  <1>5. PICK c \in Text(2) : c = m.code
    BY DEF ErrorMsgs
  <1>6. m.kind = "error" /\ 255 \in Octet /\ 35 \in Octet
    BY DEF ErrorMsgs, Octet
  <1>7. Body(m) = << 255 >> \o c \o << 35 >> \o s \o t
    <2>1. Body(m) = ErrorBody(m)
      BY <1>6, BodyCases, Zenon
    <2>2. ErrorBody(m) = << 255 >> \o m.code \o << 35 >> \o m.state \o m.text
      BY Zenon DEF ErrorBody, ResponseErr
    <2> QED
      BY <1>3, <1>4, <1>5, <2>1, <2>2, Zenon
  <1>8. /\ Sized(<< 255 >>, 1) /\ Sized(<< 35 >>, 1) /\ Sized(c, 2)
        /\ Sized(s, Len(s)) /\ Sized(t, Len(t))
        /\ Len(s) \in Nat /\ Len(t) \in Nat
    <2>1. Sized(<< 255 >>, 1) /\ Sized(<< 35 >>, 1)
      BY <1>6, SizedByte
    <2>2. Sized(c, 2)
      <3>1. 2 \in Nat
        OBVIOUS
      <3> QED
        BY <3>1, SizedText
    <2> QED
      BY <2>1, <2>2 DEF Sized
  <1>f. Five(<< 255 >>, 1, c, 2, << 35 >>, 1, s, Len(s), t, Len(t))
    BY <1>8 DEF Five
  <1>9. Sized(Body(m), 1 + 2 + 1 + Len(s) + Len(t))
    BY <1>7, <1>f, SizedFive
  <1>10. /\ e \in Seq(Octet) /\ Len(e) = 4 + (1 + 2 + 1 + Len(s) + Len(t))
         /\ Holds(e, 4, << 255 >> \o c \o << 35 >> \o s \o t)
    BY <1>2, <1>6, <1>7, <1>9, EncodedSized
  <1>11. /\ Holds(e, 4, << 255 >>) /\ Holds(e, 4 + 1 + 2, << 35 >>)
         /\ Holds(e, 4 + 1 + 2 + 1, s)
         /\ Holds(e, 4 + 1 + 2 + 1 + Len(s), t)
    <2>1. 4 \in Nat
      OBVIOUS
    <2> QED
      BY <1>f, <1>10, <2>1, FiveParts
  <1>12. u = << 35 >> \o s \o t
    BY <1>3, <1>4
  <1>13. Sized(u, 1 + Len(s) + Len(t)) /\ Holds(e, 7, u)
    <2>1. Sized(<< 35 >> \o s, 1 + Len(s))
      BY <1>8, SizedJoin
    <2>2. Sized(u, 1 + Len(s) + Len(t))
      BY <1>8, <1>12, <2>1, SizedJoin
    <2>3. /\ Holds(e, 7, << 35 >>) /\ Holds(e, 8, s) /\ Holds(e, 8 + Len(s), t)
      BY <1>11
    <2>4. PICK a : a = << 35 >>
      OBVIOUS
    <2>5. a \in Seq(Octet) /\ Len(a) = 1
      BY <1>8, <2>4 DEF Sized
    <2>6. PICK b : b = a \o s
      OBVIOUS
    <2>7. Holds(e, 7, b)
      <3>1. Holds(e, 7 + Len(a), s) /\ Holds(e, 7, a)
        BY <2>3, <2>4, <2>5
      <3> QED
        BY <2>5, <2>6, <3>1, HoldsJoin
    <2>8. b \in Seq(Octet) /\ Len(b) = 1 + Len(s)
      BY <2>1, <2>4, <2>6 DEF Sized
    <2>9. 7 + Len(b) = 8 + Len(s)
      BY <1>8, <2>8
    <2>10. Holds(e, 7, b \o t)
      BY <2>3, <2>7, <2>8, <2>9, HoldsJoin
    <2> QED
      BY <1>12, <2>2, <2>4, <2>6, <2>10
  <1>14. u \in Seq(Octet) /\ Len(u) = 1 + Len(s) + Len(t)
    BY <1>13 DEF Sized
  <1>15. Len(e) = 7 + Len(u) /\ Len(u) >= 1
    <2>1. Len(e) = 4 + (1 + 2 + 1 + Len(s) + Len(t))
      BY <1>10
    <2>2. Len(u) = 1 + Len(s) + Len(t)
      BY <1>14
    <2>3. PICK x \in Nat, y \in Nat : x = Len(s) /\ y = Len(t)
      BY <1>8
    <2>4. Len(e) = 4 + (1 + 2 + 1 + x + y) /\ Len(u) = 1 + x + y
      BY <2>1, <2>2, <2>3
    <2>5. 4 + (1 + 2 + 1 + x + y) = 7 + (1 + x + y) /\ 1 + x + y >= 1
      OBVIOUS
    <2> QED
      BY <2>4, <2>5
  <1> QED
    BY <1>2, <1>10, <1>11, <1>13, <1>14, <1>15

\* DecodeErrResponse understands errors.
LEMMA ErrorUnderstood ==
  ASSUME NEW m \in ErrorMsgs, NEW p, Beginning(p, Encode(m))
  PROVE  Understood(m, p, Decoded(m, p))
  <1>1. PICK r : r = Decoded(m, p)
    OBVIOUS
  <1>2. PICK e : e = Encode(m)
    OBVIOUS
  <1>3. PICK u : u = << 35 >> \o m.state \o m.text
    OBVIOUS
  <1>6. m.kind = "error"
    BY DEF ErrorMsgs
  <1>7. r = DecodeErrResponse(p)
    BY <1>1, <1>6, DecodedCases
  <1>8. /\ e \in Seq(Octet) /\ u \in Seq(Octet) /\ Holds(e, 7, u)
        /\ Len(e) = 7 + Len(u) /\ Len(u) >= 1 /\ Len(u) \in Nat
    <2>1. /\ Encode(m) \in Seq(Octet) /\ u \in Seq(Octet)
          /\ Len(Encode(m)) = 7 + Len(u) /\ Len(u) >= 1
          /\ Holds(Encode(m), 7, u)
      BY <1>3, ErrorParts, Zenon
    <2> QED
      BY <1>2, <2>1
  <1>14. Beginning(p, e) /\ Len(p) \in Nat
    BY <1>2 DEF Beginning
  <1>15. CASE Len(p) < 8
    <2>1. r.err = "length"
      BY <1>7, <1>15, Results DEF DecodeErrResponse
    <2>2. p # e
      BY <1>8, <1>14, <1>15
    <2>3. Understood(m, p, r)
      BY <1>2, <1>6, <2>1, <2>2 DEF Understood, Errors
    <2> QED
      BY <1>1, <2>3
  <1>16. CASE ~(Len(p) < 8)
    <2>1. r = Ok(ReadEOFLengthString(p, 7))
      BY <1>7, <1>16 DEF DecodeErrResponse
    <2>2. r.err = "nil" /\ r.val = ReadEOFLengthString(p, 7)
      BY <2>1, Results
    <2>3. p = e => r.val = u
      <3>1. Len(e) = 7 + Len(u) /\ 7 <= Len(p) /\ 7 \in Nat
        BY <1>8, <1>14, <1>16
      <3> QED
        BY <1>8, <1>14, <2>2, <3>1, EofFaded
    <2>4. Understood(m, p, r)
      BY <1>2, <1>3, <1>6, <2>2, <2>3
         DEF Understood, Errors, Right, Faded
    <2> QED
      BY <1>1, <2>4
  <1> QED
    BY <1>15, <1>16

\* Where the parts of the client's handshake are.
LEMMA LoginParts ==
  ASSUME NEW m \in LoginMsgs
  PROVE  /\ Encode(m) \in Seq(Octet) /\ Len(Encode(m)) = 17
         /\ Holds(Encode(m), 4, m.caps) /\ Holds(Encode(m), 12, <<m.charset>>)
  <1>2. PICK e : e = Encode(m)
    OBVIOUS
  <1>3. PICK c \in Text(4) : c = m.caps
    BY DEF LoginMsgs
  <1>4. PICK x \in Octet : x = m.charset
    BY DEF LoginMsgs
  <1>5. m.kind = "login" /\ 4 \in Nat
    BY DEF LoginMsgs
  <1>6. PICK f : f = Fill(4)
    OBVIOUS
  <1>7. Body(m) = c \o f \o <<x>> \o f
    BY <1>3, <1>4, <1>5, <1>6, BodyCases DEF LoginBody
  <1>8. Four(c, 4, f, 4, <<x>>, 1, f, 4)
    <2>1. Sized(c, 4)
      BY <1>5, SizedText
    <2>2. Sized(f, 4)
      BY <1>5, <1>6, SizedFill
    <2>3. Sized(<<x>>, 1)
      BY SizedByte
    <2> QED
      BY <2>1, <2>2, <2>3 DEF Four
  <1>9. Sized(Body(m), 4 + 4 + 1 + 4)
    BY <1>7, <1>8, SizedFour
  <1>10. /\ e \in Seq(Octet) /\ Len(e) = 4 + (4 + 4 + 1 + 4)
         /\ Holds(e, 4, c \o f \o <<x>> \o f)
    BY <1>2, <1>5, <1>7, <1>9, EncodedSized
  <1>11. Holds(e, 4, c) /\ Holds(e, 4 + 4 + 4, <<x>>)
    BY <1>5, <1>8, <1>10, FourParts
  <1>12. Len(e) = 17 /\ Holds(e, 12, <<x>>)
    BY <1>10, <1>11
  <1> QED
    BY <1>2, <1>3, <1>4, <1>10, <1>11, <1>12

\* DecodeHandshakeResponse41 understands it.
LEMMA LoginUnderstood ==
  ASSUME NEW m \in LoginMsgs, NEW p, Beginning(p, Encode(m))
  PROVE  Understood(m, p, Decoded(m, p))
  <1>1. PICK r : r = Decoded(m, p)
    OBVIOUS
  <1>2. PICK e : e = Encode(m)
    OBVIOUS
  <1>3. PICK c \in Text(4) : c = m.caps
    BY DEF LoginMsgs
  <1>4. PICK x \in Octet : x = m.charset
    BY DEF LoginMsgs
  <1>5. m.kind = "login"
    BY DEF LoginMsgs
  <1>7. r = DecodeHandshakeResponse41(p)
    BY <1>1, <1>5, DecodedCases
  <1>10. /\ e \in Seq(Octet) /\ Len(e) = 17
         /\ Holds(e, 4, c) /\ Holds(e, 12, <<x>>)
    BY <1>2, <1>3, <1>4, LoginParts
  <1>12. Beginning(p, e) /\ Len(p) \in Nat
    BY <1>2 DEF Beginning
  <1>13. CASE Len(p) <= 12
    <2>1. r.err = "EOF"
      BY <1>7, <1>12, <1>13, Results DEF DecodeHandshakeResponse41, Has
    <2>2. p # e
      <3>1. Len(e) = 17
        BY <1>10
      <3>2. \A n \in Nat : n <= 12 => n # 17
        OBVIOUS
      <3> QED
        BY <1>12, <1>13, <3>1, <3>2
    <2>3. Understood(m, p, r)
      BY <1>2, <1>5, <2>1, <2>2 DEF Understood, Errors
    <2> QED
      BY <1>1, <2>3
  <1>14. CASE ~(Len(p) <= 12)
    <2>1. r = Ok([caps |-> Bytes(p, 4, 4), charset |-> Byte(p, 12)])
      BY <1>7, <1>12, <1>14 DEF DecodeHandshakeResponse41, Has
    <2>2. Bytes(p, 4, 4) = c
      <3>1. Len(c) = 4
        BY DEF Text
      <3>2. 4 + Len(c) <= Len(p)
        BY <1>12, <1>14, <3>1
      <3>3. Bytes(p, 4, Len(c)) = c
        BY <1>10, <1>12, <3>2, BytesFaded
      <3> QED
        BY <3>1, <3>3
    <2>3. Byte(p, 12) = x
      <3>1. Byte(p, 12) = IF 12 < Len(p) THEN x ELSE 0
        BY <1>10, <1>12, ByteRead
      <3> QED
        BY <1>12, <1>14, <3>1
    <2>4. r.err = "nil" /\ r.val = [caps |-> c, charset |-> x]
      BY <2>1, <2>2, <2>3, Results
    <2>5. Meaning(m) = [caps |-> c, charset |-> x]
      BY <1>3, <1>4, <1>5, MeaningCases
    <2>6. Understood(m, p, r)
      BY <1>5, <2>4, <2>5 DEF Understood, Errors, Right, Faded
    <2> QED
      BY <1>1, <2>6
  <1> QED
    BY <1>13, <1>14

\* A number of 16 bits is a natural number.
LEMMA WordNat ==
  ASSUME NEW v \in Word
  PROVE  v \in Nat
  BY DEF Word

\* The cases of DecodeComStmtPrepareOkResponse.
LEMMA PreparedCases ==
  ASSUME NEW p
  PROVE  /\ Len(p) < 16 => DecodeComStmtPrepareOkResponse(p) = Fail("length")
         /\ ~(Len(p) < 16) /\ Byte(p, 4) = ResponseOk =>
              DecodeComStmtPrepareOkResponse(p) =
                Ok([id |-> Bytes(p, 5, 4),
                    params |-> LittleEndian(Bytes(p, 11, 2))])
  <1>1. Len(p) < 16 => ~(Len(p) >= 16 /\ Byte(p, 4) # ResponseOk)
    <2> SUFFICES ASSUME Len(p) < 16, Len(p) >= 16 PROVE FALSE
      OBVIOUS
    <2> QED
      OBVIOUS
  <1> QED
    BY <1>1, Zenon DEF DecodeComStmtPrepareOkResponse

\* Where the parts of the answer to COM_STMT_PREPARE are.
LEMMA PreparedParts ==
  ASSUME NEW m \in PreparedMsgs
  PROVE  /\ Encode(m) \in Seq(Octet) /\ Len(Encode(m)) = 16
         /\ Holds(Encode(m), 4, <<ResponseOk>>) /\ Holds(Encode(m), 5, m.id)
         /\ Holds(Encode(m), 11, Number(m.params, 2))
  <1>2. PICK e : e = Encode(m)
    OBVIOUS
  <1>3. PICK c \in Text(4) : c = m.id
    BY DEF PreparedMsgs
  <1>4. PICK v \in Word : v = m.params
    BY DEF PreparedMsgs
  <1>5. m.kind = "prepared" /\ 4 \in Nat /\ 2 \in Nat /\ 3 \in Nat
    BY DEF PreparedMsgs
  <1>6. PICK a : a = <<ResponseOk>>
    OBVIOUS
  <1>7. PICK f : f = Fill(3)
    OBVIOUS
  <1>8. PICK n1 : n1 = Number(m.columns, 2)
    OBVIOUS
  <1>9. PICK n2 : n2 = Number(v, 2)
    OBVIOUS
  <1>10. Body(m) = a \o c \o n1 \o n2 \o f
    BY <1>3, <1>4, <1>5, <1>6, <1>7, <1>8, <1>9, BodyCases DEF PreparedBody
  <1>11. v \in Nat
    BY WordNat
  <1>12. Five(a, 1, c, 4, n1, 2, n2, 2, f, 3)
    <2>1. ResponseOk \in Octet /\ m.columns \in Nat
      <3>1. m.columns \in Word
        BY DEF PreparedMsgs
      <3>2. m.columns \in Nat
        BY <3>1, WordNat
      <3> QED
        BY <3>2 DEF ResponseOk, Octet
    <2>2. Sized(a, 1)
      BY <1>6, <2>1, SizedByte
    <2>3. Sized(c, 4)
      BY <1>5, SizedText
    <2>4. Sized(n1, 2)
      BY <1>5, <1>8, <2>1, SizedNumber
    <2>5. Sized(n2, 2)
      BY <1>5, <1>9, <1>11, SizedNumber
    <2>6. Sized(f, 3)
      BY <1>5, <1>7, SizedFill
    <2> QED
      BY <2>2, <2>3, <2>4, <2>5, <2>6 DEF Five
  <1>13. Sized(Body(m), 1 + 4 + 2 + 2 + 3)
    BY <1>10, <1>12, SizedFive
  <1>14. /\ e \in Seq(Octet) /\ Len(e) = 4 + (1 + 4 + 2 + 2 + 3)
         /\ Holds(e, 4, a \o c \o n1 \o n2 \o f)
    BY <1>2, <1>5, <1>10, <1>13, EncodedSized
  <1>15. /\ Holds(e, 4, a) /\ Holds(e, 4 + 1, c)
         /\ Holds(e, 4 + 1 + 4 + 2, n2)
    BY <1>5, <1>12, <1>14, FiveParts
  <1>16. /\ Len(e) = 16 /\ Holds(e, 5, c) /\ Holds(e, 11, n2)
    BY <1>14, <1>15
  <1> QED
    BY <1>2, <1>3, <1>4, <1>6, <1>9, <1>14, <1>15, <1>16

\* DecodeComStmtPrepareOkResponse understands it.
LEMMA PreparedUnderstood ==
  ASSUME NEW m \in PreparedMsgs, NEW p, Beginning(p, Encode(m))
  PROVE  Understood(m, p, Decoded(m, p))
  <1>1. PICK r : r = Decoded(m, p)
    OBVIOUS
  <1>2. PICK e : e = Encode(m)
    OBVIOUS
  <1>3. PICK c \in Text(4) : c = m.id
    BY DEF PreparedMsgs
  <1>4. PICK v \in Word : v = m.params
    BY DEF PreparedMsgs
  <1>5. m.kind = "prepared"
    BY DEF PreparedMsgs
  <1>10. r = DecodeComStmtPrepareOkResponse(p)
    BY <1>1, <1>5, DecodedCases
  <1>11. v \in Nat /\ v < 65536 /\ v \in Count
    BY WordNat DEF Word, Count
  <1>14. /\ e \in Seq(Octet) /\ Len(e) = 16 /\ Holds(e, 4, <<ResponseOk>>)
         /\ Holds(e, 5, c) /\ Holds(e, 11, Number(v, 2))
    BY <1>2, <1>3, <1>4, PreparedParts
  <1>16. Beginning(p, e) /\ Len(p) \in Nat
    BY <1>2 DEF Beginning
  <1>17. CASE Len(p) < 16
    <2>1. r.err = "length"
      BY <1>10, <1>17, PreparedCases, Results
    <2>2. p # e
      <3>1. Len(e) = 16
        BY <1>14
      <3>2. \A n \in Nat : n < 16 => n # 16
        OBVIOUS
      <3> QED
        BY <1>16, <1>17, <3>1, <3>2
    <2>3. Understood(m, p, r)
      BY <1>2, <1>5, <2>1, <2>2 DEF Understood, Errors
    <2> QED
      BY <1>1, <2>3
  <1>18. CASE ~(Len(p) < 16)
    <2>1. Byte(p, 4) = ResponseOk
      <3>1. Byte(p, 4) = IF 4 < Len(p) THEN ResponseOk ELSE 0
        BY <1>14, <1>16, ByteRead
      <3> QED
        BY <1>16, <1>18, <3>1
    <2>2. r = Ok([id |-> Bytes(p, 5, 4),
                  params |-> LittleEndian(Bytes(p, 11, 2))])
      BY <1>10, <1>18, <2>1, PreparedCases
    <2>3. Bytes(p, 5, 4) = c
      <3>1. Len(c) = 4 /\ Holds(e, 5, c)
        BY <1>14 DEF Text
      <3>2. 5 + Len(c) <= Len(p)
        BY <1>16, <1>18, <3>1
      <3>3. Bytes(p, 5, Len(c)) = c
        BY <1>16, <3>1, <3>2, BytesFaded
      <3> QED
        BY <3>1, <3>3
    <2>4. LittleEndian(Bytes(p, 11, 2)) = v
      <3>2. Fits(v, 2) /\ 2 \in {2, 3, 8} /\ 11 + 2 <= Len(p)
        BY <1>11, <1>16, <1>18 DEF Fits
      <3> QED
        BY <1>11, <1>14, <1>16, <3>2, NumberRead
    <2>5. r.err = "nil" /\ r.val = [id |-> c, params |-> v]
      BY <2>2, <2>3, <2>4, Results
    <2>6. Meaning(m) = [id |-> c, params |-> v]
      BY <1>3, <1>4, <1>5, MeaningCases
    <2>7. Understood(m, p, r)
      BY <1>5, <2>5, <2>6 DEF Understood, Errors, Right, Faded
    <2> QED
      BY <1>1, <2>7
  <1> QED
    BY <1>17, <1>18

\* Where the parts of an OK are.
LEMMA OkParts ==
  ASSUME NEW m \in OkMsgs, NEW x, x = LenEnc(m.rows),
         NEW y, y = LenEnc(m.insert)
  PROVE  /\ Encode(m) \in Seq(Octet) /\ Len(x) \in Nat /\ Len(y) \in Nat
         /\ Len(Encode(m)) = 9 + Len(x) + Len(y)
         /\ Holds(Encode(m), 4, <<ResponseOk>>) /\ Holds(Encode(m), 5, x)
         /\ Holds(Encode(m), 5 + Len(x), y)
  <1>2. PICK e : e = Encode(m)
    OBVIOUS
  <1>3. PICK u \in Count : u = m.rows
    BY DEF OkMsgs
  <1>4. PICK v \in Count : v = m.insert
    BY DEF OkMsgs
  <1>5. m.kind = "ok" /\ 4 \in Nat /\ u \in Nat /\ v \in Nat
    BY CountNat DEF OkMsgs
  <1>6. PICK a : a = <<ResponseOk>>
    OBVIOUS
  <1>7. PICK f : f = Fill(4)
    OBVIOUS
  <1>8. x = LenEnc(u)
    BY <1>3
  <1>9. y = LenEnc(v)
    BY <1>4
  <1>10. Body(m) = a \o x \o y \o f
    BY <1>3, <1>4, <1>5, <1>6, <1>7, <1>8, <1>9, BodyCases DEF OkBody
  <1>11. Four(a, 1, x, Len(x), y, Len(y), f, 4)
    <2>1. ResponseOk \in Octet
      BY DEF ResponseOk, Octet
    <2>2. Sized(a, 1)
      BY <1>6, <2>1, SizedByte
    <2>3. x \in Seq(Octet) /\ y \in Seq(Octet)
      BY <1>8, <1>9, LenEncOctets
    <2>4. Sized(f, 4)
      BY <1>5, <1>7, SizedFill
    <2> QED
      BY <2>2, <2>3, <2>4 DEF Four, Sized
  <1>12. Sized(Body(m), 1 + Len(x) + Len(y) + 4)
    BY <1>10, <1>11, SizedFour
  <1>13. /\ e \in Seq(Octet) /\ Len(e) = 4 + (1 + Len(x) + Len(y) + 4)
         /\ Holds(e, 4, a \o x \o y \o f)
    BY <1>2, <1>5, <1>10, <1>12, EncodedSized
  <1>14. /\ Holds(e, 4, a) /\ Holds(e, 5, x) /\ Holds(e, 5 + Len(x), y)
    <2>1. /\ Holds(e, 4, a) /\ Holds(e, 4 + 1, x) /\ Holds(e, 4 + 1 + Len(x), y)
      BY <1>5, <1>11, <1>13, FourParts
    <2> QED
      BY <2>1
  <1>15. Len(x) \in Nat /\ Len(y) \in Nat
    BY <1>11 DEF Four, Sized
  <1>16. Len(e) = 9 + Len(x) + Len(y)
    <2>1. PICK i \in Nat, j \in Nat : i = Len(x) /\ j = Len(y)
      BY <1>15
    <2>2. 4 + (1 + i + j + 4) = 9 + i + j
      OBVIOUS
    <2> QED
      BY <1>13, <2>1, <2>2
  <1> QED
    BY <1>2, <1>6, <1>13, <1>14, <1>15, <1>16

\* DecodeOkResponse understands OKs.
LEMMA OkUnderstood ==
  ASSUME NEW m \in OkMsgs, NEW p, Beginning(p, Encode(m))
  PROVE  Understood(m, p, Decoded(m, p))
  <1>1. PICK r : r = Decoded(m, p)
    OBVIOUS
  <1>2. PICK e : e = Encode(m)
    OBVIOUS
  <1>3. PICK u \in Count : u = m.rows
    BY DEF OkMsgs
  <1>4. PICK v \in Count : v = m.insert
    BY DEF OkMsgs
  <1>5. m.kind = "ok" /\ u \in Nat /\ v \in Nat
    BY CountNat DEF OkMsgs
  <1>8. PICK x : x = LenEnc(u)
    OBVIOUS
  <1>9. PICK y : y = LenEnc(v)
    OBVIOUS
  <1>10. r = DecodeOkResponse(p)
    BY <1>1, <1>5, DecodedCases
  <1>13. /\ e \in Seq(Octet) /\ Len(x) \in Nat /\ Len(y) \in Nat
         /\ Len(e) = 9 + Len(x) + Len(y)
         /\ Holds(e, 4, <<ResponseOk>>) /\ Holds(e, 5, x)
         /\ Holds(e, 5 + Len(x), y)
    BY <1>2, <1>3, <1>4, <1>8, <1>9, OkParts
  <1>15. Beginning(p, e) /\ Len(p) \in Nat /\ p \in Seq(Octet)
    BY <1>2 DEF Beginning
  <1>17. CASE Len(p) < 5
    <2>1. r.err = "length"
      BY <1>10, <1>17, Results DEF DecodeOkResponse
    <2>2. p # e
      BY <1>13, <1>17
    <2>3. Understood(m, p, r)
      BY <1>2, <1>5, <2>1, <2>2 DEF Understood, Errors
    <2> QED
      BY <1>1, <2>3
  <1>18. CASE ~(Len(p) < 5)
    <2>1. Byte(p, 4) = 0
      <3>1. Byte(p, 4) = IF 4 < Len(p) THEN ResponseOk ELSE 0
        BY <1>13, <1>15, ByteRead
      <3> QED
        BY <3>1 DEF ResponseOk
    <2>2. PICK k : k = ReadLenEncodedInteger(p, 5)
      OBVIOUS
    <2>3. PICK l : l = ReadLenEncodedInteger(p, k.next)
      OBVIOUS
    <2>4. r.err = "nil"
          /\ r.val = [type |-> 0, rows |-> k.val, insert |-> l.val]
      BY <1>10, <1>18, <2>1, <2>2, <2>3, Results DEF DecodeOkResponse
    <2>5. Reads(k, p, 5, u, Len(x))
      BY <1>8, <1>13, <1>15, <2>2, LenEncRead
    <2>6. l.val \in Nat /\ l.val <= v /\ (p = e => l.val = v)
      <3>1. CASE 5 < Len(p)
        <4>1. k.next = 5 + Len(x)
          BY <2>5, <3>1 DEF Reads
        <4>2. Reads(l, p, 5 + Len(x), v, Len(y))
          BY <1>9, <1>13, <1>15, <2>3, <4>1, LenEncRead
        <4>3. p = e => 5 + Len(x) + Len(y) <= Len(p)
          BY <1>13
        <4> QED
          BY <4>2, <4>3 DEF Reads
      <3>2. CASE ~(5 < Len(p))
        <4>1. k.next = 6
          BY <2>5, <3>2 DEF Reads
        <4>2. 6 \in Nat /\ 6 >= Len(p)
          BY <1>15, <3>2
        <4>3. l.val = 0
          BY <1>15, <2>3, <4>1, <4>2, PastInteger
        <4>4. p # e
          BY <1>13, <3>2
        <4> QED
          BY <1>5, <4>3, <4>4
      <3> QED
        BY <3>1, <3>2
    <2>7. k.val <= u /\ (p = e => k.val = u)
      <3>1. p = e => 5 + Len(x) <= Len(p)
        BY <1>13
      <3> QED
        BY <2>5, <3>1 DEF Reads
    <2>8. Meaning(m) = [type |-> 0, rows |-> u, insert |-> v]
      BY <1>3, <1>4, <1>5, MeaningCases
    <2>9. p = e => r.val = Meaning(m)
      BY <2>4, <2>6, <2>7, <2>8
    <2>10. r.val.rows <= m.rows /\ r.val.insert <= m.insert
      BY <1>3, <1>4, <2>4, <2>6, <2>7
    <2>11. Understood(m, p, r)
      BY <1>2, <1>5, <2>4, <2>9, <2>10 DEF Understood, Errors, Right, Faded
    <2> QED
      BY <1>1, <2>11
  <1> QED
    BY <1>17, <1>18

-----------------------------------------------------------------------------
(* The handshake.                                                           *)

\* The length of the seed that is sent with the handshake.
SeedLength(m) ==
  IF Flag(m.caps, SecureConnection)
  THEN IF m.seed > 21 THEN m.seed - 8 ELSE 13 ELSE 0

\* Where the parts of a handshake are, if the ID of the connection is at i.
Handshake(e, m, i) ==
  /\ i = 6 + Len(m.server)
  /\ Holds(e, 4, <<m.version>>) /\ Holds(e, 5, m.server)
  /\ Holds(e, i - 1, << 0 >>) /\ Holds(e, i, m.id)
  /\ Holds(e, i + 13, <<m.caps[1], m.caps[2]>>)
  /\ Holds(e, i + 18, <<m.caps[3], m.caps[4]>>)
  /\ Holds(e, i + 20, <<IF Flag(m.caps, PluginAuth) THEN m.seed ELSE 0>>)
  /\ Len(e) > i + 20
  /\ Flag(m.caps, PluginAuth) =>
       /\ Holds(e, i + 31 + SeedLength(m), m.plugin)
       /\ Holds(e, i + 31 + SeedLength(m) + Len(m.plugin), << 0 >>)

\* A handshake has its parts there.
LEMMA HandshakeParts ==
  ASSUME NEW m \in HelloMsgs
  PROVE  /\ Encode(m) \in Seq(Octet)
         /\ Handshake(Encode(m), m, 6 + Len(m.server))
  <1>1. PICK e : e = Encode(m)
    OBVIOUS
  <1>2. PICK s \in NonNul : s = m.server
    BY DEF HelloMsgs
  <1>3. PICK u \in NonNul : u = m.plugin
    BY DEF HelloMsgs
  <1>4. PICK c \in Text(4) : c = m.caps
    BY DEF HelloMsgs
  <1>5. PICK d \in Text(4) : d = m.id
    BY DEF HelloMsgs
  <1>6. m.kind = "hello" /\ m.version \in Octet /\ m.seed \in Octet
    BY DEF HelloMsgs
  <1>7. /\ 0 \in Octet /\ 4 \in Nat /\ 8 \in Nat /\ 3 \in Nat /\ 10 \in Nat
        /\ 0 \in Nat
    BY DEF Octet
  <1>8. PICK v : v = <<m.version>>
    OBVIOUS
  <1>9. PICK z : z = << 0 >>
    OBVIOUS
  <1>10. PICK c1 : c1 = <<c[1], c[2]>>
    OBVIOUS
  <1>11. PICK c2 : c2 = <<c[3], c[4]>>
    OBVIOUS
  <1>12. PICK x : x = <<IF Flag(c, PluginAuth) THEN m.seed ELSE 0>>
    OBVIOUS
  <1>13. PICK y : y = IF Flag(c, SecureConnection)
                      THEN Fill(IF m.seed > 21 THEN m.seed - 8 ELSE 13)
                      ELSE <<>>
    OBVIOUS
  <1>14. PICK w : w = IF Flag(c, PluginAuth) THEN u \o z ELSE <<>>
    OBVIOUS
  <1>15. PICK f8 : f8 = Fill(8)
    OBVIOUS
  <1>16. PICK f3 : f3 = Fill(3)
    OBVIOUS
  <1>17. PICK n : n = Number(0, 10)
    OBVIOUS
  <1>18. Body(m) = v \o s \o z \o d \o f8 \o z \o c1 \o f3 \o c2 \o x \o n
                     \o y \o w
    <2>1. Body(m) = HelloBody(m)
      BY <1>6, BodyCases
    <2> QED
      BY <2>1, <1>2, <1>3, <1>4, <1>5, <1>8, <1>9, <1>10, <1>11, <1>12, <1>13,
         <1>14, <1>15, <1>16, <1>17 DEF HelloBody
  <1>19. PICK b1 : b1 = v \o s \o z \o d \o f8
    OBVIOUS
  <1>20. PICK b2 : b2 = b1 \o z \o c1 \o f3 \o c2
    OBVIOUS
  <1>21. Body(m) = b2 \o x \o n \o y \o w
    BY <1>18, <1>19, <1>20
  <1>22. /\ Len(s) \in Nat /\ s \in Seq(Octet)
         /\ Len(u) \in Nat /\ u \in Seq(Octet)
    BY NonNulOctets
  <1>23. Sized(v, 1) /\ Sized(z, 1)
    BY <1>6, <1>7, <1>8, <1>9, SizedByte
  <1>24. Sized(s, Len(s)) /\ Sized(d, 4)
    BY <1>7, <1>22, SizedText DEF Sized
  <1>25. Sized(f8, 8) /\ Sized(f3, 3) /\ Sized(n, 10)
    BY <1>7, <1>15, <1>16, <1>17, SizedFill, SizedNumber
  <1>26. Sized(c1, 2) /\ Sized(c2, 2)
    <2>1. c \in Seq(Octet) /\ Len(c) = 4
      BY DEF Text
    <2>2. c[1] \in Octet /\ c[2] \in Octet /\ c[3] \in Octet /\ c[4] \in Octet
      BY <2>1, FourOf, Zenon
    <2> QED
      BY <1>10, <1>11, <2>2, SizedPair
  <1>27. Sized(x, 1)
    BY <1>6, <1>7, <1>12, SizedByte
  <1>28. PICK ly : ly = SeedLength(m)
    OBVIOUS
  <1>29. Sized(y, ly)
    <2>1. Sized(<<>>, 0)
      BY DEF Sized
    <2>2. PICK k : k = IF m.seed > 21 THEN m.seed - 8 ELSE 13
      OBVIOUS
    <2>3. k \in Nat
      BY <1>6, <2>2 DEF Octet
    <2>4. Sized(Fill(k), k)
      BY <2>3, SizedFill
    <2> QED
      BY <1>4, <1>13, <1>28, <2>1, <2>2, <2>4 DEF SeedLength
  <1>30. PICK lw : lw = Len(w)
    OBVIOUS
  <1>31. Sized(w, lw)
    <2>1. u \o z \in Seq(Octet) /\ <<>> \in Seq(Octet)
      BY <1>22, <1>23 DEF Sized
    <2>2. w \in Seq(Octet)
      BY <1>14, <2>1
    <2> QED
      BY <1>30, <2>2 DEF Sized
  <1>32. Five(v, 1, s, Len(s), z, 1, d, 4, f8, 8)
    BY <1>23, <1>24, <1>25 DEF Five
  <1>33. PICK l1 : l1 = 1 + Len(s) + 1 + 4 + 8
    OBVIOUS
  <1>34. Sized(b1, l1)
    BY <1>19, <1>32, <1>33, SizedFive
  <1>35. Five(b1, l1, z, 1, c1, 2, f3, 3, c2, 2)
    BY <1>23, <1>25, <1>26, <1>34 DEF Five
  <1>36. PICK l2 : l2 = l1 + 1 + 2 + 3 + 2
    OBVIOUS
  <1>37. Sized(b2, l2)
    BY <1>20, <1>35, <1>36, SizedFive
  <1>38. Five(b2, l2, x, 1, n, 10, y, ly, w, lw)
    BY <1>25, <1>27, <1>29, <1>31, <1>37 DEF Five
  <1>39. PICK l3 : l3 = l2 + 1 + 10 + ly + lw
    OBVIOUS
  <1>40. Sized(Body(m), l3)
    BY <1>21, <1>38, <1>39, SizedFive
  <1>41. /\ e \in Seq(Octet) /\ Len(e) = 4 + l3
         /\ Holds(e, 4, b2 \o x \o n \o y \o w)
    <2>1. m.kind # "count"
      BY <1>6
    <2> QED
      BY <1>1, <1>21, <1>40, <2>1, EncodedSized
  <1>42. /\ Holds(e, 4, b2) /\ Holds(e, 4 + l2, x)
         /\ Holds(e, 4 + l2 + 1 + 10 + ly, w)
    BY <1>7, <1>38, <1>41, FiveParts
  <1>43. /\ Holds(e, 4, b1) /\ Holds(e, 4 + l1 + 1, c1)
         /\ Holds(e, 4 + l1 + 1 + 2 + 3, c2)
    BY <1>7, <1>20, <1>35, <1>42, FiveParts
  <1>44. /\ Holds(e, 4, v) /\ Holds(e, 4 + 1, s) /\ Holds(e, 4 + 1 + Len(s), z)
         /\ Holds(e, 4 + 1 + Len(s) + 1, d)
    BY <1>7, <1>19, <1>32, <1>43, FiveParts
  <1>45. ly \in Nat /\ lw \in Nat
    BY <1>29, <1>31 DEF Sized
  <1>46. PICK i \in Nat : i = 6 + Len(s)
    BY <1>22
  <1>47. /\ 4 + 1 = 5 /\ 4 + 1 + Len(s) = i - 1 /\ 4 + 1 + Len(s) + 1 = i
         /\ 4 + l1 + 1 = i + 13 /\ 4 + l1 + 1 + 2 + 3 = i + 18
         /\ 4 + l2 = i + 20 /\ 4 + l2 + 1 + 10 + ly = i + 31 + ly
    BY <1>22, <1>33, <1>36, <1>45, <1>46
  <1>48. Len(e) > i + 20
    BY <1>22, <1>33, <1>36, <1>39, <1>41, <1>45, <1>46
  <1>49. ASSUME Flag(c, PluginAuth)
         PROVE  Holds(e, i + 31 + ly, u) /\ Holds(e, i + 31 + ly + Len(u), z)
    <2>1. Holds(e, i + 31 + ly, u \o z)
      BY <1>14, <1>42, <1>47, <1>49
    <2> QED
      BY <1>22, <1>23, <2>1, SizedSplit DEF Sized
  <1>50. Handshake(e, m, i)
    BY <1>2, <1>3, <1>4, <1>5, <1>8, <1>9, <1>10, <1>11, <1>12, <1>28, <1>42,
       <1>43, <1>44, <1>46, <1>47, <1>48, <1>49 DEF Handshake
  <1> QED
    BY <1>1, <1>2, <1>41, <1>46, <1>50

\* DecodeHandshakeV10 without the second half of the capabilities,
LEMMA HelloCut ==
  ASSUME NEW p, NEW i, i = NulFrom(p, 5) + 1, ~Has(p, i + 18)
  PROVE  DecodeHandshakeV10(p) = Fail("EOF")
  BY Zenon DEF DecodeHandshakeV10

\* with all of what it needs but the seed's length,
LEMMA HelloRead ==
  ASSUME NEW p, NEW i, i = NulFrom(p, 5) + 1, Has(p, i + 18),
         NEW caps, caps = Bytes(p, i + 13, 2) \o Bytes(p, i + 18, 2)
  PROVE  /\ ~Flag(caps, PluginAuth) =>
              DecodeHandshakeV10(p) =
                Ok([version |-> Byte(p, 4),
                    server  |-> ReadNullTerminatedString(p, 5),
                    id      |-> Bytes(p, i, 4),
                    caps    |-> caps,
                    plugin  |-> <<>>])
         /\ Flag(caps, PluginAuth) /\ ~Has(p, i + 20) =>
              DecodeHandshakeV10(p) = Fail("EOF")
  BY Zenon DEF DecodeHandshakeV10

\* The plugin's name is read after a salt of length bytes.
SaltRead(p, i, caps, seed, length) ==
  /\ i = NulFrom(p, 5) + 1 /\ Has(p, i + 18) /\ Has(p, i + 20)
  /\ caps = Bytes(p, i + 13, 2) \o Bytes(p, i + 18, 2)
  /\ Flag(caps, PluginAuth)
  /\ seed = IF Byte(p, i + 20) > 21 THEN Byte(p, i + 20) - 8 ELSE 13
  /\ length = IF ~Flag(caps, SecureConnection) THEN 0 ELSE seed

\* and with that as well.
LEMMA HelloPlugin ==
  ASSUME NEW p, NEW i, NEW caps, NEW seed, NEW length,
         SaltRead(p, i, caps, seed, length)
  PROVE  DecodeHandshakeV10(p) =
           Ok([version |-> Byte(p, 4),
               server  |-> ReadNullTerminatedString(p, 5),
               id      |-> Bytes(p, i, 4),
               caps    |-> caps,
               plugin  |-> ReadNullTerminatedString(p, i + 30 + 1 + length)])
  BY Zenon DEF DecodeHandshakeV10, SaltRead

\* DecodeHandshakeV10 understands the server's handshake.
LEMMA HelloUnderstood ==
  ASSUME NEW m \in HelloMsgs, NEW p, Beginning(p, Encode(m))
  PROVE  Understood(m, p, Decoded(m, p))
  <1>1. PICK r : r = Decoded(m, p)
    OBVIOUS
  <1>2. PICK e : e = Encode(m)
    OBVIOUS
  <1>3. PICK s \in NonNul : s = m.server
    BY DEF HelloMsgs
  <1>4. PICK u \in NonNul : u = m.plugin
    BY DEF HelloMsgs
  <1>5. PICK c \in Text(4) : c = m.caps
    BY DEF HelloMsgs
  <1>6. PICK d \in Text(4) : d = m.id
    BY DEF HelloMsgs
  <1>7. PICK x \in Octet : x = m.version
    BY DEF HelloMsgs
  <1>8. PICK y \in Octet : y = m.seed
    BY DEF HelloMsgs
  <1>9. m.kind = "hello"
    BY DEF HelloMsgs
  <1>10. r = DecodeHandshakeV10(p)
    BY <1>1, <1>9, DecodedCases
  <1>11. /\ Len(s) \in Nat /\ s \in Seq(Octet)
         /\ Len(u) \in Nat /\ u \in Seq(Octet)
    BY NonNulOctets
  <1>12. PICK i \in Nat : i = 6 + Len(s)
    BY <1>11
  <1>13. PICK l : l = SeedLength(m)
    OBVIOUS
  <1>14. PICK f \in BOOLEAN : f = Flag(c, PluginAuth)
    BY DEF Flag
  <1>15. /\ e \in Seq(Octet) /\ Len(e) > i + 20
         /\ Holds(e, 4, <<x>>) /\ Holds(e, 5, s) /\ Holds(e, i - 1, << 0 >>)
         /\ Holds(e, i, d) /\ Holds(e, i + 13, <<c[1], c[2]>>)
         /\ Holds(e, i + 18, <<c[3], c[4]>>)
         /\ f => /\ Holds(e, i + 20, <<y>>)
                 /\ Holds(e, i + 31 + l, u)
                 /\ Holds(e, i + 31 + l + Len(u), << 0 >>)
    <2>1. e \in Seq(Octet) /\ Handshake(e, m, i)
      BY <1>2, <1>3, <1>12, HandshakeParts
    <2> QED
      BY <2>1, <1>3, <1>4, <1>5, <1>6, <1>7, <1>8, <1>13, <1>14
         DEF Handshake
  <1>16. Beginning(p, e) /\ Len(p) \in Nat
    BY <1>2 DEF Beginning
  <1>17. PICK n : n = NulFrom(p, 5)
    OBVIOUS
  <1>18. n = IF 5 + Len(s) <= Len(p) THEN 5 + Len(s)
             ELSE IF 5 <= Len(p) THEN Len(p) ELSE 5
    <2>1. Holds(e, 5 + Len(s), << 0 >>)
      <3>1. i - 1 = 5 + Len(s)
        BY <1>11, <1>12
      <3> QED
        BY <1>15, <3>1
    <2> QED
      BY <1>15, <1>16, <1>17, <2>1, NulFound
  <1>19. PICK k : k = n + 1
    OBVIOUS
  <1>20. CASE ~(i + 18 < Len(p))
    <2>1. k \in Nat /\ ~(k + 18 < Len(p))
      BY <1>11, <1>12, <1>16, <1>18, <1>19, <1>20
    <2>2. r = Fail("EOF")
      <3>1. ~Has(p, k + 18)
        BY <2>1 DEF Has
      <3> QED
        BY <1>10, <1>17, <1>19, <3>1, HelloCut
    <2>3. p # e
      BY <1>15, <1>16, <1>20
    <2>4. Understood(m, p, r)
      BY <1>2, <1>9, <2>2, <2>3, Results DEF Understood, Errors
    <2> QED
      BY <1>1, <2>4
  <1>21. CASE i + 18 < Len(p)
    <2>1. k = i /\ 5 + Len(s) <= Len(p)
      BY <1>11, <1>12, <1>16, <1>18, <1>19, <1>21
    <2>2. i = NulFrom(p, 5) + 1 /\ Has(p, i + 18)
      BY <1>17, <1>19, <1>21, <2>1 DEF Has
    <2>3. PICK g : g = Bytes(p, i + 13, 2) \o Bytes(p, i + 18, 2)
      OBVIOUS
    <2>4. /\ FadedSeq(g, c) /\ g[2] = c[2] /\ g[3] = c[3]
          /\ p = e => g = c
      <3>1. PICK a \in Nat : a = i + 13
        OBVIOUS
      <3>2. PICK b \in Nat : b = i + 18
        OBVIOUS
      <3>3. a + 2 <= b
        BY <3>1, <3>2
      <3>4. Holds(e, a, <<c[1], c[2]>>) /\ Holds(e, b, <<c[3], c[4]>>)
            /\ b < Len(p)
        BY <1>15, <1>21, <3>1, <3>2
      <3>5. g = Bytes(p, a, 2) \o Bytes(p, b, 2)
        BY <2>3, <3>1, <3>2
      <3>6. CapsAt(p, e, a, b, c, g)
        BY <1>16, <3>3, <3>4, <3>5 DEF CapsAt
      <3> QED
        BY <3>6, CapsRead
    <2>5. /\ Flag(g, PluginAuth) <=> Flag(c, PluginAuth)
          /\ Flag(g, SecureConnection) <=> Flag(c, SecureConnection)
      BY <2>4, FlagsOf
    <2>6. Bytes(p, i, 4) = d
      <3>1. Len(d) = 4
        BY DEF Text
      <3>2. i + Len(d) <= Len(p)
        BY <1>16, <1>21, <3>1
      <3>3. Bytes(p, i, Len(d)) = d
        BY <1>15, <1>16, <3>2, BytesFaded
      <3> QED
        BY <3>1, <3>3
    <2>7. Byte(p, 4) = x
      <3>1. Byte(p, 4) = IF 4 < Len(p) THEN x ELSE 0
        BY <1>15, <1>16, ByteRead
      <3> QED
        BY <1>16, <1>21, <3>1
    <2>8. ReadNullTerminatedString(p, 5) = s
      <3>1. Holds(e, 5 + Len(s), << 0 >>)
        <4>1. i - 1 = 5 + Len(s)
          BY <1>11, <1>12
        <4> QED
          BY <1>15, <4>1
      <3> QED
        BY <1>15, <1>16, <2>1, <3>1, NulRead
    <2>9. ASSUME NEW v, FadedSeq(v, IF f THEN u ELSE <<>>),
                 p = e => v = IF f THEN u ELSE <<>>,
                 r = Ok([version |-> x, server |-> s, id |-> d, caps |-> g,
                         plugin |-> v])
          PROVE  Understood(m, p, r)
      <3>1. r.err = "nil" /\ r.val = [version |-> x, server |-> s, id |-> d,
                                      caps |-> g, plugin |-> v]
        BY <2>9, Results
      <3>2. Meaning(m) = [version |-> x, server |-> s, id |-> d, caps |-> c,
                          plugin |-> IF f THEN u ELSE <<>>]
        BY <1>3, <1>4, <1>5, <1>6, <1>7, <1>9, <1>14, MeaningCases
      <3>3. p = e => r.val = Meaning(m)
        BY <2>4, <2>9, <3>1, <3>2
      <3>4. /\ r.val.version = m.version /\ r.val.id = m.id
            /\ r.val.server = m.server /\ FadedSeq(r.val.caps, m.caps)
            /\ FadedSeq(r.val.plugin, Meaning(m).plugin)
        BY <1>3, <1>5, <1>6, <1>7, <2>4, <2>9, <3>1, <3>2
      <3> QED
        BY <1>2, <1>9, <3>1, <3>3, <3>4
           DEF Understood, Errors, Right, Faded
    <2>10. CASE ~f
      <3>1. r = Ok([version |-> x, server |-> s, id |-> d, caps |-> g,
                    plugin |-> <<>>])
        BY <1>10, <1>14, <2>2, <2>3, <2>5, <2>6, <2>7, <2>8, <2>10, HelloRead
      <3>2. <<>> = IF f THEN u ELSE <<>>
        BY <2>10
      <3>3. FadedSeq(<<>>, IF f THEN u ELSE <<>>)
        <4>1. <<>> \in Seq(Octet)
          OBVIOUS
        <4> QED
          BY <3>2, <4>1, NothingFaded
      <3> QED
        BY <1>1, <2>9, <3>1, <3>2, <3>3
    <2>11. CASE f /\ ~(i + 20 < Len(p))
      <3>1. ~Has(p, i + 20)
        BY <2>11 DEF Has
      <3>2. r = Fail("EOF")
        BY <1>10, <1>14, <2>2, <2>3, <2>5, <2>11, <3>1, HelloRead
      <3>3. p # e
        BY <1>15, <1>16, <2>11
      <3>4. Understood(m, p, r)
        BY <1>2, <1>9, <3>2, <3>3, Results DEF Understood, Errors
      <3> QED
        BY <1>1, <3>4
    <2>12. CASE f /\ i + 20 < Len(p)
      <3>1. Has(p, i + 20)
        BY <2>12 DEF Has
      <3>2. Byte(p, i + 20) = y
        <4>1. Byte(p, i + 20) = IF i + 20 < Len(p) THEN y ELSE 0
          BY <1>15, <1>16, <2>12, ByteRead
        <4> QED
          BY <2>12, <4>1
      <3>3. PICK q : q = IF Byte(p, i + 20) > 21 THEN Byte(p, i + 20) - 8
                         ELSE 13
        OBVIOUS
      <3>4. l = IF Flag(g, SecureConnection) THEN q ELSE 0
        BY <1>5, <1>8, <1>13, <2>5, <3>2, <3>3 DEF SeedLength
      <3>5. PICK v : v = ReadNullTerminatedString(p, i + 30 + 1 + l)
        OBVIOUS
      <3>6. r = Ok([version |-> x, server |-> s, id |-> d, caps |-> g,
                    plugin |-> v])
        <4>1. Flag(g, PluginAuth)
          BY <1>14, <2>5, <2>12
        <4>2. DecodeHandshakeV10(p) =
                Ok([version |-> Byte(p, 4),
                    server  |-> ReadNullTerminatedString(p, 5),
                    id      |-> Bytes(p, i, 4),
                    caps    |-> g,
                    plugin  |->
                      ReadNullTerminatedString(p, i + 30 + 1 + l)])
          <5>1. l = IF ~Flag(g, SecureConnection) THEN 0 ELSE q
            BY <3>4
          <5>2. SaltRead(p, i, g, q, l)
            BY <2>2, <2>3, <3>1, <3>3, <4>1, <5>1, Zenon DEF SaltRead
          <5> QED
            BY <5>2, HelloPlugin, Zenon
        <4> QED
          BY <1>10, <2>6, <2>7, <2>8, <3>5, <4>2, Zenon
      <3>7. PICK j : j = i + 31 + l
        OBVIOUS
      <3>8. l \in Nat
        <4>1. y - 8 \in Nat \/ y <= 21
          BY DEF Octet
        <4> QED
          BY <1>8, <1>13, <4>1 DEF SeedLength, Octet
      <3>9. i + 30 + 1 + l = j
        BY <3>7, <3>8
      <3>10. FadedSeq(v, u) /\ (j + Len(u) <= Len(p) => v = u)
        BY <1>15, <1>16, <2>12, <3>5, <3>7, <3>9, NulRead
      <3>11. p = e => v = u
        <4>1. Holds(e, j + Len(u), << 0 >>)
          BY <1>15, <2>12, <3>7
        <4>2. j + Len(u) < Len(e)
          BY <1>16, <4>1, ByteRead
        <4>3. j + Len(u) \in Nat /\ Len(e) \in Nat
          BY <4>1 DEF Holds
        <4> QED
          BY <3>10, <4>2, <4>3
      <3> QED
        BY <1>1, <2>9, <2>12, <3>6, <3>10, <3>11
    <2> QED
      BY <1>14, <2>10, <2>11, <2>12
  <1> QED
    BY <1>20, <1>21

-----------------------------------------------------------------------------
(* COM_STMT_EXECUTE.                                                        *)

\* Bits of the NULL bitmap.
Bits == {0, 1}

\* A parameter is NULL or it is not.
LEMMA BitBits ==
  ASSUME NEW params, NEW j
  PROVE  Bit(params, j) \in Bits
  BY DEF Bit, Bits

\* A statement's parameters, as many as the length of the bitmap is right for.
Measured(n) == n \in Nat /\ n <= 65528

\* The sum in NullBitmapLength does not overflow for these.
LEMMA MeasuredLength ==
  ASSUME NEW n, Measured(n)
  PROVE  NullBitmapLength(n) = (n + 7) \div 8
  <1>1. n \in Nat /\ n + 7 < 65536
    BY DEF Measured
  <1>2. (n + 7) % 65536 = n + 7
    BY <1>1
  <1> QED
    BY <1>2 DEF NullBitmapLength

\* The peer's bitmap is as long as the decoder takes it to be.
LEMMA BitmapSized ==
  ASSUME NEW params, NEW n, Len(params) = n, Measured(n)
  PROVE  Sized(NullBitmap(params), NullBitmapLength(n))
  <1>1. PICK k : k = (n + 7) \div 8
    OBVIOUS
  <1>2. k \in Nat
    BY <1>1 DEF Measured
  <1> DEFINE Sum(b) == Bit(params, 8 * (b - 1) + 1)
                       + 2 * Bit(params, 8 * (b - 1) + 2)
                       + 4 * Bit(params, 8 * (b - 1) + 3)
                       + 8 * Bit(params, 8 * (b - 1) + 4)
                       + 16 * Bit(params, 8 * (b - 1) + 5)
                       + 32 * Bit(params, 8 * (b - 1) + 6)
                       + 64 * Bit(params, 8 * (b - 1) + 7)
                       + 128 * Bit(params, 8 * (b - 1) + 8)
  <1>3. NullBitmap(params) = [b \in 1 .. k |-> Sum(b)]
    BY <1>1 DEF NullBitmap
  <1>4. \A b \in 1 .. k : Sum(b) \in Octet
    <2> TAKE b \in 1 .. k
    <2>1. PICK c : c = 8 * (b - 1)
      OBVIOUS
    <2>2. \A x : Bit(params, x) \in Bits
      BY BitBits
    <2>b1. PICK b1 \in Bits : b1 = Bit(params, c + 1)
      BY <2>2
    <2>b2. PICK b2 \in Bits : b2 = Bit(params, c + 2)
      BY <2>2
    <2>b3. PICK b3 \in Bits : b3 = Bit(params, c + 3)
      BY <2>2
    <2>b4. PICK b4 \in Bits : b4 = Bit(params, c + 4)
      BY <2>2
    <2>b5. PICK b5 \in Bits : b5 = Bit(params, c + 5)
      BY <2>2
    <2>b6. PICK b6 \in Bits : b6 = Bit(params, c + 6)
      BY <2>2
    <2>b7. PICK b7 \in Bits : b7 = Bit(params, c + 7)
      BY <2>2
    <2>b8. PICK b8 \in Bits : b8 = Bit(params, c + 8)
      BY <2>2
    <2>4. b1 + 2 * b2 + 4 * b3 + 8 * b4 + 16 * b5 + 32 * b6 + 64 * b7
            + 128 * b8 \in Octet
      BY DEF Bits, Octet
    <2>3. Bit(params, c + 1) + 2 * Bit(params, c + 2)
            + 4 * Bit(params, c + 3) + 8 * Bit(params, c + 4)
            + 16 * Bit(params, c + 5) + 32 * Bit(params, c + 6)
            + 64 * Bit(params, c + 7) + 128 * Bit(params, c + 8) \in Octet
      BY <2>b1, <2>b2, <2>b3, <2>b4, <2>b5, <2>b6, <2>b7, <2>b8, <2>4
    <2> QED
      BY <2>1, <2>3
  <1> HIDE DEF Sum
  <1>5. PICK s : s = [b \in 1 .. k |-> Sum(b)]
    OBVIOUS
  <1>6. s \in Seq(Octet) /\ Len(s) = k
    BY <1>2, <1>4, <1>5
  <1>7. NullBitmapLength(n) = k
    BY <1>1, MeasuredLength
  <1> QED
    BY <1>2, <1>3, <1>5, <1>6, <1>7 DEF Sized

\* The types and flags of the parameters.
Pairs(params) == [j \in DOMAIN params |-> <<params[j].type, params[j].flag>>]

\* Where each parameter's type and flag are.
LEMMA TypeFlagsHeld ==
  ASSUME NEW params \in Seq(Param), NEW n \in Nat, Len(params) = n, n > 0
  PROVE  /\ Sized(TypeFlags(params), 2 * n)
         /\ \A e, i : Holds(e, i, TypeFlags(params)) =>
              \A j \in 1 .. n : Holds(e, i + 2 * (j - 1),
                                      <<params[j].type, params[j].flag>>)
  <1>1. PICK ss : ss = Pairs(params)
    OBVIOUS
  <1>2. DOMAIN params = 1 .. n
    OBVIOUS
  <1>3. \A j \in 1 .. n : params[j] \in Param
    OBVIOUS
  <1>4. \A j \in 1 .. n : /\ ss[j] = <<params[j].type, params[j].flag>>
                          /\ Sized(ss[j], 2)
    <2> TAKE j \in 1 .. n
    <2>1. ss[j] = <<params[j].type, params[j].flag>>
      BY <1>1, <1>2 DEF Pairs
    <2>2. params[j].type \in Octet /\ params[j].flag \in Octet
      BY <1>3 DEF Param
    <2> QED
      BY <2>1, <2>2, SizedPair
  <1>5. ss \in Sequences(n)
    <2>1. \A j \in 1 .. n : ss[j] \in Seq(Octet)
      BY <1>4 DEF Sized
    <2>2. ss = [j \in 1 .. n |-> ss[j]]
      <3>1. DOMAIN ss = 1 .. n /\ ss = [j \in DOMAIN ss |-> ss[j]]
        BY <1>1, <1>2 DEF Pairs
      <3> QED
        BY <3>1
    <2> QED
      BY <2>1, <2>2 DEF Sequences
  <1>6. PICK g : Concats(g, n, ss) /\ FlattenSeq(ss) = g[n]
    BY <1>5, FlattenConcats
  <1>7. TypeFlags(params) = g[n]
    BY <1>1, <1>6 DEF TypeFlags, Pairs
  <1> DEFINE P == {j \in 0 .. n : Sized(g[j], 2 * j)}
  <1>8. 0 \in P
    BY <1>6 DEF Concats, Sized
  <1>9. \A j \in 1 .. n : j - 1 \in P => j \in P
    <2> SUFFICES ASSUME NEW j \in 1 .. n, j - 1 \in P
                 PROVE  Sized(g[j], 2 * j)
      OBVIOUS
    <2>1. PICK h \in 0 .. n : h = j - 1
      OBVIOUS
    <2>2. Sized(g[h], 2 * h) /\ g[j] = g[h] \o ss[j]
      BY <1>6, <2>1 DEF Concats
    <2>3. Sized(g[h] \o ss[j], 2 * h + 2)
      BY <1>4, <2>2, SizedJoin
    <2>4. 2 * h + 2 = 2 * j
      BY <2>1
    <2> QED
      BY <2>2, <2>3, <2>4
  <1>10. 0 .. n \subseteq P
    <2> HIDE DEF P
    <2> QED
      BY <1>8, <1>9, IntervalInduction
  <1>11. \A j \in 0 .. n : Sized(g[j], 2 * j)
    BY <1>10
  <1>12. ASSUME NEW e, NEW i, Holds(e, i, g[n]), NEW j \in 1 .. n
         PROVE  Holds(e, i + 2 * (j - 1), <<params[j].type, params[j].flag>>)
    <2>1. i \in Nat
      BY <1>12 DEF Holds
    <2>2. Holds(e, i + Len(g[j - 1]), ss[j])
      BY <1>5, <1>6, <1>12, <2>1, FlattenHolds
    <2>3. Len(g[j - 1]) = 2 * (j - 1)
      <3>1. j - 1 \in 0 .. n
        OBVIOUS
      <3> QED
        BY <1>11, <3>1 DEF Sized
    <2> QED
      BY <1>4, <2>2, <2>3
  <1> QED
    BY <1>7, <1>11, <1>12

\* The values, one after the other.
LEMMA ValuesHeld ==
  ASSUME NEW params \in Seq(Param), NEW n \in Nat, Len(params) = n, n > 0,
         \A j \in 1 .. n : Proper(params[j])
  PROVE  \E ss, g :
           /\ ss \in Sequences(n)
           /\ \A j \in 1 .. n : ss[j] = Value(params[j])
           /\ Concats(g, n, ss) /\ Values(params) = g[n]
           /\ Values(params) \in Seq(Octet)
  <1>1. PICK ss : ss = [j \in DOMAIN params |-> Value(params[j])]
    OBVIOUS
  <1>2. DOMAIN params = 1 .. n
    OBVIOUS
  <1>3. \A j \in 1 .. n : params[j] \in Param
    OBVIOUS
  <1>4. \A j \in 1 .. n : ss[j] = Value(params[j])
    BY <1>1, <1>2
  <1>5. ss \in Sequences(n)
    <2>1. \A j \in 1 .. n : Value(params[j]) \in Seq(Octet)
      BY <1>3, ValueOctets
    <2> QED
      BY <1>1, <1>2, <2>1 DEF Sequences
  <1>6. PICK g : Concats(g, n, ss) /\ FlattenSeq(ss) = g[n]
    BY <1>5, FlattenConcats
  <1>7. Values(params) = g[n]
    BY <1>1, <1>6 DEF Values
  <1>8. g[n] \in Seq(Octet)
    BY <1>6 DEF Concats
  <1> QED
    BY <1>4, <1>5, <1>6, <1>7, <1>8

\* What the parts of an execution are.
LEMMA ExecuteFacts ==
  ASSUME NEW m \in ExecuteMsgs
  PROVE  /\ m.kind = "execute" /\ m.id \in Text(4) /\ m.typed \in BOOLEAN
         /\ m.params \in Seq(Param) /\ Measured(Len(m.params))
         /\ \A j \in 1 .. Len(m.params) : Proper(m.params[j])
  <1>1. /\ m.kind = "execute" /\ m.id \in Text(4) /\ m.typed \in BOOLEAN
        /\ m.params \in Seq(Param) /\ Len(m.params) <= 65528
        /\ \A j \in DOMAIN m.params : Proper(m.params[j])
    BY DEF ExecuteMsgs
  <1>2. Len(m.params) \in Nat /\ DOMAIN m.params = 1 .. Len(m.params)
    BY <1>1
  <1> QED
    BY <1>1, <1>2 DEF Measured

\* Where the parts of an execution with n > 0 parameters are: its flag at t,
\* its values from i on, g[j] the first j of them.
Execution(e, m, n, t, i, ss, g) ==
  /\ t = TypesSent(n) /\ i = t + 1 + (IF m.typed THEN 2 * n ELSE 0)
  /\ Holds(e, t, <<IF m.typed THEN 1 ELSE 0>>)
  /\ m.typed => \A j \in 1 .. n :
       Holds(e, t + 1 + 2 * (j - 1), <<m.params[j].type, m.params[j].flag>>)
  /\ ss \in Sequences(n) /\ \A j \in 1 .. n : ss[j] = Value(m.params[j])
  /\ Concats(g, n, ss) /\ Holds(e, i, g[n]) /\ Len(e) = i + Len(g[n])

\* The parts of the fixed length.
LEMMA ExecuteParts ==
  ASSUME NEW m \in ExecuteMsgs, NEW b, NEW l, Sized(b, l),
         b = IF m.params = <<>> THEN <<>> ELSE ParamsBody(m)
  PROVE  /\ Encode(m) \in Seq(Octet) /\ Len(Encode(m)) = 14 + l
         /\ Holds(Encode(m), 4, <<ComStmtExecute>>)
         /\ Holds(Encode(m), 5, m.id) /\ Holds(Encode(m), 14, b)
  <1>1. PICK e : e = Encode(m)
    OBVIOUS
  <1>2. PICK d \in Text(4) : d = m.id
    BY ExecuteFacts
  <1>3. PICK a : a = <<ComStmtExecute>>
    OBVIOUS
  <1>4. PICK z : z = << 0 >>
    OBVIOUS
  <1>5. PICK o : o = Number(1, 4)
    OBVIOUS
  <1>6. m.kind = "execute" /\ 4 \in Nat /\ 1 \in Nat
    BY ExecuteFacts
  <1>7. Body(m) = a \o d \o z \o o \o b
    BY <1>2, <1>3, <1>4, <1>5, <1>6, BodyCases DEF ExecuteBody
  <1>8. Five(a, 1, d, 4, z, 1, o, 4, b, l)
    <2>1. ComStmtExecute \in Octet /\ 0 \in Octet
      BY DEF ComStmtExecute, Octet
    <2>2. Sized(a, 1) /\ Sized(z, 1)
      BY <1>3, <1>4, <2>1, SizedByte
    <2>3. Sized(d, 4)
      BY <1>6, SizedText
    <2>4. Sized(o, 4)
      BY <1>5, <1>6, SizedNumber
    <2> QED
      BY <2>2, <2>3, <2>4 DEF Five
  <1>9. Sized(Body(m), 1 + 4 + 1 + 4 + l)
    BY <1>7, <1>8, SizedFive
  <1>10. /\ e \in Seq(Octet) /\ Len(e) = 4 + (1 + 4 + 1 + 4 + l)
         /\ Holds(e, 4, a \o d \o z \o o \o b)
    <2>1. m.kind # "count"
      BY <1>6
    <2> QED
      BY <1>1, <1>7, <1>9, <2>1, EncodedSized
  <1>11. /\ Holds(e, 4, a) /\ Holds(e, 4 + 1, d)
         /\ Holds(e, 4 + 1 + 4 + 1 + 4, b)
    BY <1>6, <1>8, <1>10, FiveParts
  <1>12. l \in Nat
    BY DEF Sized
  <1>13. /\ Len(e) = 14 + l /\ Holds(e, 5, d) /\ Holds(e, 14, b)
    BY <1>10, <1>11, <1>12
  <1> QED
    BY <1>1, <1>2, <1>3, <1>10, <1>11, <1>13

\* An execution with parameters has its parts there.
LEMMA ExecutionParts ==
  ASSUME NEW m \in ExecuteMsgs, NEW n \in Nat, n = Len(m.params), n > 0
  PROVE  /\ Encode(m) \in Seq(Octet) /\ Len(Encode(m)) >= 14
         /\ Holds(Encode(m), 4, <<ComStmtExecute>>)
         /\ Holds(Encode(m), 5, m.id)
         /\ \E t, i, ss, g :
              t \in Nat /\ i \in Nat /\ Execution(Encode(m), m, n, t, i, ss, g)
  <1>1. PICK e : e = Encode(m)
    OBVIOUS
  <1>2. PICK params \in Seq(Param) : params = m.params
    BY ExecuteFacts
  <1>3. PICK w \in BOOLEAN : w = m.typed
    BY ExecuteFacts
  <1>4. /\ Len(params) = n /\ Measured(n)
        /\ \A j \in 1 .. n : Proper(params[j])
    BY <1>2, ExecuteFacts
  <1>5. PICK ss, g :
          /\ ss \in Sequences(n)
          /\ \A j \in 1 .. n : ss[j] = Value(params[j])
          /\ Concats(g, n, ss) /\ Values(params) = g[n]
          /\ Values(params) \in Seq(Octet)
    BY <1>4, ValuesHeld
  <1>6. PICK x : x = NullBitmap(params)
    OBVIOUS
  <1>7. PICK y : y = <<IF w THEN 1 ELSE 0>>
    OBVIOUS
  <1>8. PICK f : f = IF w THEN TypeFlags(params) ELSE <<>>
    OBVIOUS
  <1>9. PICK v : v = g[n]
    OBVIOUS
  <1>10. PICK k : k = NullBitmapLength(n)
    OBVIOUS
  <1>11. PICK h : h = IF w THEN 2 * n ELSE 0
    OBVIOUS
  <1>12. Four(x, k, y, 1, f, h, v, Len(v))
    <2>1. Sized(x, k)
      BY <1>4, <1>6, <1>10, BitmapSized
    <2>2. Sized(y, 1)
      <3>1. 1 \in Octet /\ 0 \in Octet
        BY DEF Octet
      <3> QED
        BY <1>7, <3>1, SizedByte
    <2>3. Sized(f, h)
      <3>1. Sized(<<>>, 0)
        BY DEF Sized
      <3>2. Sized(TypeFlags(params), 2 * n)
        BY <1>4, TypeFlagsHeld
      <3> QED
        BY <1>8, <1>11, <3>1, <3>2
    <2>4. Sized(v, Len(v))
      BY <1>5, <1>9 DEF Sized
    <2> QED
      BY <2>1, <2>2, <2>3, <2>4 DEF Four
  <1>13. PICK b : b = x \o y \o f \o v
    OBVIOUS
  <1>14. PICK l : l = k + 1 + h + Len(v)
    OBVIOUS
  <1>15. Sized(b, l)
    BY <1>12, <1>13, <1>14, SizedFour
  <1>16. b = IF m.params = <<>> THEN <<>> ELSE ParamsBody(m)
    <2>1. m.params # <<>>
      BY <1>2, <1>4
    <2>2. ParamsBody(m) = b
      BY <1>2, <1>3, <1>5, <1>6, <1>7, <1>8, <1>9, <1>13 DEF ParamsBody
    <2> QED
      BY <2>1, <2>2
  <1>17. /\ e \in Seq(Octet) /\ Len(e) = 14 + l
         /\ Holds(e, 4, <<ComStmtExecute>>)
         /\ Holds(e, 5, m.id) /\ Holds(e, 14, b)
    BY <1>1, <1>15, <1>16, ExecuteParts
  <1>18. /\ Holds(e, 14 + k, y) /\ Holds(e, 14 + k + 1, f)
         /\ Holds(e, 14 + k + 1 + h, v)
    <2>1. 14 \in Nat
      OBVIOUS
    <2> QED
      BY <1>12, <1>13, <1>17, <2>1, FourParts
  <1>19. k \in Nat /\ h \in Nat /\ Len(v) \in Nat
    BY <1>12 DEF Four, Sized
  <1>20. PICK t \in Nat : t = 14 + k
    BY <1>19
  <1>21. PICK i \in Nat : i = t + 1 + h
    BY <1>19
  <1>22. t = TypesSent(n)
    BY <1>10, <1>20 DEF TypesSent
  <1>23. w => \A j \in 1 .. n :
           Holds(e, t + 1 + 2 * (j - 1), <<params[j].type, params[j].flag>>)
    <2> SUFFICES ASSUME w
                 PROVE  \A j \in 1 .. n :
                          Holds(e, t + 1 + 2 * (j - 1),
                                <<params[j].type, params[j].flag>>)
      OBVIOUS
    <2>1. PICK a : a = t + 1
      OBVIOUS
    <2>2. Holds(e, a, TypeFlags(params))
      BY <1>8, <1>18, <1>20, <2>1
    <2>3. \A j \in 1 .. n :
            Holds(e, a + 2 * (j - 1), <<params[j].type, params[j].flag>>)
      BY <1>4, <2>2, TypeFlagsHeld
    <2> QED
      BY <2>1, <2>3
  <1>24. Len(e) = i + Len(v) /\ Holds(e, i, v)
    <2>1. i = 14 + k + 1 + h
      BY <1>20, <1>21
    <2>2. PICK z \in Nat : z = Len(v)
      BY <1>19
    <2>3. Len(e) = 14 + (k + 1 + h + z)
      BY <1>14, <1>17, <2>2
    <2>4. Len(e) = i + z
      BY <1>19, <2>1, <2>3
    <2>5. Holds(e, i, v)
      BY <1>18, <2>1
    <2> QED
      BY <2>2, <2>4, <2>5
  <1>25. Holds(e, t, y)
    BY <1>18, <1>20
  <1>26. Execution(e, m, n, t, i, ss, g)
    BY <1>2, <1>3, <1>5, <1>7, <1>9, <1>11, <1>21, <1>22, <1>23, <1>24, <1>25
       DEF Execution
  <1>27. Len(e) >= 14
    BY <1>17, <1>14, <1>19
  <1> QED
    BY <1>1, <1>17, <1>26, <1>27

\* The packet ends before the types of the n parameters do.
Ends(p, n) ==
  /\ n > 0
  /\ \/ ~Has(p, TypesSent(n))
     \/ Typed(p, n) /\ ~Has(p, ValuesFrom(p, n) - 2)

\* The parameters that the decoder returns.
ParamsRead(p, n, f) ==
  [j \in 1 .. n |-> [type |-> ParamType(p, n, j), val |-> f[j].val,
                     flag |-> ParamFlag(p, n, j)]]

\* The cases of DecodeComStmtExecuteRequest.
LEMMA ExecuteCases ==
  ASSUME NEW p \in Seq(Octet), NEW n, NEW f, f = Fields(p, n)
  PROVE  /\ Len(p) < 14 => DecodeComStmtExecuteRequest(p, n) = Fail("length")
         /\ ~(Len(p) < 14) /\ Byte(p, 4) = ComStmtExecute =>
              /\ Ends(p, n) => DecodeComStmtExecuteRequest(p, n) = Fail("EOF")
              /\ ~Ends(p, n) =>
                   DecodeComStmtExecuteRequest(p, n) =
                     IF f[n].err # "nil" THEN Fail(f[n].err)
                     ELSE Ok([id |-> Bytes(p, 5, 4),
                              params |-> ParamsRead(p, n, f)])
  <1>1. Len(p) < 14 => ~(Len(p) >= 14)
    <2> SUFFICES ASSUME Len(p) < 14, Len(p) >= 14 PROVE FALSE
      OBVIOUS
    <2> QED
      OBVIOUS
  <1>2. Len(p) < 14 => DecodeComStmtExecuteRequest(p, n) = Fail("length")
    BY <1>1, Zenon DEF DecodeComStmtExecuteRequest
  <1>3. ASSUME ~(Len(p) < 14), Byte(p, 4) = ComStmtExecute, Ends(p, n)
        PROVE  DecodeComStmtExecuteRequest(p, n) = Fail("EOF")
    <2>1. Len(p) >= 14
      BY <1>3
    <2> QED
      BY <1>3, <2>1, Zenon DEF DecodeComStmtExecuteRequest, Ends
  <1>4. ASSUME ~(Len(p) < 14), Byte(p, 4) = ComStmtExecute, ~Ends(p, n)
        PROVE  DecodeComStmtExecuteRequest(p, n) =
                 IF f[n].err # "nil" THEN Fail(f[n].err)
                 ELSE Ok([id |-> Bytes(p, 5, 4),
                          params |-> ParamsRead(p, n, f)])
    BY <1>4, Zenon DEF DecodeComStmtExecuteRequest, Ends, ParamsRead
  <1> QED
    BY <1>2, <1>3, <1>4

\* The beginning p of an execution with all its parameters' types.
Arrived(p, e, m, n, t, i, ss, g) ==
  /\ Beginning(p, e) /\ n \in Nat /\ n > 0 /\ t \in Nat /\ i \in Nat
  /\ Execution(e, m, n, t, i, ss, g) /\ m.typed \in BOOLEAN /\ ~Ends(p, n)

\* The decoder finds the types of the parameters.
LEMMA TypesRead ==
  ASSUME NEW p, NEW e, NEW m, NEW n, NEW t, NEW i, NEW ss, NEW g,
         Arrived(p, e, m, n, t, i, ss, g)
  PROVE  /\ Typed(p, n) <=> m.typed
         /\ m.typed =>
              /\ i = ValuesFrom(p, n)
              /\ \A j \in 1 .. n : ParamType(p, n, j) = m.params[j].type
              /\ p = e =>
                   \A j \in 1 .. n : ParamFlag(p, n, j) = m.params[j].flag
  <1>0. /\ Beginning(p, e) /\ n \in Nat /\ n > 0 /\ t \in Nat /\ i \in Nat
        /\ Execution(e, m, n, t, i, ss, g) /\ m.typed \in BOOLEAN
        /\ ~Ends(p, n)
    BY DEF Arrived
  <1>1. Len(p) \in Nat /\ t = TypesSent(n) /\ Len(p) <= Len(e)
    BY <1>0 DEF Execution, Beginning
  <1>2. t < Len(p)
    BY <1>0, <1>1 DEF Ends, Has
  <1>3. Typed(p, n) <=> m.typed
    <2>1. PICK x : x = IF m.typed THEN 1 ELSE 0
      OBVIOUS
    <2>2. Holds(e, t, <<x>>)
      BY <1>0, <2>1 DEF Execution
    <2>3. Byte(p, t) = IF t < Len(p) THEN x ELSE 0
      BY <1>0, <2>2, ByteRead
    <2>4. Byte(p, t) = x
      BY <1>0, <1>2, <2>3
    <2> QED
      BY <1>0, <1>1, <2>1, <2>4 DEF Typed
  <1>4. SUFFICES ASSUME m.typed
                 PROVE  /\ i = ValuesFrom(p, n)
                        /\ \A j \in 1 .. n :
                             ParamType(p, n, j) = m.params[j].type
                        /\ p = e =>
                             \A j \in 1 .. n :
                               ParamFlag(p, n, j) = m.params[j].flag
    BY <1>0, <1>3
  <1>5. i = ValuesFrom(p, n) /\ i = t + 1 + 2 * n
    BY <1>0, <1>1, <1>3, <1>4 DEF Execution, ValuesFrom
  <1>6. i - 2 < Len(p)
    BY <1>0, <1>3, <1>4, <1>5 DEF Ends, Has
  <1>7. ASSUME NEW j \in 1 .. n
        PROVE  /\ ParamType(p, n, j) = m.params[j].type
               /\ p = e => ParamFlag(p, n, j) = m.params[j].flag
    <2>1. PICK x : x = m.params[j].type
      OBVIOUS
    <2>2. PICK y : y = m.params[j].flag
      OBVIOUS
    <2>3. PICK a \in Nat : a = t + 2 * j - 1
      BY <1>0
    <2>4. Holds(e, a, <<x, y>>)
      <3>1. t + 1 + 2 * (j - 1) = a
        BY <1>0, <2>3
      <3>2. Holds(e, t + 1 + 2 * (j - 1), <<x, y>>)
        BY <1>0, <1>4, <2>1, <2>2 DEF Execution
      <3> QED
        BY <1>0, <3>1, <3>2
    <2>5. /\ a + 2 <= Len(e) /\ e[a + 1] = x /\ e[a + 2] = y
      <3>1. PICK s : s = <<x, y>>
        OBVIOUS
      <3>2. Len(s) = 2 /\ s[1] = x /\ s[2] = y
        BY <1>0, <3>1
      <3>3. Holds(e, a, s)
        BY <1>0, <2>4, <3>1
      <3>4. a + Len(s) <= Len(e) /\ \A k \in 1 .. Len(s) : e[a + k] = s[k]
        BY <1>0, <3>3 DEF Holds
      <3>5. 1 \in 1 .. Len(s) /\ 2 \in 1 .. Len(s)
        BY <1>0, <3>2
      <3> QED
        BY <1>0, <3>2, <3>4, <3>5
    <2>6. ParamType(p, n, j) = x
      <3>1. a + 1 \in 1 .. Len(p) /\ a < Len(p)
        <4>1. i = t + 1 + 2 * n
          BY <1>0, <1>5
        <4>2. a <= i - 2
          BY <1>0, <2>3, <4>1
        <4>3. a < Len(p)
          BY <1>0, <1>1, <1>6, <4>2
        <4> QED
          BY <1>0, <1>1, <4>3
      <3>2. p[a + 1] = x
        BY <1>0, <2>5, <3>1 DEF Beginning
      <3>3. Byte(p, a) = x
        BY <1>0, <3>1, <3>2 DEF Byte, Has
      <3>4. TypesSent(n) + 2 * j - 1 = a
        BY <1>0, <1>1, <2>3
      <3> QED
        BY <1>0, <1>3, <1>4, <3>3, <3>4 DEF ParamType
    <2>7. p = e => ParamFlag(p, n, j) = y
      <3> SUFFICES ASSUME p = e PROVE ParamFlag(p, n, j) = y
        OBVIOUS
      <3>1. PICK b \in Nat : b = a + 1
        BY <1>0, <2>3
      <3>2. b < Len(p) /\ p[b + 1] = y
        <4>1. b + 1 = a + 2
          BY <1>0, <3>1
        <4> QED
          BY <1>0, <1>1, <2>5, <3>1, <4>1
      <3>3. Byte(p, b) = y
        BY <1>0, <3>2 DEF Byte, Has
      <3>4. TypesSent(n) + 2 * j = b
        BY <1>0, <1>1, <2>3, <3>1
      <3> QED
        BY <1>0, <1>3, <1>4, <3>3, <3>4 DEF ParamFlag
    <2> QED
      BY <1>0, <2>1, <2>2, <2>6, <2>7
  <1> QED
    BY <1>0, <1>5, <1>7

\* The whole packet has all types.
LEMMA WholeTypes ==
  ASSUME NEW e, NEW m, NEW n \in Nat, n > 0,
         NEW t \in Nat, NEW i \in Nat, NEW ss, NEW g,
         Execution(e, m, n, t, i, ss, g), m.typed \in BOOLEAN
  PROVE  ~Ends(e, n)
  <1>1. PICK x : x = IF m.typed THEN 1 ELSE 0
    OBVIOUS
  <1>2. /\ t = TypesSent(n) /\ Holds(e, t, <<x>>)
        /\ i = t + 1 + (IF m.typed THEN 2 * n ELSE 0)
        /\ Holds(e, i, g[n])
    BY <1>1 DEF Execution
  <1>3. e \in Seq(Octet) /\ Len(e) \in Nat /\ i <= Len(e)
    <2>1. e \in Seq(Octet) /\ g[n] \in Seq(Octet) /\ i + Len(g[n]) <= Len(e)
      BY <1>2 DEF Holds
    <2> QED
      BY <2>1
  <1>4. Beginning(e, e)
    BY <1>3 DEF Beginning
  <1>5. t < Len(e) /\ Byte(e, t) = x
    BY <1>2, <1>4, ByteRead
  <1>6. Typed(e, n) <=> m.typed
    BY <1>1, <1>2, <1>5 DEF Typed
  <1>7. Typed(e, n) => ValuesFrom(e, n) - 2 < Len(e)
    BY <1>2, <1>3, <1>6 DEF ValuesFrom
  <1> QED
    BY <1>2, <1>5, <1>7 DEF Ends, Has

\* Of all the parameters none is NULL.
LEMMA NoNullAny ==
  ASSUME NEW m, NEW n \in Nat, DOMAIN m.params = 1 .. n
  PROVE  ~HasNull(m) <=> NoNull(m.params, n)
  BY DEF HasNull, NoNull

\* The types of the parameters of m have arrived.
Sent(p, e, m, n, t, i, ss, g) ==
  /\ m \in ExecuteMsgs /\ n = Len(m.params) /\ m.typed
  /\ Arrived(p, e, m, n, t, i, ss, g)

\* What is known of the fields f of the part p.
FieldsRight(p, e, m, n, f) ==
  /\ ~HasNull(m) => f[n].err # "panic"
  /\ p = e /\ Plain(m) => f[n].err = "nil"
  /\ f[n].err = "nil" =>
       \A j \in 1 .. n :
         NoNull(m.params, j) =>
           /\ FadedSeq(f[j].val, m.params[j].val)
           /\ p = e => f[j].val = m.params[j].val

\* The fields of an execution whose types have arrived.
LEMMA FieldsUnderstood ==
  ASSUME NEW p, NEW e, NEW m, NEW n, NEW t, NEW i, NEW ss, NEW g,
         Sent(p, e, m, n, t, i, ss, g), NEW f, f = Fields(p, n)
  PROVE  FieldsRight(p, e, m, n, f)
  <1>0. /\ Beginning(p, e) /\ m \in ExecuteMsgs /\ n = Len(m.params)
        /\ n \in Nat /\ n > 0 /\ t \in Nat /\ i \in Nat
        /\ Arrived(p, e, m, n, t, i, ss, g) /\ m.typed
    BY DEF Sent, Arrived
  <1> USE <1>0
  <1>1. PICK params \in Seq(Param) : params = m.params
    BY ExecuteFacts
  <1>2. /\ Len(params) = n /\ \A j \in 1 .. n : Proper(params[j])
        /\ DOMAIN params = 1 .. n /\ \A j \in 1 .. n : params[j] \in Param
    <2>1. Len(params) = n /\ \A j \in 1 .. n : Proper(params[j])
      BY <1>1, ExecuteFacts
    <2> QED
      BY <2>1
  <1>3. p \in Seq(Octet) /\ Len(p) \in Nat
    BY DEF Beginning
  <1>4. FieldsOf(f, p, n)
    BY <1>3, FieldsRec
  <1>5. /\ i = ValuesFrom(p, n)
        /\ \A j \in 1 .. n : ParamType(p, n, j) = params[j].type
    <2>2. /\ i = ValuesFrom(p, n)
          /\ \A j \in 1 .. n : ParamType(p, n, j) = m.params[j].type
      BY TypesRead
    <2> QED
      BY <1>1, <2>2
  <1>6. /\ ss \in Sequences(n) /\ \A j \in 1 .. n : ss[j] = Value(params[j])
        /\ Concats(g, n, ss) /\ Holds(e, i, g[n]) /\ Len(e) = i + Len(g[n])
    BY <1>1 DEF Arrived, Execution
  <1>7. \A j \in 0 .. n : NoNull(params, j) => Along(f, j, p, i, g, params)
    BY <1>2, <1>4, <1>5, <1>6, FieldsAlong
  <1>8. ~HasNull(m) <=> NoNull(params, n)
    BY <1>1, <1>2, NoNullAny
  <1>9. n \in 0 .. n
    OBVIOUS
  <1>10. ~HasNull(m) => f[n].err # "panic"
    BY <1>7, <1>8, <1>9 DEF Along
  <1>11. p = e /\ Plain(m) => f[n].err = "nil"
    <2> SUFFICES ASSUME p = e, Plain(m) PROVE f[n].err = "nil"
      OBVIOUS
    <2>1. NoNull(params, n) /\ \A k \in 1 .. n : params[k].type \in Known
      BY <1>1, <1>2, <1>8 DEF Plain
    <2>2. Along(f, n, p, i, g, params)
      BY <1>7, <1>9, <2>1
    <2>3. Len(g[n]) \in Nat
      BY <1>6 DEF Holds
    <2>4. i + Len(g[n]) <= Len(p)
      BY <1>3, <1>6, <2>3
    <2> QED
      BY <2>1, <2>2, <2>4 DEF Along
  <1>12. ASSUME f[n].err = "nil", NEW j \in 1 .. n, NoNull(params, j)
         PROVE  /\ FadedSeq(f[j].val, params[j].val)
                /\ p = e => f[j].val = params[j].val
    <2>1. j \in 0 .. n /\ j > 0
      OBVIOUS
    <2>2. f[j].err = "nil"
      BY <1>4, <1>12, <2>1, AllDecoded
    <2>3. Along(f, j, p, i, g, params)
      BY <1>7, <1>12, <2>1
    <2>4. p = e => i + Len(g[j]) <= Len(p)
      <3>1. PICK h : h = g[j - 1]
        OBVIOUS
      <3>2. PICK s : s = ss[j]
        OBVIOUS
      <3>3. Holds(e, i + Len(h), s)
        BY <1>6, <3>1, <3>2, FlattenHolds
      <3>4. g[j] = h \o s /\ h \in Seq(Octet) /\ s \in Seq(Octet)
        <4>1. j - 1 \in 0 .. n
          OBVIOUS
        <4> QED
          BY <1>6, <3>1, <3>2, <4>1 DEF Concats, Sequences
      <3>5. Len(g[j]) = Len(h) + Len(s) /\ Len(h) \in Nat /\ Len(s) \in Nat
        BY <3>4, Join
      <3>6. i + Len(h) + Len(s) <= Len(e)
        BY <3>3 DEF Holds
      <3> QED
        BY <3>5, <3>6
    <2> QED
      BY <2>1, <2>2, <2>3, <2>4 DEF Along
  <1>13. ASSUME f[n].err = "nil"
         PROVE  \A j \in 1 .. n :
                  NoNull(m.params, j) =>
                    /\ FadedSeq(f[j].val, m.params[j].val)
                    /\ p = e => f[j].val = m.params[j].val
    BY <1>1, <1>12, <1>13
  <1> QED
    BY <1>10, <1>11, <1>13 DEF FieldsRight

\* How the last field may fail.
LEMMA ErrorsOf ==
  ASSUME NEW p, NEW n \in Nat, NEW f, FieldsOf(f, p, n)
  PROVE  f[n].err \in {"nil", "EOF", "field", "panic"}
  <1>1. n \in 0 .. n
    OBVIOUS
  <1> QED
    BY <1>1 DEF FieldsOf, FieldResults

\* A statement without parameters.
LEMMA NoParams ==
  ASSUME NEW m \in ExecuteMsgs, m.params = <<>>, NEW p,
         Beginning(p, Encode(m))
  PROVE  Understood(m, p, Decoded(m, p))
  <1>1. PICK r : r = Decoded(m, p)
    OBVIOUS
  <1>2. PICK e : e = Encode(m)
    OBVIOUS
  <1>3. PICK d \in Text(4) : d = m.id
    BY ExecuteFacts
  <1>4. /\ e \in Seq(Octet) /\ Len(e) = 14
        /\ Holds(e, 4, <<ComStmtExecute>>) /\ Holds(e, 5, d)
    <2>1. PICK b : b = IF m.params = <<>> THEN <<>> ELSE ParamsBody(m)
      OBVIOUS
    <2>2. Sized(b, 0)
      BY <2>1 DEF Sized
    <2>3. /\ e \in Seq(Octet) /\ Len(e) = 14 + 0
          /\ Holds(e, 4, <<ComStmtExecute>>) /\ Holds(e, 5, d)
      BY <1>2, <1>3, <2>1, <2>2, ExecuteParts
    <2> QED
      BY <2>3
  <1>5. Beginning(p, e) /\ p \in Seq(Octet) /\ Len(p) \in Nat
    BY <1>2 DEF Beginning
  <1>6. PICK f : f = Fields(p, 0)
    OBVIOUS
  <1>7. m.kind = "execute" /\ r = DecodeComStmtExecuteRequest(p, 0)
    <2>1. Len(m.params) = 0
      OBVIOUS
    <2> QED
      BY <1>1, <2>1, ExecuteFacts, DecodedCases
  <1>8. CASE Len(p) < 14
    <2>1. r.err = "length"
      BY <1>5, <1>6, <1>7, <1>8, ExecuteCases, Results
    <2>2. p # e
      <3>1. \A n \in Nat : n < 14 => n # 14
        OBVIOUS
      <3> QED
        BY <1>4, <1>5, <1>8, <3>1
    <2>3. Understood(m, p, r)
      BY <1>2, <1>7, <2>1, <2>2 DEF Understood, Errors
    <2> QED
      BY <1>1, <2>3
  <1>9. CASE ~(Len(p) < 14)
    <2>1. Byte(p, 4) = ComStmtExecute
      <3>1. Byte(p, 4) = IF 4 < Len(p) THEN ComStmtExecute ELSE 0
        BY <1>4, <1>5, ByteRead
      <3> QED
        BY <1>5, <1>9, <3>1
    <2>2. Bytes(p, 5, 4) = d
      <3>1. Len(d) = 4
        BY DEF Text
      <3>2. 5 + Len(d) <= Len(p)
        BY <1>5, <1>9, <3>1
      <3>3. Bytes(p, 5, Len(d)) = d
        BY <1>4, <1>5, <3>2, BytesFaded
      <3> QED
        BY <3>1, <3>3
    <2>3. ~Ends(p, 0)
      BY DEF Ends
    <2>4. f[0].err = "nil"
      <3>1. 0 \in Nat
        OBVIOUS
      <3>2. FieldsOf(f, p, 0)
        BY <1>5, <1>6, <3>1, FieldsRec
      <3> QED
        BY <3>2 DEF FieldsOf
    <2>5. r = Ok([id |-> d, params |-> ParamsRead(p, 0, f)])
      BY <1>5, <1>6, <1>7, <1>9, <2>1, <2>2, <2>3, <2>4, ExecuteCases
    <2>6. ParamsRead(p, 0, f) = <<>>
      BY DEF ParamsRead
    <2>7. r.err = "nil" /\ r.val = [id |-> d, params |-> <<>>]
      BY <2>5, <2>6, Results
    <2>8. Meaning(m) = [id |-> d, params |-> <<>>]
      <3>1. Meaning(m) = [id |-> m.id,
                          params |-> [j \in DOMAIN m.params |->
                                        [type |-> m.params[j].type,
                                         val |-> m.params[j].val,
                                         flag |-> m.params[j].flag]]]
        BY <1>7, MeaningCases
      <3>2. DOMAIN m.params = {}
        OBVIOUS
      <3>3. [j \in DOMAIN m.params |-> [type |-> m.params[j].type,
                                        val |-> m.params[j].val,
                                        flag |-> m.params[j].flag]] = <<>>
        BY <3>2
      <3> QED
        BY <1>3, <3>1, <3>3
    <2>9. DOMAIN m.params = {}
      OBVIOUS
    <2>10. Understood(m, p, r)
      BY <1>7, <2>7, <2>8, <2>9 DEF Understood, Errors, Right, Faded
    <2> QED
      BY <1>1, <2>10
  <1> QED
    BY <1>8, <1>9

\* What is known of the parameters when all of them are decoded.
NewParams(p, e, m, n, f) ==
  /\ m.kind = "execute" /\ DOMAIN m.params = 1 .. n /\ n \in Nat
  /\ \A j \in 1 .. n : NoNull(m.params, j) =>
       /\ FadedSeq(f[j].val, m.params[j].val)
       /\ p = e => f[j].val = m.params[j].val
  /\ \A j \in 1 .. n : ParamType(p, n, j) = m.params[j].type
  /\ p = e => \A j \in 1 .. n : ParamFlag(p, n, j) = m.params[j].flag

\* With the parameters read so, the result is right.
LEMMA ParamsRight ==
  ASSUME NEW p, NEW e, NEW m, NEW n, NEW f, NewParams(p, e, m, n, f),
         NEW r, r.err = "nil",
         r.val = [id |-> m.id, params |-> ParamsRead(p, n, f)]
  PROVE  /\ p = e => Right(m, r)
         /\ Faded(m, r.val)
  <1>0. /\ m.kind = "execute" /\ DOMAIN m.params = 1 .. n /\ n \in Nat
        /\ \A j \in 1 .. n : NoNull(m.params, j) =>
             /\ FadedSeq(f[j].val, m.params[j].val)
             /\ p = e => f[j].val = m.params[j].val
        /\ \A j \in 1 .. n : ParamType(p, n, j) = m.params[j].type
        /\ p = e => \A j \in 1 .. n : ParamFlag(p, n, j) = m.params[j].flag
    BY DEF NewParams
  <1>1. PICK x : x = ParamsRead(p, n, f)
    OBVIOUS
  <1>2. PICK y : y = [j \in DOMAIN m.params |->
                        [type |-> m.params[j].type, val |-> m.params[j].val,
                         flag |-> m.params[j].flag]]
    OBVIOUS
  <1>3. r.val = [id |-> m.id, params |-> x]
    BY <1>1
  <1>4. Meaning(m) = [id |-> m.id, params |-> y]
    BY <1>0, <1>2, MeaningCases
  <1>5. /\ \A j \in 1 .. n :
             x[j] = [type |-> ParamType(p, n, j), val |-> f[j].val,
                     flag |-> ParamFlag(p, n, j)]
        /\ x = [j \in 1 .. n |-> x[j]]
    BY <1>1 DEF ParamsRead
  <1>6. /\ \A j \in 1 .. n :
             y[j] = [type |-> m.params[j].type, val |-> m.params[j].val,
                     flag |-> m.params[j].flag]
        /\ y = [j \in 1 .. n |-> y[j]]
    BY <1>0, <1>2
  <1>7. Plain(m) => \A j \in 1 .. n : NoNull(m.params, j)
    BY <1>0 DEF Plain, HasNull, NoNull
  <1>8. ASSUME p = e, NEW j \in 1 .. n, NoNull(m.params, j)
        PROVE  x[j] = y[j]
    BY <1>0, <1>5, <1>6, <1>8
  <1>9. p = e /\ Plain(m) => x = y
    BY <1>5, <1>6, <1>7, <1>8
  <1>10. p = e => Right(m, r)
    <2> SUFFICES ASSUME p = e PROVE Right(m, r)
      OBVIOUS
    <2>1. \A j \in DOMAIN m.params :
            (\A k \in 1 .. j : ~m.params[k].null) =>
              r.val.params[j] = Meaning(m).params[j]
      BY <1>0, <1>3, <1>4, <1>8 DEF NoNull
    <2>2. Plain(m) => r.err = "nil" /\ r.val = Meaning(m)
      BY <1>3, <1>4, <1>9
    <2> QED
      BY <1>0, <2>1, <2>2 DEF Right
  <1>11. Faded(m, r.val)
    <2>1. Plain(m) => \A j \in DOMAIN m.params :
                        FadedSeq(r.val.params[j].val, m.params[j].val)
      BY <1>0, <1>3, <1>5, <1>7
    <2> QED
      BY <1>0, <2>1 DEF Faded
  <1> QED
    BY <1>10, <1>11

\* DecodeComStmtExecuteRequest understands executions.
LEMMA ExecuteUnderstood ==
  ASSUME NEW m \in ExecuteMsgs, NEW p, Beginning(p, Encode(m))
  PROVE  Understood(m, p, Decoded(m, p))
  <1>1. PICK r : r = Decoded(m, p)
    OBVIOUS
  <1>2. PICK e : e = Encode(m)
    OBVIOUS
  <1>3. PICK d \in Text(4) : d = m.id
    BY ExecuteFacts
  <1>4. PICK n \in Nat : n = Len(m.params)
    BY ExecuteFacts
  <1>5. m.params \in Seq(Param) /\ m.kind = "execute" /\ m.typed \in BOOLEAN
    BY ExecuteFacts
  <1>6. CASE n = 0
    <2>1. m.params = <<>>
      BY <1>4, <1>5, <1>6, NoneLeft
    <2> QED
      BY <2>1, NoParams
  <1>7. ASSUME n > 0 PROVE Understood(m, p, r)
    <2>1. /\ e \in Seq(Octet) /\ Len(e) >= 14 /\ Holds(e, 5, d)
          /\ Holds(e, 4, <<ComStmtExecute>>)
          /\ \E t, i, ss, g :
               t \in Nat /\ i \in Nat /\ Execution(e, m, n, t, i, ss, g)
      BY <1>2, <1>3, <1>4, <1>7, ExecutionParts
    <2>2. PICK t, i, ss, g :
            t \in Nat /\ i \in Nat /\ Execution(e, m, n, t, i, ss, g)
      BY <2>1
    <2>3. Beginning(p, e) /\ p \in Seq(Octet) /\ Len(p) \in Nat
      BY <1>2 DEF Beginning
    <2>4. PICK f : f = Fields(p, n)
      OBVIOUS
    <2>5. FieldsOf(f, p, n)
      BY <2>3, <2>4, FieldsRec
    <2>6. r = DecodeComStmtExecuteRequest(p, n)
      BY <1>1, <1>4, <1>5, DecodedCases
    <2>7. p = e => ~Ends(p, n)
      BY <1>5, <1>7, <2>2, WholeTypes
    <2>8. CASE Len(p) < 14
      <3>1. r.err = "length"
        BY <2>3, <2>4, <2>6, <2>8, ExecuteCases, Results
      <3>2. p # e
        BY <2>1, <2>3, <2>8
      <3> QED
        BY <1>2, <1>5, <3>1, <3>2 DEF Understood, Errors
    <2>9. ASSUME ~(Len(p) < 14)
          PROVE  Byte(p, 4) = ComStmtExecute /\ Bytes(p, 5, 4) = d
      <3>1. Byte(p, 4) = IF 4 < Len(p) THEN ComStmtExecute ELSE 0
        BY <2>1, <2>3, ByteRead
      <3>2. Len(d) = 4
        BY DEF Text
      <3>3. 5 + Len(d) <= Len(p) /\ 4 < Len(p)
        BY <2>3, <2>9, <3>2
      <3>4. Bytes(p, 5, Len(d)) = d
        BY <2>1, <2>3, <3>3, BytesFaded
      <3> QED
        BY <3>1, <3>2, <3>3, <3>4
    <2>10. CASE ~(Len(p) < 14) /\ Ends(p, n)
      <3>1. r.err = "EOF"
        BY <2>3, <2>4, <2>6, <2>9, <2>10, ExecuteCases, Results
      <3> QED
        BY <1>2, <1>5, <2>7, <2>10, <3>1 DEF Understood, Errors
    <2>11. CASE ~(Len(p) < 14) /\ ~Ends(p, n)
      <3>1. r = IF f[n].err # "nil" THEN Fail(f[n].err)
                ELSE Ok([id |-> d, params |-> ParamsRead(p, n, f)])
        BY <2>3, <2>4, <2>6, <2>9, <2>11, ExecuteCases
      <3>2. f[n].err \in {"nil", "EOF", "field", "panic"}
        BY <2>5, ErrorsOf
      <3>3. r.err = f[n].err
        BY <3>1, Results
      <3>4. Arrived(p, e, m, n, t, i, ss, g)
        BY <1>5, <1>7, <2>2, <2>3, <2>11 DEF Arrived
      <3>5. CASE ~m.typed
        <4>1. ~Typed(p, n)
          BY <3>4, <3>5, TypesRead
        <4>2. f[n].err = "field"
          BY <1>7, <2>3, <2>5, <4>1, Untyped
        <4> QED
          BY <1>5, <3>3, <3>5, <4>2
             DEF Understood, Errors, Right, Faded, Plain
      <3>6. CASE m.typed
        <4>1. /\ ~HasNull(m) => f[n].err # "panic"
              /\ p = e /\ Plain(m) => f[n].err = "nil"
              /\ f[n].err = "nil" =>
                   \A j \in 1 .. n :
                     NoNull(m.params, j) =>
                       /\ FadedSeq(f[j].val, m.params[j].val)
                       /\ p = e => f[j].val = m.params[j].val
          <5>1. Sent(p, e, m, n, t, i, ss, g)
            BY <1>4, <3>4, <3>6 DEF Sent
          <5>2. FieldsRight(p, e, m, n, f)
            BY <2>4, <5>1, FieldsUnderstood, Zenon
          <5> QED
            BY <5>2 DEF FieldsRight
        <4>2. /\ \A j \in 1 .. n : ParamType(p, n, j) = m.params[j].type
              /\ p = e => \A j \in 1 .. n :
                            ParamFlag(p, n, j) = m.params[j].flag
          BY <3>4, <3>6, TypesRead
        <4>3. DOMAIN m.params = 1 .. n
          BY <1>4, <1>5
        <4>4. CASE f[n].err = "nil"
          <5>1. r.err = "nil"
                /\ r.val = [id |-> d, params |-> ParamsRead(p, n, f)]
            BY <3>1, <4>4, Results
          <5>2. NewParams(p, e, m, n, f)
            BY <1>5, <4>1, <4>2, <4>3, <4>4 DEF NewParams
          <5>3. PICK x : x = ParamsRead(p, n, f)
            OBVIOUS
          <5>4. /\ p = e => Right(m, r)
                /\ Faded(m, r.val)
            BY <1>3, <5>1, <5>2, ParamsRight
          <5> QED
            BY <1>2, <1>5, <5>1, <5>4 DEF Understood, Errors
        <4>5. CASE f[n].err # "nil"
          <5>1. p = e => ~Plain(m)
            BY <4>1, <4>5
          <5>2. r.err = "panic" => HasNull(m)
            BY <3>3, <4>1
          <5> QED
            BY <1>2, <1>5, <3>2, <3>3, <4>5, <5>1, <5>2
               DEF Understood, Errors, Right
        <4> QED
          BY <4>4, <4>5
      <3> QED
        BY <3>5, <3>6
    <2> QED
      BY <2>8, <2>10, <2>11
  <1> QED
    BY <1>1, <1>4, <1>6, <1>7

-----------------------------------------------------------------------------
(* The inductive invariant: what arrived is a beginning of the message,     *)
(* and the result is that of the decoder.                                   *)

\* The peer writes bytes.
LEMMA EncodeOctets ==
  ASSUME NEW m \in Messages
  PROVE  Encode(m) \in Seq(Octet)
  <1>1. CASE m \in ErrorMsgs
    <2>1. PICK u : u = << 35 >> \o m.state \o m.text
      OBVIOUS
    <2> QED
      BY <1>1, <2>1, ErrorParts, Zenon
  <1>2. CASE m \in OkMsgs
    BY <1>2, OkParts, Zenon
  <1>3. CASE m \in HelloMsgs
    BY <1>3, HandshakeParts
  <1>4. CASE m \in LoginMsgs
    BY <1>4, LoginParts
  <1>5. CASE m \in QueryMsgs
    BY <1>5, QueryParts
  <1>6. CASE m \in PreparedMsgs
    BY <1>6, PreparedParts
  <1>7. CASE m \in ExecuteMsgs
    <2>1. PICK n \in Nat : n = Len(m.params)
      BY <1>7, ExecuteFacts
    <2>2. CASE n > 0
      BY <1>7, <2>1, <2>2, ExecutionParts
    <2>3. CASE n = 0
      <3>1. m.params = <<>>
        BY <1>7, <2>1, <2>3, ExecuteFacts, NoneLeft
      <3>2. Sized(<<>>, 0)
        BY DEF Sized
      <3> QED
        BY <1>7, <3>1, <3>2, ExecuteParts, Zenon
    <2> QED
      BY <2>2, <2>3
  <1>8. CASE m \in CountMsgs
    BY <1>8 DEF CountMsgs, Encode
  <1> QED
    BY <1>1, <1>2, <1>3, <1>4, <1>5, <1>6, <1>7, <1>8, MessagesAssumption

\* Whatever the message, the decoder makes of what arrived what it should.
LEMMA AllUnderstood ==
  ASSUME NEW m \in Messages, NEW p, Beginning(p, Encode(m))
  PROVE  Understood(m, p, Decoded(m, p))
  BY MessagesAssumption, ErrorUnderstood, OkUnderstood, HelloUnderstood,
     LoginUnderstood, QueryUnderstood, PreparedUnderstood, ExecuteUnderstood,
     CountUnderstood, Zenon

\* There is no result yet, or it is the decoder's.
Result == out = Pending \/ out = Decoded(msg, packet)

\* The inductive invariant.
Inv == msg \in Messages /\ Beginning(packet, Encode(msg)) /\ Result

\* Nothing is the beginning of any packet.
LEMMA NothingArrived ==
  ASSUME NEW e \in Seq(Octet)
  PROVE  Beginning(<<>>, e)
  BY DEF Beginning

\* So are the first n of its bytes.
LEMMA PartArrived ==
  ASSUME NEW e \in Seq(Octet), NEW n \in 1 .. Len(e)
  PROVE  Beginning(SubSeq(e, 1, n), e)
  <1>1. PICK p : p = SubSeq(e, 1, n)
    OBVIOUS
  <1>2. p \in Seq(Octet) /\ Len(p) = n /\ \A j \in 1 .. n : p[j] = e[j]
    BY <1>1
  <1> QED
    BY <1>1, <1>2 DEF Beginning

\* Before the call there is no result.
LEMMA PendingErr == Pending.err = "pending"
  BY DEF Pending

\* The invariant holds at first,
LEMMA InitInv == Init => Inv
  BY EncodeOctets, NothingArrived DEF Init, Inv, Result

\* every step keeps it,
LEMMA NextInv == Inv /\ [Next]_vars => Inv'
  <1> SUFFICES ASSUME Inv, [Next]_vars PROVE Inv'
    OBVIOUS
  <1>1. CASE Decode
    BY <1>1 DEF Decode, Inv, Result
  <1>2. ASSUME NEW n \in 1 .. Len(Encode(msg)), Arrive(n)
        PROVE  Inv'
    <2>1. out = Pending
      <3>1. out = Decoded(msg, packet) => out.err \in Errors
        BY AllUnderstood DEF Inv, Understood
      <3>2. out.err \notin Errors
        BY <1>2 DEF Arrive, Errors
      <3> QED
        BY <3>1, <3>2 DEF Inv, Result
    <2>2. Beginning(packet', Encode(msg))
      <3>1. packet' = SubSeq(Encode(msg), 1, n)
        BY <1>2 DEF Arrive
      <3>2. Encode(msg) \in Seq(Octet)
        BY EncodeOctets DEF Inv
      <3> QED
        BY <3>1, <3>2, PartArrived
    <2> QED
      BY <1>2, <2>1, <2>2 DEF Arrive, Inv, Result
  <1>3. CASE UNCHANGED vars
    BY <1>3 DEF vars, Inv, Result
  <1> QED
    BY <1>1, <1>2, <1>3 DEF Next

\* and so what arrived is always a beginning of the message, and the result
\* what the decoder makes of it.
THEOREM Invariance == Spec => []Inv
  BY InitInv, NextInv, PTL DEF Spec

\* What the invariant says of a result.
LEMMA Decided ==
  ASSUME Inv, out.err # "pending"
  PROVE  Understood(msg, packet, out) /\ out = Decoded(msg, packet)
  BY AllUnderstood, PendingErr DEF Inv, Result

-----------------------------------------------------------------------------
(* The properties.                                                          *)

\* A packet is a sequence of bytes, a result one of those a decoder has, and
\* the number of parameters a 16-bit one.
THEOREM TypeCorrect == Spec => []TypeOK
  <1>1. Inv => TypeOK
    <2> SUFFICES ASSUME Inv PROVE TypeOK
      OBVIOUS
    <2>1. msg \in Messages /\ packet \in Seq(Octet)
      BY DEF Inv, Beginning
    <2>2. CASE out.err = "pending"
      BY <2>1, <2>2 DEF TypeOK
    <2>3. CASE out.err # "pending"
      BY <2>1, <2>3, Decided DEF TypeOK, Understood, Errors
    <2> QED
      BY <2>2, <2>3
  <1> QED
    BY <1>1, Invariance, PTL

\* Every message that arrives whole decodes to what was encoded, with the
\* exceptions that Right names: whatever its texts, numbers and parameters.
THEOREM RoundTrips == Spec => []RoundTrip
  <1>1. Inv => RoundTrip
    BY Decided DEF RoundTrip, Whole, Understood
  <1> QED
    BY <1>1, Invariance, PTL

\* A message cut anywhere is refused or decodes to itself with the ends of
\* its fields missing or zeroed: no decoder (decoder.go) misplaces a field
\* because a Read was short.
THEOREM CutIsFaded == Spec => []CutShort
  <1>1. Inv => CutShort
    BY Decided DEF CutShort, Understood
  <1> QED
    BY <1>1, Invariance, PTL

\* GetPacketType (decoder.go) panics exactly on chunks without a fifth byte,
\* and of the decoders only that of COM_STMT_EXECUTE can panic, when a
\* parameter is NULL.
THEOREM KnownPanics == Spec => []PanicsAreKnown
  <1>1. Inv => PanicsAreKnown
    <2> SUFFICES ASSUME Inv PROVE PanicsAreKnown
      OBVIOUS
    <2>1. out.err = "panic" => msg.kind = "execute" /\ HasNull(msg)
      BY Decided DEF Understood
    <2>2. Len(packet) < 5 => GetPacketType(packet).err = "panic"
      BY Results DEF GetPacketType
    <2>3. ASSUME ~(Len(packet) < 5)
          PROVE  /\ GetPacketType(packet).err = "nil"
                 /\ GetPacketType(packet).val = Encode(msg)[5]
      <3>1. PICK p \in Seq(Octet) : p = packet
        BY DEF Inv, Beginning
      <3>2. 4 < Len(p) /\ 5 \in 1 .. Len(p)
        BY <2>3, <3>1
      <3>3. p[5] = Encode(msg)[5]
        BY <3>1, <3>2 DEF Inv, Beginning
      <3>4. Byte(p, 4) = p[5]
        BY <3>2 DEF Byte, Has
      <3>5. GetPacketType(p) = Ok(Byte(p, 4))
        BY <2>3, <3>1 DEF GetPacketType
      <3> QED
        BY <3>1, <3>3, <3>4, <3>5, Results
    <2> QED
      BY <2>1, <2>2, <2>3 DEF PanicsAreKnown
  <1> QED
    BY <1>1, Invariance, PTL

\* NullBitmapLength by the number of parameters.
LEMMA BitmapBits ==
  ASSUME NEW n \in Word
  PROVE  IF n <= 65528 THEN NullBitmapLength(n) * 8 \in n .. n + 7
         ELSE NullBitmapLength(n) = 0
  <1>1. n \in Nat /\ n <= 65535
    BY DEF Word
  <1>2. CASE n <= 65528
    <2>1. NullBitmapLength(n) = (n + 7) \div 8
      BY <1>1, <1>2, MeasuredLength DEF Measured
    <2>2. ((n + 7) \div 8) * 8 \in n .. n + 7
      BY <1>1
    <2> QED
      BY <1>2, <2>1, <2>2
  <1>3. CASE n > 65528
    <2>1. (n + 7) % 65536 \in 0 .. 6
      BY <1>1, <1>3
    <2>2. \A k \in 0 .. 6 : k \div 8 = 0
      OBVIOUS
    <2> QED
      BY <1>1, <1>3, <2>1, <2>2 DEF NullBitmapLength
  <1> QED
    BY <1>1, <1>2, <1>3

\* The NULL bitmap of up to 65528 parameters is measured right, and that of
\* more is taken to be empty.
THEOREM BitmapIsRight == Spec => []BitmapCovers
  <1>1. Inv => BitmapCovers
    <2> SUFFICES ASSUME Inv, msg.kind = "count", out.err = "nil"
                 PROVE  BitmapCovers
      BY DEF BitmapCovers
    <2>1. msg.n \in Word
      BY MessagesAssumption, KindsDiffer
         DEF Inv, ErrorMsgs, OkMsgs, HelloMsgs, LoginMsgs, QueryMsgs,
             PreparedMsgs, ExecuteMsgs, CountMsgs
    <2>2. out.val = NullBitmapLength(msg.n)
      BY Decided, DecodedCases, Results
    <2> QED
      BY <2>1, <2>2, BitmapBits DEF BitmapCovers
  <1> QED
    BY <1>1, Invariance, PTL
=============================================================================
