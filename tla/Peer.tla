-------------------------------- MODULE Peer --------------------------------
(***************************************************************************)
(* A peer that speaks the MySQL protocol writes a message, some of it      *)
(* arrives, and the decoder is called on what arrived: all of the packet,  *)
(* as packet.go delivers it, or the beginning of it, as a Read of the      *)
(* proxy may.  Encode is the reference the decoder is compared with.       *)
(***************************************************************************)
EXTENDS Decoder

CONSTANT Messages   \* what the peer may write

\* Messages are made of bytes and of numbers of the width they have in the
\* protocol; row counts and lengths stay below 2^31.  Texts that end in a NUL
\* have none inside, the values of numbers have eight bytes, a statement has no
\* more parameters than its bitmap is measured right for (BitmapCovers), and no
\* string is longer than a buffer can be.
Word    == {v \in Nat : v <= 65535}
Count   == {v \in Nat : v <= 2147483647}
Text(n) == {s \in Seq(Octet) : Len(s) = n}
NonZero == 1 .. 255
NonNul  == Seq(NonZero)
Param   == [type : Octet, flag : Octet, null : BOOLEAN, val : Seq(Octet)]

Proper(q) ==
  /\ q.null => q.val = <<>>
  /\ ~q.null /\ q.type \in {FieldTypeLongLong, FieldTypeDouble} =>
       Len(q.val) = 8
  /\ Len(q.val) \in Count /\ Len(q.val) <= MaxMake

ErrorMsgs == [kind : {"error"}, code : Text(2), state : Seq(Octet),
              text : Seq(Octet)]
OkMsgs    == [kind : {"ok"}, rows : Count, insert : Count]
HelloMsgs == [kind : {"hello"}, version : Octet, server : NonNul,
              id : Text(4), seed : Octet, caps : Text(4), plugin : NonNul]
LoginMsgs == [kind : {"login"}, caps : Text(4), charset : Octet]
QueryMsgs == [kind : {"query"}, type : {ComQuery, ComStmtPrepare},
              text : Seq(Octet)]
PreparedMsgs == [kind : {"prepared"}, id : Text(4), columns : Word,
                 params : Word]
ExecuteMsgs ==
  {m \in [kind : {"execute"}, id : Text(4), typed : BOOLEAN,
          params : Seq(Param)] :
     Len(m.params) <= 65528 /\ \A j \in DOMAIN m.params : Proper(m.params[j])}
CountMsgs == [kind : {"count"}, n : Word]

ASSUME MessagesAssumption ==
  \A m \in Messages :
    \/ m \in ErrorMsgs \/ m \in OkMsgs \/ m \in HelloMsgs \/ m \in LoginMsgs
    \/ m \in QueryMsgs \/ m \in PreparedMsgs \/ m \in ExecuteMsgs
    \/ m \in CountMsgs

VARIABLES msg,      \* the message
          packet,   \* the bytes of it that arrived
          out       \* what the decoder made of them

vars == <<msg, packet, out>>

\* Before the call.
Pending == [err |-> "pending", val |-> <<>>]

-----------------------------------------------------------------------------
(* The peer.                                                               *)

Weight == <<1, 256, 65536, 16777216>>
Digit(v, j) == IF j > 4 THEN 0 ELSE (v \div Weight[j]) % 256
Number(v, w) == [j \in 1 .. w |-> Digit(v, j)]
Fill(n) == [j \in 1 .. n |-> 7]
LenEnc(v) == IF v < 251 THEN <<v>>
             ELSE IF v < 65536 THEN <<252>> \o Number(v, 2)
             ELSE IF v < 16777216 THEN <<253>> \o Number(v, 3)
             ELSE <<254>> \o Number(v, 8)

Bit(params, j) == IF j <= Len(params) /\ params[j].null THEN 1 ELSE 0
NullBitmap(params) ==
  [b \in 1 .. (Len(params) + 7) \div 8 |->
     LET bit(k) == Bit(params, 8 * (b - 1) + k)
     IN  bit(1) + 2 * bit(2) + 4 * bit(3) + 8 * bit(4)
           + 16 * bit(5) + 32 * bit(6) + 64 * bit(7) + 128 * bit(8)]

Value(q) == (IF q.type = FieldTypeString /\ ~q.null THEN LenEnc(Len(q.val))
             ELSE <<>>) \o q.val
TypeFlags(params) ==
  FlattenSeq([j \in DOMAIN params |-> <<params[j].type, params[j].flag>>])
Values(params) == FlattenSeq([j \in DOMAIN params |-> Value(params[j])])

ErrorBody(m) == <<ResponseErr>> \o m.code \o <<35>> \o m.state \o m.text
OkBody(m) ==
  <<ResponseOk>> \o LenEnc(m.rows) \o LenEnc(m.insert) \o Fill(4)
HelloBody(m) ==
  LET plugin == Flag(m.caps, PluginAuth)
  IN  <<m.version>> \o m.server \o <<0>> \o m.id \o Fill(8) \o <<0>>
        \o <<m.caps[1], m.caps[2]>> \o Fill(3) \o <<m.caps[3], m.caps[4]>>
        \o <<IF plugin THEN m.seed ELSE 0>> \o Number(0, 10)
        \o (IF Flag(m.caps, SecureConnection)
            THEN Fill(IF m.seed > 21 THEN m.seed - 8 ELSE 13) ELSE <<>>)
        \o (IF plugin THEN m.plugin \o <<0>> ELSE <<>>)
LoginBody(m) == m.caps \o Fill(4) \o <<m.charset>> \o Fill(4)
QueryBody(m) == <<m.type>> \o m.text
PreparedBody(m) ==
  <<ResponseOk>> \o m.id \o Number(m.columns, 2) \o Number(m.params, 2)
    \o Fill(3)
ParamsBody(m) ==
  NullBitmap(m.params) \o <<IF m.typed THEN 1 ELSE 0>>
    \o (IF m.typed THEN TypeFlags(m.params) ELSE <<>>) \o Values(m.params)
ExecuteBody(m) ==
  <<ComStmtExecute>> \o m.id \o <<0>> \o Number(1, 4)
    \o (IF m.params = <<>> THEN <<>> ELSE ParamsBody(m))

Body(m) == CASE m.kind = "error"    -> ErrorBody(m)
             [] m.kind = "ok"       -> OkBody(m)
             [] m.kind = "hello"    -> HelloBody(m)
             [] m.kind = "login"    -> LoginBody(m)
             [] m.kind = "query"    -> QueryBody(m)
             [] m.kind = "prepared" -> PreparedBody(m)
             [] m.kind = "execute"  -> ExecuteBody(m)

Encode(m) ==
  IF m.kind = "count" THEN <<>>
  ELSE Number(Len(Body(m)), 3) \o <<0>> \o Body(m)

\* What the decoder's result is meant to be.
Meaning(m) ==
  CASE m.kind \in {"error", "query"} -> m.text
    [] m.kind = "ok" -> [type |-> 0, rows |-> m.rows, insert |-> m.insert]
    [] m.kind = "hello" ->
         [version |-> m.version, server |-> m.server, id |-> m.id,
          caps |-> m.caps,
          plugin |-> IF Flag(m.caps, PluginAuth) THEN m.plugin ELSE <<>>]
    [] m.kind = "login" -> [caps |-> m.caps, charset |-> m.charset]
    [] m.kind = "prepared" -> [id |-> m.id, params |-> m.params]
    [] m.kind = "execute" ->
         [id |-> m.id,
          params |-> [j \in DOMAIN m.params |->
                        [type |-> m.params[j].type, val |-> m.params[j].val,
                         flag |-> m.params[j].flag]]]

-----------------------------------------------------------------------------
Init == msg \in Messages /\ packet = <<>> /\ out = Pending

\* n bytes of the packet arrive.
Arrive(n) ==
  /\ out.err = "pending" /\ packet = <<>>
  /\ packet' = SubSeq(Encode(msg), 1, n)
  /\ UNCHANGED <<msg, out>>

\* The function a caller uses for this message.
Decoded(m, p) ==
  CASE m.kind = "error"    -> DecodeErrResponse(p)
    [] m.kind = "ok"       -> DecodeOkResponse(p)
    [] m.kind = "hello"    -> DecodeHandshakeV10(p)
    [] m.kind = "login"    -> DecodeHandshakeResponse41(p)
    [] m.kind = "query"    -> DecodeQueryRequest(p)
    [] m.kind = "prepared" -> DecodeComStmtPrepareOkResponse(p)
    [] m.kind = "execute"  -> DecodeComStmtExecuteRequest(p, Len(m.params))
    [] m.kind = "count"    -> Ok(NullBitmapLength(m.n))

Decode ==
  /\ out.err = "pending"
  /\ packet # <<>> \/ msg.kind = "count"
  /\ out' = Decoded(msg, packet)
  /\ UNCHANGED <<msg, packet>>

Next == Decode \/ \E n \in 1 .. Len(Encode(msg)) : Arrive(n)

Spec == Init /\ [][Next]_vars

-----------------------------------------------------------------------------
(* Properties.                                                             *)

TypeOK ==
  /\ msg \in Messages
  /\ packet \in Seq(Octet)
  /\ msg.kind = "prepared" /\ out.err = "nil" =>
       out.val.params \in Word
  /\ out.err \in {"pending", "nil", "length", "type", "EOF", "field", "panic"}

Whole == out.err # "pending" /\ packet = Encode(msg)
HasNull(m) == \E j \in DOMAIN m.params : m.params[j].null
Known == {FieldTypeString, FieldTypeLongLong, FieldTypeDouble}
\* The executions the decoder is made for.
Plain(m) == m.typed /\ ~HasNull(m)
              /\ \A j \in DOMAIN m.params : m.params[j].type \in Known

\* A whole packet decodes to what was encoded: lengths of every width, the
\* optional fields of the handshake (also without the filler byte that the
\* code does not skip when authentication has no plugin), every parameter.
\* With four exceptions: a statement needs a byte at least; the message of an
\* error begins with its marker and SQL state; an execution is promised only if
\* it sends the types of its parameters and they are known ones (Plain); and as
\* the NULL bitmap is skipped but not read, a NULL takes the bytes of the next
\* value.  What an execution with a NULL, without types or with an unknown type
\* decodes to is right for the parameters before the first NULL.
Right(m, r) ==
  /\ \/ m.kind \in {"ok", "hello", "login", "prepared"}
     \/ m.kind = "query" /\ m.text # <<>>
     \/ m.kind = "execute" /\ Plain(m)
     => r.err = "nil" /\ r.val = Meaning(m)
  /\ m.kind = "error" => r.err = "nil" /\ r.val = <<35>> \o m.state \o m.text
  /\ m.kind = "execute" /\ r.err = "nil" =>
       \A j \in DOMAIN m.params :
         (\A k \in 1 .. j : ~m.params[k].null) =>
           r.val.params[j] = Meaning(m).params[j]

RoundTrip == Whole => Right(msg, out)

\* x is y with its end missing or replaced by zeros.
FadedSeq(x, y) ==
  /\ Len(x) <= Len(y)
  /\ \E k \in 0 .. Len(x) :
       \A j \in DOMAIN x : x[j] = IF j <= k THEN y[j] ELSE 0

\* The beginning of a packet is refused or decodes to the message with the
\* ends of its fields missing or zeroed: bytes.Reader.Read does not report a
\* short read and several errors are dropped, but nothing is misplaced.
Faded(m, val) ==
  /\ m.kind = "query" => FadedSeq(val, m.text)
  /\ m.kind = "ok" => val.rows <= m.rows /\ val.insert <= m.insert
  /\ m.kind = "hello" =>
       /\ val.version = m.version /\ val.id = m.id /\ val.server = m.server
       /\ FadedSeq(val.caps, m.caps)
       /\ FadedSeq(val.plugin, Meaning(m).plugin)
  /\ m.kind \in {"login", "prepared"} => val = Meaning(m)
  /\ m.kind = "execute" /\ Plain(m) =>
       \A j \in DOMAIN m.params : FadedSeq(val.params[j].val, m.params[j].val)

CutShort == out.err = "nil" => Faded(msg, out.val)

\* The proxy switches on the fifth byte of whatever a Read returned: a chunk
\* with the whole header is taken for what its packet is, a shorter one
\* panics, and that ends the process.  Of the decoding functions only that of
\* COM_STMT_EXECUTE can panic, if a NULL makes it take text for a length.
PanicsAreKnown ==
  /\ LET t == GetPacketType(packet)
     IN  IF Len(packet) < 5 THEN t.err = "panic"
         ELSE t.err = "nil" /\ t.val = Encode(msg)[5]
  /\ out.err = "panic" => msg.kind = "execute" /\ HasNull(msg)

\* The bitmap of n parameters has a bit for each and no byte too many, until
\* n + 7 no longer fits a uint16.
BitmapCovers ==
  msg.kind = "count" /\ out.err = "nil" =>
    IF msg.n <= 65528 THEN out.val * 8 \in msg.n .. msg.n + 7 ELSE out.val = 0
=============================================================================
