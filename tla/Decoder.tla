------------------------------ MODULE Decoder ------------------------------
(***************************************************************************)
(* protocol/decoder.go: the functions that take one packet apart, and the  *)
(* constants of const.go they use.  A packet is the sequence of its bytes, *)
(* header included; uint32 and uint64 values that are only passed on stay  *)
(* their little-endian bytes, and a number's text stays its eight bytes.   *)
(*                                                                         *)
(* A bytes.Reader is the packet and an offset.  Read past the end fails    *)
(* with io.EOF, a Read that finds too little fills the rest of its buffer  *)
(* with zeros and does not fail, and Seek never fails.  Every read after   *)
(* a short one fails, so the offset need not stop at the packet's end.     *)
(***************************************************************************)
EXTENDS Integers, Sequences, SequencesExt

CONSTANT MaxMake   \* the largest buffer make() can allocate

ASSUME DecoderAssumption == MaxMake \in Nat

-----------------------------------------------------------------------------
(* Constants (const.go): codes and numbers of capability bits.             *)

ResponseOk  == 0
ResponseErr == 255

ComQuery == 3
ComStmtPrepare == 22
ComStmtExecute == 23

FieldTypeDouble   == 5
FieldTypeLongLong == 8
FieldTypeString   == 253

SecureConnection == 15
PluginAuth   == 19

\* Bit k of a capability word given by its bytes.
Flag(caps, k) == (caps[k \div 8 + 1] \div 2 ^ (k % 8)) % 2 = 1

-----------------------------------------------------------------------------
(* The reader.                                                             *)

Octet == 0 .. 255

Ok(v)   == [err |-> "nil", val |-> v]
Fail(e) == [err |-> e, val |-> <<>>]

\* A read at offset i finds a byte; otherwise it fails with io.EOF.
Has(p, i) == i < Len(p)
Byte(p, i) == IF Has(p, i) THEN p[i + 1] ELSE 0
Bytes(p, i, n) == [j \in 1 .. n |-> Byte(p, i + j - 1)]

\* The last byte counts most: value[k] is that of the last k bytes.
LittleEndian(b) ==
  LET value[k \in 0 .. Len(b)] ==
        IF k = 0 THEN 0 ELSE b[Len(b) - k + 1] + 256 * value[k - 1]
  IN  value[Len(b)]

\* Bytes that follow the first one of a length-encoded integer.
LenEncWidth(b) ==
  IF b = 252 THEN 2 ELSE IF b = 253 THEN 3 ELSE IF b = 254 THEN 8 ELSE 0

MutLenEncInteger(p, i) ==   \* 0xfc taken for a one-byte value
  LET b == Byte(p, i)
      w == IF b = 252 THEN 0 ELSE LenEncWidth(b)
  IN  [val  |-> IF w > 0 THEN LittleEndian(Bytes(p, i + 1, w))
                ELSE IF b = 251 THEN 0 ELSE b,
       offset |-> w + 1, next |-> i + 1 + w]

\* On io.EOF value and offset are 0; the value is 0 there anyhow.
ReadLenEncodedInteger(p, i) ==
  LET b == Byte(p, i)
      w == LenEncWidth(b)
  IN  [val    |-> IF w > 0 THEN LittleEndian(Bytes(p, i + 1, w))
                  ELSE IF b = 251 THEN 0 ELSE b,
       offset |-> IF Has(p, i) /\ (w > 0 => Has(p, i + 1)) THEN w + 1 ELSE 0,
       next   |-> i + 1 + w]

\* make panics before anything is read.
ReadLenEncodedString(p, i) ==
  LET n == ReadLenEncodedInteger(p, i)
  IN  [err  |-> IF n.val > MaxMake THEN "panic"
                ELSE IF Has(p, n.next) THEN "nil" ELSE "EOF",
       val  |-> IF n.val <= MaxMake /\ Has(p, n.next)
                THEN Bytes(p, n.next, n.val) ELSE <<>>,
       next |-> n.next + n.val]

\* Where the string that starts at i ends: at a NUL or at the packet's end,
\* where ReadByte fails and returns 0.
NulFrom(p, i) ==
  CHOOSE j \in i .. i + Len(p) :
    Byte(p, j) = 0 /\ \A k \in i .. j - 1 : Byte(p, k) # 0
ReadNullTerminatedString(p, i) == Bytes(p, i, NulFrom(p, i) - i)

ReadEOFLengthString(p, i) == Bytes(p, i, Len(p) - i)

-----------------------------------------------------------------------------
(* What the proxy calls.                                                   *)

MutGetPacketType(p) ==   \* the sequence number's byte
  IF Len(p) < 4 THEN Fail("panic") ELSE Ok(Byte(p, 3))

\* packet[4] of a shorter slice panics.
GetPacketType(p) == IF Len(p) < 5 THEN Fail("panic") ELSE Ok(Byte(p, 4))

MutDecodeErrResponse(p) ==   \* packet[7:] of whatever there is
  IF Len(p) < 7 THEN Fail("panic") ELSE Ok(ReadEOFLengthString(p, 7))

DecodeErrResponse(p) ==
  IF Len(p) < 8 THEN Fail("length") ELSE Ok(ReadEOFLengthString(p, 7))

DecodeQueryRequest(p) ==
  CASE Len(p) < 6 -> Fail("length")
    [] Len(p) >= 6 /\ Byte(p, 4) \notin {ComQuery, ComStmtPrepare} ->
         Fail("type")
    [] OTHER -> Ok(ReadEOFLengthString(p, 5))

-----------------------------------------------------------------------------
(* Responses and the handshake.                                            *)

DecodeOkResponse(p) ==
  IF Len(p) < 5 THEN Fail("length")
  ELSE LET rows == ReadLenEncodedInteger(p, 5)
       IN  Ok([type |-> Byte(p, 4), rows |-> rows.val,
               insert |-> ReadLenEncodedInteger(p, rows.next).val])

\* Fixed fields after the NUL of the server's version: ConnectionID at i,
\* capabilities at i+13 and i+18, then the length of the seed if there is
\* authentication by plugin (nothing is skipped in its place otherwise).
DecodeHandshakeV10(p) ==
  LET i      == NulFrom(p, 5) + 1
      caps   == Bytes(p, i + 13, 2) \o Bytes(p, i + 18, 2)
      plugin == Flag(caps, PluginAuth)
      seed   == IF Byte(p, i + 20) > 21 THEN Byte(p, i + 20) - 8 ELSE 13
      name   == i + 30 + (IF plugin THEN 1 ELSE 0)
                  + (IF ~Flag(caps, SecureConnection) THEN 0
                     ELSE IF plugin THEN seed ELSE 13)
  IN  IF ~Has(p, i + 18) \/ (plugin /\ ~Has(p, i + 20)) THEN Fail("EOF")
      ELSE Ok([version |-> Byte(p, 4),
               server  |-> ReadNullTerminatedString(p, 5),
               id      |-> Bytes(p, i, 4),
               caps    |-> caps,
               plugin  |-> IF plugin THEN ReadNullTerminatedString(p, name)
                           ELSE <<>>])

MutHandshakeResponse41(p) ==   \* the error of the last read is dropped
  IF ~Has(p, 4) THEN Fail("EOF")
  ELSE Ok([caps |-> Bytes(p, 4, 4), charset |-> Byte(p, 12)])

DecodeHandshakeResponse41(p) ==
  IF ~Has(p, 12) THEN Fail("EOF")
  ELSE Ok([caps |-> Bytes(p, 4, 4), charset |-> Byte(p, 12)])

MutComStmtPrepareOkResponse(p) ==   \* a uint32
  IF Len(p) < 16 THEN Fail("length")
  ELSE Ok([id |-> Bytes(p, 5, 4), params |-> LittleEndian(Bytes(p, 11, 4))])

DecodeComStmtPrepareOkResponse(p) ==
  CASE Len(p) < 16 -> Fail("length")
    [] Len(p) >= 16 /\ Byte(p, 4) # ResponseOk -> Fail("type")
    [] OTHER -> Ok([id |-> Bytes(p, 5, 4),
                    params |-> LittleEndian(Bytes(p, 11, 2))])

-----------------------------------------------------------------------------
(* COM_STMT_EXECUTE.                                                       *)

\* DecodeFieldTypeString, ...LongLong, ...Double.  A missing string is "" and
\* so is a LongLong cut short; a Double cut short is completed with zeros.
DecodeField(type, p, i) ==
  CASE type = FieldTypeString ->
         LET s == ReadLenEncodedString(p, i)
         IN  [err |-> IF s.err = "EOF" THEN "nil" ELSE s.err,
              val |-> s.val, next |-> s.next]
    [] type = FieldTypeLongLong ->
         [err |-> "nil", next |-> i + 8,
          val |-> IF Has(p, i + 7) THEN Bytes(p, i, 8) ELSE <<>>]
    [] type = FieldTypeDouble ->
         [err |-> IF Has(p, i) THEN "nil" ELSE "EOF", next |-> i + 8,
          val |-> Bytes(p, i, 8)]
    [] OTHER -> [err |-> "field", val |-> <<>>, next |-> i]

MutNullBitmapLength(n) == n \div 8   \* rounded down

\* The sum is a uint16: it is taken modulo 2^16.
NullBitmapLength(n) == ((n + 7) % 65536) \div 8

\* The bitmap is skipped, not read: every parameter is taken to have a value.
TypesSent(n)    == 14 + NullBitmapLength(n)   \* SendTypeToServer
Typed(p, n)     == Byte(p, TypesSent(n)) = 1
ParamType(p, n, j) ==
  IF Typed(p, n) THEN Byte(p, TypesSent(n) + 2 * j - 1) ELSE 0
ParamFlag(p, n, j) == IF Typed(p, n) THEN Byte(p, TypesSent(n) + 2 * j) ELSE 0
ValuesFrom(p, n) == TypesSent(n) + 1 + (IF Typed(p, n) THEN 2 * n ELSE 0)

\* The values one after the other, until one fails.
Fields(p, n) ==
  LET field[j \in 0 .. n] ==
        IF j = 0 THEN [err |-> "nil", val |-> <<>>, next |-> ValuesFrom(p, n)]
        ELSE IF field[j - 1].err # "nil" THEN field[j - 1]
        ELSE DecodeField(ParamType(p, n, j), p, field[j - 1].next)
  IN  field

DecodeComStmtExecuteRequest(p, n) ==
  LET field == Fields(p, n)
  IN  CASE Len(p) < 14 -> Fail("length")
        [] Len(p) >= 14 /\ Byte(p, 4) # ComStmtExecute -> Fail("type")
        [] /\ Len(p) >= 14 /\ Byte(p, 4) = ComStmtExecute
           /\ n > 0
           /\ \/ ~Has(p, TypesSent(n))
              \/ Typed(p, n) /\ ~Has(p, ValuesFrom(p, n) - 2) ->
             Fail("EOF")
        [] OTHER ->
             IF field[n].err # "nil" THEN Fail(field[n].err)
             ELSE Ok([id |-> Bytes(p, 5, 4),
                      params |-> [j \in 1 .. n |->
                                    [type |-> ParamType(p, n, j),
                                     val |-> field[j].val,
                                     flag |-> ParamFlag(p, n, j)]]])
=============================================================================
