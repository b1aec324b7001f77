---------------------------- MODULE PacketReader ----------------------------
(***************************************************************************)
(* protocol/packet.go: one session read packet by packet, first the        *)
(* handshake and then one response per call.  ReadPacket blocks until a    *)
(* packet is complete; one step here is one ReadPacket and what the code   *)
(* does before the next.  Responses are those of the MySQL protocol, and   *)
(* either end may go away at any moment.                                   *)
(*                                                                         *)
(* The functions look at the first byte of a packet's body and at counts,  *)
(* so that is what a packet is here.  A row of 2^24-1 bytes or more comes  *)
(* in several packets, the last of which may be empty.                     *)
(***************************************************************************)
EXTENDS Integers, Sequences, SequencesExt

CONSTANTS MaxCalls,   \* bound: responses read in a session
          MaxCount    \* bound: columns, parameters and rows of a response

ASSUME ReaderAssumption == MaxCalls \in Nat /\ MaxCount \in Nat

VARIABLES mode,      \* what the reader is waiting for
          stream,    \* packets from the server that were not read yet
          closed,    \* the server's end is closed
          client,    \* "there", "answered" (its login is unread), "short" (it
                     \* sent a packet too short for a login) or "gone"
          caps,      \* which ends announced clientDeprecateEOF
          relayed,   \* packets written by ProxyPacket, with their destination
          call,      \* the function called last
          data,      \* the packets of the result
          left,      \* packets to be read by a counting loop
          sent,      \* history: the first response to the call
          further,   \* history: what follows it, the further result sets
          astray,    \* history: a call began with packets of an earlier one
                     \* unread, or a row took more than one packet
          calls      \* history: responses asked for

history == <<sent, further, astray, calls>>

wire == <<stream, closed, client>>
vars == <<mode, wire, caps, relayed, call, data, left, history>>

Packet(b, n, m) == [b |-> b, n |-> n, m |-> m]
\* What a length-encoded integer of nine bytes may come to.
Large     == 65536
OkP       == Packet("ok", 0, 0)
ErrP      == Packet("err", 0, 0)
EofP      == Packet("fe", Large, 0)    \* EOF, or an OK that stands for it
Infile    == Packet("infile", 0, 0)    \* the server asks for a file
Data      == Packet("data", 3, 0)      \* a column, a parameter
RowP      == Packet("row", 0, 0)       \* a row: its first byte may be that of
                                       \* an OK, or any small number
Wide      == Packet("fe", Large, 1)    \* part of a row whose value there is
                                       \* that long
Empty     == Packet("empty", 0, 0)     \* a packet without a body
Count(n)  == Packet("count", n, 0)
Prepared(p, c) == Packet("prepared", p, c)
Hello == Packet("hello", 0, 0)

Ended == {"idle", "failed", "panicked"}
Handshake == {"hello", "login", "verdict"}
Calls == {"ReadResponse", "ReadPrepareResponse", "ReadShowFieldsResponse"}

MutDeprecateEOFSet == caps # {}   \* either

\* ConnSettings.DeprecateEOFSet
DeprecateEOFSet == caps = {"server", "client"}

-----------------------------------------------------------------------------
(* The server's responses.                                                 *)

Items(p, n) == [j \in 1 .. n |-> p]
Eof == IF \A end \in {"server", "client"} : end \in caps THEN <<>> ELSE <<EofP>>
Listed(n) == IF n = 0 THEN <<>> ELSE Items(Data, n) \o Eof

Rows == {Items(RowP, n) : n \in 0 .. MaxCount}
          \cup {<<RowP, Wide>>, <<RowP, Empty>>, <<Wide, RowP>>}
Result(n, rows, end) == <<Count(n)>> \o Listed(n) \o rows \o <<end>>
Results ==
  {<<OkP>>, <<ErrP>>, <<Infile>>}
  \cup {Result(n, rows, end) :
          n \in 1 .. MaxCount, rows \in Rows, end \in {EofP, ErrP}}
Preparation(p, q) == <<Prepared(p, q)>> \o Listed(p) \o Listed(q)
Preparations ==
  {<<ErrP>>}
  \cup {Preparation(p, q) : p \in 0 .. MaxCount, q \in 0 .. MaxCount}
FieldLists == {<<ErrP>>} \cup {Items(Data, n) \o <<EofP>> : n \in 0 .. MaxCount}

Responses(c) == CASE c = "ReadResponse" -> Results
                  [] c = "ReadPrepareResponse" -> Preparations
                  [] c = "ReadShowFieldsResponse" -> FieldLists

\* A procedure, or several statements in one, may have more responses than one;
\* an error is the last.  One more, of a row at most, is enough: the call that
\* finds it is astray.
Further(c, r) ==
  {<<>>} \cup
  IF c # "ReadResponse" \/ Last(r).b \in {"err", "infile"} THEN {}
  ELSE {<<OkP>>, <<ErrP>>}
         \cup {Result(n, Items(RowP, 1), EofP) : n \in 1 .. MaxCount}

-----------------------------------------------------------------------------
Init ==
  /\ mode = "hello" /\ stream \in {<<Hello>>, <<ErrP>>} /\ closed = FALSE
  /\ client = "there" /\ caps \in SUBSET {"server", "client"}
  /\ relayed = <<>> /\ call = "ProcessHandshake"
  /\ data = <<>> /\ left = 0 /\ sent = <<>> /\ further = <<>>
  /\ astray = FALSE /\ calls = 0

\* The connection to the server ends; what was under way arrives in part.
ServerCloses ==
  /\ ~closed /\ closed' = TRUE
  /\ \E n \in 0 .. Len(stream) : stream' = SubSeq(stream, 1, n)
  /\ UNCHANGED <<mode, client, caps, relayed, call, data, left, history>>

ClientLeaves ==
  /\ client # "gone" /\ client' = "gone"
  /\ UNCHANGED <<mode, stream, closed, caps, relayed, call, data, left,
                 history>>

Split(r) == \E j \in DOMAIN r : r[j] \in {Wide, Empty}

\* A command reaches the server, which responds once it said OK; the caller
\* reads.
Ask(c) ==
  /\ mode = "idle" /\ ~closed /\ calls < MaxCalls
  /\ call = "ProcessHandshake" => sent = <<OkP>>
  /\ \E r \in Responses(c) : \E f \in Further(c, r) :
       /\ sent' = r /\ further' = f /\ stream' = stream \o (r \o f)
       /\ astray' = (astray \/ Split(r) \/ stream # <<>>)
  /\ mode' = "first" /\ call' = c /\ calls' = calls + 1
  /\ data' = <<>> /\ left' = 0
  /\ UNCHANGED <<closed, client, caps, relayed>>

-----------------------------------------------------------------------------
(* ReadPacket: io.ReadFull fails at the end of a closed connection.        *)

MutReadRetries ==   \* only the handshake gives up
  /\ mode \in Handshake
  /\ IF mode = "login" THEN client = "gone" ELSE stream = <<>> /\ closed
  /\ mode' = "failed" /\ data' = <<>>
  /\ UNCHANGED <<wire, caps, relayed, call, left, history>>

MutReadFails ==   \* the error is ignored, and pkt[4] looked up in nothing
  /\ mode \notin Ended
  /\ IF mode = "login" THEN client = "gone" ELSE stream = <<>> /\ closed
  /\ mode' = "panicked" /\ data' = <<>>
  /\ UNCHANGED <<wire, caps, relayed, call, left, history>>

ReadFails ==
  /\ mode \notin Ended
  /\ IF mode = "login" THEN client = "gone" ELSE stream = <<>> /\ closed
  /\ mode' = "failed" /\ data' = <<>>
  /\ UNCHANGED <<wire, caps, relayed, call, left, history>>

-----------------------------------------------------------------------------
(* ProcessHandshake: three packets are proxied.  The first two are decoded *)
(* when they have been written already: an ERR instead of a greeting, or a *)
(* login of less than nine bytes, ends the handshake half-way.  What the   *)
(* third one says, OK, ERR or a request for more, is not looked at.        *)

MutProxyPacket(dst, next) ==   \* written back to where it came from
  mode' = next /\ relayed' = Append(relayed, IF dst = "client" THEN "server"
                                             ELSE "client")

\* The write of ProxyPacket; next is what follows it.  A write to a connection
\* that was closed at the other end may or may not fail.
ProxyPacket(dst, next) ==
  \/ mode' = next /\ relayed' = Append(relayed, dst)
  \/ /\ (dst = "client" /\ client = "gone") \/ (dst = "server" /\ closed)
     /\ mode' = "failed" /\ UNCHANGED relayed

ServerHandshake ==
  /\ mode = "hello" /\ stream # <<>>
  /\ stream' = Tail(stream)
  /\ ProxyPacket("client", IF Head(stream) = ErrP THEN "failed" ELSE "login")
  /\ UNCHANGED <<closed, client, caps, call, data, left, history>>

\* The application logs in, or says something else, when it has the server's
\* packet.
ClientLogsIn ==
  /\ client = "there" /\ relayed # <<>>
  /\ client' \in {"answered", "short"}
  /\ UNCHANGED <<mode, stream, closed, caps, relayed, call, data, left,
                 history>>

\* The server's verdict follows, or nothing if the client asked for TLS.
ClientHandshake ==
  /\ mode = "login" /\ client \in {"answered", "short"}
  /\ ProxyPacket("server", IF client = "short" THEN "failed" ELSE "verdict")
  /\ stream' \in IF closed THEN {stream} ELSE {<<>>, <<OkP>>, <<ErrP>>, <<EofP>>}
  /\ UNCHANGED <<closed, client, caps, call, data, left, history>>

Verdict ==
  /\ mode = "verdict" /\ stream # <<>>
  /\ stream' = Tail(stream) /\ sent' = <<Head(stream)>>
  /\ ProxyPacket("client", "idle")
  /\ UNCHANGED <<closed, client, caps, call, data, left, further, astray, calls>>

-----------------------------------------------------------------------------
(* The three readers of responses.                                         *)

Consume(pkt) == stream' = Tail(stream) /\ data' = Append(data, pkt)

MutExpected(p) == p.n + p.m + 2   \* an EOF also after an empty list

\* packetsExpected of ReadPrepareResponse, with an EOF after each list.
Expected(p) ==
  (IF p.n > 0 THEN p.n + 1 ELSE 0) + (IF p.m > 0 THEN p.m + 1 ELSE 0)

\* What ReadResponse counts: the definitions and an EOF, unless told that there
\* is no EOF after them; ReadShowFieldsResponse says so always.
ToRead(p) ==
  IF call = "ReadShowFieldsResponse" \/ DeprecateEOFSet THEN {0}
  ELSE IF p.b = "row" THEN 1 .. MaxCount + 1 ELSE {p.n + 1}

FirstOfResponse ==
  LET p == Head(stream)
  IN  /\ mode = "first" /\ call # "ReadPrepareResponse" /\ stream # <<>>
      /\ Consume(p)
      /\ \/ p.b = "empty" /\ mode' = "panicked" /\ UNCHANGED left
         \/ /\ p.b \in {"ok", "prepared", "err", "row"}
            /\ mode' = "idle" /\ UNCHANGED left
         \/ /\ p.b \notin {"empty", "ok", "prepared", "err"}
            /\ left' \in ToRead(p)
            /\ mode' = IF left' = 0 THEN "rows" ELSE "counted"
      /\ UNCHANGED <<closed, client, caps, relayed, call, history>>

\* The two counts lie where a plain OK has its warnings and, behind its end but
\* within the array, whatever is there; a row may be too short for them.
Counts(p) ==
  CASE p.b = "prepared" -> {Expected(p)}
    [] p.b \in {"ok", "row"} ->
         {Expected(Prepared(v, w)) : v \in 0 .. MaxCount, w \in 0 .. MaxCount}
    [] OTHER -> {}

\* Another first byte is no error: the result is empty.
FirstOfPrepare ==
  LET p == Head(stream)
  IN  /\ mode = "first" /\ call = "ReadPrepareResponse" /\ stream # <<>>
      /\ stream' = Tail(stream)
      /\ \/ p.b \in {"empty", "row"} /\ mode' = "panicked" /\ UNCHANGED <<data, left>>
         \/ /\ left' \in Counts(p) /\ data' = <<p>>
            /\ mode' = IF left' = 0 THEN "idle" ELSE "counted"
         \/ p.b = "err" /\ mode' = "idle" /\ data' = <<p>> /\ UNCHANGED left
         \/ /\ p.b \notin {"empty", "ok", "prepared", "err"}
            /\ mode' = "idle" /\ UNCHANGED <<data, left>>
      /\ UNCHANGED <<closed, client, caps, relayed, call, history>>

MutCounted ==   \* one packet more
  /\ mode = "counted" /\ stream # <<>>
  /\ Consume(Head(stream))
  /\ left' = left - 1
  /\ mode' = IF left > 0 THEN mode ELSE "rows"
  /\ UNCHANGED <<closed, client, caps, relayed, call, history>>

\* The loops that count packets and do not look at them.
Counted ==
  /\ mode = "counted" /\ stream # <<>>
  /\ Consume(Head(stream))
  /\ left' = left - 1
  /\ mode' = IF left > 1 THEN mode
             ELSE IF call = "ReadPrepareResponse" THEN "idle" ELSE "rows"
  /\ UNCHANGED <<closed, client, caps, relayed, call, history>>

\* Rows until a first byte 0xfe.
Row ==
  /\ mode = "rows" /\ stream # <<>>
  /\ Consume(Head(stream))
  /\ mode' = CASE Head(stream).b = "fe"    -> "idle"
               [] Head(stream).b = "empty" -> "panicked"
               [] OTHER -> mode
  /\ UNCHANGED <<closed, client, caps, relayed, call, left, history>>

Read == \/ ServerHandshake \/ ClientHandshake \/ Verdict
        \/ FirstOfResponse \/ FirstOfPrepare \/ Counted \/ Row \/ ReadFails

Next == \/ Read \/ ServerCloses \/ ClientLeaves \/ ClientLogsIn
        \/ \E c \in Calls : Ask(c)

Spec == Init /\ [][Next]_vars /\ WF_vars(Read)
-----------------------------------------------------------------------------
(* Properties.                                                             *)

Packets == [b : {"ok", "err", "fe", "infile", "data", "row", "empty", "count",
                 "prepared", "hello"}, n : Nat, m : Nat]

TypeOK ==
  /\ mode \in Ended \cup Handshake \cup {"first", "counted", "rows"}
  /\ stream \in Seq(Packets) /\ data \in Seq(Packets) /\ sent \in Seq(Packets)
  /\ further \in Seq(Packets)
  /\ closed \in BOOLEAN /\ client \in {"there", "answered", "short", "gone"}
  /\ caps \subseteq {"server", "client"}
  /\ relayed \in Seq({"server", "client"})
  /\ call \in Calls \cup {"ProcessHandshake"}
  /\ left \in Nat /\ (mode = "counted" => left > 0)
  /\ astray \in BOOLEAN /\ calls \in 0 .. MaxCalls

\* A call that returns has read one response, all of it and nothing else: the
\* readers, who infer the end from counts and first bytes, and the server,
\* which may or may not send EOF packets, stay in step.  What stays in the
\* stream is the further result sets, which no reader asks for: the next call
\* begins with them and is astray, as it is for good when a row of several
\* packets has looked like the end.
OneResponse ==
  mode = "idle" /\ call \in Calls /\ ~astray
    => /\ data = sent
       /\ IF closed THEN IsPrefix(stream, further) ELSE stream = further

\* Reader and server wait for each other, everything sent having been read,
\* only in four cases the code does not provide for: the server asks for a
\* file (packet.go:132), an error ends the rows, the EOF packets counted by
\* ReadPrepareResponse are not sent, and a list of no fields is its EOF.
WaitsOnlyFor ==
  /\ mode \in {"first", "counted", "rows"} /\ stream = <<>> /\ ~closed /\ ~astray
  => \/ sent = <<Infile>>
     \/ sent[1].b = "count" /\ Last(sent) = ErrP
     \/ call = "ReadPrepareResponse" /\ Len(sent) > 1 /\ DeprecateEOFSet
     \/ call = "ReadShowFieldsResponse" /\ sent = <<EofP>>

\* A reader looks for a byte that is not there only when it is astray, with a
\* packet that is no response in front of it; a connection that ends early,
\* an error or an empty result set does not make it.
PanicsAreKnown == mode = "panicked" => astray

\* Each packet of the handshake goes to the other end, once and in order, and
\* ProcessHandshake succeeds exactly when all three did: one that fails, even
\* on a packet it has written already, never lets the verdict through.
HandshakeRelayed ==
  /\ IsPrefix(relayed, <<"client", "server", "client">>)
  /\ mode = "idle" \/ call # "ProcessHandshake" <=> Len(relayed) = 3

\* When the server's end is closed the call returns, unless it is the
\* handshake that waits for the client's packet and cannot notice.
CutEnds ==
  closed ~> mode \in Ended \/ (mode = "login" /\ client = "there")
=============================================================================
