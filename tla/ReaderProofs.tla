---------------------------- MODULE ReaderProofs ----------------------------
(***************************************************************************)
(* Theorems about module PacketReader, for any number of responses read in *)
(* a session and any number of columns, parameters and rows in each.       *)
(***************************************************************************)
EXTENDS PacketReader, SequenceTheorems, TLAPS

-----------------------------------------------------------------------------
(* Responses without a row of several packets.                             *)

EofLen == IF DeprecateEOFSet THEN 0 ELSE 1

\* Neither a list of definitions nor the rows look like an end before the end,
\* but for the EOF after the definitions, which the count leads past.
ResponseShape(r) ==
  \/ r \in {<<OkP>>, <<ErrP>>, <<Infile>>}
  \/ \E n \in 1 .. MaxCount :
       /\ r[1] = Count(n) /\ n + EofLen + 2 <= Len(r)
       /\ r[Len(r)] \in {EofP, ErrP}
       /\ \A j \in 2 .. Len(r) - 1 :
            r[j] \in {Data, RowP}
            \/ (r[j] = EofP /\ ~DeprecateEOFSet /\ j = n + 2)

\* As many packets as the counts say, and the EOF packets unless both ends do
\* without.
PrepareShape(r) ==
  \/ r = <<ErrP>>
  \/ \E p, q \in 0 .. MaxCount :
       /\ r[1] = Prepared(p, q)
       /\ Len(r) = 1 + IF DeprecateEOFSet THEN p + q ELSE Expected(r[1])

FieldsShape(r) ==
  \/ r = <<ErrP>>
  \/ Len(r) > 0 /\ r[Len(r)] = EofP /\ \A j \in 1 .. Len(r) - 1 : r[j] = Data

Shape(c, r) ==
  /\ r \in Seq(Packets) /\ Len(r) > 0
  /\ c = "ReadResponse" => ResponseShape(r)
  /\ c = "ReadPrepareResponse" => PrepareShape(r)
  /\ c = "ReadShowFieldsResponse" => FieldsShape(r)

-----------------------------------------------------------------------------
(* The inductive invariant.                                                *)

\* The handshake is proxied packet by packet.
RelayInv ==
  /\ relayed \in {<<>>, <<"client">>, <<"client", "server">>,
                  <<"client", "server", "client">>}
  /\ mode \in Handshake => call = "ProcessHandshake"
  /\ mode = "hello" => relayed = <<>> /\ Len(stream) <= 1
  /\ mode = "login" => relayed = <<"client">> /\ stream = <<>>
  /\ mode = "verdict" => relayed = <<"client", "server">> /\ Len(stream) <= 1
  /\ mode = "idle" \/ call # "ProcessHandshake" <=> Len(relayed) = 3
  /\ mode \in {"first", "counted", "rows"} => call \in Calls

Whole == sent \o further

\* What was read is the response, and with what is under way it is that and
\* the further ones, of which the end may be missing if the server is gone.
WireInv ==
  LET k == Len(data) IN
  /\ Shape(call, sent)
  /\ further # <<>> =>
       call = "ReadResponse" /\ sent[Len(sent)].b \notin {"err", "infile"}
  /\ k <= Len(sent)
  /\ k + Len(stream) <= Len(Whole) /\ (~closed => k + Len(stream) = Len(Whole))
  /\ \A j \in 1 .. k : data[j] = sent[j]
  /\ \A j \in 1 .. Len(stream) : stream[j] = Whole[k + j]

\* Where the reader is in the response: it knows what it counts, looks for the
\* end only behind the definitions, and stops at the end.
PlaceInv ==
  LET k == Len(data) IN
  /\ mode = "first" => k = 0
  /\ mode = "counted" =>
       /\ k > 0 /\ call # "ReadShowFieldsResponse"
       /\ call = "ReadResponse" =>
            /\ sent[1].b \in {"count", "infile"}
            /\ ~DeprecateEOFSet /\ k + left = sent[1].n + 2
       /\ call = "ReadPrepareResponse" =>
            sent[1].b = "prepared" /\ k + left = 1 + Expected(sent[1])
  /\ mode = "rows" =>
       /\ k > 0 /\ call # "ReadPrepareResponse"
       /\ call = "ReadResponse" =>
            /\ sent[1].b \in {"count", "infile"}
            /\ ~DeprecateEOFSet => sent[1].n + 2 <= k
       /\ k = Len(sent) =>
            \/ sent = <<Infile>>
            \/ sent[1].b = "count" /\ sent[Len(sent)] = ErrP
            \/ call = "ReadShowFieldsResponse" /\ sent = <<EofP>>
  /\ mode = "idle" => k = Len(sent)

Underway == mode \in {"first", "counted", "rows", "idle"} /\ call \in Calls

IInv ==
  /\ TypeOK /\ RelayInv /\ PanicsAreKnown
  /\ Underway /\ ~astray => WireInv /\ PlaceInv

-----------------------------------------------------------------------------
(* What the server sends.                                                  *)

LEMMA ResponsesCases ==
  /\ Responses("ReadResponse") = Results
  /\ Responses("ReadPrepareResponse") = Preparations
  /\ Responses("ReadShowFieldsResponse") = FieldLists
  BY Zenon DEF Responses

LEMMA PacketTypes ==
  /\ {OkP, ErrP, EofP, Infile, Data, RowP, Wide, Empty} \subseteq Packets
  /\ \A n \in Nat : Count(n) \in Packets
  /\ \A p, q \in Nat : Prepared(p, q) \in Packets
  BY DEF OkP, ErrP, EofP, Infile, Data, RowP, Wide, Empty, Count, Prepared,
         Packet, Packets, Large

LEMMA SingleSeq ==
  ASSUME NEW S, NEW x \in S
  PROVE  <<x>> \in Seq(S) /\ Len(<<x>>) = 1 /\ <<x>>[1] = x
  OBVIOUS

LEMMA ItemsSeq ==
  ASSUME NEW n \in Nat, NEW p \in Packets
  PROVE  /\ Items(p, n) \in Seq(Packets) /\ Len(Items(p, n)) = n
         /\ \A j \in 1 .. n : Items(p, n)[j] = p
  BY SeqDef DEF Items

LEMMA EofSeq ==
  ASSUME caps \subseteq {"server", "client"}
  PROVE  Eof = IF DeprecateEOFSet THEN <<>> ELSE <<EofP>>
  BY DEF Eof, DeprecateEOFSet

LEMMA ListedSeq ==
  ASSUME caps \subseteq {"server", "client"}, NEW n \in Nat
  PROVE  /\ Listed(n) \in Seq(Packets)
         /\ Len(Listed(n)) = IF n = 0 THEN 0 ELSE n + EofLen
         /\ \A j \in 1 .. n : Listed(n)[j] = Data
         /\ n > 0 /\ ~DeprecateEOFSet => Listed(n)[n + 1] = EofP
  <1>1. CASE n = 0
    BY <1>1 DEF Listed
  <1>2. CASE n # 0
    <2>1. /\ Items(Data, n) \in Seq(Packets) /\ Len(Items(Data, n)) = n
          /\ \A j \in 1 .. n : Items(Data, n)[j] = Data
      BY ItemsSeq, PacketTypes
    <2>2. Listed(n) = Items(Data, n) \o Eof
      BY <1>2 DEF Listed
    <2>3. <<EofP>> \in Seq(Packets) /\ Len(<<EofP>>) = 1 /\ <<EofP>>[1] = EofP
          /\ <<>> \in Seq(Packets) /\ Len(<<>>) = 0
      BY PacketTypes, SingleSeq
    <2>4. Eof \in Seq(Packets) /\ Len(Eof) = EofLen
          /\ (~DeprecateEOFSet => Eof[1] = EofP) /\ EofLen \in Nat
          /\ (~DeprecateEOFSet => EofLen = 1)
      BY <2>3, EofSeq DEF EofLen
    <2> HIDE DEF EofLen
    <2>5. /\ Listed(n) \in Seq(Packets) /\ Len(Listed(n)) = n + EofLen
          /\ \A j \in 1 .. n + EofLen :
               Listed(n)[j] = IF j <= n THEN Items(Data, n)[j] ELSE Eof[j - n]
      <3>1. /\ Items(Data, n) \o Eof \in Seq(Packets)
            /\ Len(Items(Data, n) \o Eof) = Len(Items(Data, n)) + Len(Eof)
            /\ \A j \in 1 .. Len(Items(Data, n)) + Len(Eof) :
                 (Items(Data, n) \o Eof)[j] =
                   IF j <= Len(Items(Data, n)) THEN Items(Data, n)[j]
                   ELSE Eof[j - Len(Items(Data, n))]
        BY <2>1, <2>4, ConcatProperties
      <3> QED
        BY <2>1, <2>2, <2>4, <3>1
    <2>6. ASSUME NEW j \in 1 .. n PROVE Listed(n)[j] = Data
      BY <2>1, <2>4, <2>5
    <2>7. ASSUME ~DeprecateEOFSet PROVE Listed(n)[n + 1] = EofP
      <3>1. n + 1 \in 1 .. n + EofLen /\ ~ (n + 1 <= n) /\ n + 1 - n = 1
        BY <2>4, <2>7
      <3> QED
        BY <2>4, <2>5, <2>7, <3>1
    <2> QED
      BY <1>2, <2>5, <2>6, <2>7
  <1> QED
    BY <1>1, <1>2

LEMMA RowsSeq ==
  ASSUME NEW r \in Rows
  PROVE  /\ r \in Seq(Packets)
         /\ Split(r) \/ \A j \in 1 .. Len(r) : r[j] = RowP
  <1>1. CASE \E n \in 0 .. MaxCount : r = Items(RowP, n)
    <2>1. PICK n \in Nat : r = Items(RowP, n)
      BY <1>1, ReaderAssumption
    <2> QED
      BY <2>1, ItemsSeq, PacketTypes
  <1>2. CASE r \in {<<RowP, Wide>>, <<RowP, Empty>>, <<Wide, RowP>>}
    <2>1. \A x, y \in Packets :
            <<x, y>> \in Seq(Packets) /\ DOMAIN <<x, y>> = 1 .. 2
      OBVIOUS
    <2>3. r \in Seq(Packets) /\ DOMAIN r = 1 .. 2
      BY <1>2, <2>1, PacketTypes
    <2>2. r[1] \in {Wide, Empty} \/ r[2] \in {Wide, Empty}
      BY <1>2
    <2> QED
      BY <2>2, <2>3 DEF Split
  <1> QED
    BY <1>1, <1>2 DEF Rows

\* Two sequences, element by element.
LEMMA Joined ==
  ASSUME NEW S, NEW s \in Seq(S), NEW t \in Seq(S)
  PROVE  /\ s \o t \in Seq(S) /\ Len(s \o t) = Len(s) + Len(t)
         /\ \A i \in 1 .. Len(s) : (s \o t)[i] = s[i]
         /\ \A i \in 1 .. Len(t) : (s \o t)[Len(s) + i] = t[i]
         /\ \A i \in 1 .. Len(s \o t) :
              i \in 1 .. Len(s) \/ \E k \in 1 .. Len(t) : i = Len(s) + k
  <1>1. /\ s \o t \in Seq(S) /\ Len(s \o t) = Len(s) + Len(t)
        /\ \A i \in 1 .. Len(s) + Len(t) :
             (s \o t)[i] = IF i <= Len(s) THEN s[i] ELSE t[i - Len(s)]
    BY ConcatProperties
  <1>2. Len(s) \in Nat /\ Len(t) \in Nat
    OBVIOUS
  <1>3. ASSUME NEW i \in 1 .. Len(s) PROVE (s \o t)[i] = s[i]
    BY <1>1, <1>2
  <1>4. ASSUME NEW i \in 1 .. Len(t) PROVE (s \o t)[Len(s) + i] = t[i]
    <2>1. /\ Len(s) + i \in 1 .. Len(s) + Len(t) /\ ~ (Len(s) + i <= Len(s))
          /\ Len(s) + i - Len(s) = i
      BY <1>2
    <2> QED
      BY <1>1, <2>1
  <1>5. ASSUME NEW i \in 1 .. Len(s \o t)
        PROVE  i \in 1 .. Len(s) \/ \E k \in 1 .. Len(t) : i = Len(s) + k
    <2>1. CASE i <= Len(s)
      BY <1>2, <2>1
    <2>2. CASE ~ (i <= Len(s))
      <3>1. i - Len(s) \in 1 .. Len(t) /\ i = Len(s) + (i - Len(s))
        BY <1>1, <1>2, <2>2
      <3> QED
        BY <3>1
    <2> QED
      BY <2>1, <2>2
  <1> QED
    BY <1>1, <1>3, <1>4, <1>5

LEMMA ResultsShape ==
  ASSUME caps \subseteq {"server", "client"}, NEW r \in Results
  PROVE  r \in Seq(Packets) /\ Len(r) > 0 /\ (~Split(r) => ResponseShape(r))
  <1>1. CASE r \in {<<OkP>>, <<ErrP>>, <<Infile>>}
    <2>1. r \in Seq(Packets) /\ Len(r) > 0
      <3>1. PICK x \in Packets : r = <<x>>
        BY <1>1, PacketTypes
      <3> QED
        BY <3>1
    <2> QED
      BY <1>1, <2>1 DEF ResponseShape
  <1>2. CASE r \notin {<<OkP>>, <<ErrP>>, <<Infile>>}
    <2>1. PICK n \in 1 .. MaxCount, rows \in Rows, end \in {EofP, ErrP} :
            r = Result(n, rows, end)
      BY <1>2, ReaderAssumption DEF Results
    <2>2. n \in Nat /\ n > 0
      BY ReaderAssumption
    <2> DEFINE l == Listed(n)
               a == <<Count(n)>> \o l
               b == a \o rows
    <2>3. /\ <<Count(n)>> \in Seq(Packets) /\ Len(<<Count(n)>>) = 1
          /\ <<Count(n)>>[1] = Count(n)
          /\ <<end>> \in Seq(Packets) /\ Len(<<end>>) = 1 /\ <<end>>[1] = end
      BY <2>2, PacketTypes, SingleSeq
    <2>4. /\ l \in Seq(Packets) /\ Len(l) = n + EofLen
          /\ \A j \in 1 .. n : l[j] = Data
          /\ ~DeprecateEOFSet => l[n + 1] = EofP
      BY <2>2, ListedSeq
    <2>5. rows \in Seq(Packets) /\ Len(rows) \in Nat
          /\ (Split(rows) \/ \A j \in 1 .. Len(rows) : rows[j] = RowP)
      BY RowsSeq
    <2>6. EofLen \in {0, 1} /\ (EofLen = 1 <=> ~DeprecateEOFSet)
      BY DEF EofLen
    <2> HIDE DEF l
    <2>7. /\ a \in Seq(Packets) /\ Len(a) = 1 + Len(l)
          /\ a[1] = Count(n)
          /\ \A i \in 1 .. Len(l) : a[1 + i] = l[i]
      BY <2>3, <2>4, Joined
    <2> HIDE DEF a
    <2>8. /\ b \in Seq(Packets) /\ Len(b) = Len(a) + Len(rows)
          /\ \A i \in 1 .. Len(a) : b[i] = a[i]
          /\ \A i \in 1 .. Len(rows) : b[Len(a) + i] = rows[i]
      <3>1. a \in Seq(Packets) /\ rows \in Seq(Packets)
        BY <2>5, <2>7
      <3> QED
        BY <3>1, Joined
    <2>9. r = b \o <<end>>
      BY <2>1 DEF a, l, Result
    <2> HIDE DEF b
    <2>10. /\ r \in Seq(Packets) /\ Len(r) = Len(b) + 1
           /\ \A i \in 1 .. Len(b) : r[i] = b[i]
           /\ r[Len(b) + 1] = end
      BY <2>3, <2>8, <2>9, Joined
    <2>11. Len(a) = n + EofLen + 1 /\ Len(r) = n + EofLen + Len(rows) + 2
           /\ Len(r) \in Nat /\ Len(b) = n + EofLen + Len(rows) + 1
      BY <2>2, <2>4, <2>5, <2>6, <2>7, <2>8, <2>10
    <2>12. /\ r[1] = Count(n) /\ r[Len(r)] = end
           /\ n + EofLen + 2 <= Len(r)
      <3>1. 1 \in 1 .. Len(a) /\ 1 \in 1 .. Len(b)
            /\ n + EofLen + 2 <= Len(r) /\ Len(r) = Len(b) + 1
        BY <2>2, <2>5, <2>6, <2>11
      <3> QED
        BY <2>7, <2>8, <2>10, <3>1
    <2>13. ASSUME NEW i \in 1 .. Len(rows)
           PROVE  Len(a) + i \in 1 .. Len(r) /\ r[Len(a) + i] = rows[i]
      <3>1. Len(a) + i \in 1 .. Len(b) /\ Len(a) + i \in 1 .. Len(r)
        BY <2>2, <2>5, <2>6, <2>11
      <3> QED
        BY <2>8, <2>10, <3>1
    <2>14. ASSUME ~Split(r) PROVE ~Split(rows)
      <3>1. SUFFICES ASSUME NEW i \in 1 .. Len(rows),
                            rows[i] \in {Wide, Empty}
                     PROVE  FALSE
        BY <2>5 DEF Split
      <3>2. Len(a) + i \in DOMAIN r /\ r[Len(a) + i] \in {Wide, Empty}
        BY <2>10, <2>13, <3>1
      <3> QED
        BY <2>14, <3>2 DEF Split
    <2>15. ASSUME ~Split(r), NEW j \in 2 .. Len(r) - 1
           PROVE  r[j] \in {Data, RowP}
                  \/ (r[j] = EofP /\ ~DeprecateEOFSet /\ j = n + 2)
      <3>1. CASE j <= Len(a)
        <4>1. j - 1 \in 1 .. Len(l) /\ j = 1 + (j - 1) /\ j \in 1 .. Len(a)
              /\ j \in 1 .. Len(b)
          BY <2>2, <2>4, <2>5, <2>6, <2>11, <3>1
        <4>2. r[j] = l[j - 1]
          BY <2>7, <2>8, <2>10, <4>1
        <4>3. CASE j - 1 \in 1 .. n
          BY <2>4, <4>2, <4>3
        <4>4. CASE ~ (j - 1 \in 1 .. n)
          <5>1. EofLen = 1 /\ j - 1 = n + 1 /\ j = n + 2
            BY <2>2, <2>4, <2>6, <4>1, <4>4
          <5> QED
            BY <2>4, <2>6, <4>2, <5>1
        <4> QED
          BY <4>3, <4>4
      <3>2. CASE ~ (j <= Len(a))
        <4>1. j - Len(a) \in 1 .. Len(rows) /\ j = Len(a) + (j - Len(a))
          BY <2>2, <2>5, <2>6, <2>11, <3>2
        <4> QED
          BY <2>5, <2>13, <2>14, <2>15, <4>1
      <3> QED
        BY <3>1, <3>2
    <2>16. Len(r) > 0
      BY <2>2, <2>5, <2>6, <2>11
    <2> QED
      BY <2>10, <2>12, <2>15, <2>16 DEF ResponseShape
  <1> QED
    BY <1>1, <1>2

LEMMA PreparationsShape ==
  ASSUME caps \subseteq {"server", "client"}, NEW r \in Preparations
  PROVE  r \in Seq(Packets) /\ Len(r) > 0 /\ PrepareShape(r)
  <1>1. CASE r = <<ErrP>>
    BY <1>1, PacketTypes DEF PrepareShape
  <1>2. CASE r # <<ErrP>>
    <2>1. PICK p \in 0 .. MaxCount, q \in 0 .. MaxCount :
            r = Preparation(p, q)
      BY <1>2, ReaderAssumption DEF Preparations
    <2>2. p \in Nat /\ q \in Nat
      BY ReaderAssumption
    <2> DEFINE l == Listed(p)
               m == Listed(q)
               h == <<Prepared(p, q)>>
               a == h \o l
    <2>3. h \in Seq(Packets) /\ Len(h) = 1 /\ h[1] = Prepared(p, q)
      BY <2>2, PacketTypes, SingleSeq
    <2>4. /\ l \in Seq(Packets) /\ Len(l) = IF p = 0 THEN 0 ELSE p + EofLen
          /\ m \in Seq(Packets) /\ Len(m) = IF q = 0 THEN 0 ELSE q + EofLen
      BY <2>2, ListedSeq
    <2>5. r = a \o m
      BY <2>1 DEF Preparation
    <2> HIDE DEF l, m, h
    <2>6. a \in Seq(Packets) /\ Len(a) = 1 + Len(l) /\ a[1] = h[1]
      <3>1. 1 \in 1 .. Len(h)
        BY <2>3
      <3> QED
        <4>1. h \o l \in Seq(Packets) /\ Len(h \o l) = Len(h) + Len(l)
              /\ \A i \in 1 .. Len(h) : (h \o l)[i] = h[i]
          <5>1. h \in Seq(Packets) /\ l \in Seq(Packets)
            BY <2>3, <2>4
          <5> QED
            BY <5>1, Joined, Zenon
        <4> QED
          BY <2>3, <3>1, <4>1
    <2> HIDE DEF a
    <2>7. /\ r \in Seq(Packets) /\ Len(r) = Len(a) + Len(m)
          /\ \A i \in 1 .. Len(a) : r[i] = a[i]
      <3>1. a \in Seq(Packets) /\ m \in Seq(Packets)
        BY <2>4, <2>6
      <3>2. /\ a \o m \in Seq(Packets) /\ Len(a \o m) = Len(a) + Len(m)
            /\ \A i \in 1 .. Len(a) : (a \o m)[i] = a[i]
        BY <3>1, Joined, Zenon
      <3> QED
        BY <2>5, <3>2
    <2>8. EofLen = IF DeprecateEOFSet THEN 0 ELSE 1
      BY DEF EofLen
    <2>9. r[1] = Prepared(p, q) /\ Len(r) > 0
      <3>1. 1 \in 1 .. Len(a) /\ Len(r) > 0
        BY <2>2, <2>4, <2>6, <2>7, <2>8
      <3> QED
        BY <2>3, <2>6, <2>7, <3>1
    <2>10. Expected(r[1]) = (IF p > 0 THEN p + 1 ELSE 0)
                              + (IF q > 0 THEN q + 1 ELSE 0)
      BY <2>9 DEF Expected, Prepared, Packet
    <2>11. Len(r) = 1 + IF DeprecateEOFSet THEN p + q ELSE Expected(r[1])
      <3>1. Len(h) = 1 /\ Len(r) = 1 + Len(l) + Len(m)
        BY <2>3, <2>4, <2>6, <2>7
      <3>2. CASE DeprecateEOFSet
        <4>1. Len(l) = p /\ Len(m) = q
          BY <2>2, <2>4, <2>8, <3>2
        <4> QED
          BY <2>2, <3>1, <3>2, <4>1
      <3>3. CASE ~DeprecateEOFSet
        <4>1. /\ Len(l) = IF p > 0 THEN p + 1 ELSE 0
              /\ Len(m) = IF q > 0 THEN q + 1 ELSE 0
          BY <2>2, <2>4, <2>8, <3>3
        <4>2. Len(r) = 1 + Expected(r[1])
          BY <2>2, <2>10, <3>1, <4>1
        <4> QED
          BY <3>3, <4>2
      <3> QED
        BY <3>2, <3>3
    <2> QED
      BY <2>1, <2>7, <2>9, <2>11 DEF PrepareShape
  <1> QED
    BY <1>1, <1>2

LEMMA FieldListsShape ==
  ASSUME NEW r \in FieldLists
  PROVE  r \in Seq(Packets) /\ Len(r) > 0 /\ FieldsShape(r)
  <1>1. CASE r = <<ErrP>>
    BY <1>1, PacketTypes DEF FieldsShape
  <1>2. CASE r # <<ErrP>>
    <2>1. PICK n \in 0 .. MaxCount : r = Items(Data, n) \o <<EofP>>
      BY <1>2 DEF FieldLists
    <2>2. n \in Nat
      BY ReaderAssumption
    <2>3. /\ Items(Data, n) \in Seq(Packets) /\ Len(Items(Data, n)) = n
          /\ \A j \in 1 .. n : Items(Data, n)[j] = Data
          /\ <<EofP>> \in Seq(Packets) /\ Len(<<EofP>>) = 1
          /\ <<EofP>>[1] = EofP
      BY <2>2, ItemsSeq, PacketTypes, SingleSeq
    <2>4. /\ r \in Seq(Packets) /\ Len(r) = n + 1
          /\ \A i \in 1 .. n : r[i] = Items(Data, n)[i]
          /\ r[n + 1] = EofP
      BY <2>1, <2>3, Joined
    <2> QED
      BY <2>2, <2>3, <2>4 DEF FieldsShape
  <1> QED
    BY <1>1, <1>2

LEMMA ResponsesShape ==
  ASSUME caps \subseteq {"server", "client"}, NEW c \in Calls,
         NEW r \in Responses(c)
  PROVE  r \in Seq(Packets) /\ (~Split(r) => Shape(c, r))
  <1>1. CASE c = "ReadResponse"
    BY <1>1, ResponsesCases, ResultsShape DEF Shape
  <1>2. CASE c = "ReadPrepareResponse"
    BY <1>2, ResponsesCases, PreparationsShape DEF Shape
  <1>3. CASE c = "ReadShowFieldsResponse"
    BY <1>3, ResponsesCases, FieldListsShape DEF Shape
  <1> QED
    BY <1>1, <1>2, <1>3 DEF Calls

\* Responses follow only one that is neither an error nor a request for a file.
LEMMA FurtherShape ==
  ASSUME caps \subseteq {"server", "client"}, NEW c \in Calls,
         NEW r \in Seq(Packets), NEW f \in Further(c, r)
  PROVE  /\ f \in Seq(Packets)
         /\ f # <<>> =>
              c = "ReadResponse" /\ r[Len(r)].b \notin {"err", "infile"}
  <1>1. CASE f = <<>>
    BY <1>1, EmptySeq
  <1>2. CASE f # <<>>
    <2>1. /\ c = "ReadResponse" /\ Last(r).b \notin {"err", "infile"}
          /\ f \in {<<OkP>>, <<ErrP>>}
                    \cup {Result(n, Items(RowP, 1), EofP) : n \in 1 .. MaxCount}
      BY <1>2, Zenon DEF Further
    <2>2. CASE f \in {<<OkP>>, <<ErrP>>}
      <3>1. f \in Results
        BY <2>2 DEF Results
      <3> QED
        BY <2>1, <3>1, ResultsShape DEF Last
    <2>3. CASE f \notin {<<OkP>>, <<ErrP>>}
      <3>1. PICK n \in 1 .. MaxCount : f = Result(n, Items(RowP, 1), EofP)
        BY <2>1, <2>3
      <3>2. 1 \in 0 .. MaxCount
        BY ReaderAssumption
      <3>3. Items(RowP, 1) \in Rows
        BY <3>2 DEF Rows
      <3>4. f \in Results
        BY <3>1, <3>3 DEF Results
      <3> QED
        BY <2>1, <3>4, ResultsShape DEF Last
    <2> QED
      BY <2>2, <2>3
  <1> QED
    BY <1>1, <1>2

\* The responses to a call, seen as one sequence.
LEMMA WholeFacts ==
  ASSUME TypeOK
  PROVE  /\ Whole \in Seq(Packets) /\ Len(Whole) = Len(sent) + Len(further)
         /\ \A i \in 1 .. Len(sent) : Whole[i] = sent[i]
         /\ \A i \in 1 .. Len(further) : Whole[Len(sent) + i] = further[i]
         /\ Len(sent) \in Nat /\ Len(further) \in Nat
  BY Joined DEF Whole, TypeOK

-----------------------------------------------------------------------------
(* The cases of the readers.                                               *)

LEMMA FirstOfResponseCases ==
  ASSUME FirstOfResponse
  PROVE  LET p == Head(stream)
         IN  /\ mode = "first" /\ call # "ReadPrepareResponse" /\ stream # <<>>
             /\ stream' = Tail(stream) /\ data' = Append(data, p)
             /\ UNCHANGED <<closed, client, caps, relayed, call, history>>
             /\ \/ p.b = "empty" /\ mode' = "panicked" /\ left' = left
                \/ /\ p.b \in {"ok", "prepared", "err", "row"}
                   /\ mode' = "idle" /\ left' = left
                \/ /\ p.b \notin {"empty", "ok", "prepared", "err"}
                   /\ mode' = IF left' = 0 THEN "rows" ELSE "counted"
                   /\ left' \in ToRead(p)
  BY Zenon DEF FirstOfResponse, Consume

LEMMA FirstOfPrepareCases ==
  ASSUME FirstOfPrepare
  PROVE  LET p == Head(stream)
         IN  /\ mode = "first" /\ call = "ReadPrepareResponse" /\ stream # <<>>
             /\ stream' = Tail(stream)
             /\ UNCHANGED <<closed, client, caps, relayed, call, history>>
             /\ \/ /\ p.b \in {"empty", "row"}
                   /\ mode' = "panicked" /\ UNCHANGED <<data, left>>
                \/ /\ left' \in Counts(p) /\ data' = <<p>>
                   /\ mode' = IF left' = 0 THEN "idle" ELSE "counted"
                \/ /\ p.b = "err" /\ data' = <<p>>
                   /\ mode' = "idle" /\ left' = left
                \/ /\ p.b \notin {"empty", "ok", "prepared", "err"}
                   /\ mode' = "idle" /\ UNCHANGED <<data, left>>
  BY Zenon DEF FirstOfPrepare

LEMMA RowCases ==
  ASSUME Row
  PROVE  /\ mode = "rows" /\ stream # <<>>
         /\ stream' = Tail(stream) /\ data' = Append(data, Head(stream))
         /\ UNCHANGED <<closed, client, caps, relayed, call, left, history>>
         /\ \/ Head(stream).b = "fe" /\ mode' = "idle"
            \/ Head(stream).b = "empty" /\ mode' = "panicked"
            \/ Head(stream).b \notin {"fe", "empty"} /\ mode' = mode
  BY Zenon DEF Row, Consume

-----------------------------------------------------------------------------
(* The handshake and the ends of the connections.                          *)

LEMMA InitInv == Init => IInv
  <1> SUFFICES ASSUME Init PROVE IInv
    OBVIOUS
  <1> USE DEF Init
  <1>1. Hello \in Packets /\ ErrP \in Packets
    BY PacketTypes DEF Hello, Packet, Packets
  <1>4. PICK x \in Packets : stream = <<x>>
    BY <1>1
  <1>5. Len(relayed) = 0
    BY EmptySeq
  <1>2. TypeOK
    <2>1. stream \in Seq(Packets) /\ data \in Seq(Packets)
          /\ sent \in Seq(Packets) /\ further \in Seq(Packets)
          /\ relayed \in Seq({"server", "client"})
      BY <1>4, SingleSeq, EmptySeq
    <2>2. calls \in 0 .. MaxCalls
      BY ReaderAssumption
    <2> QED
      BY <2>1, <2>2 DEF TypeOK, Handshake, Ended
  <1>3. RelayInv
    <2>1. Len(stream) <= 1
      BY <1>4, SingleSeq
    <2> QED
      BY <1>5, <2>1 DEF RelayInv, Handshake, Calls
  <1> QED
    BY <1>2, <1>3 DEF IInv, PanicsAreKnown, Underway, Calls

LEMMA RelayedSeqs ==
  /\ Append(<<>>, "client") = <<"client">>
  /\ Append(<<"client">>, "server") = <<"client", "server">>
  /\ Append(<<"client", "server">>, "client") =
       <<"client", "server", "client">>
  /\ Len(<<"client", "server", "client">>) = 3
  /\ Len(<<"client", "server">>) = 2
  /\ Len(<<"client">>) = 1
  <1> DEFINE E == {"client", "server"}
  <1>1. /\ <<"client">> \in Seq(E) /\ Len(<<"client">>) = 1
        /\ <<"client">>[1] = "client"
    OBVIOUS
  <1>2. ASSUME NEW s, s = <<"client", "server">>
        PROVE  s \in Seq(E) /\ Len(s) = 2 /\ s[1] = "client" /\ s[2] = "server"
    BY <1>2
  <1>3. ASSUME NEW s, s = <<"client", "server", "client">>
        PROVE  /\ s \in Seq(E) /\ Len(s) = 3
               /\ s[1] = "client" /\ s[2] = "server" /\ s[3] = "client"
    BY <1>3
  <1>4. ASSUME NEW s \in Seq(E), NEW x \in E, NEW t \in Seq(E),
               Len(t) = Len(s) + 1, t[Len(s) + 1] = x,
               \A i \in 1 .. Len(s) : t[i] = s[i]
        PROVE  Append(s, x) = t
    <2> DEFINE u == Append(s, x)
    <2>1. /\ u \in Seq(E) /\ Len(u) = Len(s) + 1 /\ u[Len(s) + 1] = x
          /\ \A i \in 1 .. Len(s) : u[i] = s[i]
      BY AppendProperties
    <2> HIDE DEF u
    <2>2. \A i \in 1 .. Len(u) : u[i] = t[i]
      <3>1. Len(s) \in Nat
        OBVIOUS
      <3>2. \A i \in 1 .. Len(s) + 1 : i \in 1 .. Len(s) \/ i = Len(s) + 1
        BY <3>1
      <3> QED
        BY <1>4, <2>1, <3>2
    <2>3. u = t
      BY <1>4, <2>1, <2>2, SeqEqual
    <2> QED
      BY <2>3 DEF u
  <1>5. Append(<<>>, "client") = <<"client">>
    OBVIOUS
  <1> DEFINE a == <<"client">>
             b == <<"client", "server">>
             c == <<"client", "server", "client">>
  <1>6. /\ a \in Seq(E) /\ Len(a) = 1 /\ a[1] = "client"
        /\ b \in Seq(E) /\ Len(b) = 2 /\ b[1] = "client" /\ b[2] = "server"
        /\ c \in Seq(E) /\ Len(c) = 3
        /\ c[1] = "client" /\ c[2] = "server" /\ c[3] = "client"
    BY <1>1, <1>2, <1>3
  <1> HIDE DEF a, b, c
  <1>7. Append(a, "server") = b
    <2>1. Len(b) = Len(a) + 1 /\ 2 = Len(a) + 1
      BY <1>6
    <2>2. \A i \in 1 .. Len(a) : i = 1
      BY <1>6
    <2>3. b[Len(a) + 1] = "server" /\ \A i \in 1 .. Len(a) : b[i] = a[i]
      BY <1>6, <2>1, <2>2
    <2> HIDE DEF E
    <2>4. "server" \in E
      BY DEF E
    <2> QED
      BY <1>4, <1>6, <2>1, <2>3, <2>4
  <1>8. Append(b, "client") = c
    <2>1. Len(c) = Len(b) + 1 /\ 3 = Len(b) + 1
      BY <1>6
    <2>2. \A i \in 1 .. Len(b) : i = 1 \/ i = 2
      BY <1>6
    <2>3. c[Len(b) + 1] = "client" /\ \A i \in 1 .. Len(b) : c[i] = b[i]
      BY <1>6, <2>1, <2>2
    <2> HIDE DEF E
    <2>4. "client" \in E
      BY DEF E
    <2> QED
      BY <1>4, <1>6, <2>1, <2>3, <2>4
  <1> QED
    BY <1>5, <1>6, <1>7, <1>8 DEF a, b, c

\* The response and the place in it do not depend on the ends.
LEMMA SentShape ==
  ASSUME Shape(call, sent), UNCHANGED <<call, sent, caps>>
  PROVE  Shape(call, sent)'
  BY DEF Shape, ResponseShape, PrepareShape, FieldsShape, EofLen,
         DeprecateEOFSet

LEMMA SamePlace ==
  ASSUME PlaceInv, UNCHANGED <<mode, call, sent, caps, data, left>>
  PROVE  PlaceInv'
  BY DEF PlaceInv, DeprecateEOFSet

LEMMA ServerClosesInv ==
  ASSUME IInv, ServerCloses
  PROVE  IInv'
  <1> USE DEF ServerCloses
  <1>1. PICK n \in 0 .. Len(stream) : stream' = SubSeq(stream, 1, n)
    OBVIOUS
  <1>2. stream \in Seq(Packets) /\ Len(stream) \in Nat
    BY DEF IInv, TypeOK
  <1>3. /\ stream' \in Seq(Packets) /\ Len(stream') = n
        /\ \A j \in 1 .. n : stream'[j] = stream[j]
    BY <1>1, <1>2
  <1>4. Len(stream') <= Len(stream) /\ (stream = <<>> => stream' = <<>>)
    BY <1>2, <1>3
  <1>5. TypeOK'
    BY <1>3 DEF IInv, TypeOK, history
  <1>6. RelayInv'
    <2>1. Len(stream) <= 1 => Len(stream') <= 1
      BY <1>2, <1>3
    <2> QED
      BY <1>4, <2>1 DEF IInv, RelayInv
  <1>7. PanicsAreKnown'
    BY DEF IInv, PanicsAreKnown, history
  <1>8. ASSUME Underway, ~astray PROVE WireInv' /\ PlaceInv'
    <2>1. WireInv /\ PlaceInv
      BY <1>8 DEF IInv
    <2>2. PlaceInv'
      BY <2>1, SamePlace DEF history
    <2>3. Shape(call, sent)' /\ sent \in Seq(Packets)
      BY <2>1, SentShape DEF history, WireInv, Shape
    <2>7. Whole' = Whole
      BY DEF Whole, history
    <2>4. Len(data) + Len(stream') <= Len(Whole)
      <3>1. Len(data) + Len(stream) <= Len(Whole)
        BY <2>1 DEF WireInv
      <3>2. Len(data) \in Nat
        BY DEF IInv, TypeOK
      <3>3. Len(Whole) \in Nat
        BY WholeFacts DEF IInv
      <3> QED
        BY <1>2, <1>3, <3>1, <3>2, <3>3
    <2>5. \A j \in 1 .. Len(stream') : stream'[j] = Whole[Len(data) + j]
      <3>1. \A j \in 1 .. n : j \in 1 .. Len(stream)
        BY <1>2
      <3> QED
        BY <1>3, <2>1, <3>1 DEF WireInv
    <2>6. WireInv'
      BY <2>1, <2>3, <2>4, <2>5, <2>7 DEF WireInv, history
    <2> QED
      BY <2>2, <2>6
  <1> QED
    BY <1>5, <1>6, <1>7, <1>8 DEF IInv, Underway, history

\* The steps of the client, and those after which nothing was asked.
LEMMA ClientSteps ==
  ASSUME IInv, client' \in {"there", "answered", "short", "gone"},
         UNCHANGED <<mode, stream, closed, caps, relayed, call, data, left,
                     history>>
  PROVE  IInv'
  <1>1. TypeOK'
    BY DEF IInv, TypeOK, history
  <1>2. RelayInv' /\ PanicsAreKnown'
    BY DEF IInv, RelayInv, PanicsAreKnown, history
  <1>3. ASSUME WireInv, PlaceInv PROVE WireInv' /\ PlaceInv'
    BY <1>3, SentShape, SamePlace DEF WireInv, Whole, history
  <1> QED
    BY <1>1, <1>2, <1>3 DEF IInv, Underway, history

LEMMA ReadFailsInv ==
  ASSUME IInv, ReadFails
  PROVE  IInv'
  <1> USE DEF ReadFails, wire, history
  <1>1. TypeOK'
    BY DEF IInv, TypeOK, Ended
  <1>2. RelayInv' /\ PanicsAreKnown' /\ ~Underway'
    BY DEF IInv, RelayInv, PanicsAreKnown, Underway, Handshake, Ended
  <1> QED
    BY <1>1, <1>2 DEF IInv

\* One packet of the handshake.
LEMMA RelaySteps ==
  ASSUME IInv, mode \in Handshake, NEW dst \in {"client", "server"},
         NEW next \in Handshake \cup {"idle", "failed"}, ProxyPacket(dst, next),
         stream' \in Seq(Packets), sent' \in Seq(Packets),
         UNCHANGED <<closed, client, caps, call, data, left, further, astray, calls>>,
         relayed' = Append(relayed, dst) /\ mode' = next => RelayInv'
  PROVE  IInv'
  <1>1. call = "ProcessHandshake" /\ call' = call
    BY DEF IInv, RelayInv
  <1>2. mode' \in {next, "failed"}
        /\ relayed' \in {relayed, Append(relayed, dst)}
    BY DEF ProxyPacket
  <1>3. relayed \in Seq({"server", "client"})
    BY DEF IInv, TypeOK
  <1>4. relayed' \in Seq({"server", "client"})
    <2>1. PICK W : W = {"server", "client"}
      OBVIOUS
    <2>2. dst \in W /\ relayed \in Seq(W)
      BY <1>3, <2>1
    <2>3. Append(relayed, dst) \in Seq(W)
      BY <2>2
    <2> QED
      BY <1>2, <1>3, <2>1, <2>3
  <1>5. TypeOK'
    BY <1>2, <1>4 DEF IInv, TypeOK, Ended, Handshake
  <1>6. RelayInv'
    <2>1. CASE mode' = "failed" /\ relayed' = relayed
      BY <1>1, <2>1 DEF IInv, RelayInv, Handshake
    <2>2. CASE relayed' = Append(relayed, dst) /\ mode' = next
      BY <2>2
    <2> QED
      BY <2>1, <2>2 DEF ProxyPacket
  <1>7. PanicsAreKnown' /\ ~Underway'
    BY <1>1, <1>2 DEF PanicsAreKnown, Underway, Calls, Handshake
  <1> QED
    BY <1>5, <1>6, <1>7 DEF IInv

LEMMA HandshakeInv ==
  ASSUME IInv, ServerHandshake \/ ClientHandshake \/ Verdict
  PROVE  IInv'
  <1>1. /\ RelayInv /\ stream \in Seq(Packets) /\ sent \in Seq(Packets)
        /\ Len(stream) \in Nat
    BY DEF IInv, TypeOK
  <1>2. ASSUME stream # <<>>, Len(stream) <= 1
        PROVE  Tail(stream) \in Seq(Packets) /\ Tail(stream) = <<>>
               /\ Head(stream) \in Packets
    <2>1. Len(stream) = 1
      <3>1. Len(stream) \in Nat \ {0}
        BY <1>1, <1>2, EmptySeq
      <3> QED
        BY <1>2, <3>1
    <2>2. Tail(stream) \in Seq(Packets) /\ Len(Tail(stream)) = 0
          /\ Head(stream) \in Packets
      BY <1>1, <1>2, <2>1, HeadTailProperties
    <2>3. Tail(stream) # <<>> => Len(Tail(stream)) \in Nat \ {0}
      BY <2>2, EmptySeq
    <2> QED
      BY <2>2, <2>3
  <1>3. CASE ServerHandshake
    <2>1. /\ mode = "hello" /\ stream # <<>> /\ stream' = Tail(stream)
          /\ UNCHANGED sent
          /\ UNCHANGED <<closed, client, caps, call, data, left, further, astray, calls>>
      BY <1>3 DEF ServerHandshake, history
    <2>2. relayed = <<>> /\ call = "ProcessHandshake" /\ stream' = <<>>
      BY <1>1, <1>2, <2>1 DEF RelayInv, Handshake
    <2>5. PICK next \in {"login", "failed"} : ProxyPacket("client", next)
      BY <1>3 DEF ServerHandshake
    <2>3. ASSUME relayed' = Append(relayed, "client"), mode' = next
          PROVE  RelayInv'
      <3>1. relayed' = <<"client">> /\ Len(relayed') = 1
        BY <2>2, <2>3, RelayedSeqs
      <3>2. mode' \in {"login", "failed"}
        BY <2>3, <2>5
      <3>3. Len(stream') <= 1
        BY <2>2, EmptySeq
      <3> QED
        BY <2>1, <2>2, <3>1, <3>2, <3>3 DEF RelayInv, Handshake, Calls
    <2>4. stream' \in Seq(Packets) /\ sent' \in Seq(Packets)
      BY <1>1, <2>1, <2>2, EmptySeq
    <2> QED
      BY <2>1, <2>3, <2>4, <2>5, RelaySteps DEF Handshake
  <1>4. CASE ClientHandshake
    <2>5. PICK next \in {"verdict", "failed"} : ProxyPacket("server", next)
      BY <1>4 DEF ClientHandshake
    <2>1. /\ mode = "login"
          /\ stream' \in IF closed THEN {stream}
                         ELSE {<<>>, <<OkP>>, <<ErrP>>, <<EofP>>}
          /\ UNCHANGED sent
          /\ UNCHANGED <<closed, client, caps, call, data, left, further, astray, calls>>
      BY <1>4 DEF ClientHandshake, history
    <2>2. relayed = <<"client">> /\ call = "ProcessHandshake"
          /\ stream = <<>>
      BY <1>1, <2>1 DEF RelayInv, Handshake
    <2>3. stream' \in Seq(Packets) /\ Len(stream') <= 1
      <3>1. CASE stream' = <<>>
        BY <3>1, EmptySeq
      <3>2. CASE stream' # <<>>
        <4>1. PICK x \in Packets : stream' = <<x>>
          BY <2>1, <2>2, <3>2, PacketTypes
        <4> QED
          BY <4>1
      <3> QED
        BY <3>1, <3>2
    <2>4. ASSUME relayed' = Append(relayed, "server"), mode' = next
          PROVE  RelayInv'
      <3>1. relayed' = <<"client", "server">> /\ Len(relayed') = 2
        BY <2>2, <2>4, RelayedSeqs
      <3>2. mode' \in {"verdict", "failed"}
        BY <2>4, <2>5
      <3> QED
        BY <2>1, <2>2, <2>3, <3>1, <3>2 DEF RelayInv, Handshake, Calls
    <2> QED
      BY <1>1, <2>1, <2>3, <2>4, <2>5, RelaySteps DEF Handshake
  <1>5. CASE Verdict
    <2>1. /\ mode = "verdict" /\ stream # <<>> /\ stream' = Tail(stream)
          /\ sent' = <<Head(stream)>> /\ ProxyPacket("client", "idle")
          /\ UNCHANGED <<closed, client, caps, call, data, left, further, astray, calls>>
      BY <1>5 DEF Verdict
    <2>2. relayed = <<"client", "server">> /\ call = "ProcessHandshake"
          /\ stream' = <<>> /\ Head(stream) \in Packets
      BY <1>1, <1>2, <2>1 DEF RelayInv, Handshake
    <2>3. stream' \in Seq(Packets) /\ sent' \in Seq(Packets)
      <3>1. <<Head(stream)>> \in Seq(Packets)
        BY <2>2, SingleSeq
      <3> QED
        BY <2>1, <2>2, <3>1, EmptySeq
    <2>4. ASSUME relayed' = Append(relayed, "client"), mode' = "idle"
          PROVE  RelayInv'
      <3>1. relayed' = <<"client", "server", "client">> /\ Len(relayed') = 3
        BY <2>2, <2>4, RelayedSeqs
      <3> QED
        BY <2>1, <2>2, <2>4, <3>1 DEF RelayInv, Handshake, Calls
    <2> QED
      BY <2>1, <2>3, <2>4, RelaySteps DEF Handshake
  <1> QED
    BY <1>3, <1>4, <1>5

-----------------------------------------------------------------------------
(* The responses.                                                          *)

LEMMA AskInv ==
  ASSUME IInv, NEW c \in Calls, Ask(c)
  PROVE  IInv'
  <1>1. PICK r \in Responses(c) : \E f \in Further(c, r) :
          /\ sent' = r /\ further' = f /\ stream' = stream \o (r \o f)
          /\ astray' = (astray \/ Split(r) \/ stream # <<>>)
    BY DEF Ask
  <1>10. PICK f \in Further(c, r) :
          /\ sent' = r /\ further' = f /\ stream' = stream \o (r \o f)
          /\ astray' = (astray \/ Split(r) \/ stream # <<>>)
    BY <1>1
  <1>2. /\ mode = "idle" /\ ~closed /\ calls < MaxCalls
        /\ mode' = "first" /\ call' = c /\ calls' = calls + 1
        /\ data' = <<>> /\ left' = 0
        /\ UNCHANGED <<closed, client, caps, relayed>>
    BY DEF Ask
  <1>3. r \in Seq(Packets) /\ (~Split(r) => Shape(c, r))
    BY ResponsesShape DEF IInv, TypeOK
  <1>9. /\ f \in Seq(Packets)
        /\ f # <<>> =>
             c = "ReadResponse" /\ r[Len(r)].b \notin {"err", "infile"}
    BY <1>3, FurtherShape DEF IInv, TypeOK
  <1>11. r \o f \in Seq(Packets)
    BY <1>3, <1>9, ConcatProperties
  <1>4. stream' \in Seq(Packets)
    BY <1>10, <1>11, ConcatProperties DEF IInv, TypeOK
  <1>5. TypeOK'
    <2>1. calls' \in 0 .. MaxCalls
      BY <1>2, ReaderAssumption DEF IInv, TypeOK
    <2>2. data' \in Seq(Packets)
      BY <1>2, EmptySeq
    <2>3. astray' \in BOOLEAN
      BY <1>10 DEF IInv, TypeOK, Split
    <2> QED
      BY <1>10, <1>2, <1>3, <1>4, <1>9, <2>1, <2>2, <2>3 DEF IInv, TypeOK
  <1>6. RelayInv'
    BY <1>2 DEF IInv, RelayInv, Handshake, Calls
  <1>7. PanicsAreKnown'
    BY <1>2 DEF PanicsAreKnown
  <1>8. ASSUME ~astray' PROVE WireInv' /\ PlaceInv'
    <2>1. ~Split(r) /\ stream = <<>>
      BY <1>10, <1>8
    <2>2. stream' = Whole' /\ Len(Whole') \in Nat
      <3>1. Whole' = r \o f
        BY <1>10 DEF Whole
      <3>2. <<>> \o (r \o f) = r \o f
        BY <1>11, ConcatEmptySeq
      <3> QED
        BY <1>10, <1>11, <2>1, <3>1, <3>2
    <2>3. Shape(call, sent)'
      BY <1>10, <1>2, <1>3, <2>1
         DEF Shape, ResponseShape, PrepareShape, FieldsShape, EofLen,
             DeprecateEOFSet
    <2>4. Len(data') = 0 /\ Len(r) \in Nat
      BY <1>2, <1>3, EmptySeq
    <2>5. \A j \in 1 .. Len(Whole') : Whole'[j] = Whole'[0 + j]
      BY <2>2
    <2>6. WireInv'
      <3>1. Len(data') <= Len(sent') /\ 0 + Len(Whole') = Len(Whole')
        BY <1>10, <2>2, <2>4
      <3>2. further' # <<>> =>
              /\ call' = "ReadResponse"
              /\ sent'[Len(sent')].b \notin {"err", "infile"}
        BY <1>2, <1>9, <1>10
      <3>3. \A j \in 1 .. Len(stream') : stream'[j] = Whole'[Len(data') + j]
        BY <2>2, <2>4, <2>5
      <3>4. \A j \in 1 .. Len(data') : data'[j] = sent'[j]
        BY <2>4
      <3>5. /\ Len(data') + Len(stream') = Len(Whole')
            /\ Len(data') + Len(stream') <= Len(Whole')
        BY <2>2, <2>4, <3>1
      <3>6. Len(data') <= Len(sent')
        BY <3>1
      <3> QED
        BY <2>3, <3>2, <3>3, <3>4, <3>5, <3>6 DEF WireInv
    <2>7. PlaceInv'
      BY <1>2, <2>4 DEF PlaceInv
    <2> QED
      BY <2>6, <2>7
  <1> QED
    BY <1>5, <1>6, <1>7, <1>8 DEF IInv

\* A packet that is read is the next one of the response.
LEMMA ConsumeWire ==
  ASSUME TypeOK, WireInv, stream # <<>>, Len(data) < Len(sent),
         stream' = Tail(stream), data' = Append(data, Head(stream)),
         UNCHANGED <<closed, caps, call, sent, further>>
  PROVE  /\ WireInv' /\ data' \in Seq(Packets)
         /\ Len(data) \in Nat /\ Len(data') = Len(data) + 1
         /\ Len(data) + 1 \in 1 .. Len(sent)
         /\ Head(stream) = sent[Len(data) + 1]
         /\ Len(sent) \in Nat
  <1> DEFINE k == Len(data)
             n == Len(stream)
             p == Head(stream)
  <1>1. /\ stream \in Seq(Packets) /\ data \in Seq(Packets)
        /\ sent \in Seq(Packets) /\ k \in Nat /\ n \in Nat /\ n > 0
        /\ Len(sent) \in Nat
    BY EmptySeq DEF TypeOK
  <1>2. /\ p \in Packets /\ p = stream[1] /\ Len(stream') = n - 1
        /\ stream' \in Seq(Packets)
        /\ \A j \in 1 .. n - 1 : stream'[j] = stream[j + 1]
    BY <1>1, HeadTailProperties
  <1>3. /\ data' \in Seq(Packets) /\ Len(data') = k + 1 /\ data'[k + 1] = p
        /\ \A j \in 1 .. k : data'[j] = data[j]
    BY <1>1, <1>2, AppendProperties
  <1>4. /\ k + n <= Len(Whole) /\ (~closed => k + n = Len(Whole))
        /\ k < Len(sent)
        /\ \A j \in 1 .. k : data[j] = sent[j]
        /\ \A j \in 1 .. n : stream[j] = Whole[k + j]
    BY DEF WireInv
  <1>11. Whole' = Whole /\ Len(Whole) \in Nat
         /\ \A i \in 1 .. Len(sent) : Whole[i] = sent[i]
    BY WholeFacts DEF Whole
  <1> HIDE DEF k, n, p
  <1>5. k + 1 \in 1 .. Len(sent) /\ p = sent[k + 1]
    <2>1. 1 \in 1 .. n /\ k + 1 \in 1 .. Len(sent)
      BY <1>1, <1>4
    <2> QED
      BY <1>2, <1>4, <1>11, <2>1
  <1>6. /\ Len(data') + Len(stream') <= Len(Whole)
        /\ ~closed => Len(data') + Len(stream') = Len(Whole)
        /\ Len(data') <= Len(sent)
    BY <1>1, <1>2, <1>3, <1>4, <1>11
  <1>7. \A j \in 1 .. Len(data') : data'[j] = sent[j]
    <2>1. \A j \in 1 .. k + 1 : j \in 1 .. k \/ j = k + 1
      BY <1>1
    <2> QED
      BY <1>3, <1>4, <1>5, <2>1
  <1>8. \A j \in 1 .. Len(stream') : stream'[j] = Whole[Len(data') + j]
    <2> SUFFICES ASSUME NEW j \in 1 .. n - 1
                 PROVE  stream'[j] = Whole[Len(data') + j]
      BY <1>2
    <2>1. j + 1 \in 1 .. n /\ k + (j + 1) = Len(data') + j
      <3>1. k \in Nat /\ n \in Nat /\ Len(data') = k + 1
        BY <1>1, <1>3
      <3>2. j + 1 \in 1 .. n
        BY <3>1
      <3> QED
        BY <3>1, <3>2
    <2>2. stream'[j] = stream[j + 1]
      BY <1>2
    <2>3. stream[j + 1] = Whole[k + (j + 1)]
      BY <1>4, <2>1
    <2> QED
      BY <2>1, <2>2, <2>3
  <1>9. Shape(call, sent)'
    BY SentShape DEF WireInv
  <1>10. WireInv'
    BY <1>6, <1>7, <1>8, <1>9, <1>11 DEF WireInv
  <1> QED
    BY <1>1, <1>3, <1>5, <1>10 DEF k, p

\* Steps of the readers keep the type, the handshake's record and the rest.
LEMMA ReadKeeps ==
  ASSUME IInv, mode \in {"first", "counted", "rows"},
         mode' \in {"first", "counted", "rows", "idle", "panicked"},
         stream # <<>>, stream' = Tail(stream),
         data' = data \/ data' = Append(data, Head(stream))
                      \/ data' = <<Head(stream)>>,
         left' \in Nat, mode' = "counted" => left' > 0,
         UNCHANGED <<closed, client, caps, relayed, call, history>>
  PROVE  TypeOK' /\ RelayInv'
  <1>1. stream \in Seq(Packets) /\ data \in Seq(Packets)
    BY DEF IInv, TypeOK
  <1>2. Head(stream) \in Packets /\ stream' \in Seq(Packets)
    BY <1>1, HeadTailProperties
  <1>3. data' \in Seq(Packets)
    <2>1. <<Head(stream)>> \in Seq(Packets)
          /\ Append(data, Head(stream)) \in Seq(Packets)
      BY <1>1, <1>2, SingleSeq, AppendProperties
    <2> QED
      BY <1>1, <2>1
  <1>4. TypeOK'
    BY <1>2, <1>3 DEF IInv, TypeOK, Ended, history
  <1>5. call \in Calls /\ RelayInv
    BY DEF IInv, RelayInv
  <1>6. RelayInv'
    BY <1>5 DEF RelayInv, Handshake, Calls
  <1> QED
    BY <1>4, <1>6

-----------------------------------------------------------------------------
(* What the first bytes of a response tell.                                *)

LEMMA PacketKinds ==
  /\ OkP.b = "ok" /\ ErrP.b = "err" /\ EofP.b = "fe" /\ Infile.b = "infile"
  /\ Data.b = "data" /\ RowP.b = "row" /\ Infile.n = 0
  /\ \A n \in Nat : Count(n).b = "count" /\ Count(n).n = n
  /\ \A p, q \in Nat : Prepared(p, q).b = "prepared"
  BY DEF OkP, ErrP, EofP, Infile, Data, RowP, Count, Prepared, Packet

LEMMA ResponseFacts ==
  ASSUME NEW r, Shape("ReadResponse", r)
  PROVE  /\ r[1].b \in {"ok", "err", "infile", "count"} /\ Len(r) \in Nat
         /\ r[1].n \in Nat
         /\ r[1].b \in {"ok", "err"} => Len(r) = 1
         /\ r[1].b = "infile" =>
              r = <<Infile>> /\ Len(r) = 1 /\ r[1].n = 0
         /\ r[1].b = "count" =>
              /\ r[1].n + EofLen + 2 <= Len(r)
              /\ r[Len(r)] \in {EofP, ErrP}
              /\ \A j \in 2 .. Len(r) - 1 :
                   \/ r[j] \in {Data, RowP}
                   \/ r[j] = EofP /\ ~DeprecateEOFSet /\ j = r[1].n + 2
  <1>1. ResponseShape(r) /\ r \in Seq(Packets) /\ Len(r) \in Nat
        /\ Len(r) > 0
    BY DEF Shape
  <1>2. 1 \in 1 .. Len(r)
    BY <1>1
  <1>3. r[1] \in Packets
    BY <1>1, <1>2, ElementOfSeq
  <1>4. r[1].n \in Nat
    BY <1>3 DEF Packets
  <1>5. CASE r \in {<<OkP>>, <<ErrP>>, <<Infile>>}
    <2>1. PICK x \in {OkP, ErrP, Infile} : r = <<x>>
      BY <1>5
    <2>2. Len(r) = 1 /\ r[1] = x
      BY <2>1, PacketTypes, SingleSeq
    <2> QED
      BY <1>1, <1>4, <2>1, <2>2, PacketKinds
  <1>6. CASE r \notin {<<OkP>>, <<ErrP>>, <<Infile>>}
    <2>1. PICK n \in 1 .. MaxCount :
            /\ r[1] = Count(n) /\ n + EofLen + 2 <= Len(r)
            /\ r[Len(r)] \in {EofP, ErrP}
            /\ \A j \in 2 .. Len(r) - 1 :
                 \/ r[j] \in {Data, RowP}
                 \/ (r[j] = EofP /\ ~DeprecateEOFSet /\ j = n + 2)
      BY <1>1, <1>6 DEF ResponseShape
    <2>2. n \in Nat
      BY ReaderAssumption
    <2>3. r[1].b = "count" /\ r[1].n = n
      BY <2>1, <2>2, PacketKinds
    <2> QED
      BY <1>1, <1>4, <2>1, <2>3
  <1> QED
    BY <1>5, <1>6

LEMMA PrepareFacts ==
  ASSUME NEW r, Shape("ReadPrepareResponse", r)
  PROVE  /\ r[1].b \in {"err", "prepared"} /\ Len(r) \in Nat
         /\ r[1].b = "err" => Len(r) = 1
         /\ r[1].b = "prepared" =>
              /\ Expected(r[1]) \in Nat
              /\ ~DeprecateEOFSet => Len(r) = 1 + Expected(r[1])
              /\ DeprecateEOFSet /\ Expected(r[1]) > 0 =>
                   Len(r) > 1 /\ Len(r) < 1 + Expected(r[1])
              /\ Expected(r[1]) = 0 => Len(r) = 1
  <1>1. PrepareShape(r) /\ r \in Seq(Packets) /\ Len(r) \in Nat
    BY DEF Shape
  <1>2. CASE r = <<ErrP>>
    <2>1. Len(r) = 1 /\ r[1] = ErrP
      BY <1>2, PacketTypes, SingleSeq
    <2> QED
      BY <2>1, PacketKinds
  <1>3. CASE r # <<ErrP>>
    <2>1. PICK p \in 0 .. MaxCount, q \in 0 .. MaxCount :
            /\ r[1] = Prepared(p, q)
            /\ Len(r) = 1 + IF DeprecateEOFSet THEN p + q ELSE Expected(r[1])
      BY <1>1, <1>3 DEF PrepareShape
    <2>2. p \in Nat /\ q \in Nat
      BY ReaderAssumption
    <2>3. r[1].b = "prepared"
      BY <2>1, <2>2, PacketKinds
    <2>4. Expected(r[1]) = (IF p > 0 THEN p + 1 ELSE 0)
                             + (IF q > 0 THEN q + 1 ELSE 0)
      BY <2>1 DEF Expected, Prepared, Packet
    <2> QED
      BY <1>1, <2>1, <2>2, <2>3, <2>4
  <1> QED
    BY <1>2, <1>3

LEMMA FieldsFacts ==
  ASSUME NEW r, Shape("ReadShowFieldsResponse", r)
  PROVE  /\ r[1].b \in {"err", "data", "fe"} /\ Len(r) \in Nat
         /\ r[1].b = "err" => Len(r) = 1
         /\ r[1].b # "err" =>
              /\ r[Len(r)].b = "fe" /\ Len(r) > 0
              /\ \A j \in 1 .. Len(r) - 1 : r[j] = Data
              /\ Len(r) = 1 => r = <<EofP>>
  <1>1. FieldsShape(r) /\ r \in Seq(Packets) /\ Len(r) \in Nat /\ Len(r) > 0
    BY DEF Shape
  <1>2. CASE r = <<ErrP>>
    <2>1. Len(r) = 1 /\ r[1] = ErrP
      BY <1>2, PacketTypes, SingleSeq
    <2> QED
      BY <2>1, PacketKinds
  <1>3. CASE r # <<ErrP>>
    <2>1. r[Len(r)] = EofP /\ \A j \in 1 .. Len(r) - 1 : r[j] = Data
      BY <1>1, <1>3 DEF FieldsShape
    <2>2. r[1] = Data \/ (Len(r) = 1 /\ r[1] = EofP)
      <3>1. Len(r) = 1 \/ 1 \in 1 .. Len(r) - 1
        <4>1. Len(r) \in Nat /\ Len(r) > 0
          BY <1>1
        <4>2. \A n \in Nat : n > 0 => n = 1 \/ 1 \in 1 .. n - 1
          OBVIOUS
        <4> QED
          BY <4>1, <4>2
      <3> QED
        BY <2>1, <3>1
    <2>3. ASSUME Len(r) = 1 PROVE r = <<EofP>>
      <3> DEFINE s == <<EofP>>
      <3>1. s \in Seq(Packets) /\ Len(s) = 1 /\ s[1] = EofP
        BY PacketTypes, SingleSeq
      <3>2. \A i \in 1 .. Len(r) : r[i] = s[i]
        BY <2>1, <2>3, <3>1
      <3> HIDE DEF s
      <3>3. r = s
        BY <1>1, <2>3, <3>1, <3>2, SeqEqual
      <3> QED
        BY <3>3 DEF s
    <2> QED
      BY <1>1, <2>1, <2>2, <2>3, PacketKinds
  <1> QED
    BY <1>2, <1>3

-----------------------------------------------------------------------------
(* The readers of responses.                                               *)

LEMMA HeadType ==
  ASSUME TypeOK, stream # <<>>
  PROVE  Head(stream) \in Packets /\ Head(stream).n \in Nat
         /\ Head(stream).m \in Nat
  <1>1. Head(stream) \in Packets
    BY HeadTailProperties DEF TypeOK
  <1> QED
    BY <1>1 DEF Packets

\* A packet is under way for a reader that is in step only if the response is
\* not complete: the further ones are not looked at.
LEMMA Inside ==
  ASSUME IInv, ~astray, mode \in {"first", "counted", "rows"}, stream # <<>>
  PROVE  Len(data) < Len(sent)
  <1>1. TypeOK /\ WireInv /\ PlaceInv /\ call \in Calls
    BY DEF IInv, Underway, RelayInv
  <1>2. /\ Shape(call, sent) /\ sent \in Seq(Packets) /\ Len(sent) > 0
        /\ Len(data) <= Len(sent) /\ Len(data) + Len(stream) <= Len(Whole)
        /\ further # <<>> =>
             call = "ReadResponse" /\ sent[Len(sent)].b \notin {"err", "infile"}
    BY <1>1 DEF WireInv, Shape
  <1>3. /\ Len(Whole) = Len(sent) + Len(further)
        /\ Len(sent) \in Nat /\ Len(further) \in Nat
        /\ Len(data) \in Nat /\ Len(stream) \in Nat /\ Len(stream) > 0
    BY <1>1, WholeFacts, EmptySeq DEF TypeOK
  <1>4. CASE further = <<>>
    <2>1. Len(further) = 0
      BY <1>4, EmptySeq
    <2> QED
      BY <1>2, <1>3, <2>1
  <1>5. CASE further # <<>>
    <2>1. call = "ReadResponse" /\ sent[Len(sent)].b \notin {"err", "infile"}
      BY <1>2, <1>5
    <2>2. /\ sent[1].b = "infile" => Len(sent) = 1
          /\ sent[1].n \in Nat
          /\ sent[1].b = "count" => sent[1].n + EofLen + 2 <= Len(sent)
      BY <1>2, <2>1, ResponseFacts
    <2>3. sent[1].b # "infile"
      BY <2>1, <2>2
    <2>4. CASE mode = "first"
      BY <1>1, <1>2, <1>3, <2>4 DEF PlaceInv
    <2>5. CASE mode = "counted"
      <3>1. /\ sent[1].b = "count" /\ ~DeprecateEOFSet
            /\ Len(data) + left = sent[1].n + 2
        BY <1>1, <2>1, <2>3, <2>5 DEF PlaceInv
      <3>2. EofLen = 1 /\ left \in Nat /\ left > 0
        BY <1>1, <2>5, <3>1 DEF EofLen, TypeOK
      <3> QED
        BY <1>3, <2>2, <3>1, <3>2
    <2>6. CASE mode = "rows"
      <3>1. Len(data) = Len(sent) =>
              \/ sent = <<Infile>>
              \/ sent[1].b = "count" /\ sent[Len(sent)] = ErrP
              \/ call = "ReadShowFieldsResponse" /\ sent = <<EofP>>
        BY <1>1, <2>6 DEF PlaceInv
      <3>2. sent = <<Infile>> => sent[1].b = "infile"
        BY PacketKinds, PacketTypes, SingleSeq
      <3>3. Len(data) # Len(sent)
        BY <2>1, <2>3, <3>1, <3>2, PacketKinds
      <3> QED
        BY <1>2, <1>3, <3>3
    <2> QED
      BY <2>4, <2>5, <2>6
  <1> QED
    BY <1>4, <1>5

LEMMA FirstOfResponseInv ==
  ASSUME IInv, FirstOfResponse
  PROVE  IInv'
  <1> DEFINE p == Head(stream)
  <1>1. /\ mode = "first" /\ call # "ReadPrepareResponse" /\ stream # <<>>
        /\ stream' = Tail(stream) /\ data' = Append(data, p)
        /\ UNCHANGED <<closed, client, caps, relayed, call, history>>
        /\ \/ p.b = "empty" /\ mode' = "panicked" /\ left' = left
           \/ /\ p.b \in {"ok", "prepared", "err", "row"}
              /\ mode' = "idle" /\ left' = left
           \/ /\ p.b \notin {"empty", "ok", "prepared", "err"}
              /\ mode' = IF left' = 0 THEN "rows" ELSE "counted"
              /\ left' \in ToRead(p)
    BY FirstOfResponseCases
  <1>2. /\ TypeOK /\ call \in Calls /\ left \in Nat /\ p.n \in Nat
    BY <1>1, HeadType DEF IInv, TypeOK, RelayInv
  <1> HIDE DEF p
  <1>5. /\ ToRead(p) \subseteq Nat
        /\ p.b # "row" => ToRead(p) =
             {IF call = "ReadShowFieldsResponse" \/ DeprecateEOFSet THEN 0
              ELSE p.n + 1}
    BY <1>2, ReaderAssumption DEF ToRead
  <1>3. TypeOK' /\ RelayInv'
    <2>1. mode' \in {"counted", "rows", "idle", "panicked"} /\ left' \in Nat
          /\ (mode' = "counted" => left' > 0)
      BY <1>1, <1>2, <1>5
    <2> QED
      BY <1>1, <2>1, ReadKeeps DEF p
  <1>4. ASSUME ~astray
        PROVE  mode' # "panicked" /\ WireInv' /\ PlaceInv'
    <2>1. WireInv /\ Len(data) = 0
      BY <1>1, <1>2, <1>4 DEF IInv, Underway, PlaceInv
    <2>2. /\ WireInv' /\ Len(data') = 1 /\ p = sent[1]
      <3>1. UNCHANGED <<closed, caps, call, sent, further>>
        BY <1>1 DEF history
      <3>3. Len(data) < Len(sent)
        BY <1>1, <1>4, Inside
      <3>2. /\ WireInv' /\ Len(data') = Len(data) + 1
            /\ p = sent[Len(data) + 1]
        BY <1>1, <1>2, <2>1, <3>1, <3>3, ConsumeWire DEF p
      <3> QED
        BY <2>1, <3>2
    <2>3. Shape(call, sent) /\ sent' = sent /\ call' = call /\ caps' = caps
      BY <1>1, <2>1 DEF WireInv, history
    <2>4. CASE call = "ReadResponse"
      <3>1. /\ p.b \in {"ok", "err", "infile", "count"} /\ Len(sent) \in Nat
            /\ p.b \in {"ok", "err"} => Len(sent) = 1
            /\ p.b = "infile" => sent = <<Infile>>
            /\ p.b = "count" => p.n + EofLen + 2 <= Len(sent)
        BY <2>2, <2>3, <2>4, ResponseFacts
      <3>2. EofLen \in {0, 1}
        BY DEF EofLen
      <3>3. CASE p.b \in {"ok", "err"}
        <4>1. mode' = "idle" /\ Len(data') = Len(sent)
          BY <1>1, <2>2, <3>1, <3>3
        <4> QED
          BY <2>2, <2>3, <4>1 DEF PlaceInv
      <3>4. CASE p.b \in {"infile", "count"}
        <4>7. left' = IF DeprecateEOFSet THEN 0 ELSE p.n + 1
          BY <1>1, <1>5, <2>4, <3>4
        <4>1. /\ mode' = IF DeprecateEOFSet THEN "rows" ELSE "counted"
              /\ ~DeprecateEOFSet => left' = p.n + 1
          BY <1>1, <1>2, <2>4, <3>4, <4>7
        <4>2. p.b = "count" => Len(sent) > 1
          BY <1>2, <3>1, <3>2
        <4>3. DeprecateEOFSet' = DeprecateEOFSet
          BY <2>3 DEF DeprecateEOFSet
        <4>4. ~DeprecateEOFSet => 1 + left' = p.n + 2
          BY <1>2, <4>1
        <4>5. mode' # "panicked"
          BY <4>1
        <4>6. PlaceInv'
          BY <2>2, <2>3, <2>4, <3>1, <3>4, <4>1, <4>2, <4>3, <4>4
             DEF PlaceInv
        <4> QED
          BY <2>2, <4>5, <4>6
      <3> QED
        BY <3>1, <3>3, <3>4
    <2>5. CASE call = "ReadShowFieldsResponse"
      <3>1. /\ p.b \in {"err", "data", "fe"} /\ Len(sent) \in Nat
            /\ p.b = "err" => Len(sent) = 1
            /\ p.b # "err" /\ Len(sent) = 1 => sent = <<EofP>>
        BY <2>2, <2>3, <2>5, FieldsFacts
      <3>2. mode' = IF p.b = "err" THEN "idle" ELSE "rows"
        BY <1>1, <1>5, <2>5, <3>1
      <3>3. PlaceInv'
        BY <2>2, <2>3, <2>5, <3>1, <3>2 DEF PlaceInv
      <3> QED
        BY <2>2, <3>2, <3>3
    <2> QED
      BY <1>1, <1>2, <2>4, <2>5 DEF Calls
  <1> QED
    BY <1>1, <1>3, <1>4 DEF IInv, PanicsAreKnown, history

LEMMA FirstOfPrepareInv ==
  ASSUME IInv, FirstOfPrepare
  PROVE  IInv'
  <1> DEFINE p == Head(stream)
  <1>1. /\ mode = "first" /\ call = "ReadPrepareResponse" /\ stream # <<>>
        /\ stream' = Tail(stream)
        /\ UNCHANGED <<closed, client, caps, relayed, call, history>>
        /\ \/ /\ p.b \in {"empty", "row"}
              /\ mode' = "panicked" /\ UNCHANGED <<data, left>>
           \/ /\ left' \in Counts(p) /\ data' = <<p>>
              /\ mode' = IF left' = 0 THEN "idle" ELSE "counted"
           \/ /\ p.b = "err" /\ data' = <<p>>
              /\ mode' = "idle" /\ left' = left
           \/ /\ p.b \notin {"empty", "ok", "prepared", "err"}
              /\ mode' = "idle" /\ UNCHANGED <<data, left>>
    BY FirstOfPrepareCases
  <1>2. /\ TypeOK /\ call \in Calls /\ left \in Nat /\ p.n \in Nat
        /\ p.m \in Nat
    BY <1>1, HeadType DEF IInv, TypeOK, RelayInv
  <1> HIDE DEF p
  <1>3. /\ Counts(p) \subseteq Nat
        /\ p.b = "prepared" => Counts(p) = {Expected(p)}
        /\ p.b = "err" => Counts(p) = {}
    <2>1. \A r : r.n \in Nat /\ r.m \in Nat => Expected(r) \in Nat
      BY DEF Expected
    <2>2. \A v, w \in 0 .. MaxCount : Expected(Prepared(v, w)) \in Nat
      <3> SUFFICES ASSUME NEW v \in 0 .. MaxCount, NEW w \in 0 .. MaxCount
                   PROVE  Expected(Prepared(v, w)) \in Nat
        OBVIOUS
      <3>1. Prepared(v, w).n \in Nat /\ Prepared(v, w).m \in Nat
        BY DEF Prepared, Packet
      <3> QED
        BY <2>1, <3>1
    <2>3. CASE p.b = "prepared"
      BY <1>2, <2>1, <2>3 DEF Counts
    <2>4. CASE p.b \in {"ok", "row"}
      BY <2>2, <2>4 DEF Counts
    <2>5. CASE p.b \notin {"prepared", "ok", "row"}
      BY <2>5 DEF Counts
    <2> QED
      BY <2>3, <2>4, <2>5
  <1>4. TypeOK' /\ RelayInv'
    <2>1. mode' \in {"counted", "idle", "panicked"} /\ left' \in Nat
          /\ (mode' = "counted" => left' > 0)
      <3>1. left' \in Nat
        BY <1>1, <1>2, <1>3
      <3> QED
        BY <1>1, <3>1
    <2>2. data' = data \/ data' = <<p>>
      BY <1>1
    <2> QED
      BY <1>1, <2>1, <2>2, ReadKeeps DEF p
  <1>5. ASSUME ~astray
        PROVE  mode' # "panicked" /\ WireInv' /\ PlaceInv'
    <2>1. WireInv /\ Len(data) = 0 /\ data \in Seq(Packets)
      BY <1>1, <1>2, <1>5 DEF IInv, Underway, PlaceInv, TypeOK
    <2>2. Shape(call, sent) /\ sent' = sent /\ call' = call /\ caps' = caps
          /\ closed' = closed /\ further' = further
      BY <1>1, <2>1 DEF WireInv, history
    <2>9. Len(data) < Len(sent)
      BY <1>1, <1>5, Inside
    <2>3. p = sent[1]
      <3>1. Len(stream) \in Nat \ {0} /\ p = stream[1]
        BY <1>1, <1>2, EmptySeq, HeadTailProperties DEF TypeOK, p
      <3>2. \A j \in 1 .. Len(stream) : stream[j] = Whole[0 + j]
        BY <2>1 DEF WireInv
      <3>3. 1 \in 1 .. Len(stream) /\ 0 + 1 = 1
        BY <3>1
      <3>4. Whole[1] = sent[1]
        <4>1. 1 \in 1 .. Len(sent)
          BY <1>2, <2>1, <2>9, WholeFacts
        <4> QED
          BY <1>2, <4>1, WholeFacts
      <3> QED
        BY <3>1, <3>2, <3>3, <3>4
    <2>4. /\ p.b \in {"err", "prepared"} /\ Len(sent) \in Nat
          /\ p.b = "err" => Len(sent) = 1
          /\ p.b = "prepared" /\ Expected(p) = 0 => Len(sent) = 1
      BY <1>1, <2>2, <2>3, PrepareFacts
    <2>5. data' = Append(data, p)
      <3>1. data = <<>>
        BY <2>1, EmptySeq
      <3>2. data' = <<p>>
        BY <1>1, <2>4
      <3> QED
        BY <3>1, <3>2
    <2>6. WireInv' /\ Len(data') = 1
      BY <1>1, <1>2, <2>1, <2>2, <2>5, <2>9, ConsumeWire DEF p
    <2>7. \/ mode' = "idle" /\ Len(data') = Len(sent)
          \/ /\ mode' = "counted" /\ p.b = "prepared"
             /\ 1 + left' = 1 + Expected(p)
      BY <1>1, <1>3, <2>4, <2>6
    <2>8. PlaceInv'
      BY <1>1, <2>2, <2>3, <2>6, <2>7 DEF PlaceInv
    <2> QED
      BY <2>6, <2>7, <2>8
  <1> QED
    BY <1>1, <1>4, <1>5 DEF IInv, PanicsAreKnown, history

LEMMA CountedInv ==
  ASSUME IInv, Counted
  PROVE  IInv'
  <1>1. /\ mode = "counted" /\ stream # <<>>
        /\ stream' = Tail(stream) /\ data' = Append(data, Head(stream))
        /\ left' = left - 1
        /\ mode' = IF left > 1 THEN "counted"
                   ELSE IF call = "ReadPrepareResponse" THEN "idle" ELSE "rows"
        /\ UNCHANGED <<closed, client, caps, relayed, call, history>>
    BY DEF Counted, Consume
  <1>2. TypeOK /\ call \in Calls /\ left \in Nat /\ left > 0
    BY <1>1 DEF IInv, TypeOK, RelayInv
  <1>3. TypeOK' /\ RelayInv'
    <2>1. mode' \in {"counted", "rows", "idle"} /\ left' \in Nat
          /\ (mode' = "counted" => left' > 0)
      BY <1>1, <1>2
    <2> QED
      BY <1>1, <2>1, ReadKeeps
  <1>4. ASSUME ~astray PROVE WireInv' /\ PlaceInv'
    <2>1. WireInv /\ PlaceInv
      BY <1>1, <1>2, <1>4 DEF IInv, Underway
    <2>9. Len(data) < Len(sent)
      BY <1>1, <1>4, Inside
    <2>2. Shape(call, sent) /\ sent' = sent /\ call' = call /\ caps' = caps
      BY <1>1, <2>1 DEF WireInv, history
    <2>3. /\ WireInv' /\ Len(data) \in Nat /\ Len(data') = Len(data) + 1
          /\ Len(data) + 1 \in 1 .. Len(sent) /\ Len(sent) \in Nat
      BY <1>1, <1>2, <2>1, <2>9, ConsumeWire DEF history
    <2>4. DeprecateEOFSet' = DeprecateEOFSet
      BY <2>2 DEF DeprecateEOFSet
    <2>5. CASE call = "ReadResponse"
      <3>1. /\ ~DeprecateEOFSet /\ Len(data) + left = sent[1].n + 2
            /\ Len(data) > 0
        BY <1>1, <2>1, <2>5 DEF PlaceInv
      <3>2. /\ sent[1].b \in {"ok", "err", "infile", "count"}
            /\ sent[1].b # "count" => Len(sent) = 1
            /\ sent[1].n \in Nat
            /\ sent[1].b = "count" => sent[1].n + EofLen + 2 <= Len(sent)
        BY <2>2, <2>5, ResponseFacts
      <3>3. sent[1].b = "count"
        <4>1. Len(sent) # 1
          <5>1. \A k, l \in Nat : k > 0 /\ k + 1 \in 1 .. l => l # 1
            OBVIOUS
          <5> QED
            BY <2>3, <3>1, <5>1
        <4> QED
          BY <3>2, <4>1
      <3>4. EofLen = 1
        BY <3>1 DEF EofLen
      <3>5. CASE left > 1
        <4>1. mode' = "counted" /\ Len(data') + left' = sent[1].n + 2
          BY <1>1, <1>2, <2>3, <3>1, <3>2, <3>5
        <4> QED
          BY <2>2, <2>3, <2>4, <2>5, <3>1, <3>3, <4>1 DEF PlaceInv
      <3>6. CASE ~ (left > 1)
        <4>1. /\ mode' = "rows" /\ Len(data') = sent[1].n + 2
              /\ Len(data') # Len(sent) /\ sent[1].n + 2 <= Len(data')
          BY <1>1, <1>2, <2>3, <2>5, <3>1, <3>2, <3>3, <3>4, <3>6
        <4> QED
          BY <2>2, <2>3, <2>4, <2>5, <3>3, <4>1 DEF PlaceInv
      <3> QED
        BY <3>5, <3>6
    <2>6. CASE call = "ReadPrepareResponse"
      <3>1. sent[1].b = "prepared" /\ Len(data) + left = 1 + Expected(sent[1])
        BY <1>1, <2>1, <2>6 DEF PlaceInv
      <3>2. /\ Expected(sent[1]) \in Nat
            /\ ~DeprecateEOFSet => Len(sent) = 1 + Expected(sent[1])
            /\ DeprecateEOFSet /\ Expected(sent[1]) > 0 =>
                 Len(sent) < 1 + Expected(sent[1])
            /\ Expected(sent[1]) = 0 => Len(sent) = 1
        BY <2>2, <2>6, <3>1, PrepareFacts
      <3>3. CASE left > 1
        <4>1. mode' = "counted" /\ Len(data') + left' = 1 + Expected(sent[1])
          BY <1>1, <1>2, <2>3, <3>1, <3>2, <3>3
        <4> QED
          BY <2>2, <2>3, <2>6, <3>1, <4>1 DEF PlaceInv
      <3>4. CASE ~ (left > 1)
        <4>1. mode' = "idle"
          BY <1>1, <2>6, <3>4
        <4>2. left = 1
          BY <1>2, <3>4
        <4>3. Len(data') = Len(sent)
          <5>1. Len(data) + 1 <= Len(sent) /\ Len(data') = Len(data) + 1
            BY <2>3
          <5>2. Len(data) = Expected(sent[1])
            BY <2>3, <3>1, <3>2, <4>2
          <5>3. CASE DeprecateEOFSet /\ Expected(sent[1]) > 0
            BY <2>3, <3>2, <5>1, <5>2, <5>3
          <5>4. CASE Expected(sent[1]) = 0
            BY <3>2, <5>1, <5>2, <5>4
          <5>5. CASE ~DeprecateEOFSet
            BY <3>2, <5>1, <5>2, <5>5
          <5> QED
            BY <3>2, <5>3, <5>4, <5>5
        <4>4. sent' = sent /\ call' = "ReadPrepareResponse"
          BY <2>2, <2>6
        <4> QED
          BY <2>3, <4>1, <4>3, <4>4 DEF PlaceInv
      <3> QED
        BY <3>3, <3>4
    <2>7. call # "ReadShowFieldsResponse"
      BY <1>1, <2>1 DEF PlaceInv
    <2> QED
      BY <1>2, <2>3, <2>5, <2>6, <2>7 DEF Calls
  <1> QED
    BY <1>1, <1>3, <1>4 DEF IInv, PanicsAreKnown, history

LEMMA RowInv ==
  ASSUME IInv, Row
  PROVE  IInv'
  <1> DEFINE p == Head(stream)
             k == Len(data)
  <1>1. /\ mode = "rows" /\ stream # <<>>
        /\ stream' = Tail(stream) /\ data' = Append(data, p)
        /\ UNCHANGED <<closed, client, caps, relayed, call, left, history>>
        /\ \/ p.b = "fe" /\ mode' = "idle"
           \/ p.b = "empty" /\ mode' = "panicked"
           \/ p.b \notin {"fe", "empty"} /\ mode' = "rows"
    BY RowCases
  <1>2. TypeOK /\ call \in Calls /\ left \in Nat
    BY <1>1 DEF IInv, TypeOK, RelayInv
  <1>3. TypeOK' /\ RelayInv'
    <2>1. mode' \in {"rows", "idle", "panicked"} /\ left' \in Nat
      BY <1>1, <1>2
    <2> QED
      BY <1>1, <2>1, ReadKeeps
  <1>4. ASSUME ~astray
        PROVE  mode' # "panicked" /\ WireInv' /\ PlaceInv'
    <2>1. WireInv /\ PlaceInv
      BY <1>1, <1>2, <1>4 DEF IInv, Underway
    <2>9. Len(data) < Len(sent)
      BY <1>1, <1>4, Inside
    <2>2. Shape(call, sent) /\ sent' = sent /\ call' = call /\ caps' = caps
      BY <1>1, <2>1 DEF WireInv, history
    <2>3. /\ WireInv' /\ k \in Nat /\ Len(data') = k + 1
          /\ k + 1 \in 1 .. Len(sent) /\ Len(sent) \in Nat
          /\ p = sent[k + 1]
      BY <1>1, <1>2, <2>1, <2>9, ConsumeWire DEF history
    <2>4. DeprecateEOFSet' = DeprecateEOFSet
      BY <2>2 DEF DeprecateEOFSet
    <2>5. k > 0 /\ call # "ReadPrepareResponse"
      BY <1>1, <2>1 DEF PlaceInv
    <2> HIDE DEF p, k
    <2>6. CASE call = "ReadResponse"
      <3>1. /\ sent[1].b \in {"count", "infile"}
            /\ ~DeprecateEOFSet => sent[1].n + 2 <= k
        BY <1>1, <2>1, <2>6 DEF PlaceInv, k
      <3>2. /\ sent[1].b = "infile" => Len(sent) = 1
            /\ sent[1].n \in Nat
            /\ sent[1].b = "count" =>
                 /\ sent[Len(sent)] \in {EofP, ErrP}
                 /\ \A j \in 2 .. Len(sent) - 1 :
                      \/ sent[j] \in {Data, RowP}
                      \/ /\ sent[j] = EofP /\ ~DeprecateEOFSet
                         /\ j = sent[1].n + 2
        BY <2>2, <2>6, ResponseFacts
      <3>3. sent[1].b = "count"
        BY <2>3, <2>5, <3>1, <3>2
      <3>4. CASE k + 1 = Len(sent)
        <4>1. p \in {EofP, ErrP} /\ p = sent[Len(sent)]
          BY <2>3, <3>2, <3>3, <3>4
        <4>2. \/ mode' = "idle"
              \/ mode' = "rows" /\ sent[Len(sent)] = ErrP
          BY <1>1, <4>1, PacketKinds
        <4>3. ~DeprecateEOFSet => sent[1].n + 2 <= Len(data')
          BY <2>3, <3>1, <3>2
        <4> QED
          BY <2>2, <2>3, <2>4, <2>6, <3>3, <3>4, <4>2, <4>3 DEF PlaceInv
      <3>5. CASE k + 1 # Len(sent)
        <4>1. k + 1 \in 2 .. Len(sent) - 1
          BY <2>3, <2>5, <3>5
        <4>2. k + 1 # sent[1].n + 2 \/ DeprecateEOFSet
          BY <2>3, <3>1, <3>2
        <4>3. p \in {Data, RowP}
          BY <2>3, <3>2, <3>3, <4>1, <4>2
        <4>4. mode' = "rows"
          BY <1>1, <4>3, PacketKinds
        <4>5. ~DeprecateEOFSet => sent[1].n + 2 <= Len(data')
          BY <2>3, <3>1, <3>2
        <4>6. Len(data') > 0 /\ Len(data') # Len(sent)
          BY <2>3, <3>5
        <4> QED
          BY <2>2, <2>3, <2>4, <2>6, <3>3, <4>4, <4>5, <4>6 DEF PlaceInv
      <3> QED
        BY <3>4, <3>5
    <2>7. CASE call = "ReadShowFieldsResponse"
      <3>1. /\ sent[1].b = "err" => Len(sent) = 1
            /\ sent[1].b # "err" =>
                 /\ sent[Len(sent)].b = "fe"
                 /\ \A j \in 1 .. Len(sent) - 1 : sent[j] = Data
        BY <2>2, <2>7, FieldsFacts
      <3>2. sent[1].b # "err"
        BY <2>3, <2>5, <3>1
      <3>3. CASE k + 1 = Len(sent)
        <4>1. mode' = "idle"
          BY <1>1, <2>3, <3>1, <3>2, <3>3
        <4> QED
          BY <2>2, <2>3, <3>3, <4>1 DEF PlaceInv
      <3>4. CASE k + 1 # Len(sent)
        <4>1. k + 1 \in 1 .. Len(sent) - 1
          BY <2>3, <3>4
        <4>2. mode' = "rows"
          BY <1>1, <2>3, <3>1, <3>2, <4>1, PacketKinds
        <4>3. Len(data') > 0 /\ Len(data') # Len(sent)
          BY <2>3, <3>4
        <4> QED
          BY <2>2, <2>3, <2>7, <4>2, <4>3 DEF PlaceInv
      <3> QED
        BY <3>3, <3>4
    <2> QED
      BY <1>2, <2>5, <2>6, <2>7 DEF Calls
  <1> QED
    BY <1>1, <1>3, <1>4 DEF IInv, PanicsAreKnown, history

-----------------------------------------------------------------------------
(* The theorems.                                                           *)

LEMMA SameBeginning ==
  ASSUME NEW S, NEW s \in Seq(S), NEW t \in Seq(S), Len(s) <= Len(t),
         \A i \in 1 .. Len(s) : s[i] = t[i]
  PROVE  IsPrefix(s, t)
  <1>1. PICK n \in Nat : n = Len(s)
    OBVIOUS
  <1>2. \A i \in 1 .. n : s[i] \in S /\ t[i] \in S /\ s[i] = t[i]
    BY <1>1
  <1> DEFINE u == SubSeq(s, 1, n)
             v == SubSeq(t, 1, n)
  <1>3. /\ u \in Seq(S) /\ Len(u) = IF 1 <= n THEN n - 1 + 1 ELSE 0
        /\ \A i \in 1 .. n - 1 + 1 : u[i] = s[1 + i - 1]
    BY <1>2, SubSeqProperties
  <1>4. /\ v \in Seq(S) /\ Len(v) = IF 1 <= n THEN n - 1 + 1 ELSE 0
        /\ \A i \in 1 .. n - 1 + 1 : v[i] = t[1 + i - 1]
    BY <1>2, SubSeqProperties
  <1> HIDE DEF u, v
  <1>5. \A i \in 1 .. n : i \in 1 .. n - 1 + 1 /\ 1 + i - 1 = i
    OBVIOUS
  <1>6. Len(u) = n /\ Len(v) = n
    BY <1>3, <1>4
  <1>7. \A i \in 1 .. Len(u) : u[i] = v[i]
    BY <1>2, <1>3, <1>4, <1>5, <1>6
  <1>8. u = v
    BY <1>3, <1>4, <1>6, <1>7, SeqEqual
  <1> QED
    BY <1>1, <1>8 DEF IsPrefix, u, v

LEMMA StutterInv ==
  ASSUME IInv, UNCHANGED vars
  PROVE  IInv'
  BY ClientSteps DEF vars, wire, history, IInv, TypeOK

LEMMA NextInv == IInv /\ [Next]_vars => IInv'
  <1> SUFFICES ASSUME IInv, [Next]_vars PROVE IInv'
    OBVIOUS
  <1>1. CASE ServerHandshake \/ ClientHandshake \/ Verdict
    BY <1>1, HandshakeInv
  <1>2. CASE FirstOfResponse
    BY <1>2, FirstOfResponseInv
  <1>3. CASE FirstOfPrepare
    BY <1>3, FirstOfPrepareInv
  <1>4. CASE Counted
    BY <1>4, CountedInv
  <1>5. CASE Row
    BY <1>5, RowInv
  <1>6. CASE ReadFails
    BY <1>6, ReadFailsInv
  <1>7. CASE ServerCloses
    BY <1>7, ServerClosesInv
  <1>8. CASE ClientLeaves
    BY <1>8, ClientSteps DEF ClientLeaves
  <1>9. CASE ClientLogsIn
    BY <1>9, ClientSteps DEF ClientLogsIn
  <1>10. ASSUME NEW c \in Calls, Ask(c) PROVE IInv'
    BY <1>10, AskInv
  <1>11. CASE UNCHANGED vars
    BY <1>11, StutterInv
  <1> QED
    BY <1>1, <1>2, <1>3, <1>4, <1>5, <1>6, <1>7, <1>8, <1>9, <1>10, <1>11
       DEF Next, Read

LEMMA InductiveInv == Spec => []IInv
  BY InitInv, NextInv, PTL DEF Spec

\* In every reachable state the variables have their types, and a counting
\* loop has something left to count (ReadResponse, ReadPrepareResponse).
THEOREM TypeCorrect == Spec => []TypeOK
  <1>1. IInv => TypeOK
    BY DEF IInv
  <1> QED
    BY <1>1, InductiveInv, PTL

\* A call that returns has read one response, all of it, whatever the counts
\* and whichever EOF packets the two ends agreed on, and leaves exactly the
\* further result sets unread, as long as it began at a response and no row
\* took several packets (packet.go: the three readers).
THEOREM WholeResponse == Spec => []OneResponse
  <1>1. ASSUME IInv, mode = "idle", call \in Calls, ~astray
        PROVE  /\ data = sent
               /\ IF closed THEN IsPrefix(stream, further) ELSE stream = further
    <2>1. WireInv /\ PlaceInv
      BY <1>1 DEF IInv, Underway
    <2>2. /\ data \in Seq(Packets) /\ sent \in Seq(Packets)
          /\ Len(data) = Len(sent) /\ \A j \in 1 .. Len(data) : data[j] = sent[j]
      BY <1>1, <2>1 DEF IInv, TypeOK, WireInv, PlaceInv
    <2>3. data = sent
      BY <2>2, SeqEqual
    <2>4. /\ stream \in Seq(Packets) /\ further \in Seq(Packets)
          /\ Len(stream) \in Nat
          /\ Len(Whole) = Len(sent) + Len(further)
          /\ Len(sent) \in Nat /\ Len(further) \in Nat
          /\ \A i \in 1 .. Len(further) : Whole[Len(sent) + i] = further[i]
      BY <1>1, WholeFacts DEF IInv, TypeOK
    <2>5. /\ Len(sent) + Len(stream) <= Len(Whole)
          /\ ~closed => Len(sent) + Len(stream) = Len(Whole)
          /\ \A j \in 1 .. Len(stream) : stream[j] = Whole[Len(sent) + j]
      BY <2>1, <2>2 DEF WireInv
    <2>6. /\ Len(stream) <= Len(further)
          /\ ~closed => Len(stream) = Len(further)
      BY <2>4, <2>5
    <2>7. \A j \in 1 .. Len(stream) : stream[j] = further[j]
      <3>1. \A j \in 1 .. Len(stream) : j \in 1 .. Len(further)
        BY <2>4, <2>6
      <3> QED
        BY <2>4, <2>5, <3>1
    <2>8. IsPrefix(stream, further)
      BY <2>4, <2>6, <2>7, SameBeginning
    <2>9. ~closed => stream = further
      BY <2>4, <2>6, <2>7, SeqEqual
    <2> QED
      BY <2>3, <2>8, <2>9
  <1>2. IInv => OneResponse
    BY <1>1 DEF OneResponse
  <1> QED
    BY <1>2, InductiveInv, PTL

\* A reader that waits while the server has said everything is in one of four
\* cases: LOCAL INFILE, an error after the definitions, the EOF packets that
\* ReadPrepareResponse counts and the server leaves out, no fields at all.
THEOREM KnownWaits == Spec => []WaitsOnlyFor
  <1>1. ASSUME IInv, mode \in {"first", "counted", "rows"}, stream = <<>>,
               ~closed, ~astray
        PROVE  \/ sent = <<Infile>>
               \/ sent[1].b = "count" /\ Last(sent) = ErrP
               \/ /\ call = "ReadPrepareResponse" /\ Len(sent) > 1
                  /\ DeprecateEOFSet
               \/ call = "ReadShowFieldsResponse" /\ sent = <<EofP>>
    <2>1. WireInv /\ PlaceInv /\ call \in Calls
      BY <1>1 DEF IInv, Underway, RelayInv
    <2>2. /\ Shape(call, sent) /\ Len(data) + Len(stream) = Len(Whole)
          /\ Len(data) <= Len(sent)
          /\ sent \in Seq(Packets) /\ Len(sent) > 0
      BY <1>1, <2>1 DEF WireInv, Shape
    <2>3. Len(data) = Len(sent) /\ Len(data) > 0
      <3>1. data \in Seq(Packets) /\ Len(stream) = 0
        BY <1>1, EmptySeq DEF IInv, TypeOK
      <3>2. /\ Len(Whole) = Len(sent) + Len(further)
            /\ Len(sent) \in Nat /\ Len(further) \in Nat
        BY WholeFacts, <1>1 DEF IInv
      <3> QED
        BY <2>2, <3>1, <3>2
    <2>4. CASE mode = "rows"
      BY <2>1, <2>3, <2>4 DEF PlaceInv, Last
    <2>5. CASE mode = "counted" /\ call = "ReadResponse"
      <3>1. /\ left \in Nat /\ left > 0 /\ ~DeprecateEOFSet
            /\ Len(data) + left = sent[1].n + 2
        BY <1>1, <2>1, <2>5 DEF PlaceInv, IInv, TypeOK
      <3>2. /\ sent[1].b \in {"ok", "err", "infile", "count"}
            /\ sent[1].n \in Nat /\ Len(sent) \in Nat
            /\ sent[1].b = "infile" => sent = <<Infile>>
            /\ sent[1].b = "count" =>
                 /\ sent[1].n + EofLen + 2 <= Len(sent)
        BY <2>2, <2>5, ResponseFacts
      <3>3. EofLen = 1
        BY <3>1 DEF EofLen
      <3>4. sent[1].b # "count"
        BY <2>3, <3>1, <3>2, <3>3
      <3>5. sent[1].b \notin {"ok", "err"}
        BY <2>1, <2>5 DEF PlaceInv
      <3> QED
        BY <3>2, <3>4, <3>5
    <2>6. CASE mode = "counted" /\ call = "ReadPrepareResponse"
      <3>1. /\ left \in Nat /\ left > 0 /\ sent[1].b = "prepared"
            /\ Len(data) + left = 1 + Expected(sent[1])
        BY <1>1, <2>1, <2>6 DEF PlaceInv, IInv, TypeOK
      <3>2. /\ Expected(sent[1]) \in Nat /\ Len(sent) \in Nat
            /\ ~DeprecateEOFSet => Len(sent) = 1 + Expected(sent[1])
            /\ DeprecateEOFSet /\ Expected(sent[1]) > 0 => Len(sent) > 1
        BY <2>2, <2>6, <3>1, PrepareFacts
      <3>3. Expected(sent[1]) > 0 /\ Len(sent) # 1 + Expected(sent[1])
        BY <2>3, <3>1, <3>2
      <3> QED
        BY <2>6, <3>2, <3>3
    <2>7. mode # "first"
      BY <2>1, <2>3 DEF PlaceInv
    <2>8. mode = "counted" => call # "ReadShowFieldsResponse"
      BY <2>1 DEF PlaceInv
    <2> QED
      BY <1>1, <2>1, <2>4, <2>5, <2>6, <2>7, <2>8 DEF Calls
  <1>2. IInv => WaitsOnlyFor
    BY <1>1 DEF WaitsOnlyFor
  <1> QED
    BY <1>2, InductiveInv, PTL

\* No reader looks for a byte that is not there unless it is astray, whatever
\* the response and wherever the connection ends (ReadPacket).
THEOREM KnownPanics == Spec => []PanicsAreKnown
  <1>1. IInv => PanicsAreKnown
    BY DEF IInv
  <1> QED
    BY <1>1, InductiveInv, PTL

LEMMA RelayedPrefixes ==
  ASSUME NEW s \in {<<>>, <<"client">>, <<"client", "server">>,
                    <<"client", "server", "client">>}
  PROVE  IsPrefix(s, <<"client", "server", "client">>)
  <1> DEFINE E == {"client", "server"}
             t == <<"client", "server", "client">>
  <1>1. /\ t \in Seq(E) /\ Len(t) = 3
        /\ t[1] = "client" /\ t[2] = "server" /\ t[3] = "client"
    OBVIOUS
  <1>2. /\ s \in Seq(E) /\ Len(s) <= 3
        /\ \A i \in 1 .. Len(s) : s[i] = t[i]
    <2>1. CASE s = <<>>
      BY <2>1
    <2>2. CASE s = <<"client">>
      BY <2>2
    <2>3. CASE s = <<"client", "server">>
      BY <2>3
    <2>4. CASE s = <<"client", "server", "client">>
      BY <2>4, <1>1
    <2> QED
      BY <2>1, <2>2, <2>3, <2>4
  <1> HIDE DEF t
  <1>3. IsPrefix(s, t)
    BY <1>1, <1>2, SameBeginning
  <1> QED
    BY <1>3 DEF t

\* The packets of the handshake are relayed in order, each to the other end,
\* and it succeeds exactly when all three were: one that fails because a packet
\* does not decode, or cannot be read or written, has not relayed the verdict
\* (ProcessHandshake, ProxyPacket).
THEOREM RelayedInOrder == Spec => []HandshakeRelayed
  <1>1. IInv => HandshakeRelayed
    BY RelayedPrefixes DEF IInv, RelayInv, HandshakeRelayed
  <1> QED
    BY <1>1, InductiveInv, PTL
=============================================================================
