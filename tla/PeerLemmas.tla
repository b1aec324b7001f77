----------------------------- MODULE PeerLemmas -----------------------------
(***************************************************************************)
(* What the decoder's readers, and the fields of COM_STMT_EXECUTE, return  *)
(* when they are called on the beginning of a packet, whatever its length  *)
(* is and wherever it was cut.                                             *)
(***************************************************************************)
EXTENDS Peer, Recursion

-----------------------------------------------------------------------------
(* A packet e, and its beginning p, that arrived; sequences of bytes        *)
(* inside it.                                                               *)

\* p is the beginning of e.
Beginning(p, e) ==
  /\ p \in Seq(Octet) /\ e \in Seq(Octet)
  /\ Len(p) <= Len(e)
  /\ \A j \in 1 .. Len(p) : p[j] = e[j]

\* s is in e, after the first i bytes.
Holds(e, i, s) ==
  /\ e \in Seq(Octet) /\ s \in Seq(Octet) /\ i \in Nat
  /\ i + Len(s) <= Len(e)
  /\ \A j \in 1 .. Len(s) : e[i + j] = s[j]

\* A byte is a number below 256.
LEMMA OctetNat == \A x \in Octet : x \in Nat /\ x < 256
  BY DEF Octet

\* A number below 256 is a byte.
LEMMA NatOctet == \A x \in Nat : x < 256 => x \in Octet
  BY DEF Octet

\* Two sequences of bytes in a row are one, as long as both.
LEMMA Join ==
  ASSUME NEW s \in Seq(Octet), NEW t \in Seq(Octet)
  PROVE  s \o t \in Seq(Octet) /\ Len(s \o t) = Len(s) + Len(t)
  OBVIOUS

\* One byte is a sequence of bytes.
LEMMA Single ==
  ASSUME NEW x \in Octet
  PROVE  <<x>> \in Seq(Octet) /\ Len(<<x>>) = 1 /\ <<x>>[1] = x
  OBVIOUS

\* Every packet holds itself.
LEMMA HoldsAll ==
  ASSUME NEW e \in Seq(Octet)
  PROVE  Holds(e, 0, e)
  BY DEF Holds

\* A packet that holds two sequences in a row holds each of them.
LEMMA HoldsParts ==
  ASSUME NEW e, NEW i, NEW s \in Seq(Octet), NEW t \in Seq(Octet),
         Holds(e, i, s \o t)
  PROVE  Holds(e, i, s) /\ Holds(e, i + Len(s), t)
  <1>1. /\ e \in Seq(Octet) /\ i \in Nat
        /\ i + Len(s) + Len(t) <= Len(e)
        /\ Len(s) \in Nat /\ Len(t) \in Nat
    BY Join DEF Holds
  <1>2. \A j \in 1 .. Len(s) : e[i + j] = s[j]
    <2> TAKE j \in 1 .. Len(s)
    <2>1. j \in 1 .. Len(s \o t) /\ (s \o t)[j] = s[j]
      BY Join
    <2> QED
      BY <2>1 DEF Holds
  <1>3. \A j \in 1 .. Len(t) : e[i + Len(s) + j] = t[j]
    <2> TAKE j \in 1 .. Len(t)
    <2>1. Len(s) + j \in 1 .. Len(s \o t) /\ (s \o t)[Len(s) + j] = t[j]
      BY Join
    <2>2. e[i + (Len(s) + j)] = t[j]
      BY <2>1 DEF Holds
    <2>3. i + (Len(s) + j) = i + Len(s) + j
      BY <1>1
    <2> QED
      BY <2>2, <2>3
  <1> QED
    BY <1>1, <1>2, <1>3 DEF Holds

\* The elements of a sequence.
LEMMA ElementOf ==
  ASSUME NEW S, NEW c \in Seq(S)
  PROVE  \A j \in 1 .. Len(c) : c[j] \in S
  OBVIOUS

\* The elements of a sequence of four.
LEMMA FourOf ==
  ASSUME NEW S, NEW c \in Seq(S), Len(c) = 4
  PROVE  c[1] \in S /\ c[2] \in S /\ c[3] \in S /\ c[4] \in S
  <1>1. \A j \in 1 .. Len(c) : c[j] \in S
    BY ElementOf, Zenon
  <1>2. 1 \in 1 .. Len(c) /\ 2 \in 1 .. Len(c) /\ 3 \in 1 .. Len(c)
        /\ 4 \in 1 .. Len(c)
    OBVIOUS
  <1> QED
    BY <1>1, <1>2, Zenon

\* The elements of two sequences in a row.
LEMMA JoinAt ==
  ASSUME NEW S, NEW x \in Seq(S), NEW y \in Seq(S)
  PROVE  /\ \A j \in 1 .. Len(x) : (x \o y)[j] = x[j]
         /\ \A j \in 1 .. Len(y) : (x \o y)[Len(x) + j] = y[j]
  <1>0. x \o y \in Seq(S) /\ Len(x \o y) = Len(x) + Len(y)
    OBVIOUS
  <1>1. \A j \in 1 .. Len(x) : (x \o y)[j] = x[j]
    <2> TAKE j \in 1 .. Len(x)
    <2> QED
      BY <1>0
  <1>2. \A j \in 1 .. Len(y) : (x \o y)[Len(x) + j] = y[j]
    <2> TAKE j \in 1 .. Len(y)
    <2>1. Len(x) + j \in 1 .. Len(x \o y)
      BY <1>0
    <2> QED
      BY <1>0, <2>1
  <1> QED
    BY <1>1, <1>2

\* A packet that holds two sequences side by side holds both in a row.
LEMMA HoldsJoin ==
  ASSUME NEW e, NEW i, NEW s \in Seq(Octet), NEW t \in Seq(Octet),
         Holds(e, i, s), Holds(e, i + Len(s), t)
  PROVE  Holds(e, i, s \o t)
  <1>1. /\ s \o t \in Seq(Octet) /\ Len(s \o t) = Len(s) + Len(t)
        /\ Len(s) \in Nat /\ Len(t) \in Nat
    BY Join
  <1>2. e \in Seq(Octet) /\ i \in Nat /\ i + Len(s) + Len(t) <= Len(e)
    BY DEF Holds
  <1>3. \A j \in 1 .. Len(s \o t) : e[i + j] = (s \o t)[j]
    <2> TAKE j \in 1 .. Len(s \o t)
    <2>1. CASE j <= Len(s)
      <3>1. j \in 1 .. Len(s)
        BY <1>1, <2>1
      <3>2. (s \o t)[j] = s[j]
        BY <3>1, JoinAt, Zenon
      <3> QED
        BY <3>1, <3>2 DEF Holds
    <2>2. CASE j > Len(s)
      <3>1. PICK k \in 1 .. Len(t) : j = Len(s) + k
        <4>1. j - Len(s) \in 1 .. Len(t) /\ j = Len(s) + (j - Len(s))
          BY <1>1, <2>2
        <4> QED
          BY <4>1
      <3>2. (s \o t)[j] = t[k]
        <4>1. \A h \in 1 .. Len(t) : (s \o t)[Len(s) + h] = t[h]
          BY JoinAt
        <4>2. (s \o t)[Len(s) + k] = t[k]
          BY <3>1, <4>1, Zenon
        <4> QED
          BY <3>1, <4>2
      <3>3. i + Len(s) + k = i + j
        BY <1>1, <1>2, <3>1
      <3>4. e[i + Len(s) + k] = t[k]
        BY DEF Holds
      <3> QED
        BY <3>2, <3>3, <3>4
    <2> QED
      BY <1>1, <2>1, <2>2
  <1> QED
    BY <1>1, <1>2, <1>3 DEF Holds

\* Byte finds the byte that was sent, if it arrived, and otherwise 0.
LEMMA ByteRead ==
  ASSUME NEW p, NEW e, Beginning(p, e),
         NEW i, NEW x, Holds(e, i, <<x>>)
  PROVE  /\ i \in Nat /\ i < Len(e)
         /\ Byte(p, i) = IF i < Len(p) THEN x ELSE 0
  <1>1. i \in Nat /\ i + 1 <= Len(e) /\ e[i + 1] = x
    BY DEF Holds
  <1> QED
    BY <1>1 DEF Beginning, Byte, Has

\* Bytes finds the bytes that were sent, with zeros for those that did not
\* arrive.
LEMMA BytesRead ==
  ASSUME NEW p, NEW e, Beginning(p, e),
         NEW i, NEW s, Holds(e, i, s)
  PROVE  /\ Len(Bytes(p, i, Len(s))) = Len(s)
         /\ Bytes(p, i, Len(s)) \in Seq(Octet)
         /\ \A j \in 1 .. Len(s) :
              Bytes(p, i, Len(s))[j] = IF i + j <= Len(p) THEN s[j] ELSE 0
  <1>1. i \in Nat /\ Len(s) \in Nat /\ Len(p) \in Nat
    BY DEF Holds, Beginning
  <1>2. ASSUME NEW j \in 1 .. Len(s)
        PROVE  /\ Byte(p, i + j - 1) = IF i + j <= Len(p) THEN s[j] ELSE 0
               /\ Byte(p, i + j - 1) \in Octet
    <2>0. i + j - 1 + 1 = i + j
      BY <1>1
    <2>3. s[j] \in Octet
      BY DEF Holds
    <2>1. CASE i + j <= Len(p)
      <3>1. Has(p, i + j - 1)
        BY <1>1, <2>1 DEF Has
      <3>2. i + j \in 1 .. Len(p)
        BY <1>1, <2>1
      <3>3. p[i + j] = e[i + j] /\ e[i + j] = s[j]
        BY <3>2 DEF Beginning, Holds
      <3> QED
        BY <3>1, <3>3, <2>0, <2>1, <2>3 DEF Byte
    <2>2. CASE ~(i + j <= Len(p))
      <3>1. ~Has(p, i + j - 1)
        BY <1>1, <2>2 DEF Has
      <3> QED
        BY <3>1, <2>2, NatOctet DEF Byte
    <2> QED
      BY <2>1, <2>2
  <1> DEFINE B == Bytes(p, i, Len(s))
  <1>3. B = [j \in 1 .. Len(s) |-> Byte(p, i + j - 1)]
    BY DEF Bytes
  <1>4. \A j \in 1 .. Len(s) : B[j] = Byte(p, i + j - 1)
    BY <1>3
  <1>5. B \in Seq(Octet) /\ Len(B) = Len(s)
    <2>1. \A j \in 1 .. Len(s) : Byte(p, i + j - 1) \in Octet
      BY <1>2
    <2> QED
      BY <1>1, <1>3, <2>1
  <1> QED
    BY <1>2, <1>4, <1>5

\* A sequence of no elements is the empty one.
LEMMA NoneLeft ==
  ASSUME NEW S, NEW s \in Seq(S), Len(s) = 0
  PROVE  s = <<>>
  OBVIOUS

-----------------------------------------------------------------------------
(* Sequences of bytes of a known length, and consecutive parts.             *)

\* A digit of a number in base 256 is a byte.
LEMMA DigitOctet ==
  ASSUME NEW v \in Nat, NEW j \in Nat \ {0}
  PROVE  Digit(v, j) \in Octet
  <1>1. CASE j > 4
    BY <1>1, NatOctet DEF Digit
  <1>2. CASE ~(j > 4)
    <2>1. Weight[j] \in {1, 256, 65536, 16777216}
      BY <1>2 DEF Weight
    <2>2. (v \div Weight[j]) % 256 \in 0 .. 255
      BY <2>1
    <2> QED
      BY <2>2, <1>2 DEF Octet, Digit
  <1> QED
    BY <1>1, <1>2

\* A number is written with as many bytes as it is said to have.
LEMMA NumberOctets ==
  ASSUME NEW v \in Nat, NEW w \in Nat
  PROVE  /\ Number(v, w) \in Seq(Octet) /\ Len(Number(v, w)) = w
         /\ \A j \in 1 .. w : Number(v, w)[j] = Digit(v, j)
  <1>1. \A j \in 1 .. w : Digit(v, j) \in Octet
    BY DigitOctet
  <1> QED
    BY <1>1 DEF Number

\* A sequence of n bytes.
Sized(s, n) == s \in Seq(Octet) /\ Len(s) = n /\ n \in Nat

\* The length of two parts in a row.
LEMMA SizedJoin ==
  ASSUME NEW s, NEW n, Sized(s, n), NEW t, NEW k, Sized(t, k)
  PROVE  Sized(s \o t, n + k)
  BY Join DEF Sized

\* Where the second of two parts is.
LEMMA SizedSplit ==
  ASSUME NEW e, NEW i, NEW s, NEW n, Sized(s, n), NEW t, NEW k, Sized(t, k),
         Holds(e, i, s \o t)
  PROVE  Holds(e, i, s) /\ Holds(e, i + n, t)
  BY HoldsParts, Zenon DEF Sized

\* The length of one byte,
LEMMA SizedByte ==
  ASSUME NEW x \in Octet
  PROVE  Sized(<<x>>, 1)
  BY DEF Sized

\* of two bytes,
LEMMA SizedPair ==
  ASSUME NEW x \in Octet, NEW y \in Octet
  PROVE  Sized(<<x, y>>, 2)
  BY DEF Sized

\* of filler bytes,
LEMMA SizedFill ==
  ASSUME NEW n \in Nat
  PROVE  Sized(Fill(n), n)
  <1>1. 7 \in Octet
    BY DEF Octet
  <1> QED
    BY <1>1 DEF Sized, Fill

\* of a number,
LEMMA SizedNumber ==
  ASSUME NEW v \in Nat, NEW w \in Nat
  PROVE  Sized(Number(v, w), w)
  BY NumberOctets DEF Sized

\* and of a field of n bytes.
LEMMA SizedText ==
  ASSUME NEW n \in Nat, NEW s \in Text(n)
  PROVE  Sized(s, n)
  BY DEF Sized, Text

\* Four parts of known length, how long they are in a row and where each is.
Four(a, la, b, lb, c, lc, d, ld) ==
  Sized(a, la) /\ Sized(b, lb) /\ Sized(c, lc) /\ Sized(d, ld)

\* The length of four parts in a row.
LEMMA SizedFour ==
  ASSUME NEW a, NEW la, NEW b, NEW lb, NEW c, NEW lc, NEW d, NEW ld,
         Four(a, la, b, lb, c, lc, d, ld)
  PROVE  Sized(a \o b \o c \o d, la + lb + lc + ld)
  <1>0. Sized(a, la) /\ Sized(b, lb) /\ Sized(c, lc) /\ Sized(d, ld)
    BY DEF Four
  <1>1. Sized(a \o b, la + lb)
    BY <1>0, SizedJoin
  <1>2. Sized(a \o b \o c, la + lb + lc)
    BY <1>0, <1>1, SizedJoin
  <1> QED
    BY <1>0, <1>2, SizedJoin

\* Where each of four parts is.
LEMMA FourParts ==
  ASSUME NEW a, NEW la, NEW b, NEW lb, NEW c, NEW lc, NEW d, NEW ld,
         Four(a, la, b, lb, c, lc, d, ld),
         NEW e, NEW i \in Nat, Holds(e, i, a \o b \o c \o d)
  PROVE  /\ Holds(e, i, a) /\ Holds(e, i + la, b) /\ Holds(e, i + la + lb, c)
         /\ Holds(e, i + la + lb + lc, d)
  <1>0. Sized(a, la) /\ Sized(b, lb) /\ Sized(c, lc) /\ Sized(d, ld)
    BY DEF Four
  <1>n. la \in Nat /\ lb \in Nat /\ lc \in Nat /\ ld \in Nat
    BY <1>0 DEF Sized
  <1>1. Sized(a \o b, la + lb)
    BY <1>0, SizedJoin
  <1>2. Sized(a \o b \o c, la + lb + lc)
    BY <1>0, <1>1, SizedJoin
  <1>6. Holds(e, i, a \o b \o c) /\ Holds(e, i + (la + lb + lc), d)
    BY <1>0, <1>2, SizedSplit, Zenon
  <1>7. Holds(e, i, a \o b) /\ Holds(e, i + (la + lb), c)
    BY <1>0, <1>1, <1>6, SizedSplit, Zenon
  <1>8. Holds(e, i, a) /\ Holds(e, i + la, b)
    BY <1>0, <1>7, SizedSplit, Zenon
  <1>9. i + (la + lb) = i + la + lb /\ i + (la + lb + lc) = i + la + lb + lc
    BY <1>n
  <1> QED
    BY <1>6, <1>7, <1>8, <1>9, Zenon

\* Five parts of known length.
Five(a, la, b, lb, c, lc, d, ld, f, lf) ==
  /\ Sized(a, la) /\ Sized(b, lb) /\ Sized(c, lc) /\ Sized(d, ld)
  /\ Sized(f, lf)

\* The length of five parts in a row.
LEMMA SizedFive ==
  ASSUME NEW a, NEW la, NEW b, NEW lb, NEW c, NEW lc, NEW d, NEW ld,
         NEW f, NEW lf, Five(a, la, b, lb, c, lc, d, ld, f, lf)
  PROVE  Sized(a \o b \o c \o d \o f, la + lb + lc + ld + lf)
  <1>0. /\ Sized(a, la) /\ Sized(b, lb) /\ Sized(c, lc) /\ Sized(d, ld)
        /\ Sized(f, lf)
    BY DEF Five
  <1>1. Sized(a \o b, la + lb)
    BY <1>0, SizedJoin
  <1>2. Sized(a \o b \o c, la + lb + lc)
    BY <1>0, <1>1, SizedJoin
  <1>3. Sized(a \o b \o c \o d, la + lb + lc + ld)
    BY <1>0, <1>2, SizedJoin
  <1> QED
    BY <1>0, <1>3, SizedJoin

\* Where each of five parts is.
LEMMA FiveParts ==
  ASSUME NEW a, NEW la, NEW b, NEW lb, NEW c, NEW lc, NEW d, NEW ld,
         NEW f, NEW lf, Five(a, la, b, lb, c, lc, d, ld, f, lf),
         NEW e, NEW i \in Nat, Holds(e, i, a \o b \o c \o d \o f)
  PROVE  /\ Holds(e, i, a) /\ Holds(e, i + la, b) /\ Holds(e, i + la + lb, c)
         /\ Holds(e, i + la + lb + lc, d)
         /\ Holds(e, i + la + lb + lc + ld, f)
  <1>0. /\ Sized(a, la) /\ Sized(b, lb) /\ Sized(c, lc) /\ Sized(d, ld)
        /\ Sized(f, lf)
    BY DEF Five
  <1>n. la \in Nat /\ lb \in Nat /\ lc \in Nat /\ ld \in Nat /\ lf \in Nat
    BY <1>0 DEF Sized
  <1>1. Sized(a \o b, la + lb)
    BY <1>0, SizedJoin
  <1>2. Sized(a \o b \o c, la + lb + lc)
    BY <1>0, <1>1, SizedJoin
  <1>3. Sized(a \o b \o c \o d, la + lb + lc + ld)
    BY <1>0, <1>2, SizedJoin
  <1>5. Holds(e, i, a \o b \o c \o d) /\ Holds(e, i + (la + lb + lc + ld), f)
    BY <1>0, <1>3, SizedSplit, Zenon
  <1>6. Holds(e, i, a \o b \o c) /\ Holds(e, i + (la + lb + lc), d)
    BY <1>0, <1>2, <1>5, SizedSplit, Zenon
  <1>7. Holds(e, i, a \o b) /\ Holds(e, i + (la + lb), c)
    BY <1>0, <1>1, <1>6, SizedSplit, Zenon
  <1>8. Holds(e, i, a) /\ Holds(e, i + la, b)
    BY <1>0, <1>7, SizedSplit, Zenon
  <1>9. /\ i + (la + lb) = i + la + lb
        /\ i + (la + lb + lc) = i + la + lb + lc
        /\ i + (la + lb + lc + ld) = i + la + lb + lc + ld
    BY <1>n
  <1> QED
    BY <1>5, <1>6, <1>7, <1>8, <1>9, Zenon

-----------------------------------------------------------------------------
(* Numbers in little-endian order.                                          *)

\* One more byte in front of a number makes a number.
LEMMA OctetSum == \A x \in Octet, v \in Nat : x + 256 * v \in Nat
  BY DEF Octet

\* LittleEndian satisfies the recursion it is defined by.
LEMMA LittleEndianRec ==
  ASSUME NEW b \in Seq(Octet)
  PROVE  \E f : /\ f[0] = 0
                /\ \A k \in 1 .. Len(b) :
                     f[k] = b[Len(b) - k + 1] + 256 * f[k - 1]
                /\ LittleEndian(b) = f[Len(b)]
                /\ f \in [0 .. Len(b) -> Nat]
  <1> DEFINE Rec(n, f) == f = [k \in 0 .. n |->
                     IF k = 0 THEN 0 ELSE b[n - k + 1] + 256 * f[k - 1]]
  <1>0. PICK n \in Nat : n = Len(b)
    OBVIOUS
  <1> DEFINE step == [j \in 1 .. n |-> [v \in Nat |-> b[n - j + 1] + 256 * v]]
  <1>1. step \in Steps(n, Nat)
    <2>1. ASSUME NEW j \in 1 .. n, NEW v \in Nat
          PROVE  b[n - j + 1] + 256 * v \in Nat
      <3>1. n - j + 1 \in 1 .. n
        OBVIOUS
      <3>2. b[n - j + 1] \in Octet
        BY <1>0, <3>1
      <3> QED
        BY <3>2, OctetSum
    <2> QED
      BY <2>1 DEF Steps
  <1>2. PICK f \in [0 .. n -> Nat] :
          f[0] = 0 /\ \A j \in 1 .. n : f[j] = step[j][f[j - 1]]
    <2>1. \E f : Iterates(f, n, Nat, 0, step)
      <3> HIDE DEF step
      <3> QED
        BY <1>1, Recursive
    <2> QED
      BY <2>1 DEF Iterates
  <1>3. \A j \in 1 .. n : f[j] = b[n - j + 1] + 256 * f[j - 1]
    <2> SUFFICES ASSUME NEW j \in 1 .. n
                 PROVE  f[j] = b[n - j + 1] + 256 * f[j - 1]
      OBVIOUS
    <2>1. f[j - 1] \in Nat
      <3>1. j - 1 \in 0 .. n
        OBVIOUS
      <3> QED
        BY <3>1
    <2>2. step[j] = [v \in Nat |-> b[n - j + 1] + 256 * v]
      OBVIOUS
    <2>3. step[j][f[j - 1]] = b[n - j + 1] + 256 * f[j - 1]
      BY <2>1, <2>2
    <2> QED
      BY <1>2, <2>3
  <1>4. Rec(n, f)
    <2>1. f = [k \in 0 .. n |-> f[k]]
      OBVIOUS
    <2>2. \A k \in 0 .. n :
            f[k] = IF k = 0 THEN 0 ELSE b[n - k + 1] + 256 * f[k - 1]
      <3> SUFFICES ASSUME NEW k \in 0 .. n
                   PROVE  f[k] = IF k = 0 THEN 0
                                 ELSE b[n - k + 1] + 256 * f[k - 1]
        OBVIOUS
      <3>1. CASE k = 0
        BY <1>2, <3>1
      <3>2. CASE k # 0
        <4>1. k \in 1 .. n
          BY <3>2
        <4> QED
          BY <1>3, <3>2, <4>1
      <3> QED
        BY <3>1, <3>2
    <2> QED
      BY <2>1, <2>2
  <1> DEFINE g == CHOOSE h : Rec(n, h)
  <1>5. Rec(n, g)
    <2> HIDE DEF Rec
    <2> QED
      BY <1>4
  <1>6. LittleEndian(b) = g[n]
    BY <1>0 DEF LittleEndian
  <1>7. g[0] = 0 /\ \A k \in 1 .. n : g[k] = b[n - k + 1] + 256 * g[k - 1]
    <2> HIDE DEF g
    <2> QED
      BY <1>5
  <1>8. g = f
    <2>1. g = [k \in 0 .. n |-> g[k]] /\ DOMAIN g = 0 .. n
      <3> HIDE DEF g
      <3> QED
        BY <1>5
    <2>2. \A k \in 0 .. n : g[k] = f[k]
      <3> HIDE DEF g
      <3> DEFINE P == {k \in 0 .. n : g[k] = f[k]}
      <3>1. 0 \in P
        BY <1>2, <1>7
      <3>2. \A j \in 1 .. n : j - 1 \in P => j \in P
        BY <1>3, <1>7
      <3>3. 0 .. n \subseteq P
        <4> HIDE DEF P
        <4> QED
          BY <3>1, <3>2, IntervalInduction
      <3> QED
        BY <3>3
    <2> HIDE DEF g
    <2> QED
      BY <2>1, <2>2
  <1> QED
    <2> HIDE DEF g
    <2>1. LittleEndian(b) = g[Len(b)]
      BY <1>0, <1>6
    <2>2. \A k \in 1 .. Len(b) : g[k] = b[Len(b) - k + 1] + 256 * g[k - 1]
      BY <1>0, <1>7
    <2> QED
      BY <1>0, <1>7, <1>8, <2>1, <2>2

\* The elements of a sequence of bytes are numbers below 256.
LEMMA OctetsNat ==
  ASSUME NEW b \in Seq(Octet)
  PROVE  \A j \in 1 .. Len(b) : b[j] \in Nat /\ b[j] < 256
  <1> TAKE j \in 1 .. Len(b)
  <1>1. b[j] \in Octet
    OBVIOUS
  <1> QED
    BY <1>1, OctetNat

\* The four bytes of a number below 2^32 are its number.
LEMMA FourBytes ==
  ASSUME NEW v \in Nat, v < 4294967296
  PROVE  v = (v % 256) + 256 * ((v \div 256) % 256)
               + 65536 * ((v \div 65536) % 256)
               + 16777216 * ((v \div 16777216) % 256)
  OBVIOUS

\* Three bytes do for a number below 2^24,
LEMMA ThreeBytes ==
  ASSUME NEW v \in Nat, v < 16777216
  PROVE  v = (v % 256) + 256 * ((v \div 256) % 256)
               + 65536 * ((v \div 65536) % 256)
  OBVIOUS

\* and two for a number below 2^16.
LEMMA TwoBytes ==
  ASSUME NEW v \in Nat, v < 65536
  PROVE  v = (v % 256) + 256 * ((v \div 256) % 256)
  OBVIOUS

\* The number that two bytes are,
LEMMA LittleEndian2 ==
  ASSUME NEW b \in Seq(Octet), Len(b) = 2
  PROVE  LittleEndian(b) = b[1] + 256 * b[2]
  <1>1. PICK f : /\ f[0] = 0
                 /\ \A k \in 1 .. Len(b) :
                      f[k] = b[Len(b) - k + 1] + 256 * f[k - 1]
                 /\ LittleEndian(b) = f[Len(b)]
    BY LittleEndianRec
  <1>2. b[1] \in Nat /\ b[2] \in Nat
    BY OctetsNat
  <1>3. f[1] = b[2]
    BY <1>1, <1>2
  <1>4. f[2] = b[1] + 256 * f[1]
    BY <1>1, <1>2
  <1> QED
    BY <1>1, <1>3, <1>4

\* three bytes,
LEMMA LittleEndian3 ==
  ASSUME NEW b \in Seq(Octet), Len(b) = 3
  PROVE  LittleEndian(b) = b[1] + 256 * b[2] + 65536 * b[3]
  <1>1. PICK f : /\ f[0] = 0
                 /\ \A k \in 1 .. Len(b) :
                      f[k] = b[Len(b) - k + 1] + 256 * f[k - 1]
                 /\ LittleEndian(b) = f[Len(b)]
    BY LittleEndianRec
  <1>2. b[1] \in Nat /\ b[2] \in Nat /\ b[3] \in Nat
    <2>1. \A j \in 1 .. 3 : b[j] \in Nat
      BY OctetsNat
    <2> QED
      BY <2>1
  <1>3. \A k \in 1 .. 3 : f[k] = b[4 - k] + 256 * f[k - 1]
    <2> TAKE k \in 1 .. 3
    <2>1. k \in 1 .. Len(b) /\ Len(b) - k + 1 = 4 - k
      OBVIOUS
    <2> QED
      BY <1>1, <2>1
  <1>4. f[1] = b[3] + 256 * 0 /\ f[2] = b[2] + 256 * f[1]
        /\ f[3] = b[1] + 256 * f[2]
    BY <1>1, <1>3
  <1>5. f[1] = b[3]
    BY <1>2, <1>4
  <1>6. LittleEndian(b) = f[3]
    BY <1>1
  <1> QED
    <2>1. PICK x \in Nat, y \in Nat, z \in Nat :
            x = b[1] /\ y = b[2] /\ z = b[3]
      BY <1>2
    <2>2. x + 256 * (y + 256 * z) = x + 256 * y + 65536 * z
      OBVIOUS
    <2> QED
      BY <1>4, <1>5, <1>6, <2>1, <2>2

\* Horner's rule and powers of 256 give the same number.
LEMMA Nested ==
  \A x \in Nat, y \in Nat, z \in Nat, w \in Nat :
    x + 256 * (y + 256 * z + 65536 * w)
      = x + 256 * y + 65536 * z + 16777216 * w
  OBVIOUS

\* and eight bytes, of which the last four are zero.
LEMMA LittleEndian8 ==
  ASSUME NEW b \in Seq(Octet), Len(b) = 8,
         \A j \in 5 .. 8 : b[j] = 0
  PROVE  LittleEndian(b) = b[1] + 256 * b[2] + 65536 * b[3] + 16777216 * b[4]
  <1>1. PICK f : /\ f[0] = 0
                 /\ \A k \in 1 .. Len(b) :
                      f[k] = b[Len(b) - k + 1] + 256 * f[k - 1]
                 /\ LittleEndian(b) = f[Len(b)]
    BY LittleEndianRec
  <1>2. b[1] \in Nat /\ b[2] \in Nat /\ b[3] \in Nat /\ b[4] \in Nat
    <2>1. \A j \in 1 .. 8 : b[j] \in Nat
      BY OctetsNat
    <2> QED
      BY <2>1
  <1>3. \A k \in 1 .. 8 : f[k] = b[9 - k] + 256 * f[k - 1]
    <2> TAKE k \in 1 .. 8
    <2>1. k \in 1 .. Len(b) /\ Len(b) - k + 1 = 9 - k
      OBVIOUS
    <2>2. f[k] = b[Len(b) - k + 1] + 256 * f[k - 1]
      BY <1>1, <2>1, Zenon
    <2> QED
      BY <2>1, <2>2
  <1>4. f[1] = 0 /\ f[2] = 0 /\ f[3] = 0 /\ f[4] = 0
    <2>1. f[1] = 0 + 256 * 0
      BY <1>1, <1>3
    <2>2. f[2] = 0 + 256 * f[1]
      BY <1>3
    <2>3. f[3] = 0 + 256 * f[2]
      BY <1>3
    <2>4. f[4] = 0 + 256 * f[3]
      BY <1>3
    <2> QED
      BY <2>1, <2>2, <2>3, <2>4
  <1>5. f[5] = b[4] + 256 * f[4] /\ f[6] = b[3] + 256 * f[5]
        /\ f[7] = b[2] + 256 * f[6] /\ f[8] = b[1] + 256 * f[7]
    BY <1>3
  <1>6. f[5] = b[4] /\ f[6] = b[3] + 256 * b[4]
        /\ f[7] = b[2] + 256 * b[3] + 65536 * b[4]
    <2>1. PICK y \in Nat, z \in Nat, w \in Nat :
            y = b[2] /\ z = b[3] /\ w = b[4]
      BY <1>2
    <2>2. f[5] = b[4]
      BY <1>2, <1>4, <1>5
    <2>3. f[6] = b[3] + 256 * b[4]
      BY <1>5, <2>2
    <2>4. f[7] = b[2] + 256 * (b[3] + 256 * b[4])
      BY <1>5, <2>3
    <2>5. y + 256 * (z + 256 * w) = y + 256 * z + 65536 * w
      OBVIOUS
    <2> QED
      BY <2>1, <2>2, <2>3, <2>4, <2>5
  <1>7. LittleEndian(b) = f[8]
    BY <1>1
  <1>8. b[1] + 256 * (b[2] + 256 * b[3] + 65536 * b[4])
          = b[1] + 256 * b[2] + 65536 * b[3] + 16777216 * b[4]
    <2>1. PICK x \in Nat, y \in Nat, z \in Nat, w \in Nat :
            x = b[1] /\ y = b[2] /\ z = b[3] /\ w = b[4]
      BY <1>2
    <2>2. x + 256 * (y + 256 * z + 65536 * w)
            = x + 256 * y + 65536 * z + 16777216 * w
      BY SMTT(30)
    <2> QED
      BY <2>1, <2>2
  <1> QED
    BY <1>5, <1>6, <1>7, <1>8

-----------------------------------------------------------------------------
(* Length-encoded integers and strings, and strings up to a NUL or the end  *)
(* of the packet.                                                           *)

\* The markers of length-encoded integers.
LEMMA Widths ==
  /\ LenEncWidth(252) = 2 /\ LenEncWidth(253) = 3 /\ LenEncWidth(254) = 8
  /\ \A b \in Nat : b < 252 => LenEncWidth(b) = 0
  BY DEF LenEncWidth

\* With some bytes zeroed a number gets no larger.
LEMMA Faded4 ==
  ASSUME NEW a1 \in Nat, NEW a2 \in Nat, NEW a3 \in Nat, NEW a4 \in Nat,
         NEW b1 \in {0, a1}, NEW b2 \in {0, a2},
         NEW b3 \in {0, a3}, NEW b4 \in {0, a4}
  PROVE  /\ b1 + 256 * b2 + 65536 * b3 + 16777216 * b4 \in Nat
         /\ b1 + 256 * b2 + 65536 * b3 + 16777216 * b4
              <= a1 + 256 * a2 + 65536 * a3 + 16777216 * a4
  <1>1. b1 \in Nat /\ b2 \in Nat /\ b3 \in Nat /\ b4 \in Nat
        /\ b1 <= a1 /\ b2 <= a2 /\ b3 <= a3 /\ b4 <= a4
    OBVIOUS
  <1> QED
    BY <1>1

\* v fits w bytes.
Fits(v, w) == (w = 2 => v < 65536) /\ (w = 3 => v < 16777216)

\* Row counts and lengths are natural numbers.
LEMMA CountNat == \A v \in Count : v \in Nat
  BY DEF Count

\* A number that did not arrive whole is read as one not larger.
LEMMA NumberRead ==
  ASSUME NEW p, NEW e, Beginning(p, e), NEW i, NEW v \in Count,
         NEW w \in {2, 3, 8}, Holds(e, i, Number(v, w)),
         Fits(v, w)
  PROVE  /\ LittleEndian(Bytes(p, i, w)) \in Nat
         /\ LittleEndian(Bytes(p, i, w)) <= v
         /\ i + w <= Len(p) => LittleEndian(Bytes(p, i, w)) = v
  <1>1. PICK B : B = Bytes(p, i, w)
    OBVIOUS
  <1>2. i \in Nat /\ Len(p) \in Nat /\ w \in 0 .. 8
    BY DEF Holds, Beginning
  <1>3. PICK N : N = Number(v, w)
    OBVIOUS
  <1>4. /\ Len(N) = w
        /\ \A j \in 1 .. w : N[j] = Digit(v, j)
    <2>1. w \in Nat /\ v \in Nat
      BY <1>2, CountNat
    <2>2. Len(Number(v, w)) = w
      BY <2>1, NumberOctets, Zenon
    <2>3. \A j \in 1 .. w : Number(v, w)[j] = Digit(v, j)
      BY <2>1, NumberOctets, Zenon
    <2> QED
      BY <1>3, <2>2, <2>3
  <1>5. /\ B \in Seq(Octet) /\ Len(B) = w
        /\ \A j \in 1 .. w : B[j] = IF i + j <= Len(p) THEN N[j] ELSE 0
    <2>1. Holds(e, i, N) /\ B = Bytes(p, i, Len(N))
      BY <1>1, <1>3, <1>4
    <2> QED
      BY <1>4, <2>1, BytesRead
  <1>6. PICK a1 : a1 = v % 256
    OBVIOUS
  <1>7. PICK a2 : a2 = (v \div 256) % 256
    OBVIOUS
  <1>8. PICK a3 : a3 = (v \div 65536) % 256
    OBVIOUS
  <1>9. PICK a4 : a4 = (v \div 16777216) % 256
    OBVIOUS
  <1>10. a1 \in Nat /\ a2 \in Nat /\ a3 \in Nat /\ a4 \in Nat
    BY <1>6, <1>7, <1>8, <1>9, CountNat
  <1>11. Weight[1] = 1 /\ Weight[2] = 256 /\ Weight[3] = 65536
         /\ Weight[4] = 16777216
    BY DEF Weight
  <1>20. /\ Digit(v, 1) = a1 /\ Digit(v, 2) = a2
         /\ Digit(v, 3) = a3 /\ Digit(v, 4) = a4
         /\ \A j \in 5 .. 8 : Digit(v, j) = 0
    BY <1>6, <1>7, <1>8, <1>9, <1>11, CountNat DEF Digit
  <1>12. N[1] = a1 /\ N[2] = a2
    BY <1>4, <1>20
  <1>13. /\ B[1] = (IF i + 1 <= Len(p) THEN a1 ELSE 0)
         /\ B[2] = (IF i + 2 <= Len(p) THEN a2 ELSE 0)
    BY <1>5, <1>12
  <1>14. w > 2 => B[3] = (IF i + 3 <= Len(p) THEN a3 ELSE 0)
    <2> SUFFICES ASSUME w > 2 PROVE B[3] = IF i + 3 <= Len(p) THEN a3 ELSE 0
      OBVIOUS
    <2>1. N[3] = a3
      BY <1>4, <1>20
    <2> QED
      BY <1>5, <2>1
  <1>15. w = 8 => /\ B[4] = (IF i + 4 <= Len(p) THEN a4 ELSE 0)
                  /\ \A j \in 5 .. 8 : B[j] = 0
    <2> SUFFICES ASSUME w = 8
                 PROVE  /\ B[4] = (IF i + 4 <= Len(p) THEN a4 ELSE 0)
                        /\ \A j \in 5 .. 8 : B[j] = 0
      OBVIOUS
    <2>1. N[4] = a4
      BY <1>4, <1>20
    <2>2. \A j \in 5 .. 8 : N[j] = 0
      BY <1>4, <1>20
    <2> QED
      BY <1>5, <2>1, <2>2
  <1>16. v = a1 + 256 * a2 + 65536 * a3 + 16777216 * a4
    BY <1>6, <1>7, <1>8, <1>9, FourBytes DEF Count
  <1>17. w = 3 => v = a1 + 256 * a2 + 65536 * a3
    BY <1>6, <1>7, <1>8, ThreeBytes, CountNat DEF Fits
  <1>18. w = 2 => v = a1 + 256 * a2
    BY <1>6, <1>7, TwoBytes, CountNat DEF Fits
  <1>19. /\ LittleEndian(B) \in Nat /\ LittleEndian(B) <= v
         /\ i + w <= Len(p) => LittleEndian(B) = v
    <2>1. CASE w = 2
      <3>1. LittleEndian(B) = B[1] + 256 * B[2]
        BY <1>5, <2>1, LittleEndian2
      <3> QED
        BY <1>2, <1>10, <1>13, <1>18, <2>1, <3>1
    <2>2. CASE w = 3
      <3>1. LittleEndian(B) = B[1] + 256 * B[2] + 65536 * B[3]
        BY <1>5, <2>2, LittleEndian3
      <3>2. B[1] \in {0, a1} /\ B[2] \in {0, a2} /\ B[3] \in {0, a3}
        BY <1>13, <1>14, <2>2
      <3>3. /\ B[1] \in Nat /\ B[2] \in Nat /\ B[3] \in Nat
            /\ B[1] <= a1 /\ B[2] <= a2 /\ B[3] <= a3
        BY <1>10, <3>2
      <3>4. LittleEndian(B) \in Nat /\ LittleEndian(B) <= v
        BY <1>10, <1>17, <2>2, <3>1, <3>3
      <3>5. i + w <= Len(p) => B[1] = a1 /\ B[2] = a2 /\ B[3] = a3
        BY <1>2, <1>13, <1>14, <2>2
      <3> QED
        BY <1>17, <2>2, <3>1, <3>4, <3>5
    <2>3. CASE w = 8
      <3>1. LittleEndian(B)
              = B[1] + 256 * B[2] + 65536 * B[3] + 16777216 * B[4]
        BY <1>5, <1>15, <2>3, LittleEndian8
      <3>2. /\ B[1] \in {0, a1} /\ B[2] \in {0, a2}
            /\ B[3] \in {0, a3} /\ B[4] \in {0, a4}
        BY <1>13, <1>14, <1>15, <2>3
      <3>3. LittleEndian(B) \in Nat /\ LittleEndian(B) <= v
        BY <1>10, <1>16, <3>1, <3>2, Faded4
      <3>4. i + w <= Len(p) =>
              B[1] = a1 /\ B[2] = a2 /\ B[3] = a3 /\ B[4] = a4
        BY <1>2, <1>13, <1>14, <1>15, <2>3
      <3> QED
        BY <1>16, <3>1, <3>3, <3>4
    <2> QED
      BY <2>1, <2>2, <2>3
  <1> QED
    BY <1>1, <1>19

\* r is what is read of the number v, which takes n bytes from offset i.
Reads(r, p, i, v, n) ==
  /\ r.val \in Nat /\ r.val <= v
  /\ i < Len(p) => r.next = i + n
  /\ ~(i < Len(p)) => r.next = i + 1 /\ r.val = 0
  /\ i + n <= Len(p) => r.val = v

\* ReadLenEncodedInteger of a number behind a marker, of two, three or eight
\* bytes.
LEMMA Marked ==
  ASSUME NEW p, NEW e, Beginning(p, e), NEW i, NEW v \in Count,
         NEW w \in {2, 3, 8}, NEW c \in Octet, LenEncWidth(c) = w,
         LenEncWidth(0) = 0, Holds(e, i, <<c>> \o Number(v, w)), Fits(v, w)
  PROVE  Reads(ReadLenEncodedInteger(p, i), p, i, v, w + 1)
  <1>0. PICK r : r = ReadLenEncodedInteger(p, i)
    OBVIOUS
  <1>1. i \in Nat /\ Len(p) \in Nat /\ v \in Nat /\ c \in Nat /\ w \in Nat
    BY CountNat, OctetNat DEF Holds, Beginning
  <1>2. Holds(e, i, <<c>>) /\ Holds(e, i + 1, Number(v, w))
    <2>1. PICK s : s = <<c>>
      OBVIOUS
    <2>2. PICK t : t = Number(v, w)
      OBVIOUS
    <2>3. s \in Seq(Octet) /\ t \in Seq(Octet) /\ Len(s) = 1
      BY <1>1, <2>1, <2>2, NumberOctets
    <2>4. Holds(e, i, s \o t)
      BY <2>1, <2>2
    <2>5. Holds(e, i, s) /\ Holds(e, i + Len(s), t)
      BY <2>3, <2>4, HoldsParts, Zenon
    <2> QED
      BY <2>1, <2>2, <2>3, <2>5
  <1>3. Byte(p, i) = IF i < Len(p) THEN c ELSE 0
    BY <1>2, ByteRead
  <1>4. CASE i < Len(p)
    <2>1. r.val = LittleEndian(Bytes(p, i + 1, w)) /\ r.next = i + 1 + w
      BY <1>0, <1>3, <1>4 DEF ReadLenEncodedInteger
    <2>2. /\ r.val \in Nat /\ r.val <= v
          /\ (i + 1) + w <= Len(p) => r.val = v
      BY <1>2, <2>1, NumberRead
    <2>3. i + 1 + w = i + (w + 1) /\ (i + 1) + w = i + (w + 1)
      BY <1>1
    <2>4. Reads(r, p, i, v, w + 1)
      BY <1>4, <2>1, <2>2, <2>3 DEF Reads
    <2> QED
      BY <1>0, <2>4
  <1>5. CASE ~(i < Len(p))
    <2>1. r.val = 0 /\ r.next = i + 1
      BY <1>0, <1>1, <1>3, <1>5 DEF ReadLenEncodedInteger
    <2>4. Reads(r, p, i, v, w + 1)
      BY <1>1, <1>5, <2>1 DEF Reads
    <2> QED
      BY <1>0, <2>4
  <1> QED
    BY <1>4, <1>5

\* The length of a number behind its marker.
LEMMA MarkedOctets ==
  ASSUME NEW v \in Nat, NEW c \in Octet, NEW w \in Nat
  PROVE  /\ <<c>> \o Number(v, w) \in Seq(Octet)
         /\ Len(<<c>> \o Number(v, w)) = w + 1
  <1>1. Number(v, w) \in Seq(Octet) /\ Len(Number(v, w)) = w
    BY NumberOctets
  <1>2. <<c>> \in Seq(Octet) /\ Len(<<c>>) = 1
    OBVIOUS
  <1> QED
    BY <1>1, <1>2

\* A length-encoded integer has one to nine bytes.
LEMMA LenEncOctets ==
  ASSUME NEW v \in Count
  PROVE  LenEnc(v) \in Seq(Octet) /\ Len(LenEnc(v)) \in 1 .. 9
  <1>1. v \in Nat
    BY CountNat
  <1>2. ASSUME NEW c \in Octet, NEW w \in Nat, w \in {2, 3, 8}
        PROVE  /\ <<c>> \o Number(v, w) \in Seq(Octet)
               /\ Len(<<c>> \o Number(v, w)) \in 1 .. 9
    <2>1. /\ <<c>> \o Number(v, w) \in Seq(Octet)
          /\ Len(<<c>> \o Number(v, w)) = w + 1
      BY <1>1, MarkedOctets
    <2>2. w + 1 \in 1 .. 9
      BY <1>2
    <2> QED
      BY <2>1, <2>2
  <1>x. 252 \in Octet /\ 253 \in Octet /\ 254 \in Octet
    BY DEF Octet
  <1>3. CASE v < 251
    <2>1. v \in Octet
      BY <1>1, <1>3, NatOctet
    <2> QED
      BY <1>3, <2>1 DEF LenEnc
  <1>4. CASE ~(v < 251)
    BY <1>2, <1>x, <1>4 DEF LenEnc
  <1> QED
    BY <1>3, <1>4

\* ReadLenEncodedInteger reads what LenEnc wrote.
LEMMA LenEncRead ==
  ASSUME NEW p, NEW e, Beginning(p, e), NEW i, NEW v \in Count,
         Holds(e, i, LenEnc(v))
  PROVE  Reads(ReadLenEncodedInteger(p, i), p, i, v, Len(LenEnc(v)))
  <1>1. v \in Nat /\ i \in Nat /\ Len(p) \in Nat
    BY CountNat DEF Holds, Beginning
  <1>2. CASE v < 251
    <2>1. LenEnc(v) = <<v>> /\ v \in Octet /\ v # 251
      BY <1>1, <1>2, NatOctet DEF LenEnc
    <2>2. Byte(p, i) = IF i < Len(p) THEN v ELSE 0
      BY <2>1, ByteRead
    <2>3. LenEncWidth(v) = 0 /\ LenEncWidth(0) = 0
      BY <1>1, <1>2, Widths
    <2> QED
      BY <1>1, <1>2, <2>1, <2>2, <2>3 DEF ReadLenEncodedInteger, Reads
  <1>n. \A c \in {252, 253, 254}, w \in {2, 3, 8} :
          Len(<<c>> \o Number(v, w)) = w + 1
    <2> TAKE c \in {252, 253, 254}, w \in {2, 3, 8}
    <2>1. c \in Octet /\ w \in Nat
      BY DEF Octet
    <2> QED
      BY <1>1, <2>1, MarkedOctets
  <1>3. ASSUME NEW c \in {252, 253, 254}, NEW w \in {2, 3, 8},
               LenEncWidth(c) = w, Fits(v, w),
               LenEnc(v) = <<c>> \o Number(v, w)
        PROVE  Reads(ReadLenEncodedInteger(p, i), p, i, v, Len(LenEnc(v)))
    <2>1. c \in Octet /\ w \in Nat
      BY DEF Octet
    <2>3. Len(LenEnc(v)) = w + 1
      BY <1>3, <1>n
    <2>4. Holds(e, i, <<c>> \o Number(v, w))
      BY <1>3
    <2>5. LenEncWidth(0) = 0
      BY Widths
    <2>6. Reads(ReadLenEncodedInteger(p, i), p, i, v, w + 1)
      BY <1>3, <2>1, <2>4, <2>5, Marked
    <2> QED
      BY <2>3, <2>6
  <1>4. CASE ~(v < 251) /\ v < 65536
    <2>1. LenEnc(v) = <<252>> \o Number(v, 2)
      BY <1>4 DEF LenEnc
    <2>2. Fits(v, 2)
      BY <1>4 DEF Fits
    <2> QED
      BY <1>3, <2>1, <2>2, Widths
  <1>5. CASE ~(v < 65536) /\ v < 16777216
    <2>1. LenEnc(v) = <<253>> \o Number(v, 3)
      BY <1>1, <1>5 DEF LenEnc
    <2>2. Fits(v, 3)
      BY <1>5 DEF Fits
    <2> QED
      BY <1>3, <2>1, <2>2, Widths
  <1>6. CASE ~(v < 16777216)
    <2>1. LenEnc(v) = <<254>> \o Number(v, 8)
      BY <1>1, <1>6 DEF LenEnc
    <2>2. Fits(v, 8)
      BY DEF Fits
    <2> QED
      BY <1>3, <2>1, <2>2, Widths
  <1> QED
    BY <1>1, <1>2, <1>4, <1>5, <1>6

\* A field of fixed length is read with its end zeroed, or as it was sent.
LEMMA BytesFaded ==
  ASSUME NEW p, NEW e, Beginning(p, e), NEW i, NEW s, Holds(e, i, s)
  PROVE  /\ FadedSeq(Bytes(p, i, Len(s)), s)
         /\ i + Len(s) <= Len(p) => Bytes(p, i, Len(s)) = s
  <1>1. PICK B : B = Bytes(p, i, Len(s))
    OBVIOUS
  <1>2. /\ B \in Seq(Octet) /\ Len(B) = Len(s)
        /\ \A j \in 1 .. Len(s) : B[j] = IF i + j <= Len(p) THEN s[j] ELSE 0
    BY <1>1, BytesRead
  <1>3. i \in Nat /\ Len(p) \in Nat /\ Len(s) \in Nat /\ s \in Seq(Octet)
    BY DEF Holds, Beginning
  <1>4. ASSUME i + Len(s) <= Len(p) PROVE B = s
    <2>1. \A j \in 1 .. Len(s) : B[j] = s[j]
      BY <1>2, <1>3, <1>4
    <2> QED
      BY <1>2, <1>3, <2>1
  <1>5. FadedSeq(B, s)
    <2>0. PICK k : k = IF i + Len(s) <= Len(p) THEN Len(s)
                       ELSE IF i <= Len(p) THEN Len(p) - i ELSE 0
      OBVIOUS
    <2>1. k \in 0 .. Len(B)
      BY <1>2, <1>3, <2>0
    <2>2. DOMAIN B = 1 .. Len(s)
      BY <1>2
    <2>3. ASSUME NEW j \in 1 .. Len(s)
          PROVE  B[j] = IF j <= k THEN s[j] ELSE 0
      <3>1. i + j <= Len(p) <=> j <= k
        BY <1>3, <2>0
      <3> QED
        BY <1>2, <3>1
    <2>4. \A j \in DOMAIN B : B[j] = IF j <= k THEN s[j] ELSE 0
      BY <2>2, <2>3
    <2>5. Len(B) <= Len(s)
      BY <1>2, <1>3
    <2> QED
      BY <2>1, <2>4, <2>5 DEF FadedSeq
  <1> QED
    BY <1>1, <1>4, <1>5

\* The empty field is what is left of any.
LEMMA NothingFaded ==
  ASSUME NEW y \in Seq(Octet)
  PROVE  FadedSeq(<<>>, y)
  <1>1. Len(<<>>) = 0 /\ DOMAIN <<>> = {} /\ 0 \in 0 .. Len(<<>>)
    OBVIOUS
  <1>2. Len(<<>>) <= Len(y)
    BY <1>1
  <1> QED
    BY <1>1, <1>2 DEF FadedSeq

\* ReadLenEncodedString reads the string that was sent, or what arrived of
\* it, and goes on behind it, or past the end of what arrived.
LEMMA StringRead ==
  ASSUME NEW p, NEW e, Beginning(p, e), NEW i, NEW s \in Seq(Octet),
         Len(s) \in Count, Len(s) <= MaxMake,
         Holds(e, i, LenEnc(Len(s)) \o s)
  PROVE  LET r == ReadLenEncodedString(p, i)
             n == Len(LenEnc(Len(s)) \o s)
         IN  /\ r.err \in {"nil", "EOF"} /\ r.next \in Nat
             /\ FadedSeq(r.val, s)
             /\ i + n <= Len(p) => r.val = s
             /\ r.next = i + n \/ (r.next >= Len(p) /\ i + n > Len(p))
  <1>1. PICK v : v = Len(s)
    OBVIOUS
  <1>2. PICK c : c = LenEnc(v)
    OBVIOUS
  <1>3. v \in Count /\ v \in Nat /\ c \in Seq(Octet) /\ Len(c) \in 1 .. 9
    BY <1>1, <1>2, CountNat, LenEncOctets
  <1>4. Len(c \o s) = Len(c) + v /\ Holds(e, i, c) /\ Holds(e, i + Len(c), s)
    <2>1. Holds(e, i, c \o s)
      BY <1>1, <1>2
    <2>2. Len(c \o s) = Len(c) + v
      BY <1>1, <1>3
    <2>3. Holds(e, i, c) /\ Holds(e, i + Len(c), s)
      BY <1>3, <2>1, HoldsParts, Zenon
    <2> QED
      BY <2>2, <2>3
  <1>5. PICK r : r = ReadLenEncodedString(p, i)
    OBVIOUS
  <1>6. PICK m : m = ReadLenEncodedInteger(p, i)
    OBVIOUS
  <1>7. Reads(m, p, i, v, Len(c))
    BY <1>2, <1>3, <1>4, <1>6, LenEncRead
  <1>8. /\ r.err = (IF m.val > MaxMake THEN "panic"
                    ELSE IF Has(p, m.next) THEN "nil" ELSE "EOF")
        /\ r.val = (IF m.val <= MaxMake /\ Has(p, m.next)
                    THEN Bytes(p, m.next, m.val) ELSE <<>>)
        /\ r.next = m.next + m.val
    BY <1>5, <1>6 DEF ReadLenEncodedString
  <1>9. i \in Nat /\ Len(p) \in Nat /\ MaxMake \in Nat /\ Len(c) \in Nat
    BY <1>3, DecoderAssumption DEF Holds, Beginning
  <1>10. m.val \in Nat /\ m.next \in Nat /\ m.val <= MaxMake
    BY <1>1, <1>3, <1>7, <1>9 DEF Reads
  <1>11. CASE i + Len(c) <= Len(p)
    <2>0. i < Len(p)
      <3>1. \A k \in 1 .. 9, a \in Nat, b \in Nat : a + k <= b => a < b
        OBVIOUS
      <3> QED
        BY <1>3, <1>9, <1>11, <3>1
    <2>1. m.val = v /\ m.next = i + Len(c)
      BY <1>7, <1>11, <2>0 DEF Reads
    <2>2. r.next = i + Len(c \o s)
      BY <1>3, <1>4, <1>8, <1>9, <2>1
    <2>3. CASE i + Len(c) < Len(p)
      <3>1. Has(p, m.next)
        BY <2>1, <2>3 DEF Has
      <3>2. r.val = Bytes(p, i + Len(c), Len(s)) /\ r.err = "nil"
        BY <1>1, <1>8, <1>10, <1>9, <2>1, <3>1
      <3>3. FadedSeq(r.val, s) /\ (i + Len(c) + Len(s) <= Len(p) => r.val = s)
        BY <1>4, <3>2, BytesFaded
      <3>4. r.next \in Nat /\ i + Len(c) + Len(s) = i + Len(c \o s)
        BY <1>1, <1>3, <1>4, <1>9, <2>2
      <3> QED
        BY <1>1, <1>2, <1>5, <2>2, <3>2, <3>3, <3>4
    <2>4. CASE i + Len(c) = Len(p)
      <3>1. ~Has(p, m.next)
        BY <1>9, <2>1, <2>4 DEF Has
      <3>2. r.val = <<>> /\ r.err = "EOF"
        BY <1>8, <1>9, <1>10, <3>1
      <3>3. i + Len(c \o s) <= Len(p) => r.val = s
        <4> SUFFICES ASSUME i + Len(c \o s) <= Len(p) PROVE <<>> = s
          BY <3>2
        <4>1. Len(s) = 0
          BY <1>1, <1>3, <1>4, <1>9, <2>4
        <4> QED
          BY <4>1
      <3>4. r.next \in Nat
        BY <1>1, <1>3, <1>4, <1>9, <2>2
      <3>5. FadedSeq(r.val, s)
        BY <3>2, NothingFaded
      <3> QED
        BY <1>1, <1>2, <1>5, <2>2, <3>2, <3>3, <3>4, <3>5
    <2> QED
      BY <1>9, <1>11, <2>3, <2>4
  <1>12. CASE ~(i + Len(c) <= Len(p))
    <2>1. m.next >= Len(p)
      BY <1>3, <1>7, <1>9, <1>12 DEF Reads
    <2>2. ~Has(p, m.next)
      BY <1>9, <1>10, <2>1 DEF Has
    <2>3. r.val = <<>> /\ r.err = "EOF" /\ r.next \in Nat /\ r.next >= Len(p)
      BY <1>8, <1>9, <1>10, <2>1, <2>2
    <2>4. i + Len(c \o s) > Len(p)
      BY <1>3, <1>4, <1>9, <1>12
    <2>5. FadedSeq(r.val, s)
      BY <2>3, NothingFaded
    <2>6. ~(i + Len(c \o s) <= Len(p))
      BY <1>3, <1>4, <1>9, <1>12
    <2> QED
      BY <1>1, <1>2, <1>5, <2>3, <2>4, <2>5, <2>6
  <1> QED
    BY <1>11, <1>12

\* ReadEOFLengthString reads what arrived of the rest of the packet.
LEMMA EofFaded ==
  ASSUME NEW p, NEW e, Beginning(p, e), NEW i \in Nat, NEW s \in Seq(Octet),
         Holds(e, i, s), Len(e) = i + Len(s), i <= Len(p)
  PROVE  /\ FadedSeq(ReadEOFLengthString(p, i), s)
         /\ p = e => ReadEOFLengthString(p, i) = s
  <1>1. PICK n \in Nat : n = Len(p) - i
    BY DEF Beginning
  <1>2. n <= Len(s) /\ i + n = Len(p) /\ Len(s) \in Nat
    BY <1>1 DEF Beginning
  <1>3. PICK t : t = SubSeq(s, 1, n)
    OBVIOUS
  <1>4. /\ t \in Seq(Octet) /\ Len(t) = n
        /\ \A j \in 1 .. n : t[j] = s[j]
    BY <1>2, <1>3
  <1>5. Holds(e, i, t)
    <2>1. e \in Seq(Octet) /\ i + Len(t) <= Len(e)
      BY <1>2, <1>4 DEF Holds
    <2>2. \A j \in 1 .. Len(t) : e[i + j] = t[j]
      <3> TAKE j \in 1 .. Len(t)
      <3>1. j \in 1 .. n /\ j \in 1 .. Len(s)
        BY <1>2, <1>4
      <3> QED
        BY <1>4, <3>1 DEF Holds
    <2> QED
      BY <1>4, <2>1, <2>2 DEF Holds
  <1>6. Bytes(p, i, n) = t
    <2>1. i + Len(t) <= Len(p)
      BY <1>2, <1>4
    <2>2. Bytes(p, i, Len(t)) = t
      BY <1>5, <2>1, BytesFaded
    <2> QED
      BY <1>4, <2>2
  <1>7. ReadEOFLengthString(p, i) = t
    BY <1>1, <1>6 DEF ReadEOFLengthString
  <1>8. FadedSeq(t, s)
    <2>1. n \in 0 .. Len(t) /\ DOMAIN t = 1 .. n /\ Len(t) <= Len(s)
      BY <1>2, <1>4
    <2>2. \A j \in DOMAIN t : t[j] = IF j <= n THEN s[j] ELSE 0
      BY <1>4, <2>1
    <2> QED
      BY <2>1, <2>2 DEF FadedSeq
  <1>9. p = e => t = s
    <2> SUFFICES ASSUME p = e PROVE t = s
      OBVIOUS
    <2>1. n = Len(s)
      BY <1>2
    <2> QED
      BY <1>4, <2>1
  <1> QED
    BY <1>7, <1>8, <1>9

\* A text without a NUL is a sequence of bytes other than 0.
LEMMA NonNulOctets ==
  ASSUME NEW s \in NonNul
  PROVE  s \in Seq(Octet) /\ \A j \in 1 .. Len(s) : s[j] # 0
  <1>1. \A x \in NonZero : x \in Octet /\ x # 0
    BY DEF NonZero, Octet
  <1>2. s \in Seq(NonZero)
    BY DEF NonNul
  <1>3. \A j \in 1 .. Len(s) : s[j] \in NonZero
    BY <1>2
  <1>4. s = [j \in 1 .. Len(s) |-> s[j]] /\ Len(s) \in Nat
    BY <1>2
  <1>5. \A j \in 1 .. Len(s) : s[j] \in Octet /\ s[j] # 0
    BY <1>1, <1>3
  <1>6. s \in Seq(Octet)
    BY <1>4, <1>5
  <1> QED
    BY <1>5, <1>6

\* The first k bytes of what s is, as far as they arrived.
LEMMA PartRead ==
  ASSUME NEW p, NEW e, Beginning(p, e), NEW i, NEW s, Holds(e, i, s),
         NEW k \in 0 .. Len(s), i + k <= Len(p) \/ k = 0
  PROVE  /\ FadedSeq(Bytes(p, i, k), s)
         /\ k = Len(s) => Bytes(p, i, k) = s
  <1>1. i \in Nat /\ s \in Seq(Octet) /\ Len(s) \in Nat /\ Len(p) \in Nat
        /\ e \in Seq(Octet) /\ i + Len(s) <= Len(e)
    BY DEF Holds, Beginning
  <1>2. PICK t : t = SubSeq(s, 1, k)
    OBVIOUS
  <1>3. /\ t \in Seq(Octet) /\ Len(t) = k
        /\ \A j \in 1 .. k : t[j] = s[j]
    BY <1>1, <1>2
  <1>4. Holds(e, i, t)
    <2>1. i + Len(t) <= Len(e)
      BY <1>1, <1>3
    <2>2. \A j \in 1 .. Len(t) : e[i + j] = t[j]
      <3> TAKE j \in 1 .. Len(t)
      <3>1. j \in 1 .. k /\ j \in 1 .. Len(s)
        BY <1>1, <1>3
      <3> QED
        BY <1>3, <3>1 DEF Holds
    <2> QED
      BY <1>1, <1>3, <2>1, <2>2 DEF Holds
  <1>5. Bytes(p, i, k) = t
    <2>1. CASE k = 0
      <3>1. Bytes(p, i, 0) = <<>>
        BY DEF Bytes
      <3>2. t = <<>>
        BY <1>3, <2>1
      <3> QED
        BY <2>1, <3>1, <3>2
    <2>2. CASE i + k <= Len(p)
      <3>1. Bytes(p, i, Len(t)) = t
        BY <1>3, <1>4, <2>2, BytesFaded
      <3> QED
        BY <1>3, <3>1
    <2> QED
      BY <2>1, <2>2
  <1>6. FadedSeq(t, s)
    <2>1. k \in 0 .. Len(t) /\ DOMAIN t = 1 .. k /\ Len(t) <= Len(s)
      BY <1>1, <1>3
    <2>2. \A j \in DOMAIN t : t[j] = IF j <= k THEN s[j] ELSE 0
      BY <1>3, <2>1
    <2> QED
      BY <2>1, <2>2 DEF FadedSeq
  <1>7. k = Len(s) => t = s
    BY <1>1, <1>3
  <1> QED
    BY <1>5, <1>6, <1>7

\* A string that ends in a NUL ends there, or where the packet does.
LEMMA NulFound ==
  ASSUME NEW p, NEW e, Beginning(p, e), NEW i, NEW s \in NonNul,
         Holds(e, i, s), Holds(e, i + Len(s), << 0 >>)
  PROVE  NulFrom(p, i) = IF i + Len(s) <= Len(p) THEN i + Len(s)
                         ELSE IF i <= Len(p) THEN Len(p) ELSE i
  <1>1. /\ i \in Nat /\ s \in Seq(Octet) /\ Len(s) \in Nat /\ Len(p) \in Nat
        /\ \A j \in 1 .. Len(s) : s[j] # 0
    BY NonNulOctets DEF Holds, Beginning
  <1>2. PICK n \in Nat : n = IF i + Len(s) <= Len(p) THEN i + Len(s)
                             ELSE IF i <= Len(p) THEN Len(p) ELSE i
    BY <1>1
  <1> DEFINE Good(j) == Byte(p, j) = 0 /\ \A k \in i .. j - 1 : Byte(p, k) # 0
  <1>3. n \in i .. i + Len(p)
    BY <1>1, <1>2
  <1>4. Byte(p, n) = 0
    <2>1. CASE i + Len(s) <= Len(p)
      <3>1. n = i + Len(s)
        BY <1>2, <2>1
      <3>2. Byte(p, i + Len(s)) = IF i + Len(s) < Len(p) THEN 0 ELSE 0
        BY ByteRead
      <3> QED
        BY <3>1, <3>2
    <2>2. CASE ~(i + Len(s) <= Len(p))
      <3>1. ~(n < Len(p))
        BY <1>1, <1>2, <2>2
      <3> QED
        BY <3>1 DEF Byte, Has
    <2> QED
      BY <2>1, <2>2
  <1>5. \A k \in i .. n - 1 : Byte(p, k) # 0
    <2> TAKE k \in i .. n - 1
    <2>1. PICK j \in 1 .. Len(s) : k = i + j - 1 /\ i + j <= Len(p)
      <3>1. k - i + 1 \in 1 .. Len(s) /\ i + (k - i + 1) <= Len(p)
            /\ k = i + (k - i + 1) - 1
        BY <1>1, <1>2
      <3> QED
        BY <3>1
    <2>2. p[i + j] = e[i + j] /\ e[i + j] = s[j]
      <3>1. i + j \in 1 .. Len(p)
        BY <1>1, <2>1
      <3> QED
        BY <3>1 DEF Beginning, Holds
    <2>3. k + 1 = i + j /\ k < Len(p)
      BY <1>1, <2>1
    <2> QED
      BY <1>1, <2>2, <2>3 DEF Byte, Has
  <1>6. Good(n)
    BY <1>4, <1>5
  <1>7. \A j \in i .. i + Len(p) : Good(j) => j = n
    <2> SUFFICES ASSUME NEW j \in i .. i + Len(p), Good(j) PROVE j = n
      OBVIOUS
    <2>1. ~(j < n)
      <3> SUFFICES ASSUME j < n PROVE FALSE
        OBVIOUS
      <3>1. j \in i .. n - 1
        BY <1>1
      <3> QED
        BY <1>5, <3>1
    <2>2. ~(n < j)
      <3> SUFFICES ASSUME n < j PROVE FALSE
        OBVIOUS
      <3>1. n \in i .. j - 1
        BY <1>1, <1>3
      <3> QED
        BY <1>4, <3>1
    <2> QED
      BY <1>1, <2>1, <2>2
  <1>8. NulFrom(p, i) = CHOOSE j \in i .. i + Len(p) : Good(j)
    BY DEF NulFrom
  <1> HIDE DEF Good
  <1> QED
    BY <1>2, <1>3, <1>6, <1>7, <1>8

\* ReadNullTerminatedString reads what arrived of a text.
LEMMA NulRead ==
  ASSUME NEW p, NEW e, Beginning(p, e), NEW i, NEW s \in NonNul,
         Holds(e, i, s), Holds(e, i + Len(s), << 0 >>)
  PROVE  /\ FadedSeq(ReadNullTerminatedString(p, i), s)
         /\ i + Len(s) <= Len(p) => ReadNullTerminatedString(p, i) = s
  <1>1. i \in Nat /\ s \in Seq(Octet) /\ Len(s) \in Nat /\ Len(p) \in Nat
    BY NonNulOctets DEF Holds, Beginning
  <1>2. PICK k : k = NulFrom(p, i) - i
    OBVIOUS
  <1>3. /\ k \in 0 .. Len(s) /\ (i + k <= Len(p) \/ k = 0)
        /\ i + Len(s) <= Len(p) => k = Len(s)
    <2>1. PICK n : n = NulFrom(p, i)
      OBVIOUS
    <2>2. n = IF i + Len(s) <= Len(p) THEN i + Len(s)
              ELSE IF i <= Len(p) THEN Len(p) ELSE i
      BY <2>1, NulFound
    <2>3. k = n - i
      BY <1>2, <2>1
    <2> QED
      BY <1>1, <2>2, <2>3
  <1>4. ReadNullTerminatedString(p, i) = Bytes(p, i, k)
    BY <1>2 DEF ReadNullTerminatedString
  <1> QED
    BY <1>3, <1>4, PartRead

-----------------------------------------------------------------------------
(* One field of COM_STMT_EXECUTE.                                           *)

\* The three types a field can have.
LEMMA TypesDiffer ==
  /\ FieldTypeString # FieldTypeLongLong
  /\ FieldTypeString # FieldTypeDouble
  /\ FieldTypeLongLong # FieldTypeDouble
  /\ \A type : type \in Known <=> \/ type = FieldTypeString
                                  \/ type = FieldTypeLongLong
                                  \/ type = FieldTypeDouble
  BY DEF FieldTypeString, FieldTypeLongLong, FieldTypeDouble, Known

\* DecodeField for a string,
LEMMA StringField ==
  ASSUME NEW p, NEW i
  PROVE  DecodeField(FieldTypeString, p, i) =
           LET s == ReadLenEncodedString(p, i)
           IN  [err |-> IF s.err = "EOF" THEN "nil" ELSE s.err,
                val |-> s.val, next |-> s.next]
  BY TypesDiffer, Zenon DEF DecodeField

\* for an integer,
LEMMA LongLongField ==
  ASSUME NEW p, NEW i
  PROVE  DecodeField(FieldTypeLongLong, p, i) =
           [err |-> "nil", next |-> i + 8,
            val |-> IF Has(p, i + 7) THEN Bytes(p, i, 8) ELSE <<>>]
  BY TypesDiffer, Zenon DEF DecodeField

\* for a floating-point number,
LEMMA DoubleField ==
  ASSUME NEW p, NEW i
  PROVE  DecodeField(FieldTypeDouble, p, i) =
           [err |-> IF Has(p, i) THEN "nil" ELSE "EOF", next |-> i + 8,
            val |-> Bytes(p, i, 8)]
  BY TypesDiffer, Zenon DEF DecodeField

\* and for every other type.
LEMMA OtherField ==
  ASSUME NEW p, NEW i, NEW type, type \notin Known
  PROVE  DecodeField(type, p, i) =
           [err |-> "field", val |-> <<>>, next |-> i]
  BY TypesDiffer, Zenon DEF DecodeField

\* What DecodeField may return.
FieldResults == [err : {"nil", "EOF", "field", "panic"},
                 val : Seq(Octet), next : Nat]

\* Byte returns a byte,
LEMMA ByteOctet ==
  ASSUME NEW p \in Seq(Octet), NEW i \in Nat
  PROVE  Byte(p, i) \in Octet
  <1>1. CASE i < Len(p)
    <2>1. p[i + 1] \in Octet
      BY <1>1
    <2> QED
      BY <1>1, <2>1 DEF Byte, Has
  <1>2. CASE ~(i < Len(p))
    BY <1>2, NatOctet DEF Byte, Has
  <1> QED
    BY <1>1, <1>2

\* and Bytes as many as it is asked for.
LEMMA BytesOctets ==
  ASSUME NEW p \in Seq(Octet), NEW i \in Nat, NEW n \in Nat
  PROVE  Bytes(p, i, n) \in Seq(Octet) /\ Len(Bytes(p, i, n)) = n
  <1>1. \A j \in 1 .. n : Byte(p, i + j - 1) \in Octet
    <2> TAKE j \in 1 .. n
    <2>1. i + j - 1 \in Nat
      OBVIOUS
    <2> QED
      BY <2>1, ByteOctet
  <1> QED
    BY <1>1 DEF Bytes

\* LittleEndian returns a natural number.
LEMMA LittleEndianNat ==
  ASSUME NEW b \in Seq(Octet)
  PROVE  LittleEndian(b) \in Nat
  <1>1. PICK f : LittleEndian(b) = f[Len(b)] /\ f \in [0 .. Len(b) -> Nat]
    BY LittleEndianRec
  <1>2. Len(b) \in 0 .. Len(b)
    OBVIOUS
  <1> QED
    BY <1>1, <1>2

\* ReadLenEncodedInteger returns a natural number and reads a byte at least.
LEMMA IntegerNat ==
  ASSUME NEW p \in Seq(Octet), NEW i \in Nat
  PROVE  /\ ReadLenEncodedInteger(p, i).val \in Nat
         /\ ReadLenEncodedInteger(p, i).next \in Nat
         /\ ReadLenEncodedInteger(p, i).next >= i + 1
  <1>1. PICK b : b = Byte(p, i)
    OBVIOUS
  <1>2. PICK w : w = LenEncWidth(b)
    OBVIOUS
  <1>3. w \in Nat /\ b \in Nat
    BY <1>1, <1>2, ByteOctet, OctetNat DEF LenEncWidth
  <1>4. LittleEndian(Bytes(p, i + 1, w)) \in Nat
    <2>1. i + 1 \in Nat
      OBVIOUS
    <2> QED
      BY <1>3, <2>1, BytesOctets, LittleEndianNat
  <1>5. /\ ReadLenEncodedInteger(p, i).val =
             (IF w > 0 THEN LittleEndian(Bytes(p, i + 1, w))
              ELSE IF b = 251 THEN 0 ELSE b)
        /\ ReadLenEncodedInteger(p, i).next = i + 1 + w
    BY <1>1, <1>2 DEF ReadLenEncodedInteger
  <1>6. ReadLenEncodedInteger(p, i).val \in Nat
    BY <1>3, <1>4, <1>5
  <1> QED
    BY <1>3, <1>5, <1>6

\* Past the end of the packet there is nothing to read.
LEMMA PastInteger ==
  ASSUME NEW p \in Seq(Octet), NEW i \in Nat, i >= Len(p)
  PROVE  /\ ReadLenEncodedInteger(p, i).val = 0
         /\ ReadLenEncodedInteger(p, i).next = i + 1
  <1>1. Byte(p, i) = 0
    BY DEF Byte, Has
  <1>2. LenEncWidth(0) = 0
    BY Widths
  <1> QED
    BY <1>1, <1>2 DEF ReadLenEncodedInteger

\* ReadLenEncodedString on any packet: past its end nothing is read.
LEMMA StringAny ==
  ASSUME NEW p \in Seq(Octet), NEW i \in Nat
  PROVE  LET s == ReadLenEncodedString(p, i)
         IN  /\ s.err \in {"nil", "EOF", "panic"}
             /\ s.val \in Seq(Octet) /\ s.next \in Nat
             /\ i >= Len(p) =>
                  s.err = "EOF" /\ s.val = <<>> /\ s.next >= Len(p)
  <1>1. PICK m : m = ReadLenEncodedInteger(p, i)
    OBVIOUS
  <1>2. m.val \in Nat /\ m.next \in Nat
    BY <1>1, IntegerNat
  <1>3. PICK s : s = ReadLenEncodedString(p, i)
    OBVIOUS
  <1>4. /\ s.err = (IF m.val > MaxMake THEN "panic"
                    ELSE IF Has(p, m.next) THEN "nil" ELSE "EOF")
        /\ s.val = (IF m.val <= MaxMake /\ Has(p, m.next)
                    THEN Bytes(p, m.next, m.val) ELSE <<>>)
        /\ s.next = m.next + m.val
    BY <1>1, <1>3 DEF ReadLenEncodedString
  <1>5. Bytes(p, m.next, m.val) \in Seq(Octet)
    BY <1>2, BytesOctets
  <1>6. s.err \in {"nil", "EOF", "panic"} /\ s.next \in Nat
    BY <1>2, <1>4
  <1>7. s.val \in Seq(Octet)
    <2>1. <<>> \in Seq(Octet)
      OBVIOUS
    <2> QED
      BY <1>4, <1>5, <2>1
  <1>8. ASSUME i >= Len(p)
        PROVE  s.err = "EOF" /\ s.val = <<>> /\ s.next >= Len(p)
    <2>1. m.val = 0 /\ m.next = i + 1
      BY <1>1, <1>8, PastInteger
    <2>2. ~Has(p, m.next)
      BY <1>8, <2>1 DEF Has
    <2>3. ~(m.val > MaxMake) /\ Len(p) \in Nat
      BY <2>1, DecoderAssumption
    <2> QED
      BY <1>4, <1>8, <2>1, <2>2, <2>3
  <1> QED
    BY <1>3, <1>6, <1>7, <1>8

\* DecodeField on any packet: past its end it does not panic.
LEMMA FieldAny ==
  ASSUME NEW p \in Seq(Octet), NEW i \in Nat, NEW type
  PROVE  LET r == DecodeField(type, p, i)
         IN  /\ r \in FieldResults
             /\ r.err = "nil" => type \in Known
             /\ i >= Len(p) => /\ r.err # "panic"
                               /\ r.err = "nil" => /\ r.next >= Len(p)
                                                   /\ r.val = <<>>
  <1>1. PICK r : r = DecodeField(type, p, i)
    OBVIOUS
  <1>2. CASE type = FieldTypeString
    <2>1. PICK s : s = ReadLenEncodedString(p, i)
      OBVIOUS
    <2>2. /\ r.err = (IF s.err = "EOF" THEN "nil" ELSE s.err)
          /\ r.val = s.val /\ r.next = s.next
          /\ r = [err |-> r.err, val |-> r.val, next |-> r.next]
      BY <1>1, <1>2, <2>1, StringField
    <2>3. /\ s.err \in {"nil", "EOF", "panic"}
          /\ s.val \in Seq(Octet) /\ s.next \in Nat
          /\ i >= Len(p) =>
               s.err = "EOF" /\ s.val = <<>> /\ s.next >= Len(p)
      BY <2>1, StringAny
    <2>4. type \in Known
      BY <1>2, TypesDiffer
    <2>5. r.err \in {"nil", "panic"}
      BY <2>2, <2>3
    <2>6. r \in FieldResults
      BY <2>2, <2>3, <2>5 DEF FieldResults
    <2> QED
      BY <1>1, <2>2, <2>3, <2>4, <2>6
  <1>3. CASE type = FieldTypeLongLong
    <2>1. r = [err |-> "nil", next |-> i + 8,
               val |-> IF Has(p, i + 7) THEN Bytes(p, i, 8) ELSE <<>>]
      BY <1>1, <1>3, LongLongField
    <2>2. Bytes(p, i, 8) \in Seq(Octet) /\ <<>> \in Seq(Octet)
      BY BytesOctets
    <2>3. type \in Known
      BY <1>3, TypesDiffer
    <2>4. i >= Len(p) => ~Has(p, i + 7) /\ i + 8 >= Len(p)
      BY DEF Has
    <2>5. r \in FieldResults
      BY <2>1, <2>2 DEF FieldResults
    <2> QED
      BY <1>1, <2>1, <2>3, <2>4, <2>5
  <1>4. CASE type = FieldTypeDouble
    <2>1. r = [err |-> IF Has(p, i) THEN "nil" ELSE "EOF", next |-> i + 8,
               val |-> Bytes(p, i, 8)]
      BY <1>1, <1>4, DoubleField
    <2>2. Bytes(p, i, 8) \in Seq(Octet)
      BY BytesOctets
    <2>3. type \in Known
      BY <1>4, TypesDiffer
    <2>4. i >= Len(p) => ~Has(p, i)
      BY DEF Has
    <2>5. r \in FieldResults
      BY <2>1, <2>2 DEF FieldResults
    <2> QED
      BY <1>1, <2>1, <2>3, <2>4, <2>5
  <1>5. CASE type \notin Known
    <2>1. r = [err |-> "field", val |-> <<>>, next |-> i]
      BY <1>1, <1>5, OtherField
    <2>2. r \in FieldResults
      BY <2>1 DEF FieldResults
    <2> QED
      BY <1>1, <2>1, <2>2
  <1> QED
    BY <1>2, <1>3, <1>4, <1>5, TypesDiffer

\* The bytes of a parameter's value.
LEMMA ValueOctets ==
  ASSUME NEW q \in Param, Proper(q)
  PROVE  /\ Value(q) \in Seq(Octet)
         /\ ~q.null /\ q.type = FieldTypeString =>
              Value(q) = LenEnc(Len(q.val)) \o q.val
         /\ q.type # FieldTypeString => Value(q) = q.val
  <1>1. q.val \in Seq(Octet) /\ <<>> \o q.val = q.val
    BY DEF Param
  <1>2. LenEnc(Len(q.val)) \in Seq(Octet)
    BY LenEncOctets DEF Proper
  <1>3. LenEnc(Len(q.val)) \o q.val \in Seq(Octet)
    BY <1>1, <1>2
  <1> QED
    BY <1>1, <1>3 DEF Value

\* r is what is read of the parameter q, whose value is at offset i.
GoodField(r, p, i, q) ==
  /\ r.err # "panic"
  /\ r.err = "nil" =>
       /\ FadedSeq(r.val, q.val)
       /\ \/ r.next = i + Len(Value(q))
          \/ r.next >= Len(p) /\ i + Len(Value(q)) > Len(p)
  /\ i + Len(Value(q)) <= Len(p) => /\ q.type \in Known => r.err = "nil"
                                    /\ r.err = "nil" => r.val = q.val

\* DecodeField reads the value of a parameter, or what arrived of it.
LEMMA FieldRead ==
  ASSUME NEW p, NEW e, Beginning(p, e), NEW i, NEW q \in Param, Proper(q),
         ~q.null, Holds(e, i, Value(q))
  PROVE  GoodField(DecodeField(q.type, p, i), p, i, q)
  <1>1. PICK r : r = DecodeField(q.type, p, i)
    OBVIOUS
  <1>2. i \in Nat /\ Len(p) \in Nat /\ p \in Seq(Octet) /\ q.val \in Seq(Octet)
        /\ Len(q.val) \in Nat
    BY DEF Holds, Beginning, Param
  <1>3. CASE q.type = FieldTypeString
    <2>1. PICK s : s = ReadLenEncodedString(p, i)
      OBVIOUS
    <2>2. Value(q) = LenEnc(Len(q.val)) \o q.val
      BY <1>3, ValueOctets
    <2>3. /\ s.err \in {"nil", "EOF"} /\ s.next \in Nat
          /\ FadedSeq(s.val, q.val)
          /\ i + Len(Value(q)) <= Len(p) => s.val = q.val
          /\ \/ s.next = i + Len(Value(q))
             \/ s.next >= Len(p) /\ i + Len(Value(q)) > Len(p)
      <3>1. PICK b : b = q.val
        OBVIOUS
      <3>2. b \in Seq(Octet) /\ Len(b) \in Count /\ Len(b) <= MaxMake
        BY <1>2, <3>1 DEF Proper
      <3>3. Holds(e, i, LenEnc(Len(b)) \o b)
        BY <2>2, <3>1
      <3>4. PICK n : n = Len(LenEnc(Len(b)) \o b)
        OBVIOUS
      <3>5. /\ s.err \in {"nil", "EOF"} /\ s.next \in Nat
            /\ FadedSeq(s.val, b)
            /\ i + n <= Len(p) => s.val = b
            /\ s.next = i + n \/ (s.next >= Len(p) /\ i + n > Len(p))
        BY <2>1, <3>2, <3>3, <3>4, StringRead
      <3>6. n = Len(Value(q))
        BY <2>2, <3>1, <3>4
      <3> QED
        BY <3>1, <3>5, <3>6
    <2>4. r.err = "nil" /\ r.val = s.val /\ r.next = s.next
      BY <1>1, <1>3, <2>1, <2>3, StringField
    <2>5. GoodField(r, p, i, q)
      BY <2>3, <2>4 DEF GoodField
    <2> QED
      BY <1>1, <2>5
  <1>4. CASE q.type \in {FieldTypeLongLong, FieldTypeDouble}
    <2>1. Value(q) = q.val /\ Len(q.val) = 8
      BY <1>4, TypesDiffer, ValueOctets DEF Proper
    <2>2. Holds(e, i, q.val)
      BY <2>1
    <2>3. /\ FadedSeq(Bytes(p, i, 8), q.val)
          /\ i + 8 <= Len(p) => Bytes(p, i, 8) = q.val
      <3>1. /\ FadedSeq(Bytes(p, i, Len(q.val)), q.val)
            /\ i + Len(q.val) <= Len(p) => Bytes(p, i, Len(q.val)) = q.val
        BY <2>2, BytesFaded, Zenon
      <3> QED
        BY <2>1, <3>1
    <2>4. i + 8 <= Len(p) => Has(p, i + 7) /\ Has(p, i)
      BY <1>2 DEF Has
    <2>5. FadedSeq(<<>>, q.val)
      BY <1>2, NothingFaded
    <2>6. CASE q.type = FieldTypeLongLong
      <3>1. /\ r.err = "nil" /\ r.next = i + 8
            /\ r.val = (IF Has(p, i + 7) THEN Bytes(p, i, 8) ELSE <<>>)
        BY <1>1, <2>6, LongLongField
      <3>2. GoodField(r, p, i, q)
        BY <2>1, <2>3, <2>4, <2>5, <3>1 DEF GoodField
      <3> QED
        BY <1>1, <3>2
    <2>7. CASE q.type = FieldTypeDouble
      <3>1. /\ r.err = (IF Has(p, i) THEN "nil" ELSE "EOF") /\ r.next = i + 8
            /\ r.val = Bytes(p, i, 8)
        BY <1>1, <2>7, DoubleField
      <3>2. GoodField(r, p, i, q)
        BY <2>1, <2>3, <2>4, <3>1 DEF GoodField
      <3> QED
        BY <1>1, <3>2
    <2> QED
      BY <1>4, <2>6, <2>7
  <1>5. CASE q.type \notin Known
    <2>1. r.err = "field"
      BY <1>1, <1>5, OtherField
    <2>2. GoodField(r, p, i, q)
      BY <1>5, <2>1 DEF GoodField
    <2> QED
      BY <1>1, <2>2
  <1> QED
    BY <1>3, <1>4, <1>5, TypesDiffer

-----------------------------------------------------------------------------
(* The fields one after the other.                                          *)

\* g[j] is the concatenation of the first j of the n sequences ss.
Concats(g, n, ss) ==
  /\ g \in [0 .. n -> Seq(Octet)] /\ g[0] = <<>>
  /\ \A j \in 1 .. n : g[j] = g[j - 1] \o ss[j]

\* n sequences of bytes.
Sequences(n) == [1 .. n -> Seq(Octet)]

\* FlattenSeq is the last of these concatenations.
LEMMA FlattenConcats ==
  ASSUME NEW n \in Nat, n > 0, NEW ss \in Sequences(n)
  PROVE  \E g : Concats(g, n, ss) /\ FlattenSeq(ss) = g[n]
  <1>0. ss \in [1 .. n -> Seq(Octet)] /\ Len(ss) = n
    <2>1. ss \in [1 .. n -> Seq(Octet)]
      BY DEF Sequences
    <2>2. ss \in Seq(Seq(Octet)) /\ Len(ss) = n
      BY <2>1
    <2> QED
      BY <2>1, <2>2
  <1>s. \A j \in 1 .. n : ss[j] \in Seq(Octet)
    BY <1>0
  <1> DEFINE step == [j \in 1 .. n |-> [s \in Seq(Octet) |-> s \o ss[j]]]
  <1>1. step \in Steps(n, Seq(Octet))
    <2>1. \A j \in 1 .. n, s \in Seq(Octet) : s \o ss[j] \in Seq(Octet)
      BY <1>s, Join
    <2> QED
      BY <2>1 DEF Steps
  <1>2. PICK g : Iterates(g, n, Seq(Octet), <<>>, step)
    <2>1. <<>> \in Seq(Octet)
      OBVIOUS
    <2> HIDE DEF step
    <2> QED
      BY <1>1, <2>1, Recursive
  <1>3. g \in [0 .. n -> Seq(Octet)] /\ g[0] = <<>>
    BY <1>2 DEF Iterates
  <1>4. \A j \in 1 .. n : g[j] = g[j - 1] \o ss[j]
    <2> TAKE j \in 1 .. n
    <2>1. g[j] = step[j][g[j - 1]]
      <3> HIDE DEF step
      <3> QED
        BY <1>2 DEF Iterates
    <2>2. step[j] = [s \in Seq(Octet) |-> s \o ss[j]]
      OBVIOUS
    <2>3. g[j - 1] \in Seq(Octet)
      <3>1. j - 1 \in 0 .. n
        OBVIOUS
      <3> QED
        BY <1>3, <3>1
    <2> HIDE DEF step
    <2> QED
      BY <2>1, <2>2, <2>3
  <1>b. g[1] = ss[1]
    <2>1. 1 \in 1 .. n /\ 1 - 1 = 0
      OBVIOUS
    <2>2. g[1] = g[1 - 1] \o ss[1]
      BY <1>4, <2>1
    <2>3. ss[1] \in Seq(Octet)
      BY <1>s, <2>1
    <2>4. <<>> \o ss[1] = ss[1]
      BY <2>3
    <2> QED
      BY <1>3, <2>1, <2>2, <2>4
  <1>5. Concats(g, n, ss)
    BY <1>3, <1>4 DEF Concats
  <1> DEFINE Rec(f) == f = [i \in 1 .. n |->
                              IF i = 1 THEN ss[i] ELSE f[i - 1] \o ss[i]]
             h == [i \in 1 .. n |-> g[i]]
             f == CHOOSE x : Rec(x)
  <1>6. Rec(h)
    <2>1. \A i \in 1 .. n :
            g[i] = IF i = 1 THEN ss[i] ELSE h[i - 1] \o ss[i]
      <3> TAKE i \in 1 .. n
      <3>1. CASE i = 1
        BY <1>b, <3>1
      <3>2. CASE i # 1
        <4>1. i - 1 \in 1 .. n
          BY <3>2
        <4>2. h[i - 1] = g[i - 1]
          BY <4>1
        <4>3. g[i] = g[i - 1] \o ss[i]
          BY <1>4
        <4> HIDE DEF h
        <4> QED
          BY <3>2, <4>2, <4>3
      <3> QED
        BY <3>1, <3>2
    <2> QED
      BY <2>1
  <1>7. Rec(f)
    <2> HIDE DEF Rec, h
    <2> QED
      BY <1>6
  <1>8. FlattenSeq(ss) = f[n]
    BY <1>0 DEF FlattenSeq
  <1>9. f[n] = g[n]
    <2> HIDE DEF f
    <2> DEFINE P == {0} \cup {k \in 1 .. n : f[k] = g[k]}
    <2>1. \A j \in 1 .. n : j - 1 \in P => j \in P
      <3> SUFFICES ASSUME NEW j \in 1 .. n, j - 1 \in P
                   PROVE  f[j] = g[j]
        OBVIOUS
      <3>0. f[j] = IF j = 1 THEN ss[j] ELSE f[j - 1] \o ss[j]
        BY <1>7
      <3>1. CASE j = 1
        BY <1>b, <3>0, <3>1
      <3>2. CASE j # 1
        <4>1. f[j - 1] = g[j - 1]
          BY <3>2
        <4>2. g[j] = g[j - 1] \o ss[j]
          BY <1>4
        <4> QED
          BY <3>0, <3>2, <4>1, <4>2
      <3> QED
        BY <3>1, <3>2
    <2>2. 0 .. n \subseteq P
      <3>1. 0 \in P
        OBVIOUS
      <3> HIDE DEF P
      <3> QED
        BY <2>1, <3>1, IntervalInduction
    <2>3. n \in P
      <3> HIDE DEF P
      <3> QED
        BY <2>2
    <2> QED
      BY <2>3
  <1> QED
    BY <1>5, <1>8, <1>9

\* A packet that holds all the sequences in a row holds each of them behind
\* those before it.
LEMMA FlattenHolds ==
  ASSUME NEW n \in Nat, NEW ss \in Sequences(n), NEW g, Concats(g, n, ss),
         NEW e, NEW i \in Nat, Holds(e, i, g[n])
  PROVE  \A j \in 1 .. n : Holds(e, i + Len(g[j - 1]), ss[j])
  <1>1. \A j \in 0 .. n : g[j] \in Seq(Octet)
    BY DEF Concats
  <1>2. \A j \in 1 .. n : ss[j] \in Seq(Octet)
    BY DEF Sequences
  <1>3. ASSUME NEW j \in 1 .. n, Holds(e, i, g[j])
        PROVE  Holds(e, i, g[j - 1]) /\ Holds(e, i + Len(g[j - 1]), ss[j])
    <2>1. PICK s : s = g[j - 1]
      OBVIOUS
    <2>2. PICK t : t = ss[j]
      OBVIOUS
    <2>3. j - 1 \in 0 .. n
      OBVIOUS
    <2>4. s \in Seq(Octet) /\ t \in Seq(Octet)
      BY <1>1, <1>2, <2>1, <2>2, <2>3
    <2>5. Holds(e, i, s \o t)
      BY <1>3, <2>1, <2>2 DEF Concats
    <2>6. Holds(e, i, s) /\ Holds(e, i + Len(s), t)
      BY <2>4, <2>5, HoldsParts, Zenon
    <2> QED
      BY <2>1, <2>2, <2>6
  <1> DEFINE P == {k \in 0 .. n : Holds(e, i, g[n - k])}
  <1>4. 0 \in P
    OBVIOUS
  <1>5. \A k \in 1 .. n : k - 1 \in P => k \in P
    <2> SUFFICES ASSUME NEW k \in 1 .. n, k - 1 \in P
                 PROVE  Holds(e, i, g[n - k])
      OBVIOUS
    <2>1. PICK j \in 1 .. n : j = n - (k - 1)
      OBVIOUS
    <2>2. Holds(e, i, g[j])
      BY <2>1
    <2>3. j - 1 = n - k
      BY <2>1
    <2> QED
      BY <1>3, <2>2, <2>3
  <1>6. 0 .. n \subseteq P
    <2> HIDE DEF P
    <2> QED
      BY <1>4, <1>5, IntervalInduction
  <1>7. \A j \in 1 .. n : Holds(e, i, g[j])
    <2> TAKE j \in 1 .. n
    <2>1. n - j \in 0 .. n /\ n - (n - j) = j
      OBVIOUS
    <2>2. n - j \in P
      <3> HIDE DEF P
      <3> QED
        BY <1>6, <2>1
    <2> QED
      BY <2>1, <2>2
  <1> QED
    BY <1>3, <1>7

\* The length of a bitmap is a natural number.
LEMMA BitmapNat ==
  ASSUME NEW n \in Nat
  PROVE  NullBitmapLength(n) \in Nat
  BY DEF NullBitmapLength

\* So are the offsets behind it.
LEMMA ValuesFromNat ==
  ASSUME NEW p, NEW n \in Nat
  PROVE  TypesSent(n) \in Nat /\ ValuesFrom(p, n) \in Nat
  BY BitmapNat DEF TypesSent, ValuesFrom

\* f is the function that Fields is defined to be.
FieldsOf(f, p, n) ==
  /\ f \in [0 .. n -> FieldResults]
  /\ f[0] = [err |-> "nil", val |-> <<>>, next |-> ValuesFrom(p, n)]
  /\ \A j \in 1 .. n :
       f[j] = IF f[j - 1].err # "nil" THEN f[j - 1]
              ELSE DecodeField(ParamType(p, n, j), p, f[j - 1].next)

\* Fields satisfies the recursion it is defined by.
LEMMA FieldsRec ==
  ASSUME NEW p \in Seq(Octet), NEW n \in Nat
  PROVE  FieldsOf(Fields(p, n), p, n)
  <1> DEFINE c == [err |-> "nil", val |-> <<>>, next |-> ValuesFrom(p, n)]
             go(j, r) == IF r.err # "nil" THEN r
                         ELSE DecodeField(ParamType(p, n, j), p, r.next)
             step == [j \in 1 .. n |-> [r \in FieldResults |-> go(j, r)]]
  <1>1. c \in FieldResults
    <2>1. <<>> \in Seq(Octet)
      OBVIOUS
    <2> QED
      BY <2>1, ValuesFromNat DEF FieldResults
  <1>2. \A j \in 1 .. n, r \in FieldResults : go(j, r) \in FieldResults
    <2> TAKE j \in 1 .. n, r \in FieldResults
    <2>1. r.next \in Nat
      BY DEF FieldResults
    <2>2. DecodeField(ParamType(p, n, j), p, r.next) \in FieldResults
      BY <2>1, FieldAny
    <2> QED
      BY <2>2
  <1>3. step \in Steps(n, FieldResults)
    <2> HIDE DEF go
    <2> QED
      BY <1>2 DEF Steps
  <1>4. PICK g : Iterates(g, n, FieldResults, c, step)
    <2> HIDE DEF step, c
    <2> QED
      BY <1>1, <1>3, Recursive
  <1>5. g \in [0 .. n -> FieldResults] /\ g[0] = c
    <2> HIDE DEF step, c
    <2> QED
      BY <1>4 DEF Iterates
  <1>6. \A j \in 1 .. n : g[j] = go(j, g[j - 1])
    <2> HIDE DEF go, c
    <2> TAKE j \in 1 .. n
    <2>1. g[j] = step[j][g[j - 1]]
      <3> HIDE DEF step
      <3> QED
        BY <1>4 DEF Iterates
    <2>2. step[j] = [r \in FieldResults |-> go(j, r)]
      OBVIOUS
    <2>3. g[j - 1] \in FieldResults
      <3>1. j - 1 \in 0 .. n
        OBVIOUS
      <3> QED
        BY <1>5, <3>1
    <2> HIDE DEF step
    <2> QED
      BY <2>1, <2>2, <2>3
  <1> DEFINE Rec(f) == f = [j \in 0 .. n |->
                              IF j = 0 THEN c ELSE go(j, f[j - 1])]
             f == CHOOSE x : Rec(x)
  <1>7. Rec(g)
    <2> HIDE DEF go, c
    <2>1. g = [j \in 0 .. n |-> g[j]]
      BY <1>5
    <2>2. \A j \in 0 .. n : g[j] = IF j = 0 THEN c ELSE go(j, g[j - 1])
      <3> TAKE j \in 0 .. n
      <3>1. CASE j = 0
        BY <1>5, <3>1
      <3>2. CASE j # 0
        <4>1. j \in 1 .. n
          BY <3>2
        <4> QED
          BY <1>6, <3>2, <4>1
      <3> QED
        BY <3>1, <3>2
    <2> QED
      BY <2>1, <2>2
  <1>8. Rec(f)
    <2> HIDE DEF Rec
    <2> QED
      BY <1>7
  <1>9. Fields(p, n) = f
    BY DEF Fields
  <1>10. f = g
    <2> HIDE DEF f, go, c
    <2>1. \A j \in 0 .. n : f[j] = IF j = 0 THEN c ELSE go(j, f[j - 1])
      BY <1>8
    <2>2. f = [j \in 0 .. n |-> f[j]]
      <3>1. DOMAIN f = 0 .. n
        BY <1>8
      <3> QED
        BY <1>8, <3>1, Zenon
    <2> DEFINE P == {j \in 0 .. n : f[j] = g[j]}
    <2>3. 0 \in P
      BY <1>5, <2>1
    <2>4. \A j \in 1 .. n : j - 1 \in P => j \in P
      <3> SUFFICES ASSUME NEW j \in 1 .. n, j - 1 \in P PROVE f[j] = g[j]
        OBVIOUS
      <3>1. f[j - 1] = g[j - 1] /\ j \in 0 .. n /\ j # 0
        OBVIOUS
      <3> QED
        BY <1>6, <2>1, <3>1
    <2>5. 0 .. n \subseteq P
      <3> HIDE DEF P
      <3> QED
        BY <2>3, <2>4, IntervalInduction
    <2>6. \A j \in 0 .. n : f[j] = g[j]
      BY <2>5
    <2> QED
      BY <1>5, <2>2, <2>6
  <1>11. FieldsOf(g, p, n)
    BY <1>5, <1>6 DEF FieldsOf
  <1> QED
    <2> HIDE DEF f
    <2> QED
      BY <1>9, <1>10, <1>11

\* What is true of the fields after the j-th, if none of the first j is NULL:
\* g[j] is the concatenation of the first j values and begins at offset i.
Along(f, j, p, i, g, params) ==
  /\ f[j].err # "panic"
  /\ f[j].err = "nil" => \/ f[j].next = i + Len(g[j])
                         \/ f[j].next >= Len(p) /\ i + Len(g[j]) > Len(p)
  /\ f[j].err = "nil" /\ j > 0 => FadedSeq(f[j].val, params[j].val)
  /\ i + Len(g[j]) <= Len(p) =>
       /\ (\A k \in 1 .. j : params[k].type \in Known) => f[j].err = "nil"
       /\ f[j].err = "nil" /\ j > 0 => f[j].val = params[j].val

\* None of the first j parameters is NULL.
NoNull(params, j) == \A k \in 1 .. j : ~params[k].null

\* The fields before the first NULL are read as Along says.
LEMMA FieldsAlong ==
  ASSUME NEW p, NEW e, Beginning(p, e), NEW n \in Nat, NEW i \in Nat,
         NEW params, \A j \in 1 .. n : params[j] \in Param /\ Proper(params[j]),
         NEW ss \in Sequences(n), \A j \in 1 .. n : ss[j] = Value(params[j]),
         NEW g, Concats(g, n, ss), Holds(e, i, g[n]), i = ValuesFrom(p, n),
         \A j \in 1 .. n : ParamType(p, n, j) = params[j].type,
         NEW f, FieldsOf(f, p, n)
  PROVE  \A j \in 0 .. n : NoNull(params, j) => Along(f, j, p, i, g, params)
  <1> DEFINE P == {j \in 0 .. n : NoNull(params, j) =>
                                    Along(f, j, p, i, g, params)}
  <1>1. p \in Seq(Octet) /\ Len(p) \in Nat
    BY DEF Beginning
  <1>2. \A j \in 0 .. n : g[j] \in Seq(Octet) /\ Len(g[j]) \in Nat
    BY DEF Concats
  <1>3. \A j \in 1 .. n : Holds(e, i + Len(g[j - 1]), ss[j])
    BY FlattenHolds
  <1>4. 0 \in P
    <2>1. f[0].err = "nil" /\ f[0].next = i
      BY DEF FieldsOf
    <2>2. Len(g[0]) = 0
      BY DEF Concats
    <2>3. Along(f, 0, p, i, g, params)
      BY <2>1, <2>2 DEF Along
    <2> QED
      BY <2>3
  <1>5. ASSUME NEW j \in 1 .. n, j - 1 \in P, NoNull(params, j)
        PROVE  Along(f, j, p, i, g, params)
    <2>1. PICK h \in 0 .. n : h = j - 1
      OBVIOUS
    <2>2. Along(f, h, p, i, g, params) /\ ~params[j].null
      <3>1. NoNull(params, h)
        BY <1>5, <2>1 DEF NoNull
      <3>2. ~params[j].null
        BY <1>5 DEF NoNull
      <3> QED
        BY <1>5, <2>1, <3>1, <3>2
    <2>3. PICK q \in Param : q = params[j] /\ Proper(q) /\ ~q.null
      BY <2>2
    <2>4. Holds(e, i + Len(g[h]), Value(q))
      BY <1>3, <2>1, <2>3
    <2>5. Len(g[j]) = Len(g[h]) + Len(Value(q)) /\ Len(Value(q)) \in Nat
      <3>1. PICK v : v = Value(q)
        OBVIOUS
      <3>2. g[j] = g[h] \o v
        BY <2>1, <2>3, <3>1 DEF Concats
      <3>3. v \in Seq(Octet) /\ g[h] \in Seq(Octet)
        BY <1>2, <2>3, <3>1, ValueOctets
      <3> QED
        BY <3>1, <3>2, <3>3, Join
    <2>6. PICK d : d = DecodeField(q.type, p, f[h].next)
      OBVIOUS
    <2>7. f[j] = IF f[h].err # "nil" THEN f[h] ELSE d
      BY <2>1, <2>3, <2>6 DEF FieldsOf
    <2>8. f[h].next \in Nat
      BY <2>1 DEF FieldsOf, FieldResults
    <2>9. i + Len(g[h]) \in Nat /\ Len(g[h]) \in Nat /\ Len(g[j]) \in Nat
      BY <1>2
    <2>10. CASE f[h].err # "nil"
      <3>1. f[j] = f[h]
        BY <2>7, <2>10
      <3>2. ~(\A k \in 1 .. h : params[k].type \in Known)
              \/ ~(i + Len(g[h]) <= Len(p))
        BY <2>2, <2>10 DEF Along
      <3>3. i + Len(g[j]) <= Len(p) => i + Len(g[h]) <= Len(p)
        BY <1>1, <2>5, <2>9
      <3>4. (\A k \in 1 .. j : params[k].type \in Known) =>
              \A k \in 1 .. h : params[k].type \in Known
        BY <2>1
      <3>5. f[j].err # "nil" /\ f[j].err # "panic"
        BY <2>2, <2>10, <3>1 DEF Along
      <3> QED
        BY <3>2, <3>3, <3>4, <3>5 DEF Along
    <2>11. CASE f[h].err = "nil" /\ f[h].next = i + Len(g[h])
      <3>1. f[j] = d
        BY <2>7, <2>11
      <3>2. GoodField(d, p, i + Len(g[h]), q)
        BY <2>3, <2>4, <2>6, <2>11, FieldRead
      <3>3. i + Len(g[h]) + Len(Value(q)) = i + Len(g[j])
        BY <2>5, <2>9
      <3>4. (\A k \in 1 .. j : params[k].type \in Known) => q.type \in Known
        BY <2>3
      <3> QED
        BY <2>3, <3>1, <3>2, <3>3, <3>4 DEF Along, GoodField
    <2>12. CASE f[h].err = "nil" /\ f[h].next >= Len(p)
                  /\ i + Len(g[h]) > Len(p)
      <3>1. f[j] = d
        BY <2>7, <2>12
      <3>2. /\ d.err # "panic"
            /\ d.err = "nil" => d.next >= Len(p) /\ d.val = <<>>
        BY <1>1, <2>6, <2>8, <2>12, FieldAny
      <3>3. i + Len(g[j]) > Len(p) /\ ~(i + Len(g[j]) <= Len(p))
        BY <1>1, <2>5, <2>9, <2>12
      <3>4. FadedSeq(<<>>, q.val)
        BY <2>3, NothingFaded DEF Param
      <3> QED
        BY <2>3, <3>1, <3>2, <3>3, <3>4 DEF Along
    <2> QED
      BY <2>2, <2>10, <2>11, <2>12 DEF Along
  <1>6. 0 .. n \subseteq P
    <2>1. \A j \in 1 .. n : j - 1 \in P => j \in P
      BY <1>5
    <2> HIDE DEF P
    <2> QED
      BY <1>4, <2>1, IntervalInduction
  <1> QED
    BY <1>6

\* No field is decoded after one that failed.
LEMMA AllDecoded ==
  ASSUME NEW p, NEW n \in Nat, NEW f, FieldsOf(f, p, n), f[n].err = "nil"
  PROVE  \A j \in 0 .. n : f[j].err = "nil"
  <1> DEFINE P == {k \in 0 .. n : f[n - k].err = "nil"}
  <1>1. 0 \in P
    OBVIOUS
  <1>2. \A k \in 1 .. n : k - 1 \in P => k \in P
    <2> SUFFICES ASSUME NEW k \in 1 .. n, k - 1 \in P
                 PROVE  f[n - k].err = "nil"
      OBVIOUS
    <2>1. PICK j \in 1 .. n : j = n - (k - 1)
      OBVIOUS
    <2>2. f[j].err = "nil" /\ j - 1 = n - k
      BY <2>1
    <2>3. f[j] = IF f[j - 1].err # "nil" THEN f[j - 1]
                 ELSE DecodeField(ParamType(p, n, j), p, f[j - 1].next)
      BY DEF FieldsOf
    <2> QED
      BY <2>2, <2>3
  <1>3. 0 .. n \subseteq P
    <2> HIDE DEF P
    <2> QED
      BY <1>1, <1>2, IntervalInduction
  <1> TAKE j \in 0 .. n
  <1>4. n - j \in 0 .. n /\ n - (n - j) = j
    OBVIOUS
  <1>5. n - j \in P
    <2> HIDE DEF P
    <2> QED
      BY <1>3, <1>4
  <1> QED
    BY <1>4, <1>5

\* A parameter that is decoded has one of the three types.
LEMMA FieldKnown ==
  ASSUME NEW p \in Seq(Octet), NEW n \in Nat, NEW f, FieldsOf(f, p, n),
         NEW j \in 1 .. n, f[j].err = "nil"
  PROVE  ParamType(p, n, j) \in Known
  <1>1. PICK h \in 0 .. n : h = j - 1
    OBVIOUS
  <1>2. PICK t : t = ParamType(p, n, j)
    OBVIOUS
  <1>3. f[j] = IF f[h].err # "nil" THEN f[h] ELSE DecodeField(t, p, f[h].next)
    BY <1>1, <1>2 DEF FieldsOf
  <1>4. f[h].next \in Nat
    BY <1>1 DEF FieldsOf, FieldResults
  <1>5. DecodeField(t, p, f[h].next).err = "nil" => t \in Known
    BY <1>4, FieldAny
  <1> QED
    BY <1>2, <1>3, <1>5

\* Without types nothing is decoded.
LEMMA Untyped ==
  ASSUME NEW p \in Seq(Octet), NEW n \in Nat, n > 0, NEW f,
         FieldsOf(f, p, n), ~Typed(p, n)
  PROVE  f[n].err = "field"
  <1> DEFINE P == {j \in 0 .. n : j > 0 => f[j].err = "field"}
  <1>1. \A j \in 1 .. n : ParamType(p, n, j) \notin Known
    <2>1. 0 \notin Known
      BY DEF Known, FieldTypeString, FieldTypeLongLong, FieldTypeDouble
    <2> QED
      BY <2>1 DEF ParamType
  <1>2. \A j \in 1 .. n : j - 1 \in P => j \in P
    <2> SUFFICES ASSUME NEW j \in 1 .. n, j - 1 \in P
                 PROVE  f[j].err = "field"
      OBVIOUS
    <2>1. PICK h \in 0 .. n : h = j - 1
      OBVIOUS
    <2>2. PICK t : t = ParamType(p, n, j)
      OBVIOUS
    <2>3. f[j] = IF f[h].err # "nil" THEN f[h]
                 ELSE DecodeField(t, p, f[h].next)
      BY <2>1, <2>2 DEF FieldsOf
    <2>4. DecodeField(t, p, f[h].next).err = "field"
      BY <1>1, <2>2, OtherField
    <2>5. CASE h > 0
      BY <2>1, <2>3, <2>5
    <2>6. CASE h = 0
      <3>1. f[0].err = "nil"
        BY DEF FieldsOf
      <3> QED
        BY <2>3, <2>4, <2>6, <3>1
    <2> QED
      BY <2>5, <2>6
  <1>3. 0 .. n \subseteq P
    <2>1. 0 \in P
      OBVIOUS
    <2> HIDE DEF P
    <2> QED
      BY <1>2, <2>1, IntervalInduction
  <1> QED
    BY <1>3

-----------------------------------------------------------------------------
(* The capabilities of the handshake, which are read in two halves.         *)

\* The flags that the decoder looks at.
LEMMA FlagsOf ==
  ASSUME NEW c, NEW d, c[2] = d[2], c[3] = d[3]
  PROVE  /\ Flag(c, PluginAuth) <=> Flag(d, PluginAuth)
         /\ Flag(c, SecureConnection) <=> Flag(d, SecureConnection)
  <1>1. PluginAuth \div 8 + 1 = 3 /\ SecureConnection \div 8 + 1 = 2
    BY DEF PluginAuth, SecureConnection
  <1> QED
    BY <1>1 DEF Flag

\* The elements of two pairs in a row.
LEMMA TwoAndTwo ==
  ASSUME NEW S, NEW x \in Seq(S), NEW y \in Seq(S)
  PROVE  Len(x) = 2 /\ Len(y) = 2 =>
           /\ (x \o y)[1] = x[1] /\ (x \o y)[2] = x[2]
           /\ (x \o y)[3] = y[1] /\ (x \o y)[4] = y[2]
  <1>4. PICK z : z = x \o y
    OBVIOUS
  <1>5. /\ \A j \in 1 .. Len(x) : z[j] = x[j]
        /\ \A j \in 1 .. Len(y) : z[Len(x) + j] = y[j]
    <2>1. /\ \A j \in 1 .. Len(x) : (x \o y)[j] = x[j]
          /\ \A j \in 1 .. Len(y) : (x \o y)[Len(x) + j] = y[j]
      BY JoinAt
    <2> QED
      BY <1>4, <2>1, Zenon
  <1> SUFFICES ASSUME Len(x) = 2, Len(y) = 2
               PROVE  /\ z[1] = x[1] /\ z[2] = x[2]
                      /\ z[3] = y[1] /\ z[4] = y[2]
    BY <1>4
  <1>7. z[1] = x[1] /\ z[2] = x[2]
    BY <1>5
  <1>8. z[2 + 1] = y[1] /\ z[2 + 2] = y[2]
    BY <1>5
  <1>9. z[3] = y[1] /\ z[4] = y[2]
    BY <1>8
  <1> QED
    BY <1>7, <1>9

\* The bytes of a field of four.
LEMMA FourOctets ==
  ASSUME NEW c \in Text(4)
  PROVE  c[1] \in Octet /\ c[2] \in Octet /\ c[3] \in Octet /\ c[4] \in Octet
  BY FourOf DEF Text

\* Two pairs of bytes in a row are four bytes.
LEMMA JoinTwo ==
  ASSUME NEW x, NEW y, Sized(x, 2), Sized(y, 2)
  PROVE  /\ Sized(x \o y, 4)
         /\ (x \o y)[1] = x[1] /\ (x \o y)[2] = x[2]
         /\ (x \o y)[3] = y[1] /\ (x \o y)[4] = y[2]
  <1>1. x \in Seq(Octet) /\ y \in Seq(Octet) /\ Len(x) = 2 /\ Len(y) = 2
    BY DEF Sized
  <1>2. Sized(x \o y, 4)
    <2>1. Sized(x \o y, 2 + 2)
      BY SizedJoin
    <2> QED
      BY <2>1
  <1> QED
    BY <1>1, <1>2, TwoAndTwo

\* Two bytes at i of which the first is read, and the second perhaps.
LEMMA PairRead ==
  ASSUME NEW p, NEW e, Beginning(p, e), NEW i \in Nat, NEW b, Sized(b, 2),
         Holds(e, i, b), i < Len(p)
  PROVE  /\ Sized(Bytes(p, i, 2), 2) /\ Bytes(p, i, 2)[1] = b[1]
         /\ Bytes(p, i, 2)[2] = IF i + 2 <= Len(p) THEN b[2] ELSE 0
  <1>1. Len(b) = 2 /\ Len(p) \in Nat
    BY DEF Sized, Beginning
  <1>2. PICK n : n = Len(b)
    OBVIOUS
  <1>3. /\ Len(Bytes(p, i, n)) = n /\ Bytes(p, i, n) \in Seq(Octet)
        /\ \A j \in 1 .. n :
             Bytes(p, i, n)[j] = IF i + j <= Len(p) THEN b[j] ELSE 0
    BY <1>2, BytesRead
  <1>4. n = 2
    BY <1>1, <1>2
  <1>5. PICK y : y = Bytes(p, i, 2)
    OBVIOUS
  <1>6. /\ Len(y) = 2 /\ y \in Seq(Octet)
        /\ \A j \in 1 .. 2 : y[j] = IF i + j <= Len(p) THEN b[j] ELSE 0
    BY <1>3, <1>4, <1>5
  <1>7. y[1] = IF i + 1 <= Len(p) THEN b[1] ELSE 0
    BY <1>6
  <1>8. y[2] = IF i + 2 <= Len(p) THEN b[2] ELSE 0
    BY <1>6
  <1>9. i + 1 <= Len(p)
    BY <1>1
  <1> QED
    BY <1>5, <1>6, <1>7, <1>8, <1>9 DEF Sized

\* Four bytes of which the last may be zeroed.
LEMMA FadedFour ==
  ASSUME NEW d, NEW c, Sized(d, 4), Sized(c, 4), d[1] = c[1], d[2] = c[2],
         d[3] = c[3], d[4] = c[4] \/ d[4] = 0
  PROVE  /\ FadedSeq(d, c)
         /\ d[4] = c[4] => d = c
  <1>1. /\ DOMAIN d = 1 .. 4 /\ 3 \in 0 .. Len(d) /\ 4 \in 0 .. Len(d)
        /\ Len(d) <= Len(c) /\ d \in Seq(Octet) /\ c \in Seq(Octet)
        /\ Len(d) = 4 /\ Len(c) = 4
    BY DEF Sized
  <1>2. CASE d[4] = c[4]
    <2>1. \A j \in 1 .. 4 : d[j] = c[j]
      BY <1>2
    <2>2. \A j \in 1 .. 4 : d[j] = IF j <= 4 THEN c[j] ELSE 0
      BY <2>1
    <2>3. d = c
      BY <1>1, <2>1
    <2> QED
      BY <1>1, <2>2, <2>3 DEF FadedSeq
  <1>3. CASE d[4] # c[4]
    <2>1. \A j \in 1 .. 4 : d[j] = IF j <= 3 THEN c[j] ELSE 0
      BY <1>3
    <2> QED
      BY <1>1, <1>3, <2>1 DEF FadedSeq
  <1> QED
    BY <1>2, <1>3

\* The capabilities d that are read at i and k from a packet that has three
\* bytes of them.
CapsAt(p, e, i, k, c, d) ==
  /\ Beginning(p, e) /\ i \in Nat /\ k \in Nat /\ i + 2 <= k /\ c \in Text(4)
  /\ Holds(e, i, <<c[1], c[2]>>) /\ Holds(e, k, <<c[3], c[4]>>)
  /\ k < Len(p) /\ d = Bytes(p, i, 2) \o Bytes(p, k, 2)

\* All but the last byte of the capabilities are those sent.
LEMMA CapsRead ==
  ASSUME NEW p, NEW e, NEW i, NEW k, NEW c, NEW d, CapsAt(p, e, i, k, c, d)
  PROVE  /\ FadedSeq(d, c) /\ d[2] = c[2] /\ d[3] = c[3]
         /\ p = e => d = c
  <1>0. /\ Beginning(p, e) /\ i \in Nat /\ k \in Nat /\ i + 2 <= k
        /\ c \in Text(4)
        /\ Holds(e, i, <<c[1], c[2]>>) /\ Holds(e, k, <<c[3], c[4]>>)
        /\ k < Len(p) /\ d = Bytes(p, i, 2) \o Bytes(p, k, 2)
    BY DEF CapsAt
  <1>1. c \in Seq(Octet) /\ Len(c) = 4 /\ Len(p) \in Nat
    BY <1>0 DEF Text, Beginning
  <1>2. c[1] \in Octet /\ c[2] \in Octet /\ c[3] \in Octet /\ c[4] \in Octet
    BY <1>0, FourOctets
  <1>3. PICK a : a = <<c[1], c[2]>>
    OBVIOUS
  <1>4. PICK b : b = <<c[3], c[4]>>
    OBVIOUS
  <1>5. Sized(a, 2) /\ Sized(b, 2)
    BY <1>0, <1>2, <1>3, <1>4, SizedPair
  <1>6. a[1] = c[1] /\ a[2] = c[2] /\ b[1] = c[3] /\ b[2] = c[4]
    BY <1>0, <1>3, <1>4
  <1>7. PICK x : x = Bytes(p, i, 2)
    OBVIOUS
  <1>8. PICK y : y = Bytes(p, k, 2)
    OBVIOUS
  <1>9. /\ Sized(x, 2) /\ x[1] = a[1]
        /\ x[2] = IF i + 2 <= Len(p) THEN a[2] ELSE 0
    <2>1. i < Len(p)
      BY <1>0, <1>1
    <2> QED
      BY <1>0, <1>3, <1>5, <1>7, <2>1, PairRead
  <1>10. /\ Sized(y, 2) /\ y[1] = b[1]
         /\ y[2] = IF k + 2 <= Len(p) THEN b[2] ELSE 0
    BY <1>0, <1>4, <1>5, <1>8, PairRead
  <1>11. d = x \o y
    BY <1>0, <1>7, <1>8
  <1>12. /\ Sized(d, 4) /\ d[1] = x[1] /\ d[2] = x[2] /\ d[3] = y[1]
         /\ d[4] = y[2]
    <2>1. /\ Sized(x \o y, 4)
          /\ (x \o y)[1] = x[1] /\ (x \o y)[2] = x[2]
          /\ (x \o y)[3] = y[1] /\ (x \o y)[4] = y[2]
      <3>1. Sized(x, 2) /\ Sized(y, 2)
        BY <1>9, <1>10
      <3> QED
        BY <3>1, JoinTwo, Zenon
    <2> QED
      BY <1>0, <1>11, <2>1, Zenon
  <1>13. i + 2 <= Len(p)
    BY <1>0, <1>1
  <1>14. d[1] = c[1] /\ d[2] = c[2] /\ d[3] = c[3]
         /\ d[4] = (IF k + 2 <= Len(p) THEN c[4] ELSE 0)
    BY <1>0, <1>6, <1>9, <1>10, <1>12, <1>13
  <1>15. Sized(c, 4)
    BY <1>0, <1>1 DEF Sized
  <1>16. FadedSeq(d, c) /\ (d[4] = c[4] => d = c)
    BY <1>0, <1>12, <1>14, <1>15, FadedFour
  <1>17. p = e => k + 2 <= Len(p)
    <2>1. Len(b) = 2
      BY <1>0, <1>5 DEF Sized
    <2> QED
      BY <1>0, <1>4, <2>1 DEF Holds
  <1>18. p = e => d = c
    BY <1>0, <1>14, <1>16, <1>17
  <1> QED
    BY <1>0, <1>14, <1>16, <1>18
=============================================================================
