---------------------------- MODULE ProxyProofs ----------------------------
(***************************************************************************)
(* Theorems about module Proxy, for any number of connections, chunks and  *)
(* parts of an answer: what TLC checks on the instances of MCProxy holds   *)
(* of every one of them.                                                   *)
(***************************************************************************)
EXTENDS Proxy, TLAPS

-----------------------------------------------------------------------------
(* The inductive invariant.                                                *)

\* Where the goroutines are, together with what they offer to the hub and
\* with the two ends of the connection: before net.Dial has returned there is
\* nothing to copy, and after a failed one there never will be.
StageInv ==
  \A k \in Conns :
    /\ app[k] = "absent" <=> down[k] = "absent"
    /\ down[k] \in {"absent", "dial"} => up[k] = "absent"
    /\ up[k] = "absent" => /\ down[k] \in {"absent", "dial", "done"}
                           /\ sent[k] = <<>> /\ resp[k] = <<>>
                           /\ server[k] = "absent"
    /\ upOffer[k] # Nothing <=> up[k] = "send"
    /\ downOffer[k] # Nothing <=> down[k] \in {"send", "finish"}
    /\ down[k] = "finish" => downOffer[k] = Finished(k)
    /\ down[k] \in Busy => rfwd[k] > 0
    /\ down[k] = "write" => rfwd[k] < Len(resp[k])

\* The request goroutine: queryId is the number of chunks forwarded, or one
\* less while the last is not counted; timer is the start time of the last
\* chunk counted, unless it is being written; what is offered is the report of
\* the last chunk forwarded.
CountInv ==
  \A k \in Conns :
    /\ fwd[k] = queryId[k] + (IF up[k] = "count" THEN 1 ELSE 0)
    /\ timer[k] = IF up[k] = "stamp" THEN Torn ELSE queryId[k]
    /\ up[k] \in {"stamp", "send"} => fwd[k] > 0
    /\ up[k] = "send" =>
         \/ upOffer[k] = Cmd(k, fwd[k]) /\ sent[k][fwd[k]] \in Published
         \/ upOffer[k] = Finished(k) /\ sent[k][fwd[k]] \notin Published

\* The protocol: answers come in the order of the commands, to commands that
\* have been forwarded, and the application has read the whole answer to every
\* command that wants one before it sends the next.
TurnInv ==
  \A k \in Conns :
    /\ \A i \in 1 .. Len(resp[k]) : resp[k][i].for <= fwd[k]
    /\ \A i \in 1 .. Len(resp[k]) : \A j \in 1 .. i :
         resp[k][j].for <= resp[k][i].for
    /\ \A n \in 1 .. Len(sent[k]) - 1 :
         sent[k][n] \in Answered =>
           \E i \in 1 .. rfwd[k] : resp[k][i].for = n

\* The Cmds received are those of earlier chunks than the one in hand.
CmdInv ==
  \A k \in Conns : \A i \in 1 .. Len(feed) :
    IsCmd(i, k) =>
      /\ feed[i].id \in 1 .. fwd[k]
      /\ up[k] \in Reporting => feed[i].id < fwd[k]
      /\ sent[k][feed[i].id] \in Published

\* What can be said of a result from the moment it is built.
Sound(r, k) ==
  /\ r.id <= queryId[k]
  /\ r.for <= fwd[k]
  /\ r.id >= r.for - 1
  /\ r.own => r.id >= r.for
  /\ \A n \in r.for + 1 .. r.id - 1 : sent[k][n] \notin Answered

\* handleConnection: the timer it has read is not newer than queryId, and the
\* result it offers is that of the chunk in hand, comes after those already
\* received, and after the Cmds of the chunks before the one it answers.
ResultInv ==
  \A k \in Conns :
    /\ since[k] \in Nat => since[k] <= queryId[k]
    /\ \A i \in 1 .. Len(feed) : IsResult(i, k) => Sound(feed[i], k)
    /\ down[k] = "send" =>
         LET r == downOffer[k] IN
         /\ r.type = "CmdResult" /\ r.conn = k
         /\ r.chunk = rfwd[k]
         /\ r.for = resp[k][rfwd[k]].for /\ r.err = resp[k][rfwd[k]].ff
         /\ Sound(r, k)
         /\ \A i \in 1 .. Len(feed) : IsResult(i, k) => feed[i].id <= r.id
         /\ \A n \in 1 .. r.for - 1 :
              sent[k][n] \in Published =>
                \E i \in 1 .. Len(feed) : feed[i] = Cmd(k, n)

IInv ==
  /\ TypeOK /\ StageInv /\ CountInv /\ TurnInv /\ CmdInv /\ ResultInv
  /\ NoCmdLost /\ AnswersReportedOnce /\ EarlierCmdsFirst /\ IdsInOrder

-----------------------------------------------------------------------------
(* Operators and sequences.                                                *)

\* The reports are told apart by their fields, and none is Nothing.
LEMMA ReportFacts ==
  ASSUME NEW k \in Conns, NEW n \in Nat
  PROVE  /\ Cmd(k, n) \in Reports /\ Cmd(k, n) # Nothing
         /\ Cmd(k, n).type = "Cmd" /\ Cmd(k, n).conn = k /\ Cmd(k, n).id = n
         /\ Finished(k) \in Reports /\ Finished(k) # Nothing
         /\ Finished(k).type = "ConnState" /\ Finished(k).conn = k
  BY NothingAssumption DEF Cmd, Finished, Reports

LEMMA ResultFacts ==
  ASSUME NEW k \in Conns, NEW n \in Nat, NEW e \in BOOLEAN, NEW f \in Nat,
         NEW c \in Nat, NEW t \in Times
  PROVE  LET r == CmdResult(k, n, e, f, c, t) IN
         /\ r \in Reports /\ r # Nothing
         /\ r.type = "CmdResult" /\ r.conn = k /\ r.id = n /\ r.err = e
         /\ r.for = f /\ r.chunk = c /\ r.own = (t = f)
  <1> DEFINE r == CmdResult(k, n, e, f, c, t)
  <1>1. r.type = "CmdResult" /\ r.conn = k /\ r.id = n /\ r.err = e
    BY DEF CmdResult
  <1>2. r.for = f /\ r.chunk = c /\ r.own = (t = f)
    BY DEF CmdResult
  <1>3. (t = f) \in BOOLEAN
    OBVIOUS
  <1>4. r \in Reports
    BY <1>3 DEF CmdResult, Reports
  <1> QED
    BY <1>1, <1>2, <1>4, NothingAssumption

LEMMA FieldTypes ==
  ASSUME NEW r \in Reports
  PROVE  /\ r.conn \in Conns
         /\ r.type = "Cmd" => r.id \in Nat
         /\ r.type = "CmdResult" =>
              r.id \in Nat /\ r.for \in Nat /\ r.chunk \in Nat
  BY DEF Reports

LEMMA FeedAppend ==
  ASSUME feed \in Seq(Reports), NEW r \in Reports, feed' = Append(feed, r)
  PROVE  /\ feed' \in Seq(Reports) /\ Len(feed) \in Nat
         /\ Len(feed') = Len(feed) + 1
         /\ \A i \in 1 .. Len(feed) : feed'[i] = feed[i]
         /\ feed'[Len(feed')] = r
  OBVIOUS

-----------------------------------------------------------------------------

LEMMA InitInv == Init => IInv
  <1> SUFFICES ASSUME Init PROVE IInv
    OBVIOUS
  <1> USE DEF Init
  <1>1. TypeOK
    BY DEF TypeOK, UpState, DownState, Times
  <1>2. StageInv /\ CountInv /\ TurnInv
    BY DEF StageInv, CountInv, TurnInv, Busy
  <1>3. CmdInv /\ ResultInv /\ NoCmdLost /\ AnswersReportedOnce
    BY DEF CmdInv, ResultInv, NoCmdLost, AnswersReportedOnce, Busy
  <1>4. EarlierCmdsFirst /\ IdsInOrder
    BY DEF EarlierCmdsFirst, IdsInOrder
  <1> QED
    BY <1>1, <1>2, <1>3, <1>4 DEF IInv

\* The parts of the invariant that a step does not disturb, by what it leaves
\* alone.
LEMMA KeptParts ==
  ASSUME IInv
  PROVE  /\ UNCHANGED <<sent, resp, fwd, rfwd>> => TurnInv'
         /\ /\ UNCHANGED <<sent, fwd, feed>>
            /\ \A q \in Conns : up'[q] \in Reporting <=> up[q] \in Reporting
            => (CmdInv /\ NoCmdLost)'
         /\ UNCHANGED <<sent, fwd, queryId, timer, up, upOffer>> => CountInv'
         /\ UNCHANGED <<sent, feed>> => (EarlierCmdsFirst /\ IdsInOrder)'
         /\ /\ UNCHANGED <<resp, rfwd, feed>>
            /\ \A q \in Conns : down'[q] \in Busy <=> down[q] \in Busy
            => AnswersReportedOnce'
         /\ /\ UNCHANGED <<since, queryId, sent, fwd, rfwd, resp, feed>>
            /\ \A q \in Conns : down'[q] = "send" =>
                 down[q] = "send" /\ downOffer'[q] = downOffer[q]
            => ResultInv'
  <1> USE DEF IInv
  <1>1. ASSUME UNCHANGED <<sent, resp, fwd, rfwd>> PROVE TurnInv'
    BY <1>1 DEF TurnInv
  <1>2. ASSUME UNCHANGED <<sent, fwd, feed>>,
               \A q \in Conns : up'[q] \in Reporting <=> up[q] \in Reporting
        PROVE  CmdInv'
    BY <1>2 DEF CmdInv, IsCmd
  <1>3. ASSUME UNCHANGED <<sent, fwd, feed>>,
               \A q \in Conns : up'[q] \in Reporting <=> up[q] \in Reporting
        PROVE  NoCmdLost'
    BY <1>3 DEF NoCmdLost
  <1>4. ASSUME UNCHANGED <<sent, fwd, queryId, timer, up, upOffer>>
        PROVE  CountInv'
    BY <1>4 DEF CountInv
  <1>5. ASSUME UNCHANGED <<sent, feed>> PROVE EarlierCmdsFirst'
    BY <1>5 DEF EarlierCmdsFirst, IsResult
  <1>6. ASSUME UNCHANGED <<sent, feed>> PROVE IdsInOrder'
    BY <1>6 DEF IdsInOrder, IsResult, IsCmd
  <1>7. ASSUME UNCHANGED <<resp, rfwd, feed>>,
               \A q \in Conns : down'[q] \in Busy <=> down[q] \in Busy
        PROVE  AnswersReportedOnce'
    BY <1>7 DEF AnswersReportedOnce, IsResult
  <1>8. ASSUME UNCHANGED <<since, queryId, sent, fwd, rfwd, resp, feed>>,
               \A q \in Conns : down'[q] = "send" =>
                 down[q] = "send" /\ downOffer'[q] = downOffer[q]
        PROVE  ResultInv'
    BY <1>8 DEF ResultInv, IsResult, Sound
  <1> QED
    BY <1>1, <1>2, <1>3, <1>4, <1>5, <1>6, <1>7, <1>8

\* What is true of a result stays true while chunks are sent, forwarded and
\* counted.
LEMMA SoundKept ==
  ASSUME TypeOK, CountInv, NEW q \in Conns, NEW r \in Reports,
         r.type = "CmdResult", Sound(r, q),
         queryId'[q] \in Nat, queryId[q] <= queryId'[q],
         fwd'[q] \in Nat, fwd[q] <= fwd'[q],
         \A n \in 1 .. Len(sent[q]) : sent'[q][n] = sent[q][n]
  PROVE  Sound(r, q)'
  <1>1. /\ r.id \in Nat /\ r.for \in Nat
        /\ queryId[q] \in Nat /\ fwd[q] \in Nat /\ Len(sent[q]) \in Nat
    BY FieldTypes DEF TypeOK
  <1>2. queryId[q] <= Len(sent[q])
    <2>1. fwd[q] <= Len(sent[q])
      BY DEF TypeOK
    <2>2. fwd[q] = queryId[q] + (IF up[q] = "count" THEN 1 ELSE 0)
      BY DEF CountInv
    <2> QED
      BY <1>1, <2>1, <2>2
  <1>3. r.id <= queryId'[q] /\ r.for <= fwd'[q]
    BY <1>1 DEF Sound
  <1>4. r.id >= r.for - 1 /\ (r.own => r.id >= r.for)
    BY DEF Sound
  <1>5. ASSUME NEW n \in r.for + 1 .. r.id - 1
        PROVE  sent'[q][n] \notin Answered
    <2>1. n \in 1 .. Len(sent[q]) /\ sent[q][n] \notin Answered
      BY <1>1, <1>2 DEF Sound
    <2> QED
      BY <2>1
  <1> QED
    BY <1>3, <1>4, <1>5 DEF Sound

LEMMA ResultKept ==
  ASSUME IInv, UNCHANGED <<rfwd, feed>>,
         \A q \in Conns :
           /\ queryId'[q] \in Nat /\ queryId[q] <= queryId'[q]
           /\ fwd'[q] \in Nat /\ fwd[q] <= fwd'[q]
           /\ \A n \in 1 .. Len(sent[q]) : sent'[q][n] = sent[q][n]
           /\ \A i \in 1 .. Len(resp[q]) : resp'[q][i] = resp[q][i]
           /\ since'[q] \in Nat => since'[q] <= queryId'[q]
           /\ down'[q] = "send" => /\ down[q] = "send"
                                   /\ downOffer'[q] = downOffer[q]
  PROVE  ResultInv'
  <1>1. \A i \in 1 .. Len(feed) : feed[i] \in Reports
    BY DEF IInv, TypeOK
  <1>2. ASSUME NEW q \in Conns, NEW i \in 1 .. Len(feed), IsResult(i, q)
        PROVE  Sound(feed[i], q)'
    <2>1. Sound(feed[i], q)
      BY <1>2 DEF IInv, ResultInv
    <2>2. ASSUME NEW r \in Reports, r = feed[i] PROVE Sound(r, q)'
      BY <1>2, <2>1, <2>2, SoundKept DEF IInv, IsResult
    <2> QED
      BY <1>1, <2>2 DEF Sound
  <1>3. ASSUME NEW q \in Conns, down'[q] = "send"
        PROVE  LET r == downOffer'[q] IN
               /\ r.type = "CmdResult" /\ r.conn = q
               /\ r.chunk = rfwd'[q]
               /\ r.for = resp'[q][rfwd'[q]].for
               /\ r.err = resp'[q][rfwd'[q]].ff
               /\ Sound(downOffer[q], q)'
               /\ \A i \in 1 .. Len(feed') :
                    IsResult(i, q)' => feed'[i].id <= r.id
               /\ \A n \in 1 .. r.for - 1 :
                    sent'[q][n] \in Published =>
                      \E i \in 1 .. Len(feed') : feed'[i] = Cmd(q, n)
    <2> DEFINE r == downOffer[q]
    <2>1. r \in Reports /\ downOffer'[q] = r /\ rfwd'[q] = rfwd[q]
      BY <1>3 DEF IInv, TypeOK, StageInv
    <2>2. rfwd[q] \in 1 .. Len(resp[q])
      BY <1>3 DEF IInv, TypeOK, StageInv, Busy
    <2>3. /\ r.type = "CmdResult" /\ r.conn = q /\ r.chunk = rfwd[q]
          /\ r.for = resp[q][rfwd[q]].for /\ r.err = resp[q][rfwd[q]].ff
          /\ Sound(r, q)
          /\ \A i \in 1 .. Len(feed) : IsResult(i, q) => feed[i].id <= r.id
          /\ \A n \in 1 .. r.for - 1 :
               sent[q][n] \in Published =>
                 \E i \in 1 .. Len(feed) : feed[i] = Cmd(q, n)
      BY <1>3 DEF IInv, ResultInv
    <2>4. resp'[q][rfwd[q]] = resp[q][rfwd[q]]
      BY <2>2
    <2>5. ASSUME NEW x \in Reports, x = r PROVE Sound(x, q)'
      BY <2>5, <2>3, SoundKept DEF IInv
    <2>6. Sound(downOffer[q], q)'
      BY <2>1, <2>5 DEF Sound
    <2>7. /\ r.for \in Nat /\ fwd[q] \in Nat /\ Len(sent[q]) \in Nat
          /\ fwd[q] <= Len(sent[q])
      BY <2>1, <2>3, FieldTypes DEF IInv, TypeOK
    <2>8. ASSUME NEW n \in 1 .. r.for - 1
          PROVE  sent'[q][n] = sent[q][n]
      <3>1. n \in 1 .. Len(sent[q])
        BY <2>3, <2>7 DEF Sound
      <3> QED
        BY <3>1
    <2> QED
      BY <2>1, <2>3, <2>4, <2>6, <2>8 DEF IsResult
  <1> QED
    BY <1>2, <1>3 DEF ResultInv, IsResult

\* handleConnection starts.
LEMMA AcceptInv ==
  ASSUME IInv, NEW k \in Conns, Accept(k)
  PROVE  IInv'
  <1> USE DEF Accept, shared, hubSide
  <1>1. TypeOK'
    BY DEF IInv, TypeOK, UpState, DownState
  <1>2. StageInv'
    BY DEF IInv, TypeOK, StageInv, Busy
  <1>3. \A q \in Conns : down'[q] \in Busy <=> down[q] \in Busy
    BY DEF IInv, TypeOK, StageInv, Busy
  <1>4. \A q \in Conns : down'[q] = "send" =>
          down[q] = "send" /\ downOffer'[q] = downOffer[q]
    BY DEF IInv, TypeOK
  <1> QED
    BY <1>1, <1>2, <1>3, <1>4, KeptParts DEF IInv

\* net.Dial succeeds and both copies start.
LEMMA DialInv ==
  ASSUME IInv, NEW k \in Conns, Dial(k)
  PROVE  IInv'
  <1> USE DEF Dial, sockets, shared, hubSide
  <1>1. TypeOK'
    BY DEF IInv, TypeOK, UpState, DownState
  <1>2. StageInv'
    BY DEF IInv, TypeOK, StageInv, Busy
  <1>3. CountInv'
    BY DEF IInv, TypeOK, StageInv, CountInv
  <1>4. \A q \in Conns : up'[q] \in Reporting <=> up[q] \in Reporting
    BY DEF IInv, TypeOK, StageInv, Reporting
  <1>5. \A q \in Conns : down'[q] \in Busy <=> down[q] \in Busy
    BY DEF IInv, TypeOK, StageInv, Busy
  <1>6. \A q \in Conns : down'[q] = "send" =>
          down[q] = "send" /\ downOffer'[q] = downOffer[q]
    BY DEF IInv, TypeOK
  <1> QED
    BY <1>1, <1>2, <1>3, <1>4, <1>5, <1>6, KeptParts DEF IInv

\* net.Dial fails.
LEMMA DialFailsInv ==
  ASSUME IInv, NEW k \in Conns, DialFails(k)
  PROVE  IInv'
  <1> USE DEF DialFails, sockets, shared, hubSide
  <1>1. TypeOK'
    BY DEF IInv, TypeOK, UpState, DownState
  <1>2. StageInv'
    BY DEF IInv, TypeOK, StageInv, Busy
  <1>3. \A q \in Conns : down'[q] \in Busy <=> down[q] \in Busy
    BY DEF IInv, TypeOK, StageInv, Busy
  <1>4. \A q \in Conns : down'[q] = "send" =>
          down[q] = "send" /\ downOffer'[q] = downOffer[q]
    BY DEF IInv, TypeOK
  <1> QED
    BY <1>1, <1>2, <1>3, <1>4, KeptParts DEF IInv

\* The second copy ends and ConnState is offered.
LEMMA FinishInv ==
  ASSUME IInv, NEW k \in Conns, Finish(k)
  PROVE  IInv'
  <1> USE DEF Finish, sockets, shared
  <1>1. TypeOK'
    BY ReportFacts, 0 \in Nat DEF IInv, TypeOK, UpState, DownState
  <1>2. StageInv'
    BY ReportFacts, 0 \in Nat DEF IInv, TypeOK, StageInv, Busy
  <1>3. \A q \in Conns : down'[q] \in Busy <=> down[q] \in Busy
    BY DEF IInv, TypeOK, StageInv, Busy
  <1>4. \A q \in Conns : down'[q] = "send" =>
          down[q] = "send" /\ downOffer'[q] = downOffer[q]
    BY DEF IInv, TypeOK
  <1> QED
    BY <1>1, <1>2, <1>3, <1>4, KeptParts DEF IInv

\* The sockets are closed.
LEMMA CloseInv ==
  ASSUME IInv, NEW k \in Conns, Close(k)
  PROVE  IInv'
  <1> USE DEF Close, sockets, shared, hubSide
  <1>1. TypeOK'
    BY DEF IInv, TypeOK, UpState, DownState
  <1>2. StageInv'
    BY DEF IInv, TypeOK, StageInv, Busy
  <1>3. \A q \in Conns : down'[q] \in Busy <=> down[q] \in Busy
    BY DEF IInv, TypeOK, StageInv, Busy
  <1>4. \A q \in Conns : down'[q] = "send" =>
          down[q] = "send" /\ downOffer'[q] = downOffer[q]
    BY DEF IInv, TypeOK
  <1> QED
    BY <1>1, <1>2, <1>3, <1>4, KeptParts DEF IInv

\* The request goroutine ends, between two chunks.
LEMMA UpEndsInv ==
  ASSUME IInv, NEW k \in Conns, UpEnds(k)
  PROVE  IInv'
  <1> USE DEF UpEnds, sockets, shared, hubSide
  <1>1. TypeOK'
    BY DEF IInv, TypeOK, UpState, DownState
  <1>2. StageInv'
    BY DEF IInv, TypeOK, StageInv, Busy
  <1>3. CountInv'
    BY DEF IInv, TypeOK, StageInv, CountInv
  <1>4. \A q \in Conns : up'[q] \in Reporting <=> up[q] \in Reporting
    BY DEF IInv, TypeOK, StageInv, Reporting
  <1> QED
    BY <1>1, <1>2, <1>3, <1>4, KeptParts DEF IInv

\* The application leaves.
LEMMA AppCloseInv ==
  ASSUME IInv, NEW k \in Conns, AppClose(k)
  PROVE  IInv'
  <1> USE DEF AppClose, shared, hubSide
  <1>1. TypeOK'
    BY DEF IInv, TypeOK, UpState, DownState
  <1>2. StageInv'
    BY DEF IInv, TypeOK, StageInv, Busy
  <1> QED
    BY <1>1, <1>2, KeptParts DEF IInv

\* The server ends the connection.
LEMMA ServerCloseInv ==
  ASSUME IInv, NEW k \in Conns, ServerClose(k)
  PROVE  IInv'
  <1> USE DEF ServerClose, shared, hubSide
  <1>1. TypeOK'
    BY DEF IInv, TypeOK, UpState, DownState
  <1>2. StageInv'
    BY DEF IInv, TypeOK, StageInv, Busy
  <1> QED
    BY <1>1, <1>2, KeptParts DEF IInv

\* A chunk has been written to the server and is not counted yet.
LEMMA ForwardInv ==
  ASSUME IInv, NEW k \in Conns, Forward(k)
  PROVE  IInv'
  <1> USE DEF Forward, sockets, shared, hubSide
  <1>1. TypeOK'
    BY DEF IInv, TypeOK, UpState, DownState
  <1>2. StageInv'
    BY DEF IInv, TypeOK, StageInv, Busy
  <1>3. CountInv'
    BY DEF IInv, TypeOK, StageInv, CountInv
  <1>4. \A q \in Conns : fwd[q] \in Nat /\ fwd'[q] \in Nat /\ fwd[q] <= fwd'[q]
    BY DEF IInv, TypeOK
  <1>5. TurnInv'
    <2> SUFFICES ASSUME NEW q \in Conns, NEW i \in 1 .. Len(resp[q])
                 PROVE  resp[q][i].for <= fwd'[q]
      BY DEF IInv, TurnInv
    <2>1. resp[q][i].for <= fwd[q]
      BY DEF IInv, TurnInv
    <2>2. resp[q][i] \in Answer
      BY DEF IInv, TypeOK
    <2> QED
      BY <1>4, <2>1, <2>2 DEF Answer
  <1>6. CmdInv'
    <2> SUFFICES ASSUME NEW q \in Conns, NEW i \in 1 .. Len(feed), IsCmd(i, q)
                 PROVE  /\ feed[i].id \in 1 .. fwd'[q]
                        /\ up'[q] \in Reporting => feed[i].id < fwd'[q]
                        /\ sent[q][feed[i].id] \in Published
      BY DEF CmdInv, IsCmd
    <2>1. /\ feed[i].id \in 1 .. fwd[q]
          /\ up[q] \in Reporting => feed[i].id < fwd[q]
          /\ sent[q][feed[i].id] \in Published
      BY DEF IInv, CmdInv
    <2>2. \/ fwd'[q] = fwd[q] + 1
          \/ fwd'[q] = fwd[q] /\ up'[q] = up[q]
      BY DEF IInv, TypeOK
    <2> QED
      BY <1>4, <2>1, <2>2
  <1>7. NoCmdLost'
    <2> SUFFICES ASSUME NEW q \in Conns, NEW n \in 1 .. fwd'[q],
                        sent[q][n] \in Published
                 PROVE  \/ \E i \in 1 .. Len(feed) : feed[i] = Cmd(q, n)
                        \/ n = fwd'[q] /\ up'[q] \in Reporting
      BY DEF NoCmdLost
    <2>1. CASE n \in 1 .. fwd[q]
      <3>1. \/ \E i \in 1 .. Len(feed) : feed[i] = Cmd(q, n)
            \/ n = fwd[q] /\ up[q] \in Reporting
        BY <2>1 DEF IInv, NoCmdLost
      <3>2. up[q] \in Reporting => fwd'[q] = fwd[q] /\ up'[q] = up[q]
        BY DEF IInv, TypeOK, Reporting
      <3> QED
        BY <3>1, <3>2
    <2>2. CASE n \notin 1 .. fwd[q]
      <3>1. q = k /\ n = fwd'[q]
        BY <1>4, <2>2 DEF IInv, TypeOK
      <3>2. up'[k] \in Reporting
        BY DEF IInv, TypeOK, Reporting
      <3> QED
        BY <3>1, <3>2
    <2> QED
      BY <2>1, <2>2
  <1>8. \A q \in Conns :
          /\ queryId'[q] \in Nat /\ queryId[q] <= queryId'[q]
          /\ since'[q] \in Nat => since'[q] <= queryId'[q]
    BY DEF IInv, TypeOK, ResultInv
  <1>9. ResultInv'
    BY <1>4, <1>8, ResultKept DEF IInv, TypeOK
  <1> QED
    BY <1>1, <1>2, <1>3, <1>4, <1>5, <1>6, <1>7, <1>8, <1>9, KeptParts DEF IInv

\* The chunk is counted.
LEMMA CountStepInv ==
  ASSUME IInv, NEW k \in Conns, Count(k)
  PROVE  IInv'
  <1> USE DEF Count, sockets, hubSide
  <1>1. TypeOK'
    <2>0. TypeOK
      BY DEF IInv
    <2>1. queryId' \in [Conns -> Nat]
      BY <2>0 DEF TypeOK
    <2>2. timer' \in [Conns -> Times]
      BY <2>0 DEF TypeOK, Times
    <2>3. up' \in [Conns -> UpState]
      BY <2>0 DEF TypeOK, UpState
    <2> QED
      BY <2>0, <2>1, <2>2, <2>3 DEF TypeOK
  <1>2. StageInv'
    BY DEF IInv, TypeOK, StageInv, Busy
  <1>3. CountInv'
    BY DEF IInv, TypeOK, StageInv, CountInv
  <1>4. \A q \in Conns : up'[q] \in Reporting <=> up[q] \in Reporting
    BY DEF IInv, TypeOK, Reporting
  <1>5. \A q \in Conns : /\ queryId[q] \in Nat /\ queryId'[q] \in Nat
                          /\ queryId[q] <= queryId'[q]
    BY DEF IInv, TypeOK
  <1>6. \A q \in Conns : since[q] \in Nat => since[q] <= queryId'[q]
    BY <1>5 DEF IInv, ResultInv
  <1>7. ResultInv'
    <2>1. UNCHANGED <<sent, resp, fwd, rfwd, feed, since, down, downOffer>>
      OBVIOUS
    <2>2. \A q \in Conns : fwd[q] \in Nat
      BY DEF IInv, TypeOK
    <2> HIDE DEF Count, sockets, hubSide
    <2>3. \A q \in Conns :
            /\ queryId'[q] \in Nat /\ queryId[q] <= queryId'[q]
            /\ fwd'[q] \in Nat /\ fwd[q] <= fwd'[q]
            /\ \A n \in 1 .. Len(sent[q]) : sent'[q][n] = sent[q][n]
            /\ \A i \in 1 .. Len(resp[q]) : resp'[q][i] = resp[q][i]
            /\ since'[q] \in Nat => since'[q] <= queryId'[q]
            /\ down'[q] = "send" => /\ down[q] = "send"
                                    /\ downOffer'[q] = downOffer[q]
      BY <1>5, <1>6, <2>1, <2>2
    <2>4. UNCHANGED <<rfwd, feed>>
      BY <2>1
    <2> QED
      BY <2>3, <2>4, ResultKept
  <1> QED
    BY <1>1, <1>2, <1>3, <1>4, <1>5, <1>6, <1>7, KeptParts DEF IInv

\* A chunk of an answer is read.
LEMMA ReadBackInv ==
  ASSUME IInv, NEW k \in Conns, ReadBack(k)
  PROVE  IInv'
  <1> USE DEF ReadBack, sockets, shared, hubSide
  <1>1. TypeOK'
    BY DEF IInv, TypeOK, UpState, DownState
  <1>2. StageInv'
    BY DEF IInv, TypeOK, StageInv, Busy
  <1>3. \A q \in Conns : down'[q] \in Busy <=> down[q] \in Busy
    BY DEF IInv, TypeOK, StageInv, Busy
  <1>4. \A q \in Conns : down'[q] = "send" =>
          down[q] = "send" /\ downOffer'[q] = downOffer[q]
    BY DEF IInv, TypeOK
  <1> QED
    BY <1>1, <1>2, <1>3, <1>4, KeptParts DEF IInv

\* It has been written to the application.
LEMMA WriteBackInv ==
  ASSUME IInv, NEW k \in Conns, WriteBack(k)
  PROVE  IInv'
  <1> USE DEF WriteBack, sockets, shared, hubSide
  <1>1. TypeOK'
    <2>1. rfwd[k] < Len(resp[k])
      BY DEF IInv, StageInv
    <2>2. \A q \in Conns : rfwd[q] \in Nat /\ Len(resp[q]) \in Nat
      BY DEF IInv, TypeOK
    <2>3. rfwd' \in [Conns -> Nat] /\ \A q \in Conns : rfwd'[q] <= Len(resp[q])
      BY <2>1, <2>2 DEF IInv, TypeOK
    <2> QED
      BY <2>3 DEF IInv, TypeOK, UpState, DownState
  <1>2. StageInv'
    <2>1. \A q \in Conns : q # k => down'[q] = down[q] /\ rfwd'[q] = rfwd[q]
      BY DEF IInv, TypeOK
    <2>2. /\ down[k] \notin {"absent", "dial", "send", "finish"}
          /\ down'[k] \notin {"absent", "dial", "write", "send", "finish"}
          /\ down'[k] \in Busy => rfwd'[k] > 0
      BY DEF IInv, TypeOK, StageInv, Busy
    <2> QED
      BY <2>1, <2>2 DEF IInv, StageInv
  <1>3. TurnInv'
    <2>1. \A q \in Conns : /\ rfwd[q] \in Nat /\ rfwd'[q] \in Nat
                            /\ rfwd[q] <= rfwd'[q]
      BY DEF IInv, TypeOK
    <2>2. ASSUME NEW q \in Conns, NEW n \in 1 .. Len(sent[q]) - 1,
                 sent[q][n] \in Answered
          PROVE  \E i \in 1 .. rfwd'[q] : resp[q][i].for = n
      <3>1. PICK i \in 1 .. rfwd[q] : resp[q][i].for = n
        BY <2>2 DEF IInv, TurnInv
      <3> QED
        BY <2>1, <3>1
    <2>3. \A q \in Conns :
            /\ \A i \in 1 .. Len(resp[q]) : resp[q][i].for <= fwd[q]
            /\ \A i \in 1 .. Len(resp[q]) : \A j \in 1 .. i :
                 resp[q][j].for <= resp[q][i].for
      BY DEF IInv, TurnInv
    <2> QED
      BY <2>2, <2>3 DEF TurnInv
  <1>4. \A q \in Conns :
          rfwd'[q] - (IF down'[q] \in Busy THEN 1 ELSE 0) =
            rfwd[q] - (IF down[q] \in Busy THEN 1 ELSE 0)
    BY DEF IInv, TypeOK, Busy
  <1>5. AnswersReportedOnce'
    BY <1>4 DEF IInv, AnswersReportedOnce, IsResult
  <1>6. ResultInv'
    BY DEF IInv, TypeOK, StageInv, ResultInv, IsResult, Sound
  <1> QED
    BY <1>1, <1>2, <1>3, <1>4, <1>5, <1>6, KeptParts DEF IInv

\* The timer is read.
LEMMA ReadTimerInv ==
  ASSUME IInv, NEW k \in Conns, ReadTimer(k)
  PROVE  IInv'
  <1> USE DEF ReadTimer, sockets, shared, hubSide
  <1>1. TypeOK'
    BY DEF IInv, TypeOK, UpState, DownState
  <1>2. StageInv'
    BY DEF IInv, TypeOK, StageInv, Busy
  <1>3. \A q \in Conns : down'[q] \in Busy <=> down[q] \in Busy
    BY DEF IInv, TypeOK, StageInv, Busy
  <1>4. \A q \in Conns : since'[q] \in Nat => since'[q] <= queryId[q]
    <2> SUFFICES ASSUME NEW q \in Conns, since'[q] \in Nat
                 PROVE  since'[q] <= queryId[q]
      OBVIOUS
    <2>1. CASE q = k
      <3>1. since'[q] = timer[q]
        BY <2>1 DEF IInv, TypeOK
      <3>2. timer[q] = queryId[q]
        BY <3>1, ProxyAssumption DEF IInv, CountInv
      <3> QED
        BY <3>1, <3>2 DEF IInv, TypeOK
    <2>2. CASE q # k
      BY <2>2 DEF IInv, TypeOK, ResultInv
    <2> QED
      BY <2>1, <2>2
  <1>5. ResultInv'
    BY <1>4 DEF IInv, TypeOK, ResultInv, IsResult, Sound
  <1> QED
    BY <1>1, <1>2, <1>3, <1>4, <1>5, KeptParts DEF IInv

\* What the switch of RequestPacketParser.Write sends.
LEMMA ReportCases ==
  ASSUME NEW k \in Conns, NEW c \in Chunk
  PROVE  /\ c \in Published => Report(k, c) = Cmd(k, queryId[k])
         /\ c.fifth = "quit" => c \notin Published /\ Report(k, c) = Finished(k)
         /\ c \notin Published /\ c.fifth # "quit" => Report(k, c) = Nothing
  BY DEF Report, Published

\* The timer is stored and the switch is taken.
LEMMA ClassifyInv ==
  ASSUME IInv, NEW k \in Conns, Classify(k)
  PROVE  IInv'
  <1> DEFINE c == sent[k][fwd[k]]
  <1> USE DEF Classify, sockets
  <1>1. queryId[k] = fwd[k] /\ fwd[k] \in Nat /\ fwd[k] > 0
    <2>1. fwd[k] = queryId[k] + (IF up[k] = "count" THEN 1 ELSE 0) /\ fwd[k] > 0
      BY DEF IInv, CountInv
    <2>2. queryId[k] \in Nat /\ fwd[k] \in Nat /\ up[k] = "stamp"
      BY DEF IInv, TypeOK
    <2> QED
      BY <2>1, <2>2
  <1>2. /\ upOffer'[k] = Report(k, c)
        /\ \A q \in Conns : q # k => /\ upOffer'[q] = upOffer[q]
                                     /\ up'[q] = up[q] /\ timer'[q] = timer[q]
    BY DEF IInv, TypeOK
  <1>3. /\ up'[k] = IF upOffer'[k] = Nothing THEN "read" ELSE "send"
        /\ timer'[k] = queryId[k]
    BY DEF IInv, TypeOK
  <1>4. \/ c \in Published /\ up'[k] = "send" /\ upOffer'[k] = Cmd(k, fwd[k])
        \/ c \notin Published /\ up'[k] = "send" /\ upOffer'[k] = Finished(k)
        \/ c \notin Published /\ up'[k] = "read" /\ upOffer'[k] = Nothing
    <2> c \in Chunk
      BY <1>1 DEF IInv, TypeOK
    <2> HIDE DEF c
    <2>1. CASE c \in Published
      BY <1>1, <1>2, <1>3, <2>1, ReportCases, ReportFacts
    <2>2. CASE c.fifth = "quit"
      BY <1>1, <1>2, <1>3, <2>2, ReportCases, ReportFacts
    <2>3. CASE c \notin Published /\ c.fifth # "quit"
      BY <1>2, <1>3, <2>3, ReportCases
    <2> QED
      BY <2>1, <2>2, <2>3
  <1>5. upOffer'[k] \in Reports \cup {Nothing}
    BY <1>1, <1>4, ReportFacts
  <1>6. TypeOK'
    <2>1. upOffer' \in [Conns -> Reports \cup {Nothing}]
      BY <1>2, <1>5 DEF IInv, TypeOK
    <2> QED
      BY <2>1 DEF IInv, TypeOK, UpState, Times
  <1>7. StageInv'
    BY <1>1, <1>2, <1>3, <1>4, ReportFacts DEF IInv, StageInv
  <1>8. CountInv'
    BY <1>1, <1>2, <1>3, <1>4 DEF IInv, CountInv
  <1>9. CmdInv'
    BY <1>2 DEF IInv, CmdInv, IsCmd, Reporting
  <1>10. NoCmdLost'
    BY <1>2, <1>4 DEF IInv, NoCmdLost, Reporting
  <1> QED
    BY <1>6, <1>7, <1>8, <1>9, <1>10, KeptParts DEF IInv

\* The result is built.
LEMMA ReadIdInv ==
  ASSUME IInv, NEW k \in Conns, ReadId(k)
  PROVE  IInv'
  <1> DEFINE a == resp[k][rfwd[k]]
             x == CmdResult(k, queryId[k], a.ff, a.for, rfwd[k], since[k])
  <1> USE DEF ReadId, sockets, shared
  <1>1. rfwd[k] \in 1 .. Len(resp[k]) /\ a \in Answer
    BY DEF IInv, TypeOK, StageInv, Busy
  <1>2. /\ a.for \in Nat /\ a.ff \in BOOLEAN /\ since[k] \in Times
        /\ queryId[k] \in Nat /\ fwd[k] \in Nat /\ rfwd[k] \in Nat
        /\ Len(sent[k]) \in Nat /\ fwd[k] <= Len(sent[k])
    BY <1>1 DEF IInv, TypeOK, Answer
  <1> HIDE DEF a
  <1>3. /\ x \in Reports /\ x # Nothing /\ x.type = "CmdResult"
        /\ x.conn = k /\ x.id = queryId[k] /\ x.err = a.ff /\ x.for = a.for
        /\ x.chunk = rfwd[k] /\ x.own = (since[k] = a.for)
    <2> HIDE DEF x, ReadId
    <2> DEFINE n == queryId[k]
               e == a.ff
               f == a.for
               c == rfwd[k]
               t == since[k]
    <2>1. n \in Nat /\ e \in BOOLEAN /\ f \in Nat /\ c \in Nat /\ t \in Times
      BY <1>2
    <2>2. x = CmdResult(k, n, e, f, c, t)
      BY DEF x
    <2> HIDE DEF n, e, f, c, t
    <2>3. LET y == CmdResult(k, n, e, f, c, t) IN
          /\ y \in Reports /\ y # Nothing /\ y.type = "CmdResult"
          /\ y.conn = k /\ y.id = n /\ y.err = e /\ y.for = f /\ y.chunk = c
          /\ y.own = (t = f)
      BY <2>1, ResultFacts
    <2> QED
      BY <2>2, <2>3 DEF n, e, f, c, t
  <1>4. /\ downOffer'[k] = x /\ down'[k] = "send"
        /\ \A q \in Conns : q # k => /\ downOffer'[q] = downOffer[q]
                                     /\ down'[q] = down[q]
    BY DEF IInv, TypeOK, a
  <1> HIDE DEF x
  <1>5. TypeOK'
    <2>1. downOffer' \in [Conns -> Reports \cup {Nothing}]
      BY <1>3, <1>4 DEF IInv, TypeOK
    <2> QED
      BY <2>1 DEF IInv, TypeOK, DownState
  <1>6. StageInv'
    BY <1>3, <1>4 DEF IInv, StageInv, Busy
  <1>7. \A q \in Conns : down'[q] \in Busy <=> down[q] \in Busy
    BY <1>4 DEF Busy
  <1>8. a.for <= fwd[k] /\ fwd[k] <= queryId[k] + 1 /\ queryId[k] <= fwd[k]
    <2>1. a.for <= fwd[k]
      BY <1>1 DEF IInv, TurnInv, a
    <2>2. fwd[k] = queryId[k] + (IF up[k] = "count" THEN 1 ELSE 0)
      BY DEF IInv, CountInv
    <2> QED
      BY <1>2, <2>1, <2>2
  <1>9. Sound(x, k)
    <2>1. x.own => x.id >= x.for
      <3>1. ASSUME x.own PROVE since[k] = a.for
        BY <1>3, <3>1
      <3>2. since[k] = a.for => a.for <= queryId[k]
        BY <1>2 DEF IInv, ResultInv
      <3> QED
        BY <1>2, <1>3, <3>1, <3>2
    <2>2. ASSUME NEW n \in x.for + 1 .. x.id - 1, sent[k][n] \in Answered
          PROVE  FALSE
      <3>1. n \in 1 .. Len(sent[k]) - 1 /\ n > a.for
        BY <1>2, <1>3, <1>8
      <3>2. PICK i \in 1 .. rfwd[k] : resp[k][i].for = n
        BY <3>1, <2>2 DEF IInv, TurnInv
      <3>3. resp[k][i].for <= a.for
        BY <1>1 DEF IInv, TurnInv, a
      <3> QED
        BY <1>2, <3>1, <3>2, <3>3
    <2> QED
      BY <1>2, <1>3, <1>8, <2>1, <2>2 DEF Sound
  <1>10. \A i \in 1 .. Len(feed) : IsResult(i, k) => feed[i].id <= x.id
    BY <1>3 DEF IInv, ResultInv, Sound
  <1>11. ASSUME NEW n \in 1 .. x.for - 1, sent[k][n] \in Published
         PROVE  \E i \in 1 .. Len(feed) : feed[i] = Cmd(k, n)
    <2>1. n \in 1 .. fwd[k] /\ n # fwd[k]
      BY <1>2, <1>3, <1>8
    <2> QED
      BY <1>11, <2>1 DEF IInv, NoCmdLost
  <1>12. ResultInv'
    <2>1. x.for = resp[k][rfwd[k]].for /\ x.err = resp[k][rfwd[k]].ff
      BY <1>3 DEF a
    <2>2. \A q \in Conns :
            /\ since[q] \in Nat => since[q] <= queryId[q]
            /\ \A i \in 1 .. Len(feed) : IsResult(i, q) => Sound(feed[i], q)
      BY DEF IInv, ResultInv
    <2>3. ASSUME NEW q \in Conns, down'[q] = "send"
          PROVE  LET y == downOffer'[q] IN
                 /\ y.type = "CmdResult" /\ y.conn = q
                 /\ y.chunk = rfwd[q]
                 /\ y.for = resp[q][rfwd[q]].for
                 /\ y.err = resp[q][rfwd[q]].ff
                 /\ Sound(y, q)
                 /\ \A i \in 1 .. Len(feed) :
                      IsResult(i, q) => feed[i].id <= y.id
                 /\ \A n \in 1 .. y.for - 1 :
                      sent[q][n] \in Published =>
                        \E i \in 1 .. Len(feed) : feed[i] = Cmd(q, n)
      <3>1. CASE q = k
        <4>1. downOffer'[q] = x
          BY <1>4, <3>1
        <4> QED
          BY <1>3, <1>9, <1>10, <1>11, <2>1, <3>1, <4>1
      <3>2. CASE q # k
        <4>1. downOffer'[q] = downOffer[q] /\ down[q] = "send"
          BY <1>4, <2>3, <3>2
        <4> HIDE DEF ReadId
        <4>2. ResultInv
          BY DEF IInv
        <4> QED
          BY <4>1, <4>2 DEF ResultInv
      <3> QED
        BY <3>1, <3>2
    <2>4. \A q, y : Sound(y, q)' <=> Sound(y, q)
      BY DEF Sound
    <2>5. \A i, q : IsResult(i, q)' <=> IsResult(i, q)
      BY DEF IsResult
    <2>6. UNCHANGED <<since, queryId, feed, rfwd, resp, sent>>
      BY DEF ReadId
    <2> HIDE DEF ReadId
    <2> QED
      BY <2>2, <2>3, <2>4, <2>5, <2>6 DEF ResultInv
  <1> QED
    BY <1>5, <1>6, <1>7, <1>12, KeptParts DEF IInv

\* The hub's feed grows by one report; the earlier ones keep their places.
LEMMA FeedGrows ==
  ASSUME TypeOK, NEW r \in Reports, feed' = Append(feed, r)
  PROVE  /\ feed' \in Seq(Reports) /\ Len(feed) \in Nat
         /\ Len(feed') = Len(feed) + 1
         /\ \A i \in 1 .. Len(feed) :
              /\ feed'[i] = feed[i]
              /\ \A q \in Conns : /\ IsCmd(i, q)' <=> IsCmd(i, q)
                                  /\ IsResult(i, q)' <=> IsResult(i, q)
         /\ feed'[Len(feed')] = r
  <1>1. feed \in Seq(Reports)
    BY DEF TypeOK
  <1> QED
    BY <1>1, FeedAppend DEF IsCmd, IsResult

\* The hub receives a report that is not a result.
LEMMA NoResultAdded ==
  ASSUME IInv, NEW r \in Reports, r.type # "CmdResult",
         feed' = Append(feed, r),
         UNCHANGED <<sent, resp, fwd, rfwd, queryId, since>>,
         \A q \in Conns : down'[q] \in Busy <=> down[q] \in Busy,
         \A q \in Conns : down'[q] = "send" =>
           down[q] = "send" /\ downOffer'[q] = downOffer[q]
  PROVE  AnswersReportedOnce' /\ EarlierCmdsFirst' /\ ResultInv'
  <1> DEFINE e == Len(feed')
  <1>1. /\ feed' \in Seq(Reports) /\ Len(feed) \in Nat /\ e = Len(feed) + 1
        /\ \A i \in 1 .. Len(feed) :
             /\ feed'[i] = feed[i]
             /\ \A q \in Conns : /\ IsCmd(i, q)' <=> IsCmd(i, q)
                                 /\ IsResult(i, q)' <=> IsResult(i, q)
        /\ feed'[e] = r
    BY FeedGrows DEF IInv
  <1> HIDE DEF e
  <1>2. \A q \in Conns : \A i \in 1 .. e :
          IsResult(i, q)' => i \in 1 .. Len(feed)
    <2> SUFFICES ASSUME NEW q \in Conns, NEW i \in 1 .. e, IsResult(i, q)'
                 PROVE  i # e
      BY <1>1
    <2> QED
      BY <1>1 DEF IsResult
  <1>3. AnswersReportedOnce'
    <2> SUFFICES ASSUME NEW q \in Conns
                 PROVE  LET reported == rfwd[q]
                              - (IF down[q] \in Busy THEN 1 ELSE 0) IN
                   /\ \A c \in 1 .. reported : \E i \in 1 .. e :
                        IsResult(i, q)' /\ feed'[i].chunk = c
                   /\ \A i \in 1 .. e : IsResult(i, q)' =>
                        /\ feed'[i].chunk \in 1 .. reported
                        /\ feed'[i].for = resp[q][feed'[i].chunk].for
                        /\ feed'[i].err = resp[q][feed'[i].chunk].ff
                        /\ \A j \in 1 .. i - 1 :
                             IsResult(j, q)' => feed'[j].chunk < feed'[i].chunk
      BY DEF AnswersReportedOnce, e
    <2> DEFINE reported == rfwd[q] - (IF down[q] \in Busy THEN 1 ELSE 0)
    <2>1. /\ \A c \in 1 .. reported : \E i \in 1 .. Len(feed) :
               IsResult(i, q) /\ feed[i].chunk = c
          /\ \A i \in 1 .. Len(feed) : IsResult(i, q) =>
               /\ feed[i].chunk \in 1 .. reported
               /\ feed[i].for = resp[q][feed[i].chunk].for
               /\ feed[i].err = resp[q][feed[i].chunk].ff
               /\ \A j \in 1 .. i - 1 :
                    IsResult(j, q) => feed[j].chunk < feed[i].chunk
      BY DEF IInv, AnswersReportedOnce
    <2> HIDE DEF reported
    <2>2. ASSUME NEW c \in 1 .. reported
          PROVE  \E i \in 1 .. e : IsResult(i, q)' /\ feed'[i].chunk = c
      <3>1. PICK i \in 1 .. Len(feed) : IsResult(i, q) /\ feed[i].chunk = c
        BY <2>1
      <3> QED
        BY <1>1, <3>1
    <2>3. ASSUME NEW i \in 1 .. e, IsResult(i, q)'
          PROVE  /\ feed'[i].chunk \in 1 .. reported
                 /\ feed'[i].for = resp[q][feed'[i].chunk].for
                 /\ feed'[i].err = resp[q][feed'[i].chunk].ff
                 /\ \A j \in 1 .. i - 1 :
                      IsResult(j, q)' => feed'[j].chunk < feed'[i].chunk
      <3>1. i \in 1 .. Len(feed)
        BY <1>2, <2>3
      <3>2. \A j \in 1 .. i - 1 : j \in 1 .. Len(feed)
        BY <1>1, <3>1
      <3> QED
        BY <1>1, <2>1, <2>3, <3>1, <3>2
    <2> QED
      BY <2>2, <2>3 DEF reported
  <1>4. EarlierCmdsFirst'
    <2> SUFFICES ASSUME NEW q \in Conns, NEW i \in 1 .. e, IsResult(i, q)',
                        NEW n \in 1 .. feed'[i].for - 1,
                        sent[q][n] \in Published
                 PROVE  \E j \in 1 .. i - 1 : feed'[j] = Cmd(q, n)
      BY DEF EarlierCmdsFirst, e
    <2>1. i \in 1 .. Len(feed) /\ IsResult(i, q) /\ feed'[i] = feed[i]
      BY <1>1, <1>2
    <2>2. PICK j \in 1 .. i - 1 : feed[j] = Cmd(q, n)
      BY <2>1 DEF IInv, EarlierCmdsFirst
    <2>3. j \in 1 .. Len(feed)
      BY <1>1, <2>1
    <2> QED
      BY <1>1, <2>2, <2>3
  <1>5. ResultInv'
    <2> SUFFICES ASSUME NEW q \in Conns
                 PROVE  /\ since[q] \in Nat => since[q] <= queryId[q]
                        /\ \A i \in 1 .. e :
                             IsResult(i, q)' => Sound(feed'[i], q)
                        /\ down'[q] = "send" =>
                           LET x == downOffer'[q] IN
                           /\ x.type = "CmdResult" /\ x.conn = q
                           /\ x.chunk = rfwd[q]
                           /\ x.for = resp[q][rfwd[q]].for
                           /\ x.err = resp[q][rfwd[q]].ff
                           /\ Sound(x, q)
                           /\ \A i \in 1 .. e :
                                IsResult(i, q)' => feed'[i].id <= x.id
                           /\ \A n \in 1 .. x.for - 1 :
                                sent[q][n] \in Published =>
                                  \E i \in 1 .. e : feed'[i] = Cmd(q, n)
      BY DEF ResultInv, Sound, e
    <2>1. ASSUME NEW i \in 1 .. e, IsResult(i, q)'
          PROVE  IsResult(i, q) /\ i \in 1 .. Len(feed) /\ feed'[i] = feed[i]
      BY <1>1, <1>2, <2>1
    <2>2. \A i \in 1 .. Len(feed) : i \in 1 .. e /\ feed'[i] = feed[i]
      BY <1>1
    <2> QED
      BY <2>1, <2>2 DEF IInv, ResultInv
  <1> QED
    BY <1>3, <1>4, <1>5

\* The hub receives a report that is not a Cmd.
LEMMA NoCmdAdded ==
  ASSUME IInv, NEW r \in Reports, r.type # "Cmd", feed' = Append(feed, r),
         UNCHANGED <<sent, fwd, up>>
  PROVE  CmdInv' /\ NoCmdLost'
  <1> DEFINE e == Len(feed')
  <1>1. /\ feed' \in Seq(Reports) /\ Len(feed) \in Nat /\ e = Len(feed) + 1
        /\ \A i \in 1 .. Len(feed) :
             /\ feed'[i] = feed[i]
             /\ \A q \in Conns : /\ IsCmd(i, q)' <=> IsCmd(i, q)
                                 /\ IsResult(i, q)' <=> IsResult(i, q)
        /\ feed'[e] = r
    BY FeedGrows DEF IInv
  <1> HIDE DEF e
  <1>2. \A q \in Conns : \A i \in 1 .. e :
          IsCmd(i, q)' => i \in 1 .. Len(feed)
    <2> SUFFICES ASSUME NEW q \in Conns, NEW i \in 1 .. e, IsCmd(i, q)'
                 PROVE  i # e
      BY <1>1
    <2> QED
      BY <1>1 DEF IsCmd
  <1>3. CmdInv'
    <2> SUFFICES ASSUME NEW q \in Conns, NEW i \in 1 .. e, IsCmd(i, q)'
                 PROVE  /\ feed'[i].id \in 1 .. fwd[q]
                        /\ up[q] \in Reporting => feed'[i].id < fwd[q]
                        /\ sent[q][feed'[i].id] \in Published
      BY DEF CmdInv, e
    <2>1. i \in 1 .. Len(feed) /\ IsCmd(i, q) /\ feed'[i] = feed[i]
      BY <1>1, <1>2
    <2> QED
      BY <2>1 DEF IInv, CmdInv
  <1>4. NoCmdLost'
    <2>1. \A i \in 1 .. Len(feed) : i \in 1 .. e /\ feed'[i] = feed[i]
      BY <1>1
    <2> QED
      BY <2>1 DEF IInv, NoCmdLost, e
  <1> QED
    BY <1>3, <1>4

\* The hub receives what the request goroutine offers: a Cmd, or ConnState.
LEMMA TakeUpInv ==
  ASSUME IInv, NEW k \in Conns, TakeUp(k)
  PROVE  IInv'
  <1> DEFINE r == upOffer[k]
             e == Len(feed')
  <1> USE DEF TakeUp, sockets, shared
  <1>1. r \in Reports /\ feed' = Append(feed, r) /\ up[k] = "send"
    BY DEF IInv, TypeOK, StageInv
  <1>2. /\ upOffer'[k] = Nothing /\ up'[k] = "read"
        /\ \A q \in Conns : q # k => /\ upOffer'[q] = upOffer[q]
                                     /\ up'[q] = up[q]
    BY DEF IInv, TypeOK
  <1>3. fwd[k] \in Nat /\ fwd[k] > 0
    BY <1>1 DEF IInv, TypeOK, CountInv
  <1>4. \/ r = Cmd(k, fwd[k]) /\ sent[k][fwd[k]] \in Published
        \/ r = Finished(k) /\ sent[k][fwd[k]] \notin Published
    BY <1>1 DEF IInv, CountInv
  <1>5. /\ r.type # "CmdResult"
        /\ r.type = "Cmd" =>
             /\ r.conn = k /\ r.id = fwd[k]
             /\ sent[k][fwd[k]] \in Published
    BY <1>3, <1>4, ReportFacts
  <1> HIDE DEF r
  <1>6. /\ feed' \in Seq(Reports) /\ Len(feed) \in Nat /\ e = Len(feed) + 1
        /\ \A i \in 1 .. Len(feed) :
             /\ feed'[i] = feed[i]
             /\ \A q \in Conns : /\ IsCmd(i, q)' <=> IsCmd(i, q)
                                 /\ IsResult(i, q)' <=> IsResult(i, q)
        /\ feed'[e] = r
    BY <1>1, FeedGrows DEF IInv
  <1> HIDE DEF e
  <1>7. ASSUME NEW q \in Conns
        PROVE  /\ ~ (feed'[e].type = "CmdResult" /\ feed'[e].conn = q)
               /\ feed'[e].type = "Cmd" /\ feed'[e].conn = q =>
                    /\ q = k /\ feed'[e].id = fwd[k]
                    /\ sent[k][fwd[k]] \in Published
    BY <1>5, <1>6
  <1>8. \A i \in 1 .. e : i = e \/ i \in 1 .. Len(feed)
    BY <1>6
  <1>9. TypeOK'
    <2>1. upOffer' \in [Conns -> Reports \cup {Nothing}]
      BY DEF IInv, TypeOK
    <2> QED
      BY <1>6, <2>1 DEF IInv, TypeOK, UpState
  <1>10. StageInv'
    BY <1>1, <1>2 DEF IInv, StageInv
  <1>11. CountInv'
    BY <1>1, <1>2 DEF IInv, CountInv
  <1>12. CmdInv'
    <2> SUFFICES ASSUME NEW q \in Conns, NEW i \in 1 .. e, IsCmd(i, q)'
                 PROVE  /\ feed'[i].id \in 1 .. fwd[q]
                        /\ up'[q] \in Reporting => feed'[i].id < fwd[q]
                        /\ sent[q][feed'[i].id] \in Published
      BY DEF CmdInv, e
    <2>1. CASE i = e
      <3>1. q = k /\ feed'[i].id = fwd[q] /\ sent[q][fwd[q]] \in Published
        BY <1>7, <2>1 DEF IsCmd
      <3>2. up'[q] \notin Reporting
        BY <1>2, <3>1 DEF Reporting
      <3> QED
        BY <1>3, <3>1, <3>2
    <2>2. CASE i \in 1 .. Len(feed)
      BY <1>2, <1>6, <2>2 DEF IInv, CmdInv, Reporting
    <2> QED
      BY <1>8, <2>1, <2>2
  <1>13. NoCmdLost'
    <2> SUFFICES ASSUME NEW q \in Conns, NEW n \in 1 .. fwd[q],
                        sent[q][n] \in Published
                 PROVE  \/ \E i \in 1 .. e : feed'[i] = Cmd(q, n)
                        \/ n = fwd[q] /\ up'[q] \in Reporting
      BY DEF NoCmdLost, e
    <2>1. ASSUME NEW i \in 1 .. Len(feed), feed[i] = Cmd(q, n)
          PROVE  \E j \in 1 .. e : feed'[j] = Cmd(q, n)
      BY <1>6, <2>1
    <2>2. CASE n = fwd[q] /\ q = k
      BY <1>3, <1>4, <1>6, <2>2 DEF r
    <2>3. CASE ~(n = fwd[q] /\ q = k)
      BY <1>2, <2>1, <2>3 DEF IInv, NoCmdLost, Reporting
    <2> QED
      BY <2>2, <2>3
  <1>14. AnswersReportedOnce' /\ EarlierCmdsFirst' /\ ResultInv'
    BY <1>1, <1>5, NoResultAdded
  <1>15. IdsInOrder'
    <2> SUFFICES ASSUME NEW q \in Conns, NEW i \in 1 .. e, NEW j \in 1 .. e,
                        i < j
                 PROVE  /\ IsCmd(i, q)' /\ IsCmd(j, q)' =>
                             feed'[i].id < feed'[j].id
                        /\ IsCmd(j, q)' => sent[q][feed'[j].id] \in Published
                        /\ IsResult(i, q)' /\ IsResult(j, q)' =>
                             feed'[i].id <= feed'[j].id
      BY DEF IdsInOrder, e
    <2>1. i \in 1 .. Len(feed) /\ (j = e \/ j \in 1 .. Len(feed))
      BY <1>6
    <2>2. CASE j = e
      <3>1. IsCmd(i, q) /\ q = k => feed[i].id < fwd[q]
        BY <1>1, <2>1 DEF IInv, CmdInv, Reporting
      <3> QED
        BY <1>6, <1>7, <2>1, <2>2, <3>1 DEF IsCmd, IsResult
    <2>3. CASE j \in 1 .. Len(feed)
      BY <1>6, <2>1, <2>3 DEF IInv, IdsInOrder
    <2> QED
      BY <2>1, <2>2, <2>3
  <1> QED
    BY <1>9, <1>10, <1>11, <1>12, <1>13, <1>14, <1>15, KeptParts DEF IInv

\* The hub receives what handleConnection offers: a result, or ConnState.
LEMMA TakeDownInv ==
  ASSUME IInv, NEW k \in Conns, TakeDown(k)
  PROVE  IInv'
  <1> DEFINE r == downOffer[k]
             e == Len(feed')
  <1> USE DEF TakeDown, sockets, shared
  <1>1. /\ r \in Reports /\ feed' = Append(feed, r)
        /\ down[k] \in {"send", "finish"}
    BY DEF IInv, TypeOK, StageInv
  <1>2. /\ downOffer'[k] = Nothing
        /\ down'[k] = IF down[k] = "finish" THEN "closing" ELSE "read"
        /\ \A q \in Conns : q # k => /\ downOffer'[q] = downOffer[q]
                                     /\ down'[q] = down[q]
    BY DEF IInv, TypeOK
  <1>3. \A q \in Conns : down'[q] = "send" =>
          q # k /\ down[q] = "send" /\ downOffer'[q] = downOffer[q]
    BY <1>2
  <1>4. r.type # "Cmd"
    BY <1>1, ReportFacts, 0 \in Nat DEF IInv, StageInv, ResultInv
  <1> HIDE DEF r
  <1>5. /\ feed' \in Seq(Reports) /\ Len(feed) \in Nat /\ e = Len(feed) + 1
        /\ \A i \in 1 .. Len(feed) :
             /\ feed'[i] = feed[i]
             /\ \A q \in Conns : /\ IsCmd(i, q)' <=> IsCmd(i, q)
                                 /\ IsResult(i, q)' <=> IsResult(i, q)
        /\ feed'[e] = r
    BY <1>1, FeedGrows DEF IInv
  <1> HIDE DEF e
  <1>6. TypeOK'
    <2>1. downOffer' \in [Conns -> Reports \cup {Nothing}]
      BY DEF IInv, TypeOK
    <2> QED
      BY <1>5, <2>1 DEF IInv, TypeOK, DownState
  <1>7. StageInv'
    BY <1>1, <1>2 DEF IInv, StageInv, Busy
  <1>8. CmdInv' /\ NoCmdLost'
    BY <1>1, <1>4, NoCmdAdded
  <1>9. CASE down[k] = "finish"
    <2>1. r.type = "ConnState"
      BY <1>9, ReportFacts, 0 \in Nat DEF IInv, StageInv, r
    <2>2. \A q \in Conns : down'[q] \in Busy <=> down[q] \in Busy
      BY <1>2, <1>9 DEF Busy
    <2>3. AnswersReportedOnce' /\ EarlierCmdsFirst' /\ ResultInv'
      BY <1>1, <1>3, <2>1, <2>2, NoResultAdded
    <2>4. ASSUME NEW q \in Conns, NEW i \in 1 .. e,
                 IsCmd(i, q)' \/ IsResult(i, q)'
          PROVE  i \in 1 .. Len(feed) /\ feed'[i] = feed[i]
      <3>1. i # e
        BY <1>5, <2>1, <2>4 DEF IsCmd, IsResult
      <3> QED
        BY <1>5, <3>1
    <2>5. IdsInOrder'
      <3> SUFFICES ASSUME NEW q \in Conns, NEW i \in 1 .. e, NEW j \in 1 .. e,
                          i < j
                   PROVE  /\ IsCmd(i, q)' /\ IsCmd(j, q)' =>
                               feed'[i].id < feed'[j].id
                          /\ IsCmd(j, q)' =>
                               sent[q][feed'[j].id] \in Published
                          /\ IsResult(i, q)' /\ IsResult(j, q)' =>
                               feed'[i].id <= feed'[j].id
        BY DEF IdsInOrder, e
      <3>1. i \in 1 .. Len(feed)
        BY <1>5
      <3> QED
        BY <1>5, <2>4, <3>1 DEF IInv, IdsInOrder
    <2> QED
      BY <1>6, <1>7, <1>8, <2>3, <2>5, KeptParts DEF IInv
  <1>10. CASE down[k] = "send"
    <2>1. /\ r.type = "CmdResult" /\ r.conn = k
          /\ r.chunk = rfwd[k]
          /\ r.for = resp[k][rfwd[k]].for /\ r.err = resp[k][rfwd[k]].ff
          /\ Sound(r, k)
          /\ \A i \in 1 .. Len(feed) : IsResult(i, k) => feed[i].id <= r.id
          /\ \A n \in 1 .. r.for - 1 :
               sent[k][n] \in Published =>
                 \E i \in 1 .. Len(feed) : feed[i] = Cmd(k, n)
      BY <1>10 DEF IInv, ResultInv, r
    <2>2. /\ rfwd[k] \in Nat /\ rfwd[k] > 0
          /\ down[k] \in Busy /\ down'[k] \notin Busy
      BY <1>2, <1>10 DEF IInv, TypeOK, StageInv, Busy
    <2>3. ASSUME NEW q \in Conns, NEW i \in 1 .. e, IsResult(i, q)'
          PROVE  \/ i = e /\ q = k
                 \/ i \in 1 .. Len(feed) /\ IsResult(i, q) /\ feed'[i] = feed[i]
      <3>1. CASE i = e
        BY <1>5, <2>1, <2>3, <3>1 DEF IsResult
      <3>2. CASE i # e
        BY <1>5, <2>3, <3>2
      <3> QED
        BY <3>1, <3>2
    <2>4. AnswersReportedOnce'
      <3> SUFFICES ASSUME NEW q \in Conns
                   PROVE  LET reported == rfwd[q]
                                - (IF down'[q] \in Busy THEN 1 ELSE 0) IN
                     /\ \A c \in 1 .. reported : \E i \in 1 .. e :
                          IsResult(i, q)' /\ feed'[i].chunk = c
                     /\ \A i \in 1 .. e : IsResult(i, q)' =>
                          /\ feed'[i].chunk \in 1 .. reported
                          /\ feed'[i].for = resp[q][feed'[i].chunk].for
                          /\ feed'[i].err = resp[q][feed'[i].chunk].ff
                          /\ \A j \in 1 .. i - 1 :
                               IsResult(j, q)' =>
                                 feed'[j].chunk < feed'[i].chunk
        BY DEF AnswersReportedOnce, e
      <3> DEFINE before == rfwd[q] - (IF down[q] \in Busy THEN 1 ELSE 0)
                 after  == rfwd[q] - (IF down'[q] \in Busy THEN 1 ELSE 0)
      <3>1. /\ \A c \in 1 .. before : \E i \in 1 .. Len(feed) :
                 IsResult(i, q) /\ feed[i].chunk = c
            /\ \A i \in 1 .. Len(feed) : IsResult(i, q) =>
                 /\ feed[i].chunk \in 1 .. before
                 /\ feed[i].for = resp[q][feed[i].chunk].for
                 /\ feed[i].err = resp[q][feed[i].chunk].ff
                 /\ \A j \in 1 .. i - 1 :
                      IsResult(j, q) => feed[j].chunk < feed[i].chunk
        BY DEF IInv, AnswersReportedOnce
      <3>2. /\ before \in Int /\ after \in Int
            /\ q # k => after = before
            /\ q = k => after = rfwd[k] /\ before = rfwd[k] - 1
        BY <1>2, <2>2 DEF IInv, TypeOK
      <3> HIDE DEF before, after
      <3>3. ASSUME NEW c \in 1 .. after
            PROVE  \E i \in 1 .. e : IsResult(i, q)' /\ feed'[i].chunk = c
        <4>1. CASE q = k /\ c = rfwd[k]
          <5>1. e \in 1 .. e /\ feed'[e].chunk = c
            BY <1>5, <2>1, <4>1
          <5>2. feed'[e].type = "CmdResult" /\ feed'[e].conn = q
            BY <1>5, <2>1, <4>1
          <5> QED
            BY <5>1, <5>2 DEF IsResult
        <4>2. CASE ~ (q = k /\ c = rfwd[k])
          <5>1. c \in 1 .. before
            BY <2>2, <3>2, <4>2
          <5>2. PICK i \in 1 .. Len(feed) : IsResult(i, q) /\ feed[i].chunk = c
            BY <3>1, <5>1
          <5> QED
            BY <1>5, <5>2
        <4> QED
          BY <4>1, <4>2
      <3>4. ASSUME NEW i \in 1 .. e, IsResult(i, q)'
            PROVE  /\ feed'[i].chunk \in 1 .. after
                   /\ feed'[i].for = resp[q][feed'[i].chunk].for
                   /\ feed'[i].err = resp[q][feed'[i].chunk].ff
                   /\ \A j \in 1 .. i - 1 :
                        IsResult(j, q)' => feed'[j].chunk < feed'[i].chunk
        <4>1. \A j \in 1 .. i - 1 : j \in 1 .. Len(feed)
          BY <1>5
        <4>2. CASE i = e /\ q = k
          <5>1. feed'[i] = r
            BY <1>5, <4>2
          <5>2. \A j \in 1 .. i - 1 :
                  IsResult(j, q)' => feed'[j].chunk \in 1 .. before
            BY <1>5, <3>1, <4>1
          <5>3. feed'[i].chunk = rfwd[k] /\ q = k
            BY <2>1, <4>2, <5>1
          <5>4. feed'[i].chunk \in 1 .. after
            BY <2>2, <3>2, <5>3
          <5>5. ASSUME NEW j \in 1 .. i - 1, IsResult(j, q)'
                PROVE  feed'[j].chunk < feed'[i].chunk
            <6>1. feed'[j].chunk \in 1 .. before
              BY <5>2, <5>5
            <6>2. \A c \in 1 .. before : c < rfwd[k]
              BY <2>2, <3>2, <5>3
            <6> QED
              BY <5>3, <6>1, <6>2
          <5> QED
            BY <2>1, <5>1, <5>3, <5>4, <5>5
        <4>3. CASE i \in 1 .. Len(feed) /\ IsResult(i, q) /\ feed'[i] = feed[i]
          <5>1. feed[i].chunk \in 1 .. after
            BY <2>2, <3>1, <3>2, <4>3
          <5> QED
            BY <1>5, <3>1, <4>1, <4>3, <5>1
        <4> QED
          BY <2>3, <3>4, <4>2, <4>3
      <3> QED
        BY <3>3, <3>4 DEF after
    <2>5. EarlierCmdsFirst'
      <3> SUFFICES ASSUME NEW q \in Conns, NEW i \in 1 .. e, IsResult(i, q)',
                          NEW n \in 1 .. feed'[i].for - 1,
                          sent[q][n] \in Published
                   PROVE  \E j \in 1 .. i - 1 : feed'[j] = Cmd(q, n)
        BY DEF EarlierCmdsFirst, e
      <3>1. CASE i = e /\ q = k
        <4>1. PICK j \in 1 .. Len(feed) : feed[j] = Cmd(k, n)
          BY <1>5, <2>1, <3>1
        <4> QED
          BY <1>5, <3>1, <4>1
      <3>2. CASE i \in 1 .. Len(feed) /\ IsResult(i, q) /\ feed'[i] = feed[i]
        <4>1. PICK j \in 1 .. i - 1 : feed[j] = Cmd(q, n)
          BY <3>2 DEF IInv, EarlierCmdsFirst
        <4>2. j \in 1 .. Len(feed)
          BY <1>5, <3>2
        <4> QED
          BY <1>5, <4>1, <4>2
      <3> QED
        BY <2>3, <3>1, <3>2
    <2>6. IdsInOrder'
      <3> SUFFICES ASSUME NEW q \in Conns, NEW i \in 1 .. e, NEW j \in 1 .. e,
                          i < j
                   PROVE  /\ IsCmd(i, q)' /\ IsCmd(j, q)' =>
                               feed'[i].id < feed'[j].id
                          /\ IsCmd(j, q)' =>
                               sent[q][feed'[j].id] \in Published
                          /\ IsResult(i, q)' /\ IsResult(j, q)' =>
                               feed'[i].id <= feed'[j].id
        BY DEF IdsInOrder, e
      <3>1. i \in 1 .. Len(feed) /\ (j = e \/ j \in 1 .. Len(feed))
        BY <1>5
      <3>2. CASE j = e
        <4>1. ~ IsCmd(j, q)'
          BY <1>4, <1>5, <3>2 DEF IsCmd
        <4>2. IsResult(j, q)' => q = k
          BY <1>5, <2>3, <3>2
        <4> QED
          BY <1>5, <2>1, <3>1, <3>2, <4>1, <4>2
      <3>3. CASE j \in 1 .. Len(feed)
        BY <1>5, <3>1, <3>3 DEF IInv, IdsInOrder
      <3> QED
        BY <3>1, <3>2, <3>3
    <2>7. ResultInv'
      <3> SUFFICES ASSUME NEW q \in Conns
                   PROVE  /\ since[q] \in Nat => since[q] <= queryId[q]
                          /\ \A i \in 1 .. e :
                               IsResult(i, q)' => Sound(feed'[i], q)
                          /\ down'[q] = "send" =>
                             LET x == downOffer'[q] IN
                             /\ x.type = "CmdResult" /\ x.conn = q
                             /\ x.chunk = rfwd[q]
                             /\ x.for = resp[q][rfwd[q]].for
                             /\ x.err = resp[q][rfwd[q]].ff
                             /\ Sound(x, q)
                             /\ \A i \in 1 .. e :
                                  IsResult(i, q)' => feed'[i].id <= x.id
                             /\ \A n \in 1 .. x.for - 1 :
                                  sent[q][n] \in Published =>
                                    \E i \in 1 .. e : feed'[i] = Cmd(q, n)
        <4>1. \A y, c : Sound(y, c)' <=> Sound(y, c)
          BY DEF Sound
        <4> QED
          BY <4>1 DEF ResultInv, e
      <3>1. ASSUME NEW i \in 1 .. e, IsResult(i, q)' PROVE Sound(feed'[i], q)
        BY <1>5, <2>1, <2>3, <3>1 DEF IInv, ResultInv
      <3>2. ASSUME NEW i \in 1 .. e, IsResult(i, q)', down'[q] = "send"
            PROVE  IsResult(i, q) /\ i \in 1 .. Len(feed) /\ feed'[i] = feed[i]
        BY <1>3, <2>3, <3>2
      <3>3. \A i \in 1 .. Len(feed) : i \in 1 .. e /\ feed'[i] = feed[i]
        BY <1>5
      <3>4. since[q] \in Nat => since[q] <= queryId[q]
        BY DEF IInv, ResultInv
      <3>5. ASSUME down'[q] = "send"
            PROVE  LET x == downOffer'[q] IN
                   /\ x.type = "CmdResult" /\ x.conn = q
                   /\ x.chunk = rfwd[q]
                   /\ x.for = resp[q][rfwd[q]].for
                   /\ x.err = resp[q][rfwd[q]].ff
                   /\ Sound(x, q)
                   /\ \A i \in 1 .. Len(feed) :
                        IsResult(i, q) => feed[i].id <= x.id
                   /\ \A n \in 1 .. x.for - 1 :
                        sent[q][n] \in Published =>
                          \E i \in 1 .. Len(feed) : feed[i] = Cmd(q, n)
        BY <1>3, <3>5 DEF IInv, ResultInv
      <3>6. ASSUME down'[q] = "send", NEW n \in 1 .. downOffer'[q].for - 1,
                   sent[q][n] \in Published
            PROVE  \E i \in 1 .. e : feed'[i] = Cmd(q, n)
        <4>1. PICK i \in 1 .. Len(feed) : feed[i] = Cmd(q, n)
          BY <3>5, <3>6
        <4> QED
          BY <3>3, <4>1
      <3>7. ASSUME down'[q] = "send", NEW i \in 1 .. e, IsResult(i, q)'
            PROVE  feed'[i].id <= downOffer'[q].id
        BY <3>2, <3>5, <3>7
      <3> QED
        BY <3>1, <3>4, <3>5, <3>6, <3>7
    <2> QED
      BY <1>6, <1>7, <1>8, <2>4, <2>5, <2>6, <2>7, KeptParts DEF IInv
  <1> QED
    BY <1>1, <1>9, <1>10

\* The application writes a chunk: the login once it has been greeted, and
\* then commands, each when the one before needs no answer or has it.
LEMMA AppSendInv ==
  ASSUME IInv, NEW k \in Conns, NEW c \in Chunk, AppSend(k, c)
  PROVE  IInv'
  <1> USE DEF AppSend, shared, hubSide
  <1>1. \A q \in Conns :
          /\ sent[q] \in Seq(Chunk) /\ sent'[q] \in Seq(Chunk)
          /\ q # k => sent'[q] = sent[q]
    BY DEF IInv, TypeOK
  <1>2. sent'[k] = Append(sent[k], c)
    BY DEF IInv, TypeOK
  <1>3. \A q \in Conns :
          /\ Len(sent[q]) \in Nat /\ Len(sent'[q]) \in Nat
          /\ Len(sent[q]) <= Len(sent'[q])
          /\ \A n \in 1 .. Len(sent[q]) : sent'[q][n] = sent[q][n]
    BY <1>1, <1>2
  <1>4. \A q \in Conns : /\ fwd[q] \in Nat /\ queryId[q] \in Nat
                         /\ fwd[q] <= Len(sent[q])
    BY DEF IInv, TypeOK
  <1>5. TypeOK'
    <2>1. sent' \in [Conns -> Seq(Chunk)]
      BY <1>1 DEF IInv, TypeOK
    <2>2. \A q \in Conns : fwd[q] <= Len(sent'[q])
      BY <1>3, <1>4
    <2> QED
      BY <2>1, <2>2 DEF IInv, TypeOK
  <1>6. /\ up[k] # "absent"
        /\ Len(sent[k]) > 0 /\ sent[k][Len(sent[k])] \in Answered =>
             \E i \in 1 .. rfwd[k] : resp[k][i].for = Len(sent[k])
    <2>1. \/ Len(sent[k]) = 0 /\ HasAnswer(k, 0)
          \/ Len(sent[k]) > 0 /\ sent[k][Len(sent[k])] \notin Answered
          \/ Len(sent[k]) > 0 /\ HasAnswer(k, Len(sent[k]))
      BY DEF MaySend, Answered
    <2>2. HasAnswer(k, Len(sent[k])) =>
            \E i \in 1 .. rfwd[k] : resp[k][i].for = Len(sent[k])
      BY DEF HasAnswer
    <2>3. ASSUME up[k] = "absent" PROVE FALSE
      <3>1. Len(sent[k]) = 0 /\ Len(resp[k]) = 0
        BY <2>3 DEF IInv, StageInv
      <3>2. rfwd[k] \in Nat /\ rfwd[k] <= 0
        BY <3>1 DEF IInv, TypeOK
      <3> QED
        BY <2>1, <3>1, <3>2 DEF HasAnswer
    <2> QED
      BY <2>1, <2>2, <2>3
  <1>7. StageInv'
    BY <1>1, <1>6 DEF IInv, StageInv
  <1>8. CountInv'
    BY <1>3, <1>4 DEF IInv, CountInv
  <1>9. TurnInv'
    <2> SUFFICES ASSUME NEW q \in Conns, NEW n \in 1 .. Len(sent'[q]) - 1,
                        sent'[q][n] \in Answered
                 PROVE  \E i \in 1 .. rfwd[q] : resp[q][i].for = n
      BY DEF IInv, TurnInv
    <2>1. CASE n \in 1 .. Len(sent[q]) - 1
      BY <1>3, <2>1 DEF IInv, TurnInv
    <2>2. CASE n \notin 1 .. Len(sent[q]) - 1
      <3>1. q = k /\ n = Len(sent[k]) /\ n > 0
        BY <1>1, <1>2, <1>3, <2>2
      <3> QED
        BY <1>3, <1>6, <3>1
    <2> QED
      BY <2>1, <2>2
  <1>10. CmdInv'
    <2> SUFFICES ASSUME NEW q \in Conns, NEW i \in 1 .. Len(feed), IsCmd(i, q)
                 PROVE  /\ feed[i].id \in 1 .. fwd[q]
                        /\ up[q] \in Reporting => feed[i].id < fwd[q]
                        /\ sent'[q][feed[i].id] \in Published
      BY DEF CmdInv, IsCmd
    <2>1. feed[i].id \in 1 .. fwd[q] /\ sent[q][feed[i].id] \in Published
      BY DEF IInv, CmdInv
    <2>2. sent'[q][feed[i].id] = sent[q][feed[i].id]
      BY <1>3, <1>4, <2>1
    <2> QED
      BY <2>1, <2>2 DEF IInv, CmdInv
  <1>11. NoCmdLost'
    BY <1>3, <1>4 DEF IInv, NoCmdLost
  <1>12. EarlierCmdsFirst'
    <2> SUFFICES ASSUME NEW q \in Conns, NEW i \in 1 .. Len(feed),
                        IsResult(i, q), NEW n \in 1 .. feed[i].for - 1,
                        sent'[q][n] \in Published
                 PROVE  \E j \in 1 .. i - 1 : feed[j] = Cmd(q, n)
      BY DEF EarlierCmdsFirst, IsResult
    <2>1. feed[i].for <= fwd[q]
      BY DEF IInv, ResultInv, Sound
    <2>2. feed[i] \in Reports
      BY DEF IInv, TypeOK
    <2>3. feed[i].for \in Nat
      BY <2>2, FieldTypes DEF IsResult
    <2>4. sent'[q][n] = sent[q][n]
      BY <1>3, <1>4, <2>1, <2>3
    <2> QED
      BY <2>4 DEF IInv, EarlierCmdsFirst
  <1>13. IdsInOrder'
    <2>1. \A q \in Conns : \A j \in 1 .. Len(feed) :
            IsCmd(j, q) => sent'[q][feed[j].id] \in Published
      BY <1>10 DEF CmdInv, IsCmd
    <2>2. \A q \in Conns : \A i, j \in 1 .. Len(feed) :
            i < j =>
              /\ IsCmd(i, q) /\ IsCmd(j, q) => feed[i].id < feed[j].id
              /\ IsResult(i, q) /\ IsResult(j, q) =>
                   feed[i].id <= feed[j].id
      BY DEF IInv, IdsInOrder
    <2>3. \A i, q : /\ IsCmd(i, q)' <=> IsCmd(i, q)
                    /\ IsResult(i, q)' <=> IsResult(i, q)
      BY DEF IsCmd, IsResult
    <2> QED
      BY <2>1, <2>2, <2>3 DEF IdsInOrder
  <1>14. ResultInv'
    <2>1. \A q \in Conns : since[q] \in Nat => since[q] <= queryId[q]
      BY DEF IInv, ResultInv
    <2> QED
      BY <1>3, <1>4, <2>1, ResultKept
  <1> QED
    BY <1>5, <1>7, <1>8, <1>9, <1>10, <1>11, <1>12, <1>13, <1>14, KeptParts
    DEF IInv

LEMMA ReportedKept ==
  ASSUME AnswersReportedOnce, UNCHANGED <<rfwd, down, feed>>,
         \A q \in Conns : \A i \in 1 .. Len(feed) : IsResult(i, q) =>
           resp'[q][feed[i].chunk] = resp[q][feed[i].chunk]
  PROVE  AnswersReportedOnce'
  <1>1. \A i, q : IsResult(i, q)' <=> IsResult(i, q)
    BY DEF IsResult
  <1>2. ASSUME NEW q \in Conns, NEW n,
               n = rfwd[q] - (IF down[q] \in Busy THEN 1 ELSE 0)
        PROVE  /\ \A c \in 1 .. n :
                    \E i \in 1 .. Len(feed) :
                      IsResult(i, q) /\ feed[i].chunk = c
               /\ \A i \in 1 .. Len(feed) : IsResult(i, q) =>
                    /\ feed[i].chunk \in 1 .. n
                    /\ feed[i].for = resp'[q][feed[i].chunk].for
                    /\ feed[i].err = resp'[q][feed[i].chunk].ff
                    /\ \A j \in 1 .. i - 1 :
                         IsResult(j, q) => feed[j].chunk < feed[i].chunk
    <2>1. /\ \A c \in 1 .. n :
               \E i \in 1 .. Len(feed) : IsResult(i, q) /\ feed[i].chunk = c
          /\ \A i \in 1 .. Len(feed) : IsResult(i, q) =>
               /\ feed[i].chunk \in 1 .. n
               /\ feed[i].for = resp[q][feed[i].chunk].for
               /\ feed[i].err = resp[q][feed[i].chunk].ff
               /\ \A j \in 1 .. i - 1 :
                    IsResult(j, q) => feed[j].chunk < feed[i].chunk
      BY <1>2 DEF AnswersReportedOnce
    <2> QED
      BY <2>1
  <1> QED
    BY <1>1, <1>2 DEF AnswersReportedOnce

\* The server writes a chunk: the first or a further one of an answer.
LEMMA AnswerAppended ==
  ASSUME IInv, NEW k \in Conns, NEW a \in Answer,
         server[k] = "open", a.for <= fwd[k],
         \A i \in 1 .. Len(resp[k]) : resp[k][i].for <= a.for,
         resp' = [resp EXCEPT ![k] = Append(@, a)],
         UNCHANGED <<app, server, sent, fwd, rfwd, shared, up, down, since,
                     hubSide>>
  PROVE  IInv'
  <1> USE DEF shared, hubSide
  <1>1. /\ \A q \in Conns : resp[q] \in Seq(Answer) /\ rfwd[q] \in Nat
                            /\ rfwd[q] <= Len(resp[q]) /\ fwd[q] \in Nat
        /\ \A q \in Conns : q # k => resp'[q] = resp[q]
        /\ resp'[k] = Append(resp[k], a)
    BY DEF IInv, TypeOK
  <1>2. \A q \in Conns :
          /\ resp'[q] \in Seq(Answer)
          /\ Len(resp[q]) \in Nat /\ Len(resp'[q]) \in Nat
          /\ Len(resp'[q]) >= Len(resp[q])
          /\ \A i \in 1 .. Len(resp[q]) : resp'[q][i] = resp[q][i]
          /\ \A i \in 1 .. Len(resp'[q]) :
               i \in 1 .. Len(resp[q]) \/ (q = k /\ i = Len(resp[k]) + 1)
    BY <1>1
  <1>3. resp'[k][Len(resp[k]) + 1] = a /\ a.for \in Nat
    BY <1>1 DEF Answer
  <1>4. TypeOK'
    <2>1. resp' \in [Conns -> Seq(Answer)]
      BY <1>2 DEF IInv, TypeOK
    <2>2. \A q \in Conns : rfwd[q] <= Len(resp'[q])
      BY <1>1, <1>2
    <2> QED
      BY <2>1, <2>2 DEF IInv, TypeOK
  <1>5. StageInv'
    BY <1>1, <1>2 DEF IInv, StageInv
  <1>6. CountInv'
    BY DEF IInv, CountInv
  <1>7. \A q \in Conns : \A i \in 1 .. Len(resp[q]) :
          /\ resp[q][i].for \in Nat /\ resp[q][i].for <= fwd[q]
          /\ \A j \in 1 .. i : resp[q][j].for <= resp[q][i].for
    <2>1. ASSUME NEW q \in Conns, NEW i \in 1 .. Len(resp[q])
          PROVE  resp[q][i].for \in Nat
      <3>1. resp[q][i] \in Answer
        BY <1>1
      <3> QED
        BY <3>1 DEF Answer
    <2> QED
      BY <2>1 DEF IInv, TurnInv
  <1>8. TurnInv'
    <2>1. ASSUME NEW q \in Conns, NEW i \in 1 .. Len(resp'[q])
          PROVE  /\ resp'[q][i].for <= fwd[q]
                 /\ \A j \in 1 .. i : resp'[q][j].for <= resp'[q][i].for
      <3>1. CASE i \in 1 .. Len(resp[q])
        <4>1. \A j \in 1 .. i : j \in 1 .. Len(resp[q])
          BY <1>2, <3>1
        <4> QED
          BY <1>2, <1>7, <3>1, <4>1
      <3>2. CASE q = k /\ i = Len(resp[k]) + 1
        <4>1. resp'[q][i] = a
          BY <1>3, <3>2
        <4>2. \A j \in 1 .. i : j = i \/ j \in 1 .. Len(resp[k])
          BY <1>2, <3>2
        <4>3. ASSUME NEW j \in 1 .. i PROVE resp'[q][j].for <= a.for
          <5>1. CASE j = i
            BY <1>3, <4>1, <5>1
          <5>2. CASE j \in 1 .. Len(resp[k])
            BY <1>2, <3>2, <5>2
          <5> QED
            BY <4>2, <5>1, <5>2
        <4> QED
          BY <3>2, <4>1, <4>3
      <3> QED
        BY <1>2, <3>1, <3>2
    <2>2. ASSUME NEW q \in Conns, NEW n \in 1 .. Len(sent[q]) - 1,
                 sent[q][n] \in Answered
          PROVE  \E i \in 1 .. rfwd[q] : resp'[q][i].for = n
      <3>1. PICK i \in 1 .. rfwd[q] : resp[q][i].for = n
        BY <2>2 DEF IInv, TurnInv
      <3>2. i \in 1 .. Len(resp[q])
        BY <1>1, <1>2
      <3> QED
        BY <1>2, <3>1, <3>2
    <2> QED
      BY <2>1, <2>2 DEF TurnInv
  <1>9. AnswersReportedOnce'
    <2>1. ASSUME NEW q \in Conns, NEW i \in 1 .. Len(feed), IsResult(i, q)
          PROVE  resp'[q][feed[i].chunk] = resp[q][feed[i].chunk]
      <3>1. feed[i].chunk \in
              1 .. rfwd[q] - (IF down[q] \in Busy THEN 1 ELSE 0)
        BY <2>1 DEF IInv, AnswersReportedOnce
      <3>2. feed[i].chunk \in 1 .. Len(resp[q])
        BY <1>1, <1>2, <3>1
      <3> QED
        BY <1>2, <3>2
    <2> QED
      BY <2>1, ReportedKept DEF IInv
  <1>10. ResultInv'
    <2>1. \A q \in Conns : /\ since[q] \in Nat => since[q] <= queryId[q]
                           /\ queryId[q] \in Nat
      BY DEF IInv, TypeOK, ResultInv
    <2> QED
      BY <1>1, <1>2, <2>1, ResultKept
  <1>11. CmdInv' /\ NoCmdLost' /\ EarlierCmdsFirst' /\ IdsInOrder'
    BY KeptParts
  <1> QED
    BY <1>4, <1>5, <1>6, <1>8, <1>9, <1>10, <1>11 DEF IInv

\* The first chunk of an answer, to the first command that waits for one.
LEMMA RespondInv ==
  ASSUME IInv, NEW k \in Conns, NEW n \in Nat, NEW err \in BOOLEAN,
         NEW last \in BOOLEAN, Respond(k, n, err, last)
  PROVE  IInv'
  <1> DEFINE a == [for |-> n, err |-> err, ff |-> err, last |-> last]
  <1>1. a \in Answer /\ a.for = n
    BY DEF Answer
  <1>2. ASSUME NEW i \in 1 .. Len(resp[k]) PROVE resp[k][i].for <= n
    <2>1. resp[k] \in Seq(Answer) /\ resp[k] # <<>> /\ Len(resp[k]) \in Nat
      BY <1>2 DEF IInv, TypeOK
    <2>2. resp[k][i].for <= Last(resp[k]).for
      BY <2>1 DEF IInv, TurnInv, Last
    <2>3. Last(resp[k]).for \in Nat /\ resp[k][i].for \in Nat
      <3>1. Last(resp[k]) \in Answer /\ resp[k][i] \in Answer
        BY <2>1 DEF Last
      <3> QED
        BY <3>1 DEF Answer
    <2>4. Last(resp[k]).for <= n
      BY <2>1, <2>3 DEF Respond, AnswersNext
    <2> QED
      BY <2>2, <2>3, <2>4
  <1>3. /\ server[k] = "open" /\ n <= fwd[k]
        /\ resp' = [resp EXCEPT ![k] = Append(@, a)]
        /\ UNCHANGED <<app, server, sent, fwd, rfwd, shared, up, down, since,
                       hubSide>>
    BY DEF Respond
  <1> HIDE DEF a
  <1> QED
    BY <1>1, <1>2, <1>3, AnswerAppended

\* A further chunk of the last answer.
LEMMA RespondMoreInv ==
  ASSUME IInv, NEW k \in Conns, NEW ff \in BOOLEAN, NEW last \in BOOLEAN,
         RespondMore(k, ff, last)
  PROVE  IInv'
  <1> DEFINE a == [for |-> Last(resp[k]).for, err |-> FALSE, ff |-> ff,
                   last |-> last]
  <1>1. resp[k] \in Seq(Answer) /\ resp[k] # <<>>
    BY DEF IInv, TypeOK, RespondMore
  <1>2. Len(resp[k]) \in 1 .. Len(resp[k])
    BY <1>1
  <1>3. a \in Answer /\ a.for = Last(resp[k]).for
    <2>1. Last(resp[k]) \in Answer
      BY <1>1, <1>2 DEF Last
    <2> QED
      BY <2>1 DEF Answer
  <1>4. /\ a.for <= fwd[k]
        /\ \A i \in 1 .. Len(resp[k]) : resp[k][i].for <= a.for
    BY <1>1, <1>2, <1>3 DEF IInv, TurnInv, Last
  <1>5. /\ server[k] = "open"
        /\ resp' = [resp EXCEPT ![k] = Append(@, a)]
        /\ UNCHANGED <<app, server, sent, fwd, rfwd, shared, up, down, since,
                       hubSide>>
    BY DEF RespondMore, IInv, TypeOK
  <1> HIDE DEF a
  <1> QED
    BY <1>1, <1>3, <1>4, <1>5, AnswerAppended

LEMMA NextInv == IInv /\ [Next]_vars => IInv'
  <1> SUFFICES ASSUME IInv, [Next]_vars PROVE IInv'
    OBVIOUS
  <1>1. ASSUME NEW k \in Conns, UpStep(k) PROVE IInv'
    BY <1>1, ForwardInv, UpEndsInv, CountStepInv, ClassifyInv DEF UpStep
  <1>2. ASSUME NEW k \in Conns, DownStep(k) PROVE IInv'
    BY <1>2, DialInv, DialFailsInv, ReadBackInv, WriteBackInv, ReadTimerInv,
       ReadIdInv, FinishInv, CloseInv DEF DownStep, DownRuns
  <1>3. ASSUME NEW k \in Conns, HubStep(k) PROVE IInv'
    BY <1>3, TakeUpInv, TakeDownInv DEF HubStep
  <1>4. ASSUME NEW k \in Conns, EnvStep(k) PROVE IInv'
    <2>1. ASSUME NEW n \in 0 .. MaxSent, NEW err \in BOOLEAN,
                 NEW last \in BOOLEAN, Respond(k, n, err, last)
          PROVE  IInv'
      BY <2>1, n \in Nat, ProxyAssumption, RespondInv
    <2> QED
      BY <1>4, <2>1, AcceptInv, AppCloseInv, ServerCloseInv, AppSendInv,
         RespondMoreInv, ProxyAssumption DEF EnvStep
  <1>5. CASE UNCHANGED vars
    <2>1. TypeOK'
      BY <1>5 DEF IInv, TypeOK, vars, sockets, shared, hubSide
    <2>2. StageInv'
      BY <1>5 DEF IInv, StageInv, vars, sockets, shared, hubSide
    <2> QED
      BY <1>5, <2>1, <2>2, KeptParts
      DEF IInv, vars, sockets, shared, hubSide
  <1> QED
    BY <1>1, <1>2, <1>3, <1>4, <1>5 DEF Next

LEMMA InductiveInv == Safety => []IInv
  BY InitInv, NextInv, PTL DEF Safety

-----------------------------------------------------------------------------
(* The theorems.                                                           *)

\* Every chunk and report is of its type, and no goroutine reads beyond what
\* the other end has written (proxy.go, handleConnection).
THEOREM TypeCorrect == Safety => []TypeOK
  <1>1. IInv => TypeOK
    BY DEF IInv
  <1> QED
    BY InductiveInv, <1>1, PTL

\* No chunk that begins with COM_QUERY is forwarded without its Cmd being
\* received by the hub before the next chunk is (RequestPacketParser.Write).
THEOREM CmdsKept == Safety => []NoCmdLost
  <1>1. IInv => NoCmdLost
    BY DEF IInv
  <1> QED
    BY InductiveInv, <1>1, PTL

\* ResponsePacketParser.Write reports every chunk the application has received
\* once, in order, and as an error exactly if its fifth byte says so.
THEOREM ReportedOnce == Safety => []AnswersReportedOnce
  <1>1. IInv => AnswersReportedOnce
    BY DEF IInv
  <1> QED
    BY InductiveInv, <1>1, PTL

\* However the two parsers race on queryId and timer, the id of a result lies
\* between the chunk before the one answered and the next that wants an answer,
\* and a result with the right start time never has the older id.
THEOREM Attribution == Safety => []AttributionWindow
  <1>1. IInv => AttributionWindow
    BY DEF IInv, ResultInv, AttributionWindow, Sound
  <1> QED
    BY InductiveInv, <1>1, PTL

\* A result can overtake only the Cmd of the very chunk it answers.
THEOREM CmdsBeforeResults == Safety => []EarlierCmdsFirst
  <1>1. IInv => EarlierCmdsFirst
    BY DEF IInv
  <1> QED
    BY InductiveInv, <1>1, PTL

\* The ids that reach the hub increase from Cmd to Cmd and never decrease from
\* result to result, and a Cmd has the id of a chunk with COM_QUERY in front,
\* wherever that chunk lies in the commands (proxy.go, both parsers).
THEOREM OrderedIds == Safety => []IdsInOrder
  <1>1. IInv => IdsInOrder
    BY DEF IInv
  <1> QED
    BY InductiveInv, <1>1, PTL
=============================================================================
