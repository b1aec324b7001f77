------------------------------- MODULE Proxy -------------------------------
(***************************************************************************)
(* The proxy's connections: handleConnection and the two parsers of        *)
(* proxy.go.  Per connection two goroutines run io.Copy: `up` copies what  *)
(* the application sends to the server, `down` copies the answers back and *)
(* tears the connection down when it ends.  Each writes a chunk through    *)
(* io.MultiWriter: first to the other socket, then to its parser, which    *)
(* reports it on a channel of the hub.  The parsers share queryId and      *)
(* timer without a lock.                                                   *)
(*                                                                         *)
(* A chunk is what one Read returns: a packet, several, or any part of     *)
(* them.  Its fifth byte is all the parsers look at.  Application and      *)
(* server follow the MySQL protocol: a greeting, the login, then a command *)
(* whenever the one before needs no answer or has it.  The hub is any      *)
(* receiver: module Hub says which.                                        *)
(***************************************************************************)
EXTENDS Integers, Sequences, FiniteSets, SequencesExt

CONSTANTS Conns,    \* accepted connections
          Chunks,   \* chunks the application may send
          Torn,     \* a time.Time read while it was being written
          Nothing,  \* no value offered to the hub
          MaxSent,  \* bound: chunks the application sends
          MaxParts  \* bound: chunks of one answer

\* What a chunk of the application ends with, and what its fifth byte says.
\* A command without an answer and the next command may be one chunk, which
\* then ends as the second and begins as the first.
Chunk ==
  [ends : {"answered",  \* a command, or login or file data, to be answered
           "silent",    \* a command without an answer (COM_STMT_CLOSE)
           "middle",    \* a part: the rest is in the next chunks
           "quit"},     \* COM_QUIT
   fifth : {"query",    \* COM_QUERY, with at least one byte behind it
            "quit",     \* COM_QUIT
            "other"}]   \* anything else

ASSUME ProxyAssumption ==
  /\ Chunks \subseteq Chunk
  /\ Torn \notin Nat
  /\ MaxSent \in Nat /\ MaxParts \in Nat

Answered  == {c \in Chunk : c.ends = "answered"}
Published == {c \in Chunk : c.fifth = "query"}

VARIABLES app,      \* application's end: "absent", "open", "closed"
          server,   \* server's end, likewise
          sent,     \* chunks written by the application
          resp,     \* chunks written by the server
          fwd,      \* how many of sent the proxy has written to the server
          rfwd,     \* how many of resp it has written to the application
          queryId,  \* *queryId
          timer,    \* *timer: the chunk that was counted when it was set
          up,       \* where the request goroutine is
          down,     \* where handleConnection is
          since,    \* the timer as read by ResponsePacketParser.Write
          upOffer,  \* the value its request goroutine is blocked in sending
          downOffer,  \* and the one handleConnection is blocked in sending
          feed      \* history: what the hub received, in order

sockets == <<app, server, sent, resp>>
shared  == <<queryId, timer>>
hubSide == <<upOffer, downOffer, feed>>
vars == <<sockets, fwd, rfwd, shared, up, down, since, hubSide>>

Cmd(k, n) == [conn |-> k, type |-> "Cmd", id |-> n]
\* `for`, `chunk` and `own` are not in CmdResult, nor read by any step: they say
\* which command the result answers, which chunk c of the server's it reports,
\* and whether the duration was computed from the command's start time t.
CmdResult(k, n, e, f, c, t) ==
  [conn |-> k, type |-> "CmdResult", id |-> n, err |-> e, for |-> f,
   chunk |-> c, own |-> t = f]
Finished(k) == [conn |-> k, type |-> "ConnState"]

Times   == Nat \cup {Torn}
Reports ==
  [conn : Conns, type : {"Cmd"}, id : Nat]
    \cup [conn : Conns, type : {"CmdResult"}, id : Nat, err : BOOLEAN,
          for : Nat, chunk : Nat, own : BOOLEAN]
    \cup [conn : Conns, type : {"ConnState"}]

ASSUME NothingAssumption == Nothing \notin Reports

Answer == [for : Nat,       \* the last chunk of the command answered
           err : BOOLEAN,   \* whether it is an error
           ff : BOOLEAN,    \* whether the chunk's fifth byte is 0xff
           last : BOOLEAN]  \* whether it completes the answer

UpState   == {"absent", "read", "count", "stamp", "send", "done"}
DownState == {"absent", "dial", "read", "write", "parse", "ident", "send",
              "finish", "closing", "done"}

TypeOK ==
  /\ app \in [Conns -> {"absent", "open", "closed"}]
  /\ server \in [Conns -> {"absent", "open", "closed"}]
  /\ sent \in [Conns -> Seq(Chunk)]
  /\ resp \in [Conns -> Seq(Answer)]
  /\ fwd \in [Conns -> Nat] /\ rfwd \in [Conns -> Nat]
  /\ \A k \in Conns : fwd[k] <= Len(sent[k]) /\ rfwd[k] <= Len(resp[k])
  /\ queryId \in [Conns -> Nat]
  /\ timer \in [Conns -> Times] /\ since \in [Conns -> Times]
  /\ up \in [Conns -> UpState] /\ down \in [Conns -> DownState]
  /\ upOffer \in [Conns -> Reports \cup {Nothing}]
  /\ downOffer \in [Conns -> Reports \cup {Nothing}]
  /\ feed \in Seq(Reports)

Init ==
  /\ app = [k \in Conns |-> "absent"] /\ server = [k \in Conns |-> "absent"]
  /\ sent = [k \in Conns |-> <<>>] /\ resp = [k \in Conns |-> <<>>]
  /\ fwd = [k \in Conns |-> 0] /\ rfwd = [k \in Conns |-> 0]
  /\ queryId = [k \in Conns |-> 0]
  /\ timer = [k \in Conns |-> 0] /\ since = [k \in Conns |-> 0]
  /\ up = [k \in Conns |-> "absent"] /\ down = [k \in Conns |-> "absent"]
  /\ upOffer = [k \in Conns |-> Nothing]
  /\ downOffer = [k \in Conns |-> Nothing]
  /\ feed = <<>>

-----------------------------------------------------------------------------
(* handleConnection: start and end.                                        *)

\* listener.Accept, go p.handleConnection(client)
Accept(k) ==
  /\ app[k] = "absent"
  /\ app' = [app EXCEPT ![k] = "open"]
  /\ down' = [down EXCEPT ![k] = "dial"]
  /\ UNCHANGED <<server, sent, resp, fwd, rfwd, shared, up, since, hubSide>>

\* net.Dial succeeds; both copies start.
Dial(k) ==
  /\ down[k] = "dial"
  /\ server' = [server EXCEPT ![k] = "open"]
  /\ up' = [up EXCEPT ![k] = "read"]
  /\ down' = [down EXCEPT ![k] = "read"]
  /\ UNCHANGED <<app, sent, resp, fwd, rfwd, shared, since, hubSide>>

\* net.Dial fails: client.Close(), and nothing is reported.
DialFails(k) ==
  /\ down[k] = "dial"
  /\ down' = [down EXCEPT ![k] = "done"]
  /\ UNCHANGED <<sockets, fwd, rfwd, shared, up, since, hubSide>>

\* The second io.Copy returns: the server closed (what it sent may be lost
\* if it reset the connection), or writing to the application fails.  The
\* first deferred call to run sends ConnState.
Finish(k) ==
  /\ \/ down[k] = "read" /\ server[k] = "closed"
     \/ down[k] = "write" /\ app[k] = "closed"
  /\ down' = [down EXCEPT ![k] = "finish"]
  /\ downOffer' = [downOffer EXCEPT ![k] = Finished(k)]
  /\ UNCHANGED <<sockets, fwd, rfwd, shared, up, since, upOffer, feed>>

\* The other deferred calls: server.Close(), client.Close().
Close(k) ==
  /\ down[k] = "closing"
  /\ down' = [down EXCEPT ![k] = "done"]
  /\ UNCHANGED <<sockets, fwd, rfwd, shared, up, since, hubSide>>

-----------------------------------------------------------------------------
(* The request goroutine: io.Copy and RequestPacketParser.Write.           *)

\* Read a chunk and write it to the server, which takes as long as the server
\* likes; a write after the server has closed may still succeed.
Forward(k) ==
  /\ up[k] = "read"
  /\ fwd[k] < Len(sent[k])
  /\ down[k] # "done"
  /\ fwd' = [fwd EXCEPT ![k] = @ + 1]
  /\ up' = [up EXCEPT ![k] = "count"]
  /\ UNCHANGED <<sockets, rfwd, shared, down, since, hubSide>>

\* Seeded fault: the socket of the application is left open at the end.
MutUpEndsNever(k) ==
  /\ up[k] = "read"
  /\ \/ app[k] = "closed"
     \/ server[k] = "closed" /\ fwd[k] < Len(sent[k])
  /\ up' = [up EXCEPT ![k] = "done"]
  /\ UNCHANGED <<sockets, fwd, rfwd, shared, down, since, hubSide>>

\* Seeded fault: the end of handleConnection stops the goroutine anywhere.
MutUpEndsEarly(k) ==
  /\ up[k] # "done"
  /\ down[k] = "done" \/ (up[k] = "read" /\ app[k] = "closed")
  /\ up' = [up EXCEPT ![k] = "done"]
  /\ UNCHANGED <<sockets, fwd, rfwd, shared, down, since, hubSide>>

\* The copy ends: the sockets have been closed by handleConnection, or the
\* application has left (EOF or a reset), or a write to the server fails.
\* Nobody is told: neither socket is closed here.
UpEnds(k) ==
  /\ up[k] = "read"
  /\ \/ down[k] = "done"
     \/ app[k] = "closed"
     \/ server[k] = "closed" /\ fwd[k] < Len(sent[k])
  /\ up' = [up EXCEPT ![k] = "done"]
  /\ UNCHANGED <<sockets, fwd, rfwd, shared, down, since, hubSide>>

\* Seeded fault: only commands that are reported are counted.
MutCount(k) ==
  /\ up[k] = "count"
  /\ queryId' = [queryId EXCEPT ![k] =
                   IF sent[k][fwd[k]] \in Published THEN @ + 1 ELSE @]
  /\ timer' = [timer EXCEPT ![k] = Torn]
  /\ up' = [up EXCEPT ![k] = "stamp"]
  /\ UNCHANGED <<sockets, fwd, rfwd, down, since, hubSide>>

\* *pp.queryId++, and the first word of *pp.timer = time.Now().  The other
\* goroutine reads timer before queryId, so it cannot see the one without the
\* other; but it can read a timer of which only a part has been stored.
Count(k) ==
  /\ up[k] = "count"
  /\ queryId' = [queryId EXCEPT ![k] = @ + 1]
  /\ timer' = [timer EXCEPT ![k] = Torn]
  /\ up' = [up EXCEPT ![k] = "stamp"]
  /\ UNCHANGED <<sockets, fwd, rfwd, down, since, hubSide>>

\* What the switch sends, if anything: for any chunk, also one in the middle
\* of a command, by its fifth byte.  The case of ComStmtPrepare is empty.
Report(k, chunk) ==
  CASE chunk.fifth = "query" -> Cmd(k, queryId[k])
    [] chunk.fifth = "quit"  -> Finished(k)
    [] OTHER                 -> Nothing

\* Seeded fault: the value is sent by a goroutine of its own.
MutClassify(k) ==
  /\ up[k] = "stamp"
  /\ timer' = [timer EXCEPT ![k] = queryId[k]]
  /\ upOffer' = [upOffer EXCEPT ![k] = Report(k, sent[k][fwd[k]])]
  /\ up' = [up EXCEPT ![k] = "read"]
  /\ UNCHANGED <<sockets, fwd, rfwd, queryId, down, since, downOffer,
                 feed>>

\* The last word of the timer is stored, and the switch is taken.
Classify(k) ==
  /\ up[k] = "stamp"
  /\ timer' = [timer EXCEPT ![k] = queryId[k]]
  /\ upOffer' = [upOffer EXCEPT ![k] = Report(k, sent[k][fwd[k]])]
  /\ up' = [up EXCEPT ![k] =
              IF upOffer'[k] = Nothing THEN "read" ELSE "send"]
  /\ UNCHANGED <<sockets, fwd, rfwd, queryId, down, since, downOffer,
                 feed>>

-----------------------------------------------------------------------------
(* The second io.Copy and ResponsePacketParser.Write.                      *)

\* Seeded fault: the copy goes on at the end of its input.
MutReadBack(k) ==
  /\ down[k] = "read"
  /\ down' = [down EXCEPT ![k] = "write"]
  /\ UNCHANGED <<sockets, fwd, rfwd, shared, up, since, hubSide>>

\* Read a chunk; the write to the application begins.
ReadBack(k) ==
  /\ down[k] = "read"
  /\ rfwd[k] < Len(resp[k])
  /\ down' = [down EXCEPT ![k] = "write"]
  /\ UNCHANGED <<sockets, fwd, rfwd, shared, up, since, hubSide>>

\* It returns once the application has made room for the chunk.  There is no
\* deadline: an application that stops reading holds handleConnection here.
WriteBack(k) ==
  /\ down[k] = "write"
  /\ rfwd' = [rfwd EXCEPT ![k] = @ + 1]
  /\ down' = [down EXCEPT ![k] = "parse"]
  /\ UNCHANGED <<sockets, fwd, shared, up, since, hubSide>>

\* time.Since(*pp.timer)
ReadTimer(k) ==
  /\ down[k] = "parse"
  /\ since' = [since EXCEPT ![k] = timer[k]]
  /\ down' = [down EXCEPT ![k] = "ident"]
  /\ UNCHANGED <<sockets, fwd, rfwd, shared, up, hubSide>>

\* Seeded fault: only the last chunk of an answer is reported.
MutReadId(k) ==
  /\ down[k] = "ident"
  /\ LET r == resp[k][rfwd[k]] IN
       downOffer' = [downOffer EXCEPT ![k] =
                    IF r.last
                    THEN CmdResult(k, queryId[k], r.ff, r.for, rfwd[k],
                                   since[k])
                    ELSE Nothing]
  /\ down' = [down EXCEPT ![k] =
                IF downOffer'[k] = Nothing THEN "read" ELSE "send"]
  /\ UNCHANGED <<sockets, fwd, rfwd, shared, up, since, upOffer, feed>>

\* The CmdResult is built from *pp.queryId and its send begins.
ReadId(k) ==
  /\ down[k] = "ident"
  /\ LET r == resp[k][rfwd[k]] IN
       downOffer' = [downOffer EXCEPT ![k] =
                    CmdResult(k, queryId[k], r.ff, r.for, rfwd[k], since[k])]
  /\ down' = [down EXCEPT ![k] = "send"]
  /\ UNCHANGED <<sockets, fwd, rfwd, shared, up, since, upOffer, feed>>

-----------------------------------------------------------------------------
(* The hub receives from whom it likes: one channel per type, chosen at    *)
(* random by its select.                                                   *)

\* Seeded fault: a value that was received is sent again.
MutTakeUp(k) ==
  /\ upOffer[k] # Nothing
  /\ feed' = Append(feed, upOffer[k])
  /\ up' \in {up, [up EXCEPT ![k] = "read"]}
  /\ upOffer' = [upOffer EXCEPT ![k] =
                   IF up'[k] = "send" THEN @ ELSE Nothing]
  /\ UNCHANGED <<sockets, fwd, rfwd, shared, down, since, downOffer>>

TakeUp(k) ==
  /\ upOffer[k] # Nothing
  /\ feed' = Append(feed, upOffer[k])
  /\ upOffer' = [upOffer EXCEPT ![k] = Nothing]
  /\ up' = [up EXCEPT ![k] = "read"]
  /\ UNCHANGED <<sockets, fwd, rfwd, shared, down, since, downOffer>>

TakeDown(k) ==
  /\ downOffer[k] # Nothing
  /\ feed' = Append(feed, downOffer[k])
  /\ downOffer' = [downOffer EXCEPT ![k] = Nothing]
  /\ down' = [down EXCEPT ![k] = IF @ = "finish" THEN "closing" ELSE "read"]
  /\ UNCHANGED <<sockets, fwd, rfwd, shared, up, since, upOffer>>

-----------------------------------------------------------------------------
(* The application and the server, as the MySQL protocol has them.         *)

\* The application holds the complete answer to chunk n; the greeting (0) and
\* the answer to the authentication (1) must not be errors for it to go on.
HasAnswer(k, n) ==
  \E i \in 1 .. rfwd[k] :
    /\ resp[k][i].for = n /\ resp[k][i].last
    /\ n <= 1 => ~resp[k][i].err

\* A chunk in which a command begins: its fifth byte is that of the command.
Begins(c) ==
  /\ c.fifth = "query" => c.ends \in {"answered", "middle"}
  /\ c.fifth = "quit" => c.ends = "quit"

\* What it may send next: the login first, then one command after the other,
\* each when the one before needs no answer or has been answered.  An answer
\* may also ask for more data, for the login or of a file (LOAD DATA).
MaySend(k, c) ==
  LET n == Len(sent[k])
      more == c.ends \in {"answered", "middle"}
  IN
  \/ n = 0 /\ HasAnswer(k, 0) /\ c.ends = "answered"
  \/ n > 0 /\ sent[k][n].ends = "middle"
  \/ n > 0 /\ sent[k][n].ends = "silent" /\ Begins(c)
  \/ n > 0 /\ sent[k][n] \in Answered /\ HasAnswer(k, n) /\ (Begins(c) \/ more)

AppSend(k, c) ==
  /\ app[k] = "open" /\ down[k] # "done"
  /\ Len(sent[k]) < MaxSent
  /\ MaySend(k, c)
  /\ sent' = [sent EXCEPT ![k] = Append(@, c)]
  /\ UNCHANGED <<app, server, resp, fwd, rfwd, shared, up, down, since,
                 hubSide>>

AppClose(k) ==
  /\ app[k] = "open"
  /\ app' = [app EXCEPT ![k] = "closed"]
  /\ UNCHANGED <<server, sent, resp, fwd, rfwd, shared, up, down, since,
                 hubSide>>

\* Chunk n is the one the server answers next: the first that wants an
\* answer after the last one answered.
AnswersNext(k, n) ==
  LET prev == IF resp[k] = <<>> THEN -1 ELSE Last(resp[k]).for IN
  IF n = 0 THEN prev = -1
  ELSE /\ sent[k][n] \in Answered
       /\ prev < n
       /\ \A j \in 1 .. n - 1 : sent[k][j] \in Answered => j <= prev

\* The first chunk of an answer says truly whether it is an error; only the
\* answer to a command takes more than one chunk.
Respond(k, n, err, last) ==
  /\ server[k] = "open" /\ down[k] # "done"
  /\ n <= fwd[k]
  /\ resp[k] # <<>> => Last(resp[k]).last
  /\ AnswersNext(k, n)
  /\ ~last => ~err /\ MaxParts > 1 /\ n > 1
  /\ resp' = [resp EXCEPT ![k] =
               Append(@, [for |-> n, err |-> err, ff |-> err, last |-> last])]
  /\ UNCHANGED <<app, server, sent, fwd, rfwd, shared, up, down, since,
                 hubSide>>

\* Chunks of the answer that is being sent.
Parts(k) == {i \in 1 .. Len(resp[k]) : resp[k][i].for = Last(resp[k]).for}

\* The fifth byte of a later chunk is any byte of the answer.
RespondMore(k, ff, last) ==
  /\ server[k] = "open" /\ down[k] # "done"
  /\ resp[k] # <<>> /\ ~Last(resp[k]).last
  /\ last \/ Cardinality(Parts(k)) + 1 < MaxParts
  /\ resp' = [resp EXCEPT ![k] =
               Append(@, [for |-> Last(@).for, err |-> FALSE, ff |-> ff,
                          last |-> last])]
  /\ UNCHANGED <<app, server, sent, fwd, rfwd, shared, up, down, since,
                 hubSide>>

\* COM_QUIT, a timeout, a shutdown or the end of the proxy's socket.
ServerClose(k) ==
  /\ server[k] = "open"
  /\ server' = [server EXCEPT ![k] = "closed"]
  /\ UNCHANGED <<app, sent, resp, fwd, rfwd, shared, up, down, since,
                 hubSide>>

-----------------------------------------------------------------------------

\* What the goroutines do without waiting for a peer to take what they write.
UpRuns(k) ==
  \/ Count(k) \/ Classify(k)
  \/ (server[k] = "closed" \/ down[k] = "done") /\ UpEnds(k)
DownRuns(k) ==
  \/ Dial(k) \/ DialFails(k) \/ ReadBack(k) \/ ReadTimer(k) \/ ReadId(k)
  \/ Finish(k) \/ Close(k)

UpStep(k)   == Forward(k) \/ UpEnds(k) \/ Count(k) \/ Classify(k)
DownStep(k) == DownRuns(k) \/ WriteBack(k)
HubStep(k)  == TakeUp(k) \/ TakeDown(k)
EnvStep(k)  ==
  \/ Accept(k) \/ AppClose(k) \/ ServerClose(k)
  \/ \E c \in Chunks : AppSend(k, c)
  \/ \E n \in 0 .. MaxSent, err, last \in BOOLEAN : Respond(k, n, err, last)
  \/ \E ff, last \in BOOLEAN : RespondMore(k, ff, last)

Next == \E k \in Conns : UpStep(k) \/ DownStep(k) \/ HubStep(k) \/ EnvStep(k)

Safety == Init /\ [][Next]_vars

\* Goroutines run, net.Dial returns, a read or write on a socket that was
\* closed at either end returns, and the hub takes every value offered (module
\* Hub says when it does).  Nothing is assumed of the application and of the
\* server: they need not send, close, or read what is written to them, so a
\* write to an open one (Forward, WriteBack) need not return.
Spec ==
  /\ Safety
  /\ \A k \in Conns : /\ WF_vars(UpRuns(k)) /\ WF_vars(DownRuns(k))
                      /\ WF_vars(TakeUp(k)) /\ WF_vars(TakeDown(k))

-----------------------------------------------------------------------------
(* What holds of the reports.                                              *)

\* Where a goroutine has a chunk in hand that it may have yet to report.
Reporting == {"count", "stamp", "send"}
Busy      == {"parse", "ident", "send"}

IsCmd(i, k)    == feed[i].type = "Cmd" /\ feed[i].conn = k
IsResult(i, k) == feed[i].type = "CmdResult" /\ feed[i].conn = k

\* No Cmd is lost: a forwarded chunk whose fifth byte is COM_QUERY, as that of
\* every query which begins a chunk is, has had its Cmd received by the hub, or
\* is the last chunk forwarded and the request goroutine, which sends nothing
\* else to the server meanwhile, is still busy reporting it.  (A query behind
\* a command without an answer, in one chunk with it, has no Cmd to lose.)
NoCmdLost ==
  \A k \in Conns : \A n \in 1 .. fwd[k] :
    sent[k][n] \in Published =>
      \/ \E i \in 1 .. Len(feed) : feed[i] = Cmd(k, n)
      \/ n = fwd[k] /\ up[k] \in Reporting

\* Every chunk the application has received is reported exactly once, in
\* order, except the one handleConnection is busy with: a tear-down, a full
\* hub or a racing request loses or repeats none.  It is reported as an error
\* if its fifth byte says so, also when that is in the middle of a result set.
AnswersReportedOnce ==
  \A k \in Conns :
    LET reported == rfwd[k] - (IF down[k] \in Busy THEN 1 ELSE 0) IN
    /\ \A c \in 1 .. reported :
         \E i \in 1 .. Len(feed) : IsResult(i, k) /\ feed[i].chunk = c
    /\ \A i \in 1 .. Len(feed) : IsResult(i, k) =>
         /\ feed[i].chunk \in 1 .. reported
         /\ feed[i].for = resp[k][feed[i].chunk].for
         /\ feed[i].err = resp[k][feed[i].chunk].ff
         /\ \A j \in 1 .. i - 1 :
              IsResult(j, k) => feed[j].chunk < feed[i].chunk

\* How wrong a result can be: it has the id of the chunk before the one
\* answered (the request goroutine has forwarded it and not yet counted it),
\* or a later one, up to the next chunk that wants an answer; and if its
\* duration was taken from the start of the chunk answered, its id is not the
\* older one, because the timer is read first.
AttributionWindow ==
  \A k \in Conns : \A i \in 1 .. Len(feed) :
    IsResult(i, k) =>
      /\ feed[i].id >= feed[i].for - 1
      /\ feed[i].own => feed[i].id >= feed[i].for
      /\ \A n \in feed[i].for + 1 .. feed[i].id - 1 :
           sent[k][n] \notin Answered

\* When a result is received, so have been the Cmds of all chunks before the
\* one it answers: only the Cmd of that very chunk can come too late.
EarlierCmdsFirst ==
  \A k \in Conns : \A i \in 1 .. Len(feed) :
    IsResult(i, k) =>
      \A n \in 1 .. feed[i].for - 1 :
        sent[k][n] \in Published =>
          \E j \in 1 .. i - 1 : feed[j] = Cmd(k, n)

\* The ids of a connection's Cmds increase, and those of its results never
\* decrease, in the order the hub receives them.  The id of a Cmd is that
\* of a chunk whose fifth byte is COM_QUERY: a query, or data that happens to
\* have that byte there, but never another command.
IdsInOrder ==
  \A k \in Conns : \A i, j \in 1 .. Len(feed) :
    i < j =>
      /\ IsCmd(i, k) /\ IsCmd(j, k) => feed[i].id < feed[j].id
      /\ IsCmd(j, k) => sent[k][feed[j].id] \in Published
      /\ IsResult(i, k) /\ IsResult(j, k) => feed[i].id <= feed[j].id

\* handleConnection writes to an application that is there and does not read.
Stalled(k) == down[k] = "write" /\ app[k] = "open"

\* When the server ends the connection, both goroutines end and both sockets
\* are closed, whatever the goroutines were doing, if only the application
\* goes on reading or leaves.  Otherwise handleConnection waits in its write
\* for ever, and does not even learn that the server has gone.
ServerCloseTearsDown ==
  \A k \in Conns :
    server[k] = "closed" ~> \/ down[k] = "done" /\ up[k] = "done"
                           \/ []Stalled(k)

\* A chunk that was forwarded and has COM_QUERY there is reported, even if the
\* connection is torn down in the meantime or its application has stalled.
ForwardedIsReported ==
  \A k \in Conns : \A n \in 1 .. MaxSent :
    (fwd[k] >= n /\ sent[k][n] \in Published)
      ~> \E i \in 1 .. Len(feed) : feed[i] = Cmd(k, n)

-----------------------------------------------------------------------------
(* What the documentation says and the code does not do.                   *)

\* The id under which the command that ends with chunk n was reported: its
\* first chunk's.
CmdIdOf(k, n) ==
  CHOOSE m \in 1 .. n :
    /\ \A j \in m .. n - 1 : sent[k][j].ends = "middle"
    /\ m > 1 => sent[k][m - 1].ends # "middle"

\* README.md:17: the GUI tracks the result of each query.  It finds the query
\* by the id of the result, among the Cmds it has received (app.js:214), so the
\* id must be the one of the Cmd, and the Cmd must come first.  Violated:
\* queryId is read while the other goroutine has not counted the query yet, or
\* has counted the next one; the hub may receive the result before the Cmd;
\* and the chunks of one long query are counted separately.
ResultsMatchTheirQuery ==
  \A k \in Conns : \A i \in 1 .. Len(feed) :
    (IsResult(i, k) /\ feed[i].for > 1
       /\ sent[k][CmdIdOf(k, feed[i].for)] \in Published)
      => /\ feed[i].id = CmdIdOf(k, feed[i].for)
         /\ \E j \in 1 .. i - 1 : feed[j] = Cmd(k, feed[i].id)

\* index.html:55 shows a connection as active or finished.  After the hub has
\* received its ConnState no Cmd follows, which makes the browser show it as
\* active again (app.js:209).  Violated: the goroutines are not joined.
FinishedIsFinal ==
  \A k \in Conns : \A i, j \in 1 .. Len(feed) :
    feed[i] = Finished(k) /\ IsCmd(j, k) => j < i

\* index.html:55: when the application has left, the connection finishes.
\* Violated: the request goroutine ends without closing the server's socket.
AppCloseTearsDown ==
  \A k \in Conns : app[k] = "closed" ~> down[k] = "done"
=============================================================================
