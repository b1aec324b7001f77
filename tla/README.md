# Formal models of lottip

lottip sits between an application and a MySQL server, copies the traffic in
both directions, and reports queries, results and the end of connections to
browsers over websockets. This directory holds TLA+ models of the program,
the TLC configurations that check them on small instances, and proofs checked
by TLAPS. Source lines are those of the repository (`proxy.go:22`).

## 1. The system

| component | source | state | operations |
|---|---|---|---|
| Hub | `chat/hub.go` | map of clients; `data`, the last message, which survives every iteration; position in the range loop | `Run`: register, deregister, receive Cmd / CmdResult / ConnState, then send `data` to every client |
| Websocket client | `chat/client.go`, `/ws` in `http.go` | `dataChan`, the socket, the message being written | upgrade, register, `Process` (write, ping, return), close on a read error |
| Proxy connections | `proxy.go` | two sockets, `queryId`, `timer`, two goroutines | `handleConnection`, `RequestPacketParser.Write`, `ResponsePacketParser.Write` |
| Listener | `proxy.go`, `run` | the listener | accept, start a connection |
| Messages | `chat/states.go` | none | Cmd, CmdResult, ConnState |
| Browser | `web/js/app.js` | sockets, connections, states, filter and its backup, counter | connect, receive, filter, clear, disconnect, execute |
| Decoder | `protocol/decoder.go`, `const.go` | none | classification and decoding of packets |
| Packet reader | `protocol/packet.go` | how far into a response it is | the handshake, the readers of three kinds of responses (not called by the proxy) |
| Query execution | `/execute` in `http.go`, `utils.go` | the connection pool of a request | USE, query, rows, answer |
| Assets | `fs.go` | `once` and `data` of each embedded file | open, decode, read |
| Start-up | `main.go`, `run` in `proxy.go` | the listeners, the ready channel | start in any order, announce, fail |

All channels are unbuffered. The proxy's goroutines block in their sends until
`Hub.Run` receives; `Hub.Run` blocks in `client.dataChan <- data` until the
client's `Process` receives; `Process` blocks in `h.deregister` until `Hub.Run`
receives. That makes two chains of waiting (proxy -> hub -> client and
client -> hub) which can close into a cycle. The two goroutines of a proxy
connection share `queryId` and `timer` without a lock, and each forwards a
chunk *before* it looks at it (`io.MultiWriter`), so what the browsers are told
depends on who is faster. `PROJECT.json` lists these hazards, each at its line.

What makes each part correct:

* hub and client: no send on a closed channel; every browser shows a gap-free
  part of one common order; bounded lag; values are received, rounds arrive and
  browsers that left are forgotten - as far as the cycle above does not occur;
* proxy: every chunk that begins with a COM_QUERY is reported, and every answer
  once; results carry the id and duration of their query (they do not always,
  so the project also states how wrong they can be); connections end;
* browser: a finished query stays finished, nothing is lost while the filter
  is typed, the counter covers what is shown, the status tells the truth;
* decoder: what a peer encodes is what is decoded, what is cut off comes out
  missing or zero but never misplaced, and it is known what panics;
* packet reader: a call reads exactly one response (of several result sets it
  reads the first), does not wait for what will not come, and a handshake that
  fails half way does not go on;
* query execution and assets: an answer is whole, from the right place, or an
  error, whoever else asks at the same time, and it is known which requests
  leave a connection open;
* the process: no traffic makes it panic, but for the known causes.

## 2. The modules

| module | models | proved about in |
|---|---|---|
| `Broadcast` | abstract: a log, members, and what each member has shown | |
| `Hub` | `hub.go`, `client.go`, the `/ws` handler | `HubProofs` |
| `Proxy` | `proxy.go`: the connections, with application and server as environment | `ProxyProofs` |
| `Decoder` | `decoder.go`, `const.go`: one operator per function | `PeerProofs` |
| `Peer` | a peer that encodes messages, and the decoder on what arrives of them | `PeerProofs` |
| `PacketReader` | `packet.go`: a session read packet by packet | `ReaderProofs` |
| `Browser` | `app.js`, composed with `Broadcast` as the hub it is fed by | `BrowserProofs` |
| `Assets` | `fs.go`: the embedded files as `http.FileServer` uses them | `ServiceProofs` |
| `Execute` | `/execute` and `utils.go`: one query execution | `ServiceProofs` |
| `Service` | the process: `main.go`, both listeners, composed with `Assets`, `Execute` and what the parsers call of `Decoder` | `ServiceProofs` |
| `MC...` | instances for TLC | |

### Hub

`clients`, `data` are the variables of `Hub.Run`; `target` is the client the
range loop is sending to (`NoClient`: the hub is at its select) and `todo` the
clients it still has to serve, `target` included. Go iterates over a map in any
order but commits to a client before it sends, so `NextTarget` picks any. One
action is one `select` case *with the start of the range loop that follows*
(`Register`, `Deregister`, `Take`), or one completed send (`SendData`, a joint
step of hub and client, as the channel is unbuffered). `proc[c]` is where
`Client.Process`, or the handler before it, is. `Return` covers every way to
leave `Process`: the socket is closed and the goroutine blocks in the
deregistration. `ws[c]` is the socket; a peer that left (`gone`) is noticed by
the reading goroutine (`CloseOnReadError`) or not at all, and a write to it may
still succeed. The three kinds of value are not distinguished here: the hub
marshals each and treats all alike, and marshalling them cannot fail. `offers`
are the proxy's pending sends. `wire`, `feed` and `joined` are histories: what
was written to a socket, what the hub broadcast, and where in it a client
registered.

### Broadcast

What the hub promises, with no goroutines: entries are appended to a log when
nobody is more than one entry behind, members show the log in order from where
they joined, and joining or quitting repeats the last entry (that is what the
surviving `data` amounts to). `Hub` implements it under
`log <- feed, members <- clients, start <- joined, seen <- wire`.

### Proxy

Per connection, `sent` and `resp` are what application and server wrote, in the
chunks the proxy's reads return; `fwd` and `rfwd` say how much of it has been
forwarded. `up` is the goroutine of `proxy.go:114`, `down` is
`handleConnection` itself with the second copy. One step of a parser is one
access to shared state: `Forward` (the write to the server), `Count` (the
increment, and the first word of the timer), `Classify` (the rest of the timer,
the switch, the start of the send), and on the other side `ReadBack` (a chunk
was read, its write begins), `WriteBack` (the application took it), `ReadTimer`,
`ReadId`. `time.Time` has several words, so a read in the middle
of the store yields `Torn`. Only one pair of writes is merged: `queryId++` and
the first word, which the other goroutine cannot tell apart because it reads
the timer first. `upOffer` and `downOffer` are the values the two goroutines
are blocked in sending, if any. Three fields of a result are not in the code:
`for`, the chunk it answers, `chunk`, the chunk of the server's it reports, and
`own`, whether its duration is from that command's timer.
A chunk of the application's is two facts. `ends` is what it ends with: a
command that is answered, one that is not (COM_STMT_CLOSE), a part of something
longer, COM_QUIT. `fifth` is what its fifth byte says, which is all the parser
looks at (`Report`), in every chunk. The two are independent, but for chunks in
which a command begins (`Begins`): a query behind a silent command in one read
is a chunk that ends as a query and begins as something else, and the rest of a
long query, the login or file data may have any byte there, so it may be
reported as a query or as the end of the connection.
Application and server are external: they obey the MySQL protocol (greeting,
authentication, then a command whenever the one before needs no answer or has
it, data the server asked for) and may close, or stop reading, whenever they
like. A chunk has at least five bytes. The hub is
any receiver, which is more than `Hub` does: it may take values in any order.

### Decoder and Peer

A packet is the sequence of its bytes, and a `bytes.Reader` is that and an
offset; the comment of `Decoder` says how its methods behave at the end of a
packet. Numbers that the code only passes on stay bytes: of a `uint32` nothing
depends on the value. Where the value matters (length-encoded integers, the
number of parameters) it is computed, with its width (`NullBitmapLength` is in
16 bits). `make` of an impossible length panics; `MaxMake` is that limit.
`FormatInt` and `FormatFloat` are left out: a number's text is its eight bytes.
`Peer` writes a message as the protocol defines it (`Encode`, the reference),
any beginning of it arrives, and the function a caller would use is applied.
`MessagesAssumption` says what a message is: bytes and numbers of the protocol's
widths, without a bound on texts and with up to 65528 parameters, the most the
bitmap is measured right for. Row counts end at 2^31, where the model checker's
numbers do; the values of the messages that are checked are in `MCPeer`.

### PacketReader

One step is one `ReadPacket` and what the code does until the next one. A
packet is its first byte's meaning and its counts; that is all the readers look
at. The server is external and answers anything the protocol allows to the
command, with or without EOF packets as both ends agreed, also a request for a
file, an error in the middle of the rows, several result sets (`further`: what
follows the first), and a row of 16 MiB, which takes several packets and whose
continuation may begin with 0xfe or be empty. A call that begins with packets
of an earlier one in the stream, or whose row was split, is `astray`: from then
on the readers take any packet for any other, and they do so here. Either
end may close between any two packets. The handshake has a branch for each of
its error returns: a server that says ERR instead of its greeting, and a client
whose first packet is too short for a login, are found out when the packet has
been written to the other end (`packet.go:34`, `47`). A client that asks for
TLS gets no verdict, and the handshake waits.

### Browser

JavaScript runs one callback at a time, so an action is a callback. Vue's
`connections` is a map of references: while a filter is applied, the rows that
pass are the same objects in `connections` and `backupConnections`, so a result
changes both, until a repeated Cmd puts a new object in one of them; `shared`
says which rows are still common. The hub is the module `Broadcast`, not
`Hub`: `Hub` was shown to implement it, so whatever a page may see from `Hub`
it sees here, the repetitions included. What the proxy sends is any sequence in
which a Cmd occurs once: a result may overtake its Cmd, come once for every
chunk of an answer, with one outcome or with both, or belong to a command that
is not shown, and a connection may be reported as finished before or after its
last Cmd, and twice. A ConnId, the address of the client, is taken to name one
connection only, although a client's port may be used again long after. A page's socket is a member of the log from its
registration to its deregistration, and other pages come and go. Text and
timing of the debounced filter are left out: `matching` is the set of queries
that contain what was typed. The embedded copy of `app.js` in `fs.go` differs
from `web/js/app.js` in one line that logs.

### Assets, Execute, Service

`Assets`: `once[f]` is the `sync.Once` of a file, `data[f]` what is decoded of
it. `http.FileServer`'s part (the index of a directory, an empty listing, 404
or 500) is external and modelled as far as it decides what is opened next.
`Corrupt` are files that do not decode: in this version all do, so this is the
error path of `prepare`, should one not. The length announced for a file is the
one in its entry (`Size`, `fs.go:114`), so a file decoded in part breaks off.

`Execute`: `conn` is the connection in the request's pool, by the database it
is in. `USE` and the query each take it from the pool, or a new one in the
database of the DSN if it was closed meanwhile (`Drop`). Every error return is
an action. `rows.Close` is called nowhere: `rows.Next` closes the rows when it
finds an error or the end of the last result set, so a failing `rows.Scan` and
the first of several result sets (`more`: a CALL of a procedure that selects)
return with the connection in use, and `db.Close` does not close it.

`Service` composes both with start-up: `net.Listen` and `ListenAndServe` may
succeed or end the process, the latter also at any later time (`log.Fatal`
runs whenever it returns), `Ready` is the goroutine of `run` and the receive
of `appReadyInfo`. A handler of `net/http` that panics ends its request only;
`handleConnection` on a nil connection and `GetPacketType` on a short chunk
run in goroutines of the proxy and end the process. `Proxy` has what the
traffic means; here a chunk is its bytes, any bytes, and `RequestParser` and
`ResponseParser` are what the two parsers make of them with the operators of
`Decoder`.

The operators `Mut...` beside the actions are seeded faults: each property is
checked against one, to see that it can fail.

## 3. The runs

| run | instance | shows |
|---|---|---|
| `hub_safety` | 3 clients, 1 sender, 2 messages, feed up to 3 offers plus repetitions; 908,483 states | type invariant, `NoUseAfterClose`, `GapFree`, `CaughtUp`, `BoundedLag`, `StuckForever`, refinement of `Broadcast` |
| `hub_live` | 2 clients, 1 sender, 1 message | `PublishCompletesUnlessStuck`, `PeerLeavesForgotten`, `RoundsArrive` |
| `hub_stuck` | as `hub_live` | violated: `PublishCompletes` |
| `proxy_session` | from `Accept`, 2 chunks sent, answers of up to 2 chunks: queries, silent commands, COM_QUIT and data that looks like it; 695,767 states | type invariant, `AnswersReportedOnce`, `ServerCloseTearsDown`, `ForwardedIsReported` |
| `proxy_commands` | from an authenticated session, 3 more chunks: queries, long queries, silent commands, either with something else in front of or behind it, data; 1,940,574 states | `NoCmdLost`, `AttributionWindow`, `EarlierCmdsFirst`, `IdsInOrder` |
| `proxy_match` | authenticated session, 2 more chunks | violated: `ResultsMatchTheirQuery` |
| `proxy_final` | likewise | violated: `FinishedIsFinal` |
| `proxy_leave` | from `Accept`, under fairness | violated: `AppCloseTearsDown` |
| `decoder` | 106 messages with boundary values, each complete and cut at every byte; 5,828 states | type invariant, `RoundTrip`, `CutShort`, `PanicsAreKnown`, `BitmapCovers` |
| `packets` | 2 responses after a handshake, up to 2 columns, parameters and rows, each response to a query with up to one more behind it; 972,252 states | type invariant, `OneResponse`, `WaitsOnlyFor`, `PanicsAreKnown`, `HandshakeRelayed`, `CutEnds` |
| `browser` | 2 sockets of the page, 1 other page, 1 query, log up to 3 entries; 6,451,186 states | type invariant, `SettledStays`, `UnfilteredView`, `CountCovers`, `StatusIsTrue` |
| `service` | 2 readers of assets, 2 requests, 1 connection, chunks of 1 to 9 bytes, results of up to 2 rows; 249,774 states | type invariant, `AssetWholeOrError`, `AnswerSound`, `AnnouncedListens`, `CrashesKnown`, `AssetsAnswered` |

Bounds. `MaxFeed` stops senders from offering once the feed is that long.
Three clients suffice for one that is being served while a second joins or
leaves and a third waits for its turn; the properties of two browsers' orders
need two. The liveness runs are smaller and without symmetry. In `Proxy`,
`MaxSent` bounds the chunks an application sends and `MaxParts` those of an
answer. The races are between one chunk and its neighbours, and with one
command at a time a result can be off only until the next answered command: a
command, a silent one and a third cover it. `Chunks` is a set of combinations
of `ends` and `fifth`: the runs have those in which what a chunk is and what it
is taken for differ, and `ProxyProofs` is about any set. Connections share nothing but the
hub, so one connection is checked. The longer runs start at `Established`, a
state reached without races by `proxy_session`'s model, because the greeting
and the authentication multiply the states without adding a race.

`decoder`: the functions are pure, so what counts is the choice of messages:
the first and last value of each width of a length, each combination of the
handshake's two flags with seeds below and above 21, lists of 0 to 9 parameters
(the bitmap's second byte begins at the ninth) of all three types and an
unknown one, with a NULL first, last or between, parameter counts around every
boundary up to 65535. `packets`: the readers keep no state from one call to the
next, so two calls show whether one leaves the next out of step; two items are
the least with which a count can be off in both directions. One further result
set is enough, as the call that finds it is already astray; a packet taken for
a count that is not one gives at most `MaxCount + 1` packets to read, which is
more than are there. `browser`: the page
treats queries alike and separately, except that the counter adds them up, and
`CountCovers` needs only one that is counted once too few. Three entries hold a
Cmd, its result and one repetition of either, or a Cmd and two results; two sockets are a Stop and a new
Start, or two open at a time. `service`: two readers race for one file, and the
file is one that decodes, one that does not, a directory with and without an
index, or missing. Chunks have every first byte that a parser looks for, and
another, and every length up to one more than the decoders ask for.

Deadlock is not checked: when all browsers and applications have left, or the
process has ended, the system stops.

Fairness. Goroutines that can run do run (weak fairness of each step). Go's
`select` chooses at random among the ready cases, so a case that is ready again
and again is eventually taken (strong fairness of `Register`, `Deregister`,
`Take`). A write ends at its two-second deadline at the latest; a ping is due
every five seconds, so a closed socket is found; the kernel reports a peer that
left to the pending read. Nothing is assumed of browsers, applications and
servers, nor that a write or a ping ever fails on an open socket. `Proxy`'s
fairness assumes a hub that keeps receiving; `hub_stuck` shows that this is not
given. No write to a socket that is open at its other end is assumed to return
(`Forward`, `WriteBack`), since there is no deadline; one to a closed socket
does, with or without an error. `PacketReader` assumes that a packet that
arrived is read, and nothing of the server. `Service` assumes that the
goroutines that serve a file, start a connection or announce run; nothing of
the listeners, which may never come up, and nothing of the MySQL server.

### What the violated runs show

* `hub_stuck`: a browser's socket fails; its `Process` returns and blocks in
  `deregister` (`client.go:35`) while the hub blocks sending to it
  (`hub.go:64`). Nothing is received any more. `StuckForever` says there is no
  way out, `PublishCompletesUnlessStuck` that there is no other obstacle.
* `proxy_match`: the answer returns before `queryId` is incremented, or after
  the next increment, or overtakes its own Cmd; a query longer than one read is
  counted several times. `AttributionWindow` and `EarlierCmdsFirst` say how far
  the reports can be off.
* `proxy_final`: a Cmd follows the connection's Finished and marks it active.
* `proxy_leave`: if the application just closes, the connection to the server
  stays until the server ends it.

More facts about the reports need no run of their own, because properties that
hold leave room for them, and no more:

* a later chunk of a successful answer whose fifth byte is 0xff is reported as
  an error (`AnswersReportedOnce`: the flag of a report is that of its chunk's
  fifth byte);
* a result with the right id can have a duration from an older or half-written
  timer (`AttributionWindow`);
* a Cmd is sent for every chunk with COM_QUERY at its fifth byte and for no
  other (`NoCmdLost`, `IdsInOrder`). So a query in one read with the
  COM_STMT_CLOSE in front of it reaches the server unreported, prepared
  statements are never shown, and data with 0x03 there appears as a query;
* when the server has closed and the application neither reads nor leaves,
  `handleConnection` waits in its write for ever (`ServerCloseTearsDown` allows
  exactly this).

The passing runs state exceptions where the code has them; each was found
necessary by leaving it out. In the browser: a finished query falls back to
pending if a second socket repeats its Cmd, or if the filter is changed after a
Cmd was repeated under it; queries that arrive under a filter disappear with
it, and Clear under a filter does not outlast it. In the decoder: the SQL state
stays in front of an error's text, and because the NULL bitmap is skipped,
nothing from the first NULL parameter on is right, nor is anything promised of
an execution without types or with a type the decoder does not know, but what
it returns for the parameters before. In the packet reader: the four waits
listed at `WaitsOnlyFor`, further result sets, rows of 16 MiB. In the process:
a connection that was dropped between USE and the query, one that is left open
behind a row that cannot be scanned or in front of a further result set, a file
that does not decode, a chunk of less than five bytes, a failed Accept.

Beside the models, two facts of the pages: `executeQuery` misspells
`database` (`app.js:72`), so `/execute` always runs in the DSN's database; and
`v-for="connection, index, connId"` in `web/index.html:54` makes `connId` a
number, so with `-use-local` every connection is shown as finished (the
embedded `index.html` is an older one).

## 4. The proofs

`HubProofs` proves, for any sets of clients, senders and messages and any bound
(from `HubAssumption`: the two sentinels are not ordinary values, the bound is
a natural number):

* `Safety => []IInv` (`Inductive`), and from it `[]TypeOK`,
  `[]NoUseAfterClose`, `[]GapFree`, `[]CaughtUp`, `[]BoundedLag`;
* `Safety => StuckForever`: no step ends the mutual wait;
* `Safety => BroadcastSpec`: the hub implements the abstract log.

`GapFree` is not inductive: that the next frame continues the stretch depends
on the message `Process` holds, and that on `data` being the feed's last entry
when it was handed over. `IInv` adds `LoopInv` (the loop has a target as long as
it has work), `DataInv` (`data` is the last entry of the feed), `MemberInv`
(registered exactly from "starting" to "leaving", closed only when done),
`HandInv` (a message is held only during a write) and `PositionInv`: a working
client's lag is exactly the message it holds plus the one still due from the
loop, a leaving one's at most one more than the latter. `PositionInv` gives
`BoundedLag` and `CaughtUp`, and it is what makes the abstract `Lockstep` hold
whenever the hub is at its select. The three actions that start a round share
`BroadcastRound` (what the loop's start does) and `RoundPositions` (what it does
to each client's position); each other action has a lemma of its own.

`ServiceProofs` proves, for any readers, paths, databases, connections and
bounds (from `ServiceAssumption`: the bounds are natural numbers, "" and "none"
do not name a database):

* `Spec => []AnswerSound`. `PoolInv` adds what makes it inductive: where the
  connection is at each stage - not there before USE; before the query in the
  database asked for, or not there if none was asked for or it was dropped;
  there while rows are read - that nothing is fetched or answered yet, and that
  another result set follows only one with columns. Which requests leave the
  connection open is an equivalence, so neither more nor fewer may.
* `Spec => []AssetWholeOrError`. `OnceInv` adds that who is past the `once`
  finds it done, and that done means decoded, or someone was told. It needs no
  bound on the readers: the first one's `once` orders all others after it.
* `Spec => []AnnouncedListens`, by the chain announced, received, listening.
* `Spec => []CrashesKnown`, for chunks of any bytes: `DecodersRefuse` says that
  `DecodeQueryRequest` and `DecodeErrResponse` return an error for what is too
  short for them and never panic, `ChunkPanics` that `GetPacketType` does only
  without a fifth byte.

* `Spec => []TypeOK`. `NamesInv` adds that no two requests decode one asset:
  only then does the end of one leave no other in a `once` that is not busy.

`ProxyProofs` proves, for any connections, chunks, lengths of answers and any
hub that receives values in any order (from `ProxyAssumption` and
`NothingAssumption`: the sentinels are not reports or numbers, the bounds are
natural), `Safety => []` of `TypeOK`, `NoCmdLost`, `AnswersReportedOnce`,
`AttributionWindow`, `EarlierCmdsFirst` and `IdsInOrder`. `IInv` has a part for
each actor:

* `StageInv`: where the two goroutines are fixes what they offer, and whether
  there are sockets at all;
* `CountInv`: `queryId` is the number of chunks forwarded, or one less between
  the write to the server and the increment; `timer` is that chunk's, or torn.
  This is the whole of what the unsynchronised variables still guarantee;
* `TurnInv`: the protocol. Answers come in the order of the commands, and
  whoever sends a command has read the answer to the one before. It makes the
  upper end of `AttributionWindow` hold: while an answer is read, `queryId`
  can move to the next command that wants an answer and no further;
* `CmdInv` and `ResultInv`: what the reports received so far, and the one on
  offer, say about `queryId` and `fwd`. `Sound` is what is true of a result
  when it is built; that it *stays* true while it waits for the hub, and the
  other goroutine goes on, is the point of the proof.

A step of one goroutine leaves most parts alone for a reason that recurs, and
`KeptParts` states it once: as long as chunks, counters and feed stay, or only
grow at the end, and nobody enters or leaves a report, these parts stay.

`BrowserProofs` proves, for any queries, sockets, other pages, filters and
length of the log (from `BrowserAssumption` and `NoBackupAssumption`),
`Spec => []` of `TypeOK`, `UnfilteredView`, `CountCovers`, `StatusIsTrue`, and
the action property `SettledStays`. The last is about a step, but needs most of
`IInv`: a Cmd that would turn a finished query back to pending must be a
repeated one (`RowsInv`: what is shown as finished has both its Cmd and the
result shown behind it in the log, handled by the socket), repetitions
of a Cmd are adjacent (`RepeatsInv`, which the hub's surviving `data` gives), so the
result of that query could not lie between two Cmds of it, unless two sockets
deliver (`SocketInv`: without `overlap` only the last one is open). `CountInv`
counts the shown rows *and* the ones that will come back, because a filter
that is removed must not make the counter too small.

`ReaderProofs` proves, for responses of any length and any number of calls
(from `ReaderAssumption`: both bounds are natural), `Spec => []` of `TypeOK`,
`OneResponse`, `WaitsOnlyFor`, `PanicsAreKnown` and `HandshakeRelayed`. `Shape`
says what a response may look like without the bounds; `WireInv` that what was
read and what is under way make up the response, of which the end may be
missing if the server is gone; `PlaceInv` where in it the reader is: it knows
what it counts (`Expected` packets, or the definitions and their EOF) and looks
for the end only behind the definitions. A count that is off by one breaks
`PlaceInv` at once, `OneResponse` only some packets later. The last two hold
unless the call is `astray`, which is also the only exception in the properties;
the further result sets are a part of the stream that the reader of the first
one never enters. `HandshakeRelayed` needs that `relayed` is as long as the
handshake has got, and no longer once it has failed.

`PeerProofs` proves, for any set of messages (from `MessagesAssumption` and
`DecoderAssumption`: the largest buffer has some size), `Spec => []` of
`TypeOK`, `RoundTrip`, `CutShort`, `PanicsAreKnown` and `BitmapCovers`: for
texts and lists of any length, and a packet cut anywhere. The inductive invariant is
short - what arrived is a beginning of `Encode(msg)`, and the result is that of
the decoder - and all the work is in what the decoder does with a beginning:

* `Holds(e, i, s)` places a part of the message in the packet, and each
  `...Parts` lemma says where a message has its parts;
* `Beginning(p, e)` says what arrived, and each reader has a lemma about what
  it makes of a part that arrived, arrived in part, or did not. That a
  length-encoded integer cut short is not larger than the one sent
  (`NumberRead`) is what keeps a string from running over its neighbour
  (`StringRead`);
* `FieldsAlong` follows the parameters of COM_STMT_EXECUTE: before the first
  NULL each is read at its own place, or past the end of what arrived, where
  nothing is read and nothing can panic (`FieldAny`);
* `Understood` collects what the properties need of one result, and each kind
  of message has a lemma that it holds.

The induction this needs, over the bytes of a number and over a list of
parameters, is over an interval of numbers, and `Recursion` derives it from the
well-foundedness of `<` for *sets*: the library's induction theorems take a
predicate, which the provers cannot instantiate. It also gives the functions
defined by recursion over an interval (`Recursive`) that `LittleEndian`,
`Fields` and `FlattenSeq` are.

Only model-checked:

* everything under fairness: `hub_live`'s three properties,
  `ServerCloseTearsDown`, `ForwardedIsReported`, `CutEnds`, `AssetsAnswered`.
  The prover has neither ENABLED nor weak fairness;
* the claims that the code contradicts: a counterexample is a behaviour, and
  TLC finds it.

Every other property of a passing run is a theorem; its run shows that the
cases it is about do happen.

## 5. Not modelled

* `Dir`, `FSByte`, `FSMustByte`, `FSString`, `FSMustString` of `fs.go`,
  `getUseDatabaseValue` of `utils.go`, `ReadErrMessage` of `packet.go`: nothing
  calls them. The contents of the embedded files are data.
* The template `web/index.html`, the clipboard, notifications, expanding a
  query: layout.
* `executeQuery`'s side in the page: it sends one request and shows the answer.
* Texts, durations as numbers, logging, the formatting of tables, third-party
  code. The websocket library and `database/sql` are modelled as far as their
  behaviour decides what this program does.
* Ping and write deadlines as times: see Fairness.

## 6. Plan

1. `Broadcast`, `Hub`, `HubProofs` - done.
2. `Proxy` with its runs, `ProxyProofs` - done.
3. `Decoder` and `Peer`, `PacketReader`, `ReaderProofs` - done.
   `Recursion`, `PeerLemmas`, `PeerProofs` - done.
4. `Browser` over `Broadcast`, `BrowserProofs` - done.
5. `Assets`, `Execute`, `Service`, `ServiceProofs` - done.
6. `Lottip`: `Proxy` and `Hub` composed over shared offers and feed, to show
   that a stuck client stops the traffic of every connection. So far the two
   meet in what each assumes: `Proxy`'s hub may receive in any order and
   `Hub`'s senders may offer anything at any time.
