--------------------------- MODULE ServiceProofs ---------------------------
(* Proofs about Service, for any requests, results and number of readers. *)
EXTENDS Service, Sequences, TLAPS

-----------------------------------------------------------------------------
(* Query execution.                                                        *)

\* Where the pool's connection is between the calls: before the query it is
\* in the database asked for, unless nothing was asked or it was replaced.
PoolInv ==
  /\ stage \in {"parse", "use"} => conn = E!NoConn /\ ~dropped
  /\ stage = "parse" => want = ""
  /\ stage = "use" => want # ""
  /\ stage = "query" =>
       IF want = "" \/ dropped THEN conn = E!NoConn
       ELSE conn = want /\ conn # E!NoConn
  /\ stage = "rows" =>
       result.db = IF want = "" \/ dropped THEN Default ELSE want
  /\ stage \in {"parse", "use", "query"} => fetched = 0
  /\ stage # "done" => answer.kind = "none" /\ ~scanned
  /\ stage = "rows" => conn # E!NoConn
  /\ result.more => result.columns

ExecuteInv == E!TypeOK /\ PoolInv /\ AnswerSound

\* What is assumed of the constants of Execute.
LEMMA RowsBound == MaxRows \in Nat /\ 0 \in 0 .. MaxRows
<1>1. MaxRows \in Nat
  BY ServiceAssumption DEF ServiceAssumption, E!ExecuteAssumption
<1> QED BY <1>1

LEMMA DatabaseNames ==
  "" \notin Databases /\ "none" \notin Databases \cup {Default}
BY ServiceAssumption DEF ServiceAssumption, E!ExecuteAssumption, E!NoConn

\* An answer without rows is one of the answers.
LEMMA SaidIsAnswer ==
  ASSUME NEW kind \in {"none", "nothing", "error", "table", "empty"}
  PROVE  /\ E!Said(kind) \in [kind : {"none", "nothing", "error", "table", "empty"},
                               rows : 0 .. MaxRows]
         /\ E!Said(kind).kind = kind
BY RowsBound DEF E!Said

\* NextRow stays within the result.
LEMMA RowFetched ==
  ASSUME E!TypeOK, E!NextRow
  PROVE  fetched' \in 0 .. MaxRows /\ fetched' <= result.rows
<1>1. fetched \in 0 .. MaxRows /\ result.rows \in 0 .. MaxRows
  BY DEF E!TypeOK
<1>2. fetched < result.rows /\ fetched' = fetched + 1
  BY DEF E!NextRow
<1> QED BY <1>1, <1>2, RowsBound

\* A result has a number of rows.
LEMMA QueryResult ==
  ASSUME E!Query, fetched = 0
  PROVE  /\ fetched' \in 0 .. MaxRows /\ fetched' <= result'.rows
         /\ result' \in [columns : BOOLEAN, rows : 0 .. MaxRows, db : {conn'},
                          more : BOOLEAN]
         /\ result'.more => result'.columns
<1>1. PICK columns \in BOOLEAN, more \in BOOLEAN, n \in 0 .. MaxRows :
        /\ result' = [columns |-> columns, rows |-> n, db |-> conn', more |-> more]
        /\ more => columns
  BY DEF E!Query
<1>2. fetched' = 0
  BY DEF E!Query
<1>3. result'.rows \in 0 .. MaxRows
  BY <1>1
<1>4. fetched' <= result'.rows
  BY <1>2, <1>3, RowsBound
<1> QED BY <1>1, <1>2, <1>4, RowsBound

\* The request's own steps.
LEMMA ExecuteStep == ExecuteInv /\ E!Next => ExecuteInv'
<1> SUFFICES ASSUME ExecuteInv PROVE E!Next => ExecuteInv'
  OBVIOUS
<1> USE DEF ExecuteInv, PoolInv, AnswerSound, E!AnswerSound, E!TypeOK,
        E!TableIsWhole, E!RightDatabase, E!ConnectionsClosed, E!NoConn
<1>1. CASE E!ParseFormFails
  <2>1. E!TypeOK'
    BY <1>1, DatabaseNames, RowsBound, SaidIsAnswer DEF E!ParseFormFails, E!Finish
  <2>2. PoolInv'
    BY <1>1, DatabaseNames, RowsBound, SaidIsAnswer DEF E!ParseFormFails, E!Finish
  <2>3. AnswerSound'
    BY <1>1, DatabaseNames, RowsBound, SaidIsAnswer DEF E!ParseFormFails, E!Finish
  <2> QED BY <2>1, <2>2, <2>3
<1>2. CASE E!Refused
  <2>1. E!TypeOK'
    BY <1>2, DatabaseNames, RowsBound, SaidIsAnswer DEF E!Refused, E!Finish
  <2>2. PoolInv'
    BY <1>2, DatabaseNames, RowsBound, SaidIsAnswer DEF E!Refused, E!Finish
  <2>3. AnswerSound'
    BY <1>2, DatabaseNames, RowsBound, SaidIsAnswer DEF E!Refused, E!Finish
  <2> QED BY <2>1, <2>2, <2>3
<1>3. CASE E!Use
  <2>1. E!TypeOK'
    BY <1>3, DatabaseNames, RowsBound DEF E!Use
  <2>2. PoolInv'
    BY <1>3, DatabaseNames, RowsBound DEF E!Use
  <2>3. AnswerSound'
    BY <1>3, DatabaseNames, RowsBound DEF E!Use
  <2> QED BY <2>1, <2>2, <2>3
<1>4. CASE E!Drop
  <2>1. E!TypeOK'
    BY <1>4, DatabaseNames, RowsBound DEF E!Drop
  <2>2. PoolInv'
    BY <1>4, DatabaseNames, RowsBound DEF E!Drop
  <2>3. AnswerSound'
    BY <1>4, DatabaseNames, RowsBound DEF E!Drop
  <2> QED BY <2>1, <2>2, <2>3
<1>5. CASE E!Query
  <2>0. fetched = 0 /\ E!TypeOK
    BY <1>5 DEF E!Query
  <2>a. conn' \in Databases \cup {Default}
    BY <1>5 DEF E!Query
  <2>1. E!TypeOK'
    BY <1>5, <2>0, <2>a, QueryResult, DatabaseNames, RowsBound DEF E!Query
  <2>2. PoolInv'
    <3>1. /\ stage' = "rows" /\ UNCHANGED <<want, fetched, dropped, scanned, answer>>
          /\ result'.db = conn' /\ (result'.more => result'.columns)
      BY <1>5, <2>0, QueryResult DEF E!Query
    <3>2. /\ conn' # E!NoConn
          /\ conn' = IF want = "" \/ dropped THEN Default ELSE want
      BY <1>5, <2>a, DatabaseNames DEF E!Query
    <3>3. answer.kind = "none" /\ ~scanned
      BY <1>5 DEF E!Query
    <3> HIDE DEF ExecuteInv, AnswerSound, E!AnswerSound, E!TypeOK,
          E!TableIsWhole, E!RightDatabase, E!ConnectionsClosed
    <3>4. result'.db = IF want' = "" \/ dropped' THEN Default ELSE want'
      BY <3>1, <3>2, Zenon
    <3>5. answer'.kind = "none" /\ ~scanned'
      BY <3>1, <3>3, Zenon
    <3>6. stage' # "parse" /\ stage' # "use" /\ stage' # "query"
      BY <3>1
    <3> QED BY <3>1, <3>2, <3>4, <3>5, <3>6, Zenon
  <2>3. AnswerSound'
    BY <1>5, <2>0, <2>a, QueryResult, DatabaseNames, RowsBound DEF E!Query
  <2> QED BY <2>1, <2>2, <2>3
<1>6. CASE E!QueryFails
  <2>1. E!TypeOK'
    BY <1>6, DatabaseNames, RowsBound, SaidIsAnswer DEF E!QueryFails, E!Finish
  <2>2. PoolInv'
    BY <1>6, DatabaseNames, RowsBound, SaidIsAnswer DEF E!QueryFails, E!Finish
  <2>3. AnswerSound'
    BY <1>6, DatabaseNames, RowsBound, SaidIsAnswer DEF E!QueryFails, E!Finish
  <2> QED BY <2>1, <2>2, <2>3
<1>7. CASE E!NextRow
  <2>1. E!TypeOK'
    BY <1>7, RowFetched DEF E!NextRow
  <2>2. PoolInv'
    BY <1>7, RowFetched DEF E!NextRow
  <2>3. AnswerSound'
    BY <1>7, RowFetched DEF E!NextRow
  <2> QED BY <2>1, <2>2, <2>3
<1>8. CASE E!ScanFails
  <2>1. E!TypeOK'
    BY <1>8, DatabaseNames, RowsBound, SaidIsAnswer DEF E!ScanFails, E!Finish
  <2>2. PoolInv'
    BY <1>8, DatabaseNames, RowsBound, SaidIsAnswer DEF E!ScanFails, E!Finish
  <2>3. AnswerSound'
    BY <1>8, DatabaseNames, RowsBound, SaidIsAnswer DEF E!ScanFails, E!Finish
  <2> QED BY <2>1, <2>2, <2>3
<1>9. CASE E!Breaks
  <2>1. E!TypeOK'
    BY <1>9, DatabaseNames, RowsBound, SaidIsAnswer DEF E!Breaks, E!Finish
  <2>2. PoolInv'
    BY <1>9, DatabaseNames, RowsBound, SaidIsAnswer DEF E!Breaks, E!Finish
  <2>3. AnswerSound'
    BY <1>9, DatabaseNames, RowsBound, SaidIsAnswer DEF E!Breaks, E!Finish
  <2> QED BY <2>1, <2>2, <2>3
<1>10. CASE E!Render
  <2> [kind |-> "table", rows |-> fetched] \in
        [kind : {"none", "nothing", "error", "table", "empty"}, rows : 0 .. MaxRows]
    OBVIOUS
  <2>1. E!TypeOK'
    BY <1>10, DatabaseNames, RowsBound, SaidIsAnswer DEF E!Render, E!Finish
  <2>2. PoolInv'
    BY <1>10, DatabaseNames, RowsBound, SaidIsAnswer DEF E!Render, E!Finish
  <2>3. AnswerSound'
    BY <1>10, DatabaseNames, RowsBound, SaidIsAnswer DEF E!Render, E!Finish
  <2> QED BY <2>1, <2>2, <2>3
<1>11. CASE \E db \in Databases \cup {""} : E!Unmarshal(db)
  <2> PICK db \in Databases \cup {""} : E!Unmarshal(db)
    BY <1>11
  <2>1. E!TypeOK'
    BY DatabaseNames, RowsBound DEF E!Unmarshal
  <2>2. PoolInv'
    BY DatabaseNames, RowsBound DEF E!Unmarshal
  <2>3. AnswerSound'
    BY DatabaseNames, RowsBound DEF E!Unmarshal
  <2> QED BY <2>1, <2>2, <2>3
<1> QED
  BY <1>1, <1>2, <1>3, <1>4, <1>5, <1>6, <1>7, <1>8, <1>9, <1>10, <1>11
  DEF E!Next

LEMMA ExecuteInit == Init => ExecuteInv
<1> SUFFICES ASSUME Init PROVE ExecuteInv
  OBVIOUS
<1>1. /\ stage = "parse" /\ want = "" /\ conn = E!NoConn /\ fetched = 0
      /\ result = E!NoResult /\ dropped = FALSE /\ scanned = FALSE
      /\ answer = E!Said("none")
  BY DEF Init, E!Init
<1>2. fetched \in 0 .. MaxRows /\ fetched <= E!NoResult.rows
  <2>1. E!NoResult.rows = 0
    BY DEF E!NoResult
  <2>2. fetched = 0
    BY <1>1
  <2> QED BY <2>1, <2>2, RowsBound
<1>3. /\ E!NoResult \in [columns : BOOLEAN, rows : 0 .. MaxRows, db : {""},
                        more : BOOLEAN]
      /\ ~E!NoResult.more
  BY RowsBound DEF E!NoResult
<1>4. E!TypeOK
  BY <1>1, <1>2, <1>3, SaidIsAnswer DEF E!TypeOK
<1>5. PoolInv
  BY <1>1, <1>3, SaidIsAnswer DEF PoolInv
<1>6. AnswerSound
  BY <1>1, SaidIsAnswer
  DEF AnswerSound, E!AnswerSound, E!TableIsWhole, E!RightDatabase,
      E!ConnectionsClosed
<1> QED BY <1>4, <1>5, <1>6 DEF ExecuteInv

\* A step that leaves the query execution alone keeps what is known of it.
LEMMA ExecuteKept == ExecuteInv /\ UNCHANGED execute => ExecuteInv'
<1> SUFFICES ASSUME ExecuteInv, UNCHANGED execute PROVE ExecuteInv'
  OBVIOUS
<1>0. /\ stage' = stage /\ want' = want /\ conn' = conn
      /\ fetched' = fetched /\ result' = result /\ dropped' = dropped
      /\ scanned' = scanned /\ answer' = answer
  BY DEF execute
<1>1. E!TypeOK'
  <2>0. E!TypeOK
    BY DEF ExecuteInv
  <2>1. stage' \in {"parse", "use", "query", "rows", "done"}
    BY <1>0, <2>0, Zenon DEF E!TypeOK
  <2>2. want' \in Databases \cup {""}
    BY <1>0, <2>0, Zenon DEF E!TypeOK
  <2>3. conn' \in Databases \cup {E!NoConn, Default}
    BY <1>0, <2>0, Zenon DEF E!TypeOK
  <2>4. fetched' \in 0 .. MaxRows /\ fetched' <= result'.rows
    BY <1>0, <2>0, Zenon DEF E!TypeOK
  <2>5. result' \in [columns : BOOLEAN, rows : 0 .. MaxRows,
                      db : Databases \cup {"", Default}, more : BOOLEAN]
    BY <1>0, <2>0, Zenon DEF E!TypeOK
  <2>6. dropped' \in BOOLEAN /\ scanned' \in BOOLEAN
    BY <1>0, <2>0, Zenon DEF E!TypeOK
  <2>7. answer' \in [kind : {"none", "nothing", "error", "table", "empty"},
                      rows : 0 .. MaxRows]
    BY <1>0, <2>0, Zenon DEF E!TypeOK
  <2> QED
    BY <2>1, <2>2, <2>3, <2>4, <2>5, <2>6, <2>7, Zenon DEF E!TypeOK
<1>2. PoolInv'
  BY DEF ExecuteInv, PoolInv, execute
<1>3. AnswerSound'
  BY DEF ExecuteInv, AnswerSound, E!AnswerSound, E!TableIsWhole,
         E!RightDatabase, E!ConnectionsClosed, execute
<1> QED BY <1>1, <1>2, <1>3 DEF ExecuteInv

\* Nothing else in the process touches a query execution.
LEMMA OnlyExecuteMoves == Next => E!Next \/ UNCHANGED execute
BY DEF Next, Run, Listen, ListenAndServe, Ready, Announce, Accept, Dial, Chunk,
       End, GetAsset, ServeAsset, ServeExecute

\* What /execute answers is the whole first result set, of the right database,
\* and its connection is left open in the two stated cases only, for any
\* databases, results and losses of the connection (getQueryResults, utils.go).
THEOREM AnswerSoundInvariant == Spec => []AnswerSound
<1>1. ExecuteInv /\ [Next]_vars => ExecuteInv'
  <2> SUFFICES ASSUME ExecuteInv, [Next]_vars PROVE ExecuteInv'
    OBVIOUS
  <2>1. CASE E!Next
    BY <2>1, ExecuteStep
  <2>2. CASE UNCHANGED execute
    BY <2>2, ExecuteKept
  <2> QED BY <2>1, <2>2, OnlyExecuteMoves DEF vars
<1>2. ExecuteInv => AnswerSound
  BY DEF ExecuteInv
<1> QED BY <1>1, <1>2, ExecuteInit, PTL DEF Spec

-----------------------------------------------------------------------------
(* Start-up, and how the process ends.                                     *)

\* The channel is sent on after net.Listen returned, and received before
\* anything is printed.
StartInv ==
  /\ proxy \in {"starting", "listening"}
  /\ ready = "received" => proxy = "listening"
  /\ announced => ready = "received"

\* Whatever else runs, the addresses are printed after the proxy listens
\* (appReadyInfo in main.go, run in proxy.go).
THEOREM AnnouncedListensInvariant == Spec => []AnnouncedListens
<1>1. Init => StartInv
  BY DEF Init, StartInv
<1>2. StartInv /\ [Next]_vars => StartInv'
  <2> SUFFICES ASSUME StartInv, [Next]_vars PROVE StartInv'
    OBVIOUS
  <2>1. CASE Listen
    BY <2>1 DEF Listen, StartInv
  <2>2. CASE Ready
    BY <2>2 DEF Ready, StartInv
  <2>3. CASE Announce
    BY <2>3 DEF Announce, StartInv
  <2>4. CASE ListenAndServe
    BY <2>4 DEF ListenAndServe, StartInv
  <2>5. CASE UNCHANGED main
    BY <2>5 DEF main, StartInv
  <2> QED
    BY <2>1, <2>2, <2>3, <2>4, <2>5
    DEF Next, Run, vars, Accept, Dial, Chunk, End, GetAsset, ServeAsset,
        ServeExecute, rest
<1>3. StartInv => AnnouncedListens
  BY DEF StartInv, AnnouncedListens
<1> QED BY <1>1, <1>2, <1>3, PTL DEF Spec

\* The decoders of a query and of an error refuse what is too short for them,
\* or has another type, and panic on nothing.
LEMMA DecodersRefuse ==
  ASSUME NEW p
  PROVE  /\ D!DecodeQueryRequest(p).err \in {"nil", "length", "type"}
         /\ D!DecodeErrResponse(p).err \in {"nil", "length"}
<1>1. \A v : D!Ok(v).err = "nil"
  BY DEF D!Ok
<1>2. D!Fail("length").err = "length" /\ D!Fail("type").err = "type"
  BY DEF D!Fail
<1>3. D!DecodeErrResponse(p).err \in {"nil", "length"}
  <2>1. CASE Len(p) < 8
    BY <1>2, <2>1, Zenon DEF D!DecodeErrResponse
  <2>2. CASE ~(Len(p) < 8)
    BY <1>1, <2>2, Zenon DEF D!DecodeErrResponse
  <2> QED BY <2>1, <2>2
<1>4. D!DecodeQueryRequest(p) \in
        {D!Fail("length"), D!Fail("type"), D!Ok(D!ReadEOFLengthString(p, 5))}
  BY Zenon DEF D!DecodeQueryRequest
<1> QED BY <1>1, <1>2, <1>3, <1>4

\* A parser panics on a chunk without a fifth byte only.
LEMMA ChunkPanics ==
  ASSUME NEW p \in Chunks,
         "panic" \in {RequestParser(p).err, ResponseParser(p).err}
  PROVE  Len(p) < 5
<1>1. D!GetPacketType(p).err = "panic"
  BY DecodersRefuse DEF RequestParser, ResponseParser
<1>2. p \in Seq(D!Octet) /\ Len(p) \in Nat
  BY ServiceAssumption DEF ServiceAssumption
<1>3. ~(Len(p) < 5) => D!GetPacketType(p).err # "panic"
  BY DEF D!GetPacketType, D!Ok
<1> QED BY <1>1, <1>2, <1>3

\* A panic has one of its two causes.
CrashInv ==
  /\ CrashesKnown
  /\ sess \in [Conns -> {"none", "nil", "accepted", "copying", "ended"}]

\* Whatever bytes arrive on any number of connections, the parsers do not panic
\* on a chunk of five or more, nor does handleConnection unless Accept failed
\* (proxy.go; GetPacketType, DecodeQueryRequest, DecodeErrResponse, decoder.go).
THEOREM CrashesKnownInvariant == Spec => []CrashesKnown
<1>1. Init => CrashInv
  BY DEF Init, CrashInv, CrashesKnown
<1>2. CrashInv /\ [Next]_vars => CrashInv'
  <2> SUFFICES ASSUME CrashInv, [Next]_vars PROVE CrashInv'
    OBVIOUS
  <2> USE DEF CrashInv, CrashesKnown
  <2>1. CASE exit = "no" /\ Listen
    BY <2>1 DEF Listen
  <2>2. CASE exit = "no" /\ ListenAndServe
    BY <2>2 DEF ListenAndServe
  <2>3. ASSUME NEW k \in Conns, exit = "no", Accept(k) PROVE CrashInv'
    BY <2>3 DEF Accept, Move, main
  <2>4. ASSUME NEW k \in Conns, exit = "no", Dial(k) PROVE CrashInv'
    BY <2>4 DEF Dial, Move, main
  <2>5. ASSUME NEW k \in Conns, exit = "no", End(k) PROVE CrashInv'
    BY <2>5 DEF End, Move, main
  <2>6. ASSUME NEW k \in Conns, NEW p \in Chunks, exit = "no", Chunk(k, p)
        PROVE  CrashInv'
    <3>1. exit' = "panic" => short'
      <4>1. PICK err \in {RequestParser(p).err, ResponseParser(p).err} :
              exit' = IF err = "panic" THEN "panic" ELSE exit
        BY <2>6, Zenon DEF Chunk
      <4>2. exit' = "panic" => err = "panic"
        BY <2>6, <4>1
      <4>3. short' = (short \/ Len(p) < 5)
        BY <2>6, Zenon DEF Chunk
      <4> QED BY <4>1, <4>2, <4>3, ChunkPanics
    <3>2. UNCHANGED sess
      BY <2>6 DEF Chunk
    <3> QED BY <3>1, <3>2
  <2>7. CASE UNCHANGED <<exit, sess, short>>
    BY <2>7
  <2> QED
    BY <2>1, <2>2, <2>3, <2>4, <2>5, <2>6, <2>7
    DEF Next, Run, vars, main, rest, Ready, Announce, GetAsset, ServeAsset,
        ServeExecute
<1>3. CrashInv => CrashesKnown
  BY DEF CrashInv
<1> QED BY <1>1, <1>2, <1>3, PTL DEF Spec

-----------------------------------------------------------------------------
(* Embedded assets.                                                        *)

\* Who is past the once of an asset finds it decoded, and decoded is whole
\* unless the embedded text is broken; then one request was told.
OnceInv ==
  /\ useLocal \in BOOLEAN
  /\ once \in [A!EscData -> {"new", "busy", "done"}]
  /\ data \in [A!EscData -> {"nil", "part", "full"}]
  /\ at \in [Readers -> {"idle", "open", "decode", "file"}]
  /\ name \in [Readers -> A!EscData \cup Requested \cup {NoFile}]
  /\ \A r \in Readers : at[r] \in {"decode", "file"} => name[r] \in A!EscData /\ ~useLocal
  /\ \A r \in Readers : at[r] = "file" => once[name[r]] = "done"
  /\ \A f \in A!EscData \ A!Dirs : once[f] = "done" =>
       IF f \in Corrupt
       THEN data[f] # "full" /\ \E e \in {"error", "listing"} : <<f, e>> \in answers
       ELSE data[f] = "full"

AssetInv == OnceInv /\ AssetWholeOrError

\* The steps of a request for an asset.
LEMMA AssetStep ==
  ASSUME AssetInv, NEW r \in Readers,
         A!Serve(r) \/ \E f \in Requested : A!Request(r, f)
  PROVE  AssetInv'
<1> USE DEF AssetInv, OnceInv, AssetWholeOrError, A!AssetWholeOrError
<1>1. CASE \E f \in Requested : A!Request(r, f)
  BY <1>1 DEF A!Request
<1>2. CASE A!NotPresent(r)
  <2>1. OnceInv'
    BY <1>2 DEF A!NotPresent, A!Present, A!OpenFailed, A!Reply
  <2>2. AssetWholeOrError'
    BY <1>2 DEF A!NotPresent, A!Present, A!OpenFailed, A!Reply
  <2> QED BY <2>1, <2>2
<1>3. CASE A!OpenLocal(r)
  <2>1. OnceInv'
    BY <1>3 DEF A!OpenLocal, A!Present, A!OpenFailed, A!TryIndex, A!Reply
  <2>2. AssetWholeOrError'
    <3>1. useLocal /\ useLocal'
      BY <1>3 DEF A!OpenLocal
    <3>2. \/ UNCHANGED answers
          \/ \E a \in {"full", "absent", "listing"} :
               answers' = answers \cup {<<name[r], a>>}
      BY <1>3 DEF A!OpenLocal, A!OpenFailed, A!TryIndex, A!Reply
    <3> QED BY <3>1, <3>2
  <2> QED BY <2>1, <2>2
<1>4. CASE A!Enter(r)
  <2>1. OnceInv'
    BY <1>4 DEF A!Enter, A!Present
  <2>2. AssetWholeOrError'
    BY <1>4 DEF A!Enter
  <2> QED BY <2>1, <2>2
<1>5. CASE A!Decode(r)
  <2>1. OnceInv'
    BY <1>5 DEF A!Decode, A!OpenFailed, A!Reply
  <2>2. AssetWholeOrError'
    <3>1. CASE name[r] \notin Corrupt
      BY <1>5, <3>1 DEF A!Decode
    <3>2. CASE name[r] \in Corrupt
      <4>1. PICK e \in {"error", "listing"} :
              answers' = answers \cup {<<name[r], e>>} /\ UNCHANGED useLocal
        BY <1>5, <3>2 DEF A!Decode, A!OpenFailed, A!Reply
      <4> QED BY <3>2, <4>1, <1>5 DEF A!Decode
    <3> QED BY <3>1, <3>2
  <2> QED BY <2>1, <2>2
<1>6. CASE A!File(r)
  <2>1. OnceInv'
    BY <1>6 DEF A!File, A!TryIndex, A!Reply
  <2>2. AssetWholeOrError'
    BY <1>6 DEF A!File, A!TryIndex, A!Reply
  <2> QED BY <2>1, <2>2
<1> QED BY <1>1, <1>2, <1>3, <1>4, <1>5, <1>6 DEF A!Serve

\* Nothing else in the process touches an asset.
LEMMA OnlyRequestsMove ==
  Next => \/ \E r \in Readers : A!Serve(r) \/ \E f \in Requested : A!Request(r, f)
          \/ UNCHANGED assets
BY DEF Next, Run, Listen, ListenAndServe, Ready, Announce, Accept, Dial, Chunk,
       End, GetAsset, ServeAsset, ServeExecute

\* However many requests race for an asset, each gets all of it or an error is
\* given once, for any number of readers (_escFile.prepare, fs.go).
THEOREM AssetWholeOrErrorInvariant == Spec => []AssetWholeOrError
<1>1. Init => AssetInv
  BY DEF Init, A!Init, AssetInv, OnceInv, AssetWholeOrError, A!AssetWholeOrError
<1>2. AssetInv /\ [Next]_vars => AssetInv'
  <2> SUFFICES ASSUME AssetInv, [Next]_vars PROVE AssetInv'
    OBVIOUS
  <2>1. CASE UNCHANGED assets
    BY <2>1 DEF assets, AssetInv, OnceInv, AssetWholeOrError, A!AssetWholeOrError
  <2> QED BY <2>1, AssetStep, OnlyRequestsMove DEF vars
<1>3. AssetInv => AssetWholeOrError
  BY DEF AssetInv
<1> QED BY <1>1, <1>2, <1>3, PTL DEF Spec
-----------------------------------------------------------------------------
(* The types.                                                              *)

\* What is asked for has a name, and at most one request decodes an asset:
\* without it, one that is done would leave the once of another one free.
NamesInv ==
  /\ \A r \in Readers : at[r] # "idle" => name[r] \in A!EscData \cup Requested
  /\ answers \subseteq (A!EscData \cup Requested) \X A!Answer
  /\ \A r, q \in Readers :
       at[r] = "decode" /\ at[q] = "decode" /\ name[r] = name[q] => r = q
  /\ \A f \in A!EscData :
       once[f] = "busy" <=> \E r \in Readers : at[r] = "decode" /\ name[r] = f

\* Who answers names an asset or what was asked for.
LEMMA ReplyNames ==
  ASSUME OnceInv, NamesInv, NEW r \in Readers, at[r] \in {"open", "file"},
         NEW a \in A!Answer, A!Reply(r, a), UNCHANGED once
  PROVE  NamesInv'
BY DEF OnceInv, NamesInv, A!Reply

LEMMA TryIndexNames ==
  ASSUME OnceInv, NamesInv, NEW r \in Readers, at[r] \in {"open", "file"},
         A!TryIndex(r), UNCHANGED once
  PROVE  NamesInv'
<1>1. CASE A!IndexOf(name[r]) \in A!EscData
  BY <1>1 DEF OnceInv, NamesInv, A!TryIndex
<1>2. CASE A!IndexOf(name[r]) \notin A!EscData
  BY <1>2, ReplyNames DEF A!TryIndex, A!Answer
<1> QED BY <1>1, <1>2

\* The steps of a request for an asset.
LEMMA NamesStep ==
  ASSUME OnceInv, NamesInv, NEW r \in Readers,
         A!Serve(r) \/ \E f \in Requested : A!Request(r, f)
  PROVE  NamesInv'
<1>1. CASE \E f \in Requested : A!Request(r, f)
  BY <1>1 DEF A!Request, OnceInv, NamesInv
<1>2. CASE A!NotPresent(r)
  BY <1>2, ReplyNames DEF A!NotPresent, A!OpenFailed, A!Answer
<1>3. CASE A!OpenLocal(r)
  BY <1>3, ReplyNames, TryIndexNames DEF A!OpenLocal, A!OpenFailed, A!Answer
<1>4. CASE A!Enter(r)
  <2>1. CASE once[name[r]] = "done"
    BY <1>4, <2>1 DEF A!Enter, A!Present, OnceInv, NamesInv
  <2>2. CASE once[name[r]] = "new"
    <3>1. \A q \in Readers : ~(at[q] = "decode" /\ name[q] = name[r])
      BY <1>4, <2>2 DEF A!Enter, A!Present, NamesInv
    <3> QED
      BY <1>4, <2>2, <3>1 DEF A!Enter, A!Present, OnceInv, NamesInv
  <2> QED
    BY <1>4, <2>1, <2>2 DEF A!Enter, A!Present, OnceInv
<1>5. CASE A!Decode(r)
  <2>1. /\ at[r] = "decode" /\ name[r] \in A!EscData
        /\ once' = [once EXCEPT ![name[r]] = "done"]
    BY <1>5 DEF A!Decode, OnceInv
  <2>2. /\ at' \in [Readers -> {"idle", "open", "decode", "file"}]
        /\ at'[r] # "decode" /\ \A q \in Readers \ {r} : at'[q] = at[q]
        /\ \A q \in Readers \ {r} : name'[q] = name[q]
        /\ at'[r] # "idle" => name'[r] = name[r]
    BY <1>5 DEF A!Decode, A!OpenFailed, A!Reply, OnceInv
  <2>3. answers' \subseteq (A!EscData \cup Requested) \X A!Answer
    BY <1>5, <2>1 DEF A!Decode, A!OpenFailed, A!Reply, A!Answer, NamesInv
  <2>4. \A q \in Readers :
          at[q] = "decode" /\ name[q] = name[r] => q = r
    BY <2>1 DEF NamesInv
  <2> QED
    BY <2>1, <2>2, <2>3, <2>4 DEF OnceInv, NamesInv
<1>6. CASE A!File(r)
  BY <1>6, ReplyNames, TryIndexNames DEF A!File, A!Answer, OnceInv
<1> QED BY <1>1, <1>2, <1>3, <1>4, <1>5, <1>6 DEF A!Serve

\* The rest of the process.
MainInv ==
  /\ exit \in {"no", "fatal", "panic"}
  /\ proxy \in {"starting", "listening"} /\ gui \in {"starting", "serving"}
  /\ ready \in {"unsent", "received"} /\ announced \in BOOLEAN
  /\ sess \in [Conns -> {"none", "nil", "accepted", "copying", "ended"}]
  /\ short \in BOOLEAN /\ requests \in 0 .. MaxRequests

LEMMA OneMore ==
  ASSUME requests \in 0 .. MaxRequests, requests < MaxRequests
  PROVE  requests + 1 \in 0 .. MaxRequests
<1>1. MaxRequests \in Nat
  BY ServiceAssumption DEF ServiceAssumption
<1> QED BY <1>1

LEMMA MainStep == MainInv /\ Next => MainInv'
<1> SUFFICES ASSUME MainInv, Next PROVE MainInv'
  OBVIOUS
<1> USE DEF MainInv
<1>1. CASE Listen
  BY <1>1 DEF Listen
<1>2. CASE ListenAndServe
  BY <1>2 DEF ListenAndServe
<1>3. CASE Ready
  BY <1>3 DEF Ready
<1>4. CASE Announce
  BY <1>4 DEF Announce
<1>5. ASSUME NEW k \in Conns, Accept(k) PROVE MainInv'
  BY <1>5 DEF Accept, Move, main
<1>6. ASSUME NEW k \in Conns, Dial(k) PROVE MainInv'
  BY <1>6 DEF Dial, Move, main
<1>7. ASSUME NEW k \in Conns, End(k) PROVE MainInv'
  BY <1>7 DEF End, Move, main
<1>8. ASSUME NEW k \in Conns, NEW p \in Chunks, Chunk(k, p) PROVE MainInv'
  <2>1. exit' \in {exit, "panic"}
    BY <1>8, Zenon DEF Chunk
  <2>2. short' \in BOOLEAN
    BY <1>8 DEF Chunk
  <2>3. UNCHANGED <<main, sess, requests>>
    BY <1>8, Zenon DEF Chunk
  <2> QED BY <2>1, <2>2, <2>3 DEF main
<1>9. ASSUME NEW r \in Readers, ServeAsset(r) PROVE MainInv'
  BY <1>9 DEF ServeAsset, rest, main
<1>10. ASSUME NEW r \in Readers, NEW f \in Requested, GetAsset(r, f)
       PROVE  MainInv'
  BY <1>10, OneMore DEF GetAsset, rest, main
<1>11. CASE ServeExecute
  <2>1. requests' \in 0 .. MaxRequests
    <3>1. CASE stage = "parse"
      BY <1>11, <3>1, OneMore DEF ServeExecute
    <3>2. CASE stage # "parse"
      BY <1>11, <3>2 DEF ServeExecute
    <3> QED BY <3>1, <3>2
  <2> QED BY <1>11, <2>1 DEF ServeExecute, rest, main
<1> QED
  BY <1>1, <1>2, <1>3, <1>4, <1>5, <1>6, <1>7, <1>8, <1>9, <1>10, <1>11
  DEF Next, Run

\* Every variable of the process keeps its type, and the once of an asset is
\* busy exactly while a request decodes it, for any number of requests.
THEOREM TypeCorrect == Spec => []TypeOK
<1> DEFINE I == ExecuteInv /\ AssetInv /\ NamesInv /\ MainInv
<1>1. Init => I
  <2> SUFFICES ASSUME Init PROVE I
    OBVIOUS
  <2>1. ExecuteInv
    BY ExecuteInit
  <2>2. AssetInv
    BY DEF Init, A!Init, AssetInv, OnceInv, AssetWholeOrError,
           A!AssetWholeOrError
  <2>3. NamesInv
    BY DEF Init, A!Init, NamesInv
  <2>4. MainInv
    <3>1. MaxRequests \in Nat
      BY ServiceAssumption DEF ServiceAssumption
    <3>2. requests = 0 /\ sess = [k \in Conns |-> "none"]
      BY DEF Init
    <3>3. requests \in 0 .. MaxRequests
      BY <3>1, <3>2
    <3> QED BY <3>2, <3>3 DEF Init, MainInv
  <2> QED BY <2>1, <2>2, <2>3, <2>4
<1>2. I /\ [Next]_vars => I'
  <2> SUFFICES ASSUME I, [Next]_vars PROVE I'
    OBVIOUS
  <2>1. ExecuteInv'
    <3>1. CASE UNCHANGED execute
      BY <3>1, ExecuteKept
    <3> QED BY <3>1, ExecuteStep, OnlyExecuteMoves DEF vars
  <2>2. AssetInv' /\ NamesInv'
    <3>1. CASE UNCHANGED assets
      BY <3>1 DEF assets, AssetInv, OnceInv, NamesInv, AssetWholeOrError,
                  A!AssetWholeOrError
    <3>2. ASSUME NEW r \in Readers,
                 A!Serve(r) \/ \E f \in Requested : A!Request(r, f)
          PROVE  AssetInv' /\ NamesInv'
      <4>1. AssetInv'
        BY <3>2, AssetStep
      <4>2. NamesInv'
        BY <3>2, NamesStep DEF AssetInv
      <4> QED BY <4>1, <4>2
    <3> QED BY <3>1, <3>2, OnlyRequestsMove DEF vars
  <2>3. MainInv'
    <3>1. CASE UNCHANGED vars
      BY <3>1 DEF vars, main, MainInv
    <3> QED BY <3>1, MainStep
  <2> QED BY <2>1, <2>2, <2>3
<1>3. I => TypeOK
  BY DEF ExecuteInv, AssetInv, OnceInv, NamesInv, MainInv, TypeOK, A!TypeOK
<1> QED BY <1>1, <1>2, <1>3, PTL DEF Spec
=============================================================================
