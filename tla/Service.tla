------------------------------ MODULE Service ------------------------------
(***************************************************************************)
(* The process: main.go, the listener of proxy.go and the server of        *)
(* http.go, with the assets (module Assets) and a query execution (module  *)
(* Execute) it serves.  A panic in a handler of net/http ends the request; *)
(* in a goroutine of the proxy, or by log.Fatal, it ends everything.       *)
(***************************************************************************)
EXTENDS Integers, Sequences

CONSTANTS Readers, Requested, Corrupt, NoFile,   \* of Assets
          Databases, Default, MaxRows,           \* of Execute
          Conns,        \* results of listener.Accept
          Chunks,       \* what a Read of either copy may return
          MaxRequests   \* bound: requests to the http server

VARIABLES useLocal, once, data, at, name, answers,                 \* Assets
          stage, want, conn, fetched, result, dropped, scanned, answer,
          exit,       \* "no", "fatal" or "panic": how the process ended
          proxy,      \* "starting" or "listening"
          gui,        \* "starting" or "serving"
          ready,      \* appReadyChan: "unsent", "received"
          announced,  \* appReadyInfo has printed where to connect
          sess,       \* where handleConnection is
          short,      \* history: a chunk had less than five bytes
          requests    \* of the http server so far

assets  == <<useLocal, once, data, at, name, answers>>
execute == <<stage, want, conn, fetched, result, dropped, scanned, answer>>
main    == <<proxy, gui, ready, announced>>
vars    == <<assets, execute, main, exit, sess, short, requests>>

A == INSTANCE Assets
E == INSTANCE Execute
D == INSTANCE Decoder WITH MaxMake <- 0

ASSUME ServiceAssumption ==
  /\ MaxRequests \in Nat /\ Chunks \subseteq Seq(D!Octet) \ {<<>>}
  /\ A!AssetsAssumption /\ E!ExecuteAssumption

Init ==
  /\ A!Init /\ E!Init
  /\ exit = "no" /\ proxy = "starting" /\ gui = "starting"
  /\ ready = "unsent" /\ announced = FALSE
  /\ sess = [k \in Conns |-> "none"] /\ short = FALSE /\ requests = 0

-----------------------------------------------------------------------------
(* Start-up.                                                               *)

\* net.Listen, or log.Fatal.
Listen ==
  /\ proxy = "starting"
  /\ \/ proxy' = "listening" /\ UNCHANGED exit
     \/ exit' = "fatal" /\ UNCHANGED proxy
  /\ UNCHANGED <<assets, execute, gui, ready, announced, sess, short, requests>>

\* http.ListenAndServe serves, or returns: at once, or later when Accept fails
\* for good.  Then log.Fatal.
ListenAndServe ==
  /\ \/ gui = "starting" /\ gui' = "serving" /\ UNCHANGED exit
     \/ exit' = "fatal" /\ UNCHANGED gui
  /\ UNCHANGED <<assets, execute, proxy, ready, announced, sess, short, requests>>

MutReady ==   \* sent before net.Listen
  /\ ready = "unsent" /\ ready' = "received"
  /\ UNCHANGED <<assets, execute, exit, proxy, gui, announced, sess, short, requests>>

\* The goroutine started by run sends on appReadyChan, appReadyInfo receives.
Ready ==
  /\ proxy = "listening" /\ ready = "unsent" /\ ready' = "received"
  /\ UNCHANGED <<assets, execute, exit, proxy, gui, announced, sess, short, requests>>

\* A second later.
Announce ==
  /\ ready = "received" /\ ~announced /\ announced' = TRUE
  /\ UNCHANGED <<assets, execute, exit, proxy, gui, ready, sess, short, requests>>

-----------------------------------------------------------------------------
(* Connections to the proxy, as far as they can end the process.           *)

Move(k, from, to) == sess[k] = from /\ sess' = [sess EXCEPT ![k] = to]

\* A failing Accept is logged, and handleConnection started all the same.
Accept(k) ==
  /\ proxy = "listening"
  /\ Move(k, "none", "accepted") \/ Move(k, "none", "nil")
  /\ UNCHANGED <<assets, execute, main, exit, short, requests>>

\* handleConnection up to the copies: defer client.Close() of a nil
\* connection panics, a failing Dial returns.
Dial(k) ==
  /\ \/ Move(k, "accepted", "copying") /\ UNCHANGED exit
     \/ Move(k, "accepted", "ended") /\ UNCHANGED exit
     \/ Move(k, "nil", "nil") /\ exit' = "panic"
  /\ UNCHANGED <<assets, execute, main, short, requests>>

\* What Write of the two parsers decodes.  The error is not looked at, or only
\* keeps the query from being reported; the decoders must not panic.
IsType(p, type) ==
  D!GetPacketType(p).err = "nil" /\ D!GetPacketType(p).val = type
RequestParser(p) ==
  IF IsType(p, D!ComQuery) THEN D!DecodeQueryRequest(p) ELSE D!GetPacketType(p)
ResponseParser(p) ==
  IF IsType(p, D!ResponseErr) THEN D!DecodeErrResponse(p) ELSE D!GetPacketType(p)

\* A Read of either copy returns, and a parser takes what it returned.
Chunk(k, p) ==
  /\ sess[k] = "copying"
  /\ \E err \in {RequestParser(p).err, ResponseParser(p).err} :
       exit' = IF err = "panic" THEN "panic" ELSE exit
  /\ short' = (short \/ Len(p) < 5)
  /\ UNCHANGED <<assets, execute, main, sess, requests>>

End(k) ==
  /\ Move(k, "copying", "ended")
  /\ UNCHANGED <<assets, execute, main, exit, short, requests>>

-----------------------------------------------------------------------------
(* Requests.                                                               *)

rest == <<main, exit, sess, short>>

GetAsset(r, f) ==
  /\ gui = "serving" /\ requests < MaxRequests /\ requests' = requests + 1
  /\ A!Request(r, f)
  /\ UNCHANGED <<execute, rest>>
ServeAsset(r) == A!Serve(r) /\ UNCHANGED <<execute, rest, requests>>

\* The first step of a query execution counts as a request.
ServeExecute ==
  /\ gui = "serving" /\ E!Next
  /\ stage = "parse" => requests < MaxRequests
  /\ requests' = requests + (IF stage = "parse" THEN 1 ELSE 0)
  /\ UNCHANGED <<assets, rest>>

Run ==
  \/ Listen \/ ListenAndServe \/ Ready \/ Announce
  \/ \E k \in Conns : Accept(k) \/ Dial(k) \/ End(k) \/ \E p \in Chunks : Chunk(k, p)
  \/ \E r \in Readers : ServeAsset(r) \/ \E f \in Requested : GetAsset(r, f)
  \/ ServeExecute

Next == exit = "no" /\ Run

\* Goroutines that can run do run.
Spec ==
  /\ Init /\ [][Next]_vars
  /\ WF_vars(exit = "no" /\ Ready) /\ WF_vars(exit = "no" /\ Announce)
  /\ \A k \in Conns : WF_vars(exit = "no" /\ Dial(k))
  /\ \A r \in Readers : WF_vars(exit = "no" /\ ServeAsset(r))

-----------------------------------------------------------------------------
(* Properties.                                                             *)

TypeOK ==
  /\ A!TypeOK /\ E!TypeOK
  /\ exit \in {"no", "fatal", "panic"}
  /\ proxy \in {"starting", "listening"} /\ gui \in {"starting", "serving"}
  /\ ready \in {"unsent", "received"} /\ announced \in BOOLEAN
  /\ sess \in [Conns -> {"none", "nil", "accepted", "copying", "ended"}]
  /\ short \in BOOLEAN /\ requests \in 0 .. MaxRequests

\* Each asset request gets all of the asset, or an error once.
AssetWholeOrError == A!AssetWholeOrError

\* What /execute answers, a whole table of the right database, and when it
\* leaves a connection behind.
AnswerSound == E!AnswerSound

\* When the addresses are printed, the proxy listens: an application that is
\* started on that sign is not refused.  (The http server may not be ready.)
AnnouncedListens == announced => proxy = "listening"

\* No bytes that a peer sends make the proxy panic, as long as a Read returns
\* five of them, whatever a parser takes them for; nor do a failing Dial, the
\* end of a session and requests.  A shorter chunk does, and a failed Accept.
CrashesKnown ==
  exit = "panic" => short \/ \E k \in Conns : sess[k] = "nil"

\* Every request for an asset is answered, also the ones that wait for
\* another to decode it, unless the process ends.
AssetsAnswered ==
  \A r \in Readers : at[r] # "idle" ~> at[r] = "idle" \/ exit # "no"
=============================================================================
