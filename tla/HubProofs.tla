----------------------------- MODULE HubProofs -----------------------------
(***************************************************************************)
(* Theorems about module Hub, for any number of clients, senders and       *)
(* messages: what TLC checks on the instances of MCHub always holds.       *)
(***************************************************************************)
EXTENDS Hub, TLAPS

-----------------------------------------------------------------------------
(* The inductive invariant.  GapFree alone is not inductive: that the next *)
(* frame written continues the window depends on what Process holds, and   *)
(* that in turn on data being the last entry of the feed.                  *)

\* The range loop has a current client as long as it has clients left.
LoopInv ==
  /\ target = NoClient <=> todo = {}
  /\ todo # {} => data # NoData

\* data is what the last round broadcast.
DataInv ==
  /\ data = NoData <=> feed = <<>>
  /\ feed # <<>> => feed[Len(feed)] = data

\* A client is registered exactly from its handler's registration until the
\* hub has received its deregistration, and only then is dataChan closed.
MemberInv ==
  /\ \A c \in Clients : c \in clients <=>
       proc[c] \in {"starting", "select", "write", "leaving"}
  /\ \A c \in closed : proc[c] = "done"

\* Process holds a message only while it writes it.
HandInv ==
  \A c \in Clients :
    /\ proc[c] = "write" <=> hand[c] # NoData
    /\ proc[c] \in {"absent", "registering"} => wire[c] = <<>>

Held(c)    == IF proc[c] = "write" THEN 1 ELSE 0
Pending(c) == IF c \in todo THEN 1 ELSE 0

\* A working client is behind by the message it holds and by the one the
\* loop has yet to send it; a leaving one may also have dropped a message.
PositionInv ==
  \A c \in clients :
    /\ proc[c] # "leaving" => Lag(c) = Held(c) + Pending(c)
    /\ proc[c] = "leaving" => Lag(c) <= 1 + Pending(c)
    /\ proc[c] = "write" => hand[c] = feed[joined[c] + Len(wire[c]) + 1]

IInv ==
  TypeOK /\ LoopInv /\ DataInv /\ MemberInv /\ HandInv /\ GapFree
    /\ PositionInv

-----------------------------------------------------------------------------

LEMMA InitInv == Init => IInv
  <1> SUFFICES ASSUME Init PROVE IInv
    OBVIOUS
  <1> USE HubAssumption DEF Init
  <1>1. TypeOK
    BY DEF TypeOK, ProcState
  <1>2. LoopInv /\ DataInv /\ MemberInv /\ HandInv
    BY DEF LoopInv, DataInv, MemberInv, HandInv
  <1>3. GapFree /\ PositionInv
    BY DEF GapFree, PositionInv
  <1>4. QED
    BY <1>1, <1>2, <1>3 DEF IInv

\* A round of the range loop over the clients cs, from an idle hub: the feed
\* grows by the data sent, and by nothing when there is none.
LEMMA BroadcastRound ==
  ASSUME TypeOK, DataInv, NEW cs \in SUBSET Clients,
         NEW d \in Msgs \cup {NoData}, d = NoData => data = NoData,
         Broadcast(cs, d)
  PROVE  /\ feed' \in Seq(Msgs)
         /\ data' \in Msgs \cup {NoData}
         /\ todo' \subseteq cs
         /\ target' \in todo' \cup {NoClient}
         /\ LoopInv' /\ DataInv'
         /\ \A i \in 1 .. Len(feed) : feed'[i] = feed[i]
         /\ \/ feed' = feed /\ todo' = {}
            \/ Len(feed') = Len(feed) + 1 /\ todo' = cs
  <1> USE HubAssumption DEF TypeOK, Broadcast
  <1>1. CASE d = NoData
    BY <1>1 DEF DataInv, LoopInv, NextTarget
  <1>2. CASE d # NoData
    <2>1. /\ feed' = Append(feed, d) /\ feed' \in Seq(Msgs)
          /\ Len(feed') = Len(feed) + 1
          /\ feed'[Len(feed) + 1] = d
          /\ \A i \in 1 .. Len(feed) : feed'[i] = feed[i]
      BY <1>2
    <2>2. todo' = cs /\ data' = d
      BY <1>2
    <2>3. target' \in NextTarget(cs)
      BY <2>2
    <2>4. NoClient \notin cs
      OBVIOUS
    <2>5. LoopInv' /\ target' \in todo' \cup {NoClient}
      BY <1>2, <2>2, <2>3, <2>4 DEF LoopInv, NextTarget
    <2>6. DataInv'
      BY <1>2, <2>1, <2>2 DEF DataInv
    <2>7. QED
      BY <2>1, <2>2, <2>5, <2>6
  <1>3. QED
    BY <1>1, <1>2

\* The same round seen from one client d: it keeps its place (and is sent the
\* new entry if it stays registered), or it has just registered at the end of
\* the feed, or it is no longer registered.
KeepsPlace(d) ==
  joined'[d] = joined[d] /\ proc'[d] = proc[d] /\ d \in clients

JoinsAtEnd(d) ==
  joined'[d] = Len(feed) /\ wire[d] = <<>> /\ proc'[d] = "starting"

StaysOut(d) == joined'[d] = joined[d] /\ d \notin clients'

LEMMA RoundPositions ==
  ASSUME TypeOK, TypeOK', LoopInv, GapFree, PositionInv, Idle,
         \A i \in 1 .. Len(feed) : feed'[i] = feed[i],
         \/ feed' = feed /\ todo' = {}
         \/ Len(feed') = Len(feed) + 1 /\ todo' = clients',
         wire' = wire, hand' = hand,
         \A d \in Clients : KeepsPlace(d) \/ JoinsAtEnd(d) \/ StaysOut(d)
  PROVE  GapFree' /\ PositionInv'
  <1>0. \A d \in Clients :
          /\ joined[d] \in Nat /\ joined'[d] \in Nat
          /\ Len(wire[d]) \in Nat
          /\ Len(feed) \in Nat /\ Len(feed') \in Nat
    BY DEF TypeOK
  <1>1. Len(feed) <= Len(feed')
    BY <1>0, Len(feed) \in Nat, Len(feed') \in Nat DEF TypeOK
  <1>2. GapFree'
    <2> SUFFICES ASSUME NEW d \in Clients
                 PROVE  /\ joined'[d] + Len(wire[d]) <= Len(feed')
                        /\ \A i \in 1 .. Len(wire[d]) :
                             wire[d][i] = feed'[joined'[d] + i]
      BY DEF GapFree
    <2>1. CASE joined'[d] = joined[d]
      <3>1. joined[d] + Len(wire[d]) <= Len(feed)
        BY DEF GapFree
      <3>2. joined'[d] + Len(wire[d]) <= Len(feed')
        BY <1>0, <1>1, <2>1, <3>1
      <3>3. ASSUME NEW i \in 1 .. Len(wire[d])
            PROVE  wire[d][i] = feed'[joined'[d] + i]
        <4>1. joined[d] + i \in 1 .. Len(feed)
          BY <1>0, <3>1
        <4>2. wire[d][i] = feed[joined[d] + i]
          BY DEF GapFree
        <4>3. QED
          BY <2>1, <4>1, <4>2
      <3>4. QED
        BY <3>2, <3>3
    <2>2. CASE JoinsAtEnd(d)
      BY <1>0, <1>1, <2>2 DEF JoinsAtEnd
    <2>3. QED
      BY <2>1, <2>2 DEF KeepsPlace, StaysOut
  <1>3. PositionInv'
    <2> SUFFICES ASSUME NEW d \in Clients, d \in clients'
                 PROVE  /\ proc'[d] # "leaving" =>
                             Lag(d)' = Held(d)' + Pending(d)'
                        /\ proc'[d] = "leaving" => Lag(d)' <= 1 + Pending(d)'
                        /\ proc'[d] = "write" =>
                             hand'[d] = feed'[joined'[d] + Len(wire[d]) + 1]
      BY DEF PositionInv, TypeOK
    <2>0. Len(feed') = Len(feed) + Pending(d)'
      BY <1>0 DEF Pending
    <2>1. CASE KeepsPlace(d)
      <3>1. Pending(d) = 0
        BY DEF Idle, LoopInv, Pending
      <3>2. /\ Lag(d)' = Lag(d) + Pending(d)'
            /\ Held(d)' = Held(d)
            /\ Pending(d)' \in {0, 1}
        BY <1>0, <2>0, <2>1 DEF KeepsPlace, Lag, Held, Pending
      <3>3. Lag(d) \in Int /\ Held(d) \in {0, 1}
        BY <1>0 DEF Lag, Held
      <3>4. ASSUME proc[d] = "write"
            PROVE  hand'[d] = feed'[joined'[d] + Len(wire[d]) + 1]
        <4>1. /\ hand[d] = feed[joined[d] + Len(wire[d]) + 1]
              /\ Lag(d) = 1
          BY <2>1, <3>1, <3>4 DEF KeepsPlace, PositionInv, Held
        <4>2. joined[d] + Len(wire[d]) + 1 \in 1 .. Len(feed)
          BY <1>0, <4>1 DEF Lag
        <4>3. QED
          BY <2>1, <4>1, <4>2 DEF KeepsPlace
      <3>5. /\ proc[d] # "leaving" => Lag(d) = Held(d) + Pending(d)
            /\ proc[d] = "leaving" => Lag(d) <= 1 + Pending(d)
        BY <2>1 DEF KeepsPlace, PositionInv
      <3>6. proc'[d] = proc[d]
        BY <2>1 DEF KeepsPlace
      <3>7. QED
        BY <3>1, <3>2, <3>3, <3>4, <3>5, <3>6
    <2>2. CASE JoinsAtEnd(d)
      <3>1. Lag(d)' = Pending(d)' /\ Held(d)' = 0 /\ Pending(d)' \in {0, 1}
        BY <1>0, <2>0, <2>2 DEF JoinsAtEnd, Lag, Held, Pending
      <3>2. QED
        BY <2>2, <3>1 DEF JoinsAtEnd
    <2>3. QED
      BY <2>1, <2>2 DEF StaysOut
  <1>4. QED
    BY <1>2, <1>3

LEMMA RegisterInv ==
  ASSUME IInv, NEW c \in Clients, Register(c)
  PROVE  IInv'
  <1> USE HubAssumption
  <1>0. TypeOK /\ LoopInv /\ DataInv /\ MemberInv /\ HandInv /\ GapFree
          /\ PositionInv
    BY DEF IInv
  <1>1. clients' \in SUBSET Clients /\ data \in Msgs \cup {NoData}
    BY <1>0 DEF TypeOK, Register
  <1>2. Broadcast(clients', data)
    BY DEF Register
  <1>3. /\ feed' \in Seq(Msgs)
        /\ data' \in Msgs \cup {NoData}
        /\ todo' \subseteq clients'
        /\ target' \in todo' \cup {NoClient}
        /\ LoopInv' /\ DataInv'
        /\ \A i \in 1 .. Len(feed) : feed'[i] = feed[i]
        /\ \/ feed' = feed /\ todo' = {}
           \/ Len(feed') = Len(feed) + 1 /\ todo' = clients'
    BY <1>0, <1>1, <1>2, BroadcastRound
  <1>4. TypeOK'
    BY <1>0, <1>3 DEF Register, TypeOK, ProcState
  <1>5. MemberInv' /\ HandInv'
    BY <1>0 DEF Register, TypeOK, MemberInv, HandInv, ProcState
  <1>6. ASSUME NEW d \in Clients
        PROVE  KeepsPlace(d) \/ JoinsAtEnd(d) \/ StaysOut(d)
    BY <1>0 DEF Register, TypeOK, HandInv, KeepsPlace, JoinsAtEnd, StaysOut
  <1>7. GapFree' /\ PositionInv'
    BY <1>0, <1>3, <1>4, <1>6, RoundPositions DEF Register
  <1>8. QED
    BY <1>3, <1>4, <1>5, <1>7 DEF IInv

LEMMA DeregisterInv ==
  ASSUME IInv, NEW c \in Clients, Deregister(c)
  PROVE  IInv'
  <1> USE HubAssumption
  <1>0. TypeOK /\ LoopInv /\ DataInv /\ MemberInv /\ HandInv /\ GapFree
          /\ PositionInv
    BY DEF IInv
  <1>1. clients' \in SUBSET Clients /\ data \in Msgs \cup {NoData}
    BY <1>0 DEF TypeOK, Deregister
  <1>2. Broadcast(clients', data)
    BY DEF Deregister
  <1>3. /\ feed' \in Seq(Msgs)
        /\ data' \in Msgs \cup {NoData}
        /\ todo' \subseteq clients'
        /\ target' \in todo' \cup {NoClient}
        /\ LoopInv' /\ DataInv'
        /\ \A i \in 1 .. Len(feed) : feed'[i] = feed[i]
        /\ \/ feed' = feed /\ todo' = {}
           \/ Len(feed') = Len(feed) + 1 /\ todo' = clients'
    BY <1>0, <1>1, <1>2, BroadcastRound
  <1>4. TypeOK'
    BY <1>0, <1>3 DEF Deregister, TypeOK, ProcState
  <1>5. MemberInv' /\ HandInv'
    BY <1>0 DEF Deregister, TypeOK, MemberInv, HandInv, ProcState
  <1>6. ASSUME NEW d \in Clients
        PROVE  KeepsPlace(d) \/ JoinsAtEnd(d) \/ StaysOut(d)
    BY <1>0 DEF Deregister, TypeOK, KeepsPlace, StaysOut
  <1>7. GapFree' /\ PositionInv'
    BY <1>0, <1>3, <1>4, <1>6, RoundPositions DEF Deregister
  <1>8. QED
    BY <1>3, <1>4, <1>5, <1>7 DEF IInv

LEMMA TakeInv ==
  ASSUME IInv, NEW s \in Senders, Take(s)
  PROVE  IInv'
  <1> USE HubAssumption
  <1>0. TypeOK /\ LoopInv /\ DataInv /\ MemberInv /\ HandInv /\ GapFree
          /\ PositionInv
    BY DEF IInv
  <1>1. /\ clients' = clients /\ clients \in SUBSET Clients
        /\ offers[s] \in Msgs \cup {NoData} /\ offers[s] # NoData
    BY <1>0 DEF TypeOK, Take
  <1>2. Broadcast(clients, offers[s])
    BY DEF Take
  <1>3. /\ feed' \in Seq(Msgs)
        /\ data' \in Msgs \cup {NoData}
        /\ todo' \subseteq clients
        /\ target' \in todo' \cup {NoClient}
        /\ LoopInv' /\ DataInv'
        /\ \A i \in 1 .. Len(feed) : feed'[i] = feed[i]
        /\ \/ feed' = feed /\ todo' = {}
           \/ Len(feed') = Len(feed) + 1 /\ todo' = clients
    BY <1>0, <1>1, <1>2, BroadcastRound
  <1>4. TypeOK'
    BY <1>0, <1>3 DEF Take, TypeOK, clientVars
  <1>5. MemberInv' /\ HandInv'
    BY <1>0 DEF Take, MemberInv, HandInv, clientVars
  <1>6. ASSUME NEW d \in Clients
        PROVE  KeepsPlace(d) \/ StaysOut(d)
    BY DEF Take, KeepsPlace, StaysOut, clientVars
  <1>7. GapFree' /\ PositionInv'
    BY <1>0, <1>1, <1>3, <1>4, <1>6, RoundPositions DEF Take, clientVars
  <1>8. QED
    BY <1>3, <1>4, <1>5, <1>7 DEF IInv

\* Positions when a single client moves: it is enough to look at that one.
LEMMA SendDataInv ==
  ASSUME IInv, NEW c \in Clients, SendData(c)
  PROVE  IInv'
  <1> USE HubAssumption
  <1>0. TypeOK /\ LoopInv /\ DataInv /\ MemberInv /\ HandInv /\ GapFree
          /\ PositionInv
    BY DEF IInv
  <1>1. /\ c \in todo /\ c \in clients /\ proc[c] = "select"
        /\ data \in Msgs /\ feed # <<>>
    BY <1>0 DEF SendData, TypeOK, LoopInv, DataInv
  <1>2. target' \in todo' \cup {NoClient} /\ LoopInv'
    BY <1>0, <1>1 DEF SendData, TypeOK, LoopInv, NextTarget
  <1>3. TypeOK'
    BY <1>0, <1>1, <1>2 DEF SendData, TypeOK, ProcState
  <1>4. DataInv' /\ MemberInv' /\ HandInv' /\ GapFree'
    BY <1>0, <1>1 DEF SendData, TypeOK, DataInv, MemberInv, HandInv, GapFree
  <1>5. PositionInv'
    <2>1. /\ Lag(c) = 1
          /\ Len(feed) \in Nat /\ joined[c] \in Nat /\ Len(wire[c]) \in Nat
      <3>1. Held(c) = 0 /\ Pending(c) = 1
        BY <1>1 DEF Held, Pending
      <3>2. Lag(c) = Held(c) + Pending(c)
        BY <1>0, <1>1 DEF PositionInv
      <3>3. /\ Len(feed) \in Nat /\ joined[c] \in Nat
            /\ Len(wire[c]) \in Nat
        BY <1>0 DEF TypeOK
      <3>4. QED
        BY <3>1, <3>2, <3>3
    <2>2. joined[c] + Len(wire[c]) + 1 = Len(feed)
      BY <2>1 DEF Lag
    <2>3. /\ proc'[c] = "write" /\ Lag(c)' = 1
          /\ Held(c)' = 1 /\ Pending(c)' = 0
      BY <1>0, <2>1 DEF SendData, TypeOK, Lag, Held, Pending
    <2>4. hand'[c] = feed'[joined'[c] + Len(wire'[c]) + 1]
      BY <1>0, <1>1, <2>2 DEF SendData, TypeOK, DataInv
    <2>5. ASSUME NEW d \in clients', d # c
          PROVE  /\ proc'[d] = proc[d] /\ hand'[d] = hand[d]
                 /\ Lag(d)' = Lag(d) /\ Held(d)' = Held(d)
                 /\ Pending(d)' = Pending(d)
      BY <1>0, <2>5 DEF SendData, TypeOK, Lag, Held, Pending
    <2>6. QED
      BY <1>0, <2>3, <2>4, <2>5 DEF SendData, PositionInv
  <1>6. QED
    BY <1>2, <1>3, <1>4, <1>5 DEF IInv

LEMMA WriteMessageInv ==
  ASSUME IInv, NEW c \in Clients, WriteMessage(c)
  PROVE  IInv'
  <1> USE HubAssumption
  <1>0. TypeOK /\ LoopInv /\ DataInv /\ MemberInv /\ HandInv /\ GapFree
          /\ PositionInv
    BY DEF IInv
  <1>1. /\ c \in clients /\ proc[c] = "write" /\ hand[c] \in Msgs
        /\ wire[c] \in Seq(Msgs) /\ Len(wire[c]) \in Nat
        /\ joined[c] \in Nat /\ Len(feed) \in Nat
    BY <1>0 DEF WriteMessage, TypeOK, MemberInv, HandInv
  <1>2. /\ wire' = [wire EXCEPT ![c] = Append(wire[c], hand[c])]
        /\ UNCHANGED hubVars
        /\ proc' = [proc EXCEPT ![c] = "select"]
        /\ hand' = [hand EXCEPT ![c] = NoData]
        /\ ws' = ws /\ offers' = offers
    BY DEF WriteMessage
  <1>3. /\ wire'[c] \in Seq(Msgs)
        /\ Len(wire'[c]) = Len(wire[c]) + 1
        /\ wire'[c][Len(wire[c]) + 1] = hand[c]
        /\ \A i \in 1 .. Len(wire[c]) : wire'[c][i] = wire[c][i]
    BY <1>0, <1>1, <1>2 DEF TypeOK
  <1>4. /\ Lag(c) = 1 + Pending(c) /\ Pending(c) \in {0, 1}
        /\ hand[c] = feed[joined[c] + Len(wire[c]) + 1]
    BY <1>0, <1>1 DEF PositionInv, Held, Pending
  <1>5. joined[c] + Len(wire[c]) + 1 <= Len(feed)
    BY <1>1, <1>4 DEF Lag
  <1>6. TypeOK'
    BY <1>0, <1>2, <1>3 DEF TypeOK, ProcState, hubVars
  <1>7. LoopInv' /\ DataInv' /\ MemberInv'
    BY <1>0, <1>1, <1>2 DEF TypeOK, LoopInv, DataInv, MemberInv, hubVars
  <1>8. HandInv'
    BY <1>0, <1>2 DEF TypeOK, HandInv
  <1>9. GapFree'
    <2> SUFFICES ASSUME NEW d \in Clients
                 PROVE  /\ joined[d] + Len(wire'[d]) <= Len(feed)
                        /\ \A i \in 1 .. Len(wire'[d]) :
                             wire'[d][i] = feed[joined[d] + i]
      BY <1>2 DEF GapFree, hubVars
    <2>1. CASE d = c
      <3>1. ASSUME NEW i \in 1 .. Len(wire'[c])
            PROVE  wire'[c][i] = feed[joined[c] + i]
        <4>1. CASE i = Len(wire[c]) + 1
          <5>1. joined[c] + i = joined[c] + Len(wire[c]) + 1
            BY <1>1, <4>1
          <5>2. QED
            BY <1>3, <1>4, <4>1, <5>1
        <4>2. CASE i # Len(wire[c]) + 1
          <5>1. i \in 1 .. Len(wire[c])
            BY <1>1, <1>3, <4>2
          <5>2. QED
            BY <1>0, <1>3, <5>1 DEF GapFree
        <4>3. QED
          BY <4>1, <4>2
      <3>2. QED
        BY <1>1, <1>3, <1>5, <2>1, <3>1
    <2>2. CASE d # c
      BY <1>0, <1>2, <2>2 DEF GapFree, TypeOK
    <2>3. QED
      BY <2>1, <2>2
  <1>10. PositionInv'
    <2>1. /\ proc'[c] = "select" /\ Lag(c)' = Pending(c)
          /\ Held(c)' = 0 /\ Pending(c)' = Pending(c)
      BY <1>0, <1>1, <1>2, <1>3, <1>4
         DEF TypeOK, Lag, Held, Pending, hubVars
    <2>2. ASSUME NEW d \in clients', d # c
          PROVE  /\ proc'[d] = proc[d] /\ hand'[d] = hand[d]
                 /\ wire'[d] = wire[d]
                 /\ Lag(d)' = Lag(d) /\ Held(d)' = Held(d)
                 /\ Pending(d)' = Pending(d)
      BY <1>0, <1>2, <2>2 DEF TypeOK, Lag, Held, Pending, hubVars
    <2>3. QED
      BY <1>0, <1>2, <1>4, <2>1, <2>2 DEF PositionInv, hubVars
  <1>11. QED
    BY <1>6, <1>7, <1>8, <1>9, <1>10 DEF IInv

LEMMA ReturnInv ==
  ASSUME IInv, NEW c \in Clients, Return(c)
  PROVE  IInv'
  <1> USE HubAssumption
  <1>0. TypeOK /\ LoopInv /\ DataInv /\ MemberInv /\ HandInv /\ GapFree
          /\ PositionInv
    BY DEF IInv
  <1>1. TypeOK'
    BY <1>0 DEF Return, TypeOK, ProcState, hubVars
  <1>2. LoopInv' /\ DataInv' /\ MemberInv' /\ HandInv' /\ GapFree'
    BY <1>0 DEF Return, TypeOK, LoopInv, DataInv, MemberInv, HandInv,
       GapFree, hubVars
  <1>3. PositionInv'
    <2>1. c \in clients /\ Held(c) \in {0, 1} /\ Pending(c) \in {0, 1}
      BY <1>0 DEF Return, MemberInv, Held, Pending
    <2>2. Lag(c) <= 1 + Pending(c)
      BY <1>0, <2>1 DEF Return, PositionInv
    <2>3. /\ proc'[c] = "leaving" /\ Lag(c)' = Lag(c)
          /\ Pending(c)' = Pending(c)
      BY <1>0 DEF Return, TypeOK, Lag, Pending, hubVars
    <2>4. ASSUME NEW d \in clients', d # c
          PROVE  /\ proc'[d] = proc[d] /\ hand'[d] = hand[d]
                 /\ Lag(d)' = Lag(d) /\ Held(d)' = Held(d)
                 /\ Pending(d)' = Pending(d)
      BY <1>0, <2>4 DEF Return, TypeOK, Lag, Held, Pending, hubVars
    <2>5. QED
      BY <1>0, <2>2, <2>3, <2>4 DEF Return, PositionInv, hubVars
  <1>4. QED
    BY <1>1, <1>2, <1>3 DEF IInv

\* The steps that move one goroutine between two places at which it holds
\* nothing.
LEMMA QuietInv ==
  ASSUME IInv, NEW c \in Clients, Upgrade(c) \/ Start(c)
  PROVE  IInv'
  <1> USE HubAssumption
  <1>0. TypeOK /\ LoopInv /\ DataInv /\ MemberInv /\ HandInv /\ GapFree
          /\ PositionInv
    BY DEF IInv
  <1>1. TypeOK'
    BY <1>0 DEF Upgrade, Start, TypeOK, ProcState, hubVars
  <1>2. LoopInv' /\ DataInv' /\ GapFree'
    BY <1>0 DEF Upgrade, Start, LoopInv, DataInv, GapFree, hubVars
  <1>3. MemberInv' /\ HandInv'
    <2>1. \A d \in Clients :
            \/ proc'[d] = proc[d]
            \/ proc[d] = "absent" /\ proc'[d] = "registering"
            \/ proc[d] = "starting" /\ proc'[d] = "select"
      BY <1>0 DEF Upgrade, Start, TypeOK
    <2>2. UNCHANGED <<clients, closed, hand, wire>>
      BY DEF Upgrade, Start, hubVars
    <2>3. MemberInv'
      <3>1. \A d \in Clients :
              d \in clients' <=>
                proc'[d] \in {"starting", "select", "write", "leaving"}
        <4> TAKE d \in Clients
        <4>1. d \in clients <=>
                proc[d] \in {"starting", "select", "write", "leaving"}
          BY <1>0 DEF MemberInv
        <4> QED
          BY <2>1, <2>2, <4>1
      <3>2. \A d \in closed' : d \in Clients /\ proc'[d] = "done"
        <4> TAKE d \in closed'
        <4>1. d \in Clients /\ proc[d] = "done"
          BY <1>0, <2>2 DEF MemberInv, TypeOK
        <4> QED
          BY <2>1, <4>1
      <3> QED
        BY <3>1, <3>2 DEF MemberInv
    <2>4. HandInv'
      BY <1>0, <2>1, <2>2 DEF HandInv
    <2> QED
      BY <2>3, <2>4
  <1>4. ASSUME NEW d \in clients'
        PROVE  /\ proc'[d] = "leaving" <=> proc[d] = "leaving"
               /\ proc'[d] = "write" <=> proc[d] = "write"
               /\ Lag(d)' = Lag(d) /\ Held(d)' = Held(d)
               /\ Pending(d)' = Pending(d)
    BY <1>0 DEF Upgrade, Start, TypeOK, Lag, Held, Pending, hubVars
  <1>5. PositionInv'
    BY <1>0, <1>4 DEF Upgrade, Start, PositionInv, hubVars
  <1>6. QED
    BY <1>1, <1>2, <1>3, <1>5 DEF IInv

\* The steps that touch only a socket or an offer, and stuttering.
LEMMA OutsideInv ==
  ASSUME IInv, [Next]_vars, UNCHANGED <<hubVars, proc, hand, wire>>, TypeOK'
  PROVE  IInv'
  <1>1. UNCHANGED <<clients, data, todo, target, closed, feed, joined,
                    proc, hand, wire>>
    BY DEF hubVars
  <1>2. LoopInv' /\ DataInv' /\ MemberInv' /\ HandInv' /\ GapFree'
    BY <1>1 DEF IInv, LoopInv, DataInv, MemberInv, HandInv, GapFree
  <1>3. PositionInv'
    BY <1>1 DEF IInv, PositionInv, Lag, Held, Pending
  <1>4. QED
    BY <1>2, <1>3 DEF IInv

LEMMA NextInv == IInv /\ [Next]_vars => IInv'
  <1> SUFFICES ASSUME IInv, [Next]_vars PROVE IInv'
    OBVIOUS
  <1>1. ASSUME NEW c \in Clients,
               Register(c) \/ Deregister(c) \/ SendData(c)
        PROVE  IInv'
    BY <1>1, RegisterInv, DeregisterInv, SendDataInv
  <1>2. ASSUME NEW s \in Senders, Take(s) PROVE IInv'
    BY <1>2, TakeInv
  <1>3. ASSUME NEW c \in Clients, ClientNext(c) PROVE IInv'
    <2>1. CASE Upgrade(c) \/ Start(c)
      BY <2>1, QuietInv
    <2>2. CASE WriteMessage(c)
      BY <2>2, WriteMessageInv
    <2>3. CASE Return(c)
      BY <2>3, ReturnInv
    <2>4. CASE CloseOnReadError(c) \/ PeerLeaves(c)
      <3>1. UNCHANGED <<hubVars, proc, hand, wire, offers>>
        BY <2>4 DEF CloseOnReadError, PeerLeaves
      <3>2. TypeOK'
        BY <2>4, <3>1
           DEF CloseOnReadError, PeerLeaves, IInv, TypeOK, hubVars
      <3>3. QED
        BY <3>1, <3>2, OutsideInv
    <2>5. QED
      BY <1>3, <2>1, <2>2, <2>3, <2>4 DEF ClientNext
  <1>4. ASSUME NEW s \in Senders, NEW m \in Msgs, Offer(s, m) PROVE IInv'
    <2>1. UNCHANGED <<hubVars, proc, hand, wire>>
      BY <1>4 DEF Offer, clientVars
    <2>2. TypeOK'
      BY <1>4, HubAssumption DEF Offer, IInv, TypeOK, hubVars, clientVars
    <2>3. QED
      BY <2>1, <2>2, OutsideInv
  <1>5. CASE UNCHANGED vars
    <2>1. UNCHANGED <<hubVars, proc, hand, wire, ws, offers>>
      BY <1>5 DEF vars, clientVars
    <2>2. TypeOK'
      BY <2>1 DEF IInv, TypeOK, hubVars
    <2>3. QED
      BY <2>1, <2>2, OutsideInv
  <1>6. QED
    BY <1>1, <1>2, <1>3, <1>4, <1>5 DEF Next, HubNext

\* The strengthened invariant, from which everything below follows.
THEOREM Inductive == Safety => []IInv
  <1>1. Init => IInv
    BY InitInv
  <1>2. IInv /\ [Next]_vars => IInv'
    BY NextInv
  <1>3. QED
    BY <1>1, <1>2, PTL DEF Safety

-----------------------------------------------------------------------------
(* What the invariant gives.                                               *)

\* Every variable keeps its type: in particular the range loop only ever
\* works on clients that are registered.
THEOREM TypeCorrect == Safety => []TypeOK
  <1>1. IInv => TypeOK
    BY DEF IInv
  <1>2. QED
    BY <1>1, Inductive, PTL

\* Hub.Run never sends on a channel it has closed, and Process never reads
\* from its closed channel (hub.go:46-50, client.go:42-44).
THEOREM ClosedForGood == Safety => []NoUseAfterClose
  <1>1. IInv => NoUseAfterClose
    <2> SUFFICES ASSUME IInv, NEW c \in closed
                 PROVE  c \notin todo /\ proc[c] = "done"
      BY DEF NoUseAfterClose
    <2>1. proc[c] = "done" /\ c \in Clients /\ todo \subseteq clients
      BY DEF IInv, MemberInv, TypeOK
    <2>2. c \notin clients
      BY <2>1 DEF IInv, MemberInv
    <2>3. QED
      BY <2>1, <2>2
  <1>2. QED
    BY <1>1, Inductive, PTL

\* Every websocket carries one contiguous stretch of the rounds, from its
\* registration on, for any number of browsers that come and go.
THEOREM NothingSkipped == Safety => []GapFree
  <1>1. IInv => GapFree
    BY DEF IInv
  <1>2. QED
    BY <1>1, Inductive, PTL

\* Where a registered client can be behind the feed, and by how much.
LEMMA LagBounds ==
  ASSUME IInv, NEW c \in clients
  PROVE  /\ Lag(c) \in 0 .. 2
         /\ Idle => Lag(c) \in 0 .. 1
         /\ Idle /\ proc[c] \in {"starting", "select"} => Lag(c) = 0
  <1>1. /\ c \in Clients /\ Len(feed) \in Nat
        /\ joined[c] \in Nat /\ Len(wire[c]) \in Nat
    BY DEF IInv, TypeOK
  <1>2. Lag(c) \in Int /\ Lag(c) >= 0
    BY <1>1 DEF IInv, GapFree, Lag
  <1>3. /\ Held(c) \in {0, 1} /\ Pending(c) \in {0, 1}
        /\ Idle => Pending(c) = 0
        /\ proc[c] \in {"starting", "select"} => Held(c) = 0
    BY DEF IInv, LoopInv, Idle, Held, Pending
  <1>4. /\ proc[c] # "leaving" => Lag(c) = Held(c) + Pending(c)
        /\ proc[c] = "leaving" => Lag(c) <= 1 + Pending(c)
    BY DEF IInv, PositionInv
  <1>5. QED
    BY <1>2, <1>3, <1>4

\* Between two rounds, a client at its select has written everything.
THEOREM IdleMeansCaughtUp == Safety => []CaughtUp
  <1>1. IInv => CaughtUp
    BY LagBounds DEF CaughtUp
  <1>2. QED
    BY <1>1, Inductive, PTL

\* No registered browser is ever more than two rounds behind.
THEOREM LagIsBounded == Safety => []BoundedLag
  <1>1. IInv => BoundedLag
    BY LagBounds DEF BoundedLag
  <1>2. QED
    BY <1>1, Inductive, PTL

\* The wait of the hub (hub.go:64) and of Process (client.go:35) for each
\* other never ends.
THEOREM MutualWaitIsFinal == Safety => StuckForever
  <1>1. TypeOK /\ [Next]_vars
          => \A c \in Clients : Stuck(c) => Stuck(c)'
    <2> SUFFICES ASSUME TypeOK, [Next]_vars, NEW c \in Clients, Stuck(c)
                 PROVE  Stuck(c)'
      OBVIOUS
    <2> USE HubAssumption DEF Stuck
    <2>1. ~Idle
      BY DEF Idle
    <2>2. ASSUME NEW d \in Clients,
                 Register(d) \/ Deregister(d) \/ SendData(d)
          PROVE  FALSE
      BY <2>1, <2>2 DEF Register, Deregister, SendData
    <2>3. ASSUME NEW s \in Senders, Take(s) PROVE FALSE
      BY <2>1, <2>3 DEF Take
    <2>4. ASSUME NEW d \in Clients, ClientNext(d) PROVE Stuck(c)'
      BY <2>4 DEF TypeOK, ClientNext, Upgrade, Start, WriteMessage, Return,
         CloseOnReadError, PeerLeaves, hubVars
    <2>5. ASSUME NEW s \in Senders, NEW m \in Msgs, Offer(s, m)
          PROVE  Stuck(c)'
      BY <2>5 DEF Offer, hubVars, clientVars
    <2>6. CASE UNCHANGED vars
      BY <2>6 DEF vars, hubVars, clientVars
    <2>7. QED
      BY <2>2, <2>3, <2>4, <2>5, <2>6 DEF Next, HubNext
  <1>2. QED
    BY <1>1, TypeCorrect, PTL DEF Safety, StuckForever

-----------------------------------------------------------------------------
(* The hub implements module Broadcast.                                    *)

\* A round for the registration or deregistration of a client repeats the
\* last entry of the log.
LEMMA RoundReplays ==
  ASSUME IInv, NEW cs, Broadcast(cs, data)
  PROVE  feed' = Abstract!Replayed
  BY DEF IInv, DataInv, Broadcast, Abstract!Replayed

LEMMA StepRefines ==
  ASSUME IInv, [Next]_vars
  PROVE  [Abstract!Next]_(Abstract!bvars)
  <1> USE HubAssumption
  <1>1. Idle => Abstract!Lockstep
    BY LagBounds DEF Abstract!Lockstep, Abstract!Behind, Lag
  <1>2. ASSUME NEW c \in Clients, Register(c)
        PROVE  Abstract!Join(c)
    <2>1. feed' = Abstract!Replayed
      BY <1>2, RoundReplays DEF Register
    <2>2. c \notin clients /\ wire[c] = <<>>
      BY <1>2 DEF Register, IInv, MemberInv, HandInv
    <2>3. QED
      BY <1>1, <1>2, <2>1, <2>2 DEF Register, Abstract!Join
  <1>3. ASSUME NEW c \in Clients, Deregister(c)
        PROVE  Abstract!Quit(c)
    <2>1. feed' = Abstract!Replayed
      BY <1>3, RoundReplays DEF Deregister
    <2>2. c \in clients
      BY <1>3 DEF Deregister, IInv, MemberInv
    <2>3. QED
      BY <1>1, <1>3, <2>1, <2>2 DEF Deregister, Abstract!Quit
  <1>4. ASSUME NEW s \in Senders, Take(s)
        PROVE  \E m \in Msgs : Abstract!Publish(m)
    <2>1. offers[s] \in Msgs
      BY <1>4 DEF Take, IInv, TypeOK
    <2>2. Abstract!Publish(offers[s])
      BY <1>1, <1>4 DEF Take, Broadcast, clientVars, Abstract!Publish
    <2>3. QED
      BY <2>1, <2>2
  <1>5. ASSUME NEW c \in Clients, WriteMessage(c)
        PROVE  Abstract!Show(c)
    <2>1. c \in clients /\ proc[c] = "write"
      BY <1>5 DEF WriteMessage, IInv, MemberInv
    <2>2. hand[c] = feed[joined[c] + Len(wire[c]) + 1]
      BY <2>1 DEF IInv, PositionInv
    <2>3. Abstract!Behind(c) > 0
      <3>1. Lag(c) = 1 + Pending(c) /\ Pending(c) \in {0, 1}
        BY <2>1 DEF IInv, PositionInv, Held, Pending
      <3>2. QED
        BY <3>1 DEF Abstract!Behind, Lag
    <2>4. QED
      BY <1>5, <2>1, <2>2, <2>3 DEF WriteMessage, hubVars, Abstract!Show
  <1>6. ASSUME \/ \E c \in Clients :
                    \/ SendData(c) \/ Upgrade(c) \/ Start(c) \/ Return(c)
                    \/ CloseOnReadError(c) \/ PeerLeaves(c)
               \/ \E s \in Senders, m \in Msgs : Offer(s, m)
               \/ UNCHANGED vars
        PROVE  UNCHANGED Abstract!bvars
    BY <1>6 DEF SendData, Upgrade, Start, Return, CloseOnReadError,
       PeerLeaves, Offer, vars, hubVars, clientVars, Abstract!bvars
  <1>7. QED
    BY <1>2, <1>3, <1>4, <1>5, <1>6
       DEF Next, HubNext, ClientNext, Abstract!Next

\* Whatever the goroutines do, browsers see a lockstep broadcast log.
THEOREM HubImplementsBroadcast == Safety => BroadcastSpec
  <1>1. Init => Abstract!Init
    BY DEF Init, Abstract!Init
  <1>2. IInv /\ [Next]_vars => [Abstract!Next]_(Abstract!bvars)
    BY StepRefines
  <1>3. QED
    BY <1>1, <1>2, Inductive, PTL DEF Safety, BroadcastSpec, Abstract!Spec
=============================================================================
