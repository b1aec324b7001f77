--------------------------- MODULE BrowserProofs ---------------------------
(***************************************************************************)
(* Theorems about module Browser, for any number of websockets, pages,     *)
(* queries, filters and broadcast messages.                                *)
(***************************************************************************)
EXTENDS Browser, FiniteSetTheorems, TLAPS

Clients == Sockets \cup Others

-----------------------------------------------------------------------------
(* The inductive invariant.                                                *)

\* What a client has shown is the stretch of the log that starts where it
\* joined.
HubInv ==
  /\ log \in Seq(Msgs) /\ members \subseteq Clients
  /\ start \in [Clients -> Nat] /\ seen \in [Clients -> Seq(Msgs)]
  /\ \A c \in Clients :
       /\ start[c] + Len(seen[c]) <= Len(log)
       /\ \A i \in 1 .. Len(seen[c]) : seen[c][i] = log[start[c] + i]

\* The proxy reports each command once, so that the entries of the log for it
\* are repetitions of one another, with nothing in between.
RepeatsInv ==
  \A i, j, l \in 1 .. Len(log) :
    i < j /\ j < l /\ log[i].type = "Cmd" /\ log[i] = log[l] =>
      log[j] = log[i]

\* Only a socket that is open is registered, and it stays so while it is open.
\* Without overlap the only socket that is not closed is the last one.
SocketInv ==
  /\ \A c \in Sockets :
       /\ sock[c] \in {"new", "connecting"} => c \notin members
       /\ sock[c] \in {"new", "connecting", "open"} /\ c \notin members =>
            seen[c] = <<>>
  /\ ~overlap => \A c \in Sockets : Open(c) => c = ws

\* The rows that will be shown when the filter is removed.
ViewInv ==
  /\ UnfilteredView
  /\ Filtering => {q \in Queries : backupConnections[q] # "none"} = kept

CountInv ==
  /\ IsFiniteSet(Shown \cup kept)
  /\ Cardinality(Shown \cup kept) <= queriesCount \/ undone

\* No open socket has entry p of the log still to deliver.
Handled(p) ==
  \A c \in Sockets : sock[c] = "open" /\ c \in members =>
    p <= start[c] + read[c]

\* The status s of the row of q is backed by the log: its Cmd is there and has
\* been handled; if it is settled, that result is there too, after a Cmd.
Backed(q, s) ==
  /\ s # "none" =>
       \E i \in 1 .. Len(log) : log[i] = CmdOf(q) /\ Handled(i)
  /\ s \in {"ok", "error"} =>
       \E i, j \in 1 .. Len(log) :
         i < j /\ log[i] = CmdOf(q) /\ log[j] = ResultOf(q, s) /\ Handled(j)

RowsInv ==
  ~overlap => \A q \in Queries :
    /\ Backed(q, connections[q])
    /\ Filtering => Backed(q, backupConnections[q])

IInv ==
  /\ TypeOK /\ HubInv /\ RepeatsInv /\ SocketInv /\ StatusIsTrue
  /\ ViewInv /\ CountInv /\ RowsInv

-----------------------------------------------------------------------------
(* Messages and the log.                                                   *)

LEMMA MsgFacts ==
  /\ \A m \in Msgs :
       \/ m.type = "Cmd" /\ m.query \in Queries /\ m = CmdOf(m.query)
       \/ /\ m.type = "CmdResult" /\ m.query \in Queries
          /\ m.result \in {"ok", "error"} /\ m = ResultOf(m.query, m.result)
       \/ m.type = "ConnState" /\ m.conn \in Conns
  /\ \A q, r \in Queries : \A s \in {"ok", "error"} :
       CmdOf(q).type = "Cmd" /\ CmdOf(q) # ResultOf(r, s)
  BY DEF Msgs, CmdOf, ResultOf, StateOf

\* A broadcast adds at most one entry: a new report, or a copy of the last one.
LEMMA RepeatsKept ==
  ASSUME HubInv, RepeatsInv, NEW m \in Msgs, log' = Append(log, m),
         \/ m.type = "Cmd" => \A i \in 1 .. Len(log) : log[i] # m
         \/ Len(log) > 0 /\ m = log[Len(log)]
  PROVE  RepeatsInv'
  <1>1. /\ log \in Seq(Msgs) /\ Len(log) \in Nat /\ Len(log') = Len(log) + 1
        /\ \A i \in 1 .. Len(log) : log'[i] = log[i]
        /\ log'[Len(log) + 1] = m
    BY DEF HubInv
  <1> SUFFICES ASSUME NEW i \in 1 .. Len(log'), NEW j \in 1 .. Len(log'),
                      NEW l \in 1 .. Len(log'),
                      i < j, j < l, log'[i].type = "Cmd", log'[i] = log'[l]
               PROVE  log'[j] = log'[i]
    BY DEF RepeatsInv
  <1>2. i \in 1 .. Len(log) /\ j \in 1 .. Len(log)
    BY <1>1
  <1>3. CASE l \in 1 .. Len(log)
    BY <1>1, <1>2, <1>3 DEF RepeatsInv
  <1>4. CASE l = Len(log) + 1
    <2>1. log[i] = m /\ Len(log) > 0 /\ m = log[Len(log)]
      BY <1>1, <1>2, <1>4
    <2>2. CASE j = Len(log)
      BY <1>1, <1>2, <2>1, <2>2
    <2>3. CASE j # Len(log)
      <3>1. j < Len(log) /\ Len(log) \in 1 .. Len(log)
        BY <1>1, <1>2, <2>3
      <3> QED
        BY <1>1, <1>2, <2>1, <3>1 DEF RepeatsInv
    <2> QED
      BY <2>2, <2>3
  <1> QED
    BY <1>1, <1>3, <1>4

\* What a step of the hub does to the log.
LEMMA HubGrows ==
  ASSUME HubInv, RepeatsInv, HubStep
  PROVE  /\ log' \in Seq(Msgs) /\ Len(log) \in Nat /\ Len(log') \in Nat
         /\ Len(log) <= Len(log')
         /\ \A i \in 1 .. Len(log) : log'[i] = log[i]
         /\ RepeatsInv'
  <1> USE DEF HubInv
  <1>1. ASSUME NEW m \in Msgs, Publish(m)
        PROVE  /\ log' \in Seq(Msgs) /\ Len(log) <= Len(log')
               /\ \A i \in 1 .. Len(log) : log'[i] = log[i]
               /\ RepeatsInv'
    <2>1. /\ log' = Append(log, m)
          /\ m.type = "Cmd" => \A i \in 1 .. Len(log) : log[i] # m
      BY <1>1 DEF Publish, B!Publish
    <2>2. RepeatsInv'
      BY <2>1, RepeatsKept, Zenon
    <2> QED
      BY <2>1, <2>2
  <1>2. ASSUME log' = B!Replayed
        PROVE  /\ log' \in Seq(Msgs) /\ Len(log) <= Len(log')
               /\ \A i \in 1 .. Len(log) : log'[i] = log[i]
               /\ RepeatsInv'
    <2>1. CASE log = <<>>
      BY <1>2, <2>1 DEF B!Replayed, RepeatsInv
    <2>2. CASE log # <<>>
      <3>1. Len(log) > 0 /\ log[Len(log)] \in Msgs
        BY <2>2
      <3>2. log' = Append(log, log[Len(log)])
        BY <1>2, <2>2 DEF B!Replayed
      <3> QED
        BY <3>1, <3>2, RepeatsKept
    <2> QED
      BY <2>1, <2>2
  <1>3. ASSUME NEW c \in Clients, Come(c) \/ Go(c)
        PROVE  log' = B!Replayed
    BY <1>3 DEF Come, Go, B!Join, B!Quit
  <1>4. ASSUME NEW c \in Clients, B!Show(c)
        PROVE  log' = log /\ RepeatsInv'
    BY <1>4 DEF B!Show, RepeatsInv
  <1> QED
    BY <1>1, <1>2, <1>3, <1>4 DEF HubStep, Clients

-----------------------------------------------------------------------------
(* The type invariant, the part of the sockets and that of the page.       *)

NetOK ==
  /\ read \in [Sockets -> Nat] /\ \A c \in Sockets : read[c] <= Len(seen[c])
  /\ sock \in [Sockets -> {"new", "connecting", "open", "closing", "closed"}]
  /\ ws \in Sockets \cup {NoSocket} /\ connected \in BOOLEAN
  /\ overlap \in BOOLEAN

PageOK ==
  /\ connections \in [Queries -> Row]
  /\ backupConnections \in [Queries -> Row] \cup {NoBackup}
  /\ shared \subseteq Shown /\ (~Filtering => shared = {})
  /\ \A q \in shared : backupConnections[q] = connections[q]
  /\ connectionsStates \in [Conns -> {"unknown", "started", "finished"}]
  /\ queriesCount \in Nat /\ kept \subseteq Queries /\ undone \in BOOLEAN

LEMMA TypeParts ==
  (TypeOK <=> NetOK /\ PageOK) /\ (TypeOK' <=> NetOK' /\ PageOK')
  BY DEF TypeOK, NetOK, PageOK

-----------------------------------------------------------------------------

LEMMA InitInv == Init => IInv
  <1> SUFFICES ASSUME Init PROVE IInv
    OBVIOUS
  <1> USE DEF Init, B!Init
  <1>1. Shown = {} /\ ~Filtering
    BY DEF Shown, Filtering, NoRows
  <1>2. TypeOK
    <2>1. NetOK
      <3>1. \A c \in Sockets : read[c] = 0 /\ Len(seen[c]) = 0
        BY DEF Init, B!Init
      <3>2. \A c \in Sockets : read[c] <= Len(seen[c])
        BY ONLY <3>1
      <3>3. /\ read \in [Sockets -> Nat]
            /\ sock \in [Sockets -> {"new", "connecting", "open", "closing",
                                     "closed"}]
            /\ ws = NoSocket /\ connected = FALSE /\ overlap = FALSE
        OBVIOUS
      <3> QED
        BY <3>2, <3>3 DEF NetOK
    <2>2. PageOK
      BY <1>1 DEF PageOK, NoRows, Row
    <2> QED
      BY <2>1, <2>2, TypeParts
  <1>3. HubInv /\ RepeatsInv
    BY DEF HubInv, RepeatsInv, Clients
  <1>4. SocketInv /\ StatusIsTrue
    BY DEF SocketInv, StatusIsTrue, Open
  <1>5. ViewInv
    BY <1>1 DEF ViewInv, UnfilteredView
  <1>6. CountInv
    <2>1. Shown \cup kept = {}
      BY <1>1
    <2>2. IsFiniteSet({}) /\ Cardinality({}) = 0
      BY FS_EmptySet
    <2> QED
      <3>1. Cardinality(Shown \cup kept) = queriesCount /\ queriesCount = 0
        BY <2>1, <2>2
      <3>2. Cardinality(Shown \cup kept) <= queriesCount
        BY ONLY <3>1
      <3> QED
        BY <2>1, <2>2, <3>2 DEF CountInv
  <1>7. RowsInv
    BY <1>1 DEF RowsInv, Backed, NoRows
  <1> QED
    BY <1>2, <1>3, <1>4, <1>5, <1>6, <1>7 DEF IInv

\* The log backs what it backed before when it grows and nothing of it has
\* become deliverable again.
LEMMA BackedKept ==
  ASSUME NEW q \in Queries, NEW s, Backed(q, s),
         Len(log) \in Nat, Len(log') \in Nat, Len(log) <= Len(log'),
         \A i \in 1 .. Len(log) : log'[i] = log[i],
         \A p \in 1 .. Len(log) : Handled(p) => Handled(p)'
  PROVE  Backed(q, s)'
  <1>1. ASSUME s # "none"
        PROVE  \E i \in 1 .. Len(log') : log'[i] = CmdOf(q) /\ Handled(i)'
    <2>1. PICK i \in 1 .. Len(log) : log[i] = CmdOf(q) /\ Handled(i)
      BY <1>1 DEF Backed
    <2> QED
      BY <2>1
  <1>2. ASSUME s \in {"ok", "error"}
        PROVE  \E i, j \in 1 .. Len(log') :
                 /\ i < j /\ log'[i] = CmdOf(q) /\ log'[j] = ResultOf(q, s)
                 /\ Handled(j)'
    <2>1. PICK i \in 1 .. Len(log), j \in 1 .. Len(log) :
            i < j /\ log[i] = CmdOf(q) /\ log[j] = ResultOf(q, s) /\ Handled(j)
      BY <1>2 DEF Backed
    <2> QED
      BY <2>1
  <1> QED
    BY <1>1, <1>2 DEF Backed, CmdOf, ResultOf

LEMMA RowsKept ==
  ASSUME RowsInv, overlap => overlap', UNCHANGED rows,
         Len(log) \in Nat, Len(log') \in Nat, Len(log) <= Len(log'),
         \A i \in 1 .. Len(log) : log'[i] = log[i],
         ~overlap' => \A p \in 1 .. Len(log) : Handled(p) => Handled(p)'
  PROVE  RowsInv'
  <1> SUFFICES ASSUME ~overlap', NEW q \in Queries
               PROVE  /\ Backed(q, connections[q])'
                      /\ Filtering => Backed(q, backupConnections[q])'
    BY DEF RowsInv, Filtering, rows
  <1>1. ASSUME NEW s, Backed(q, s) PROVE Backed(q, s)'
    BY <1>1, BackedKept
  <1>2. Backed(q, connections[q])' <=>
          \A s : s = connections[q] => Backed(q, s)'
    BY DEF Backed, rows
  <1>3. Backed(q, backupConnections[q])'
          <=> \A s : s = backupConnections[q] => Backed(q, s)'
    BY DEF Backed, rows
  <1> QED
    BY <1>1, <1>2, <1>3 DEF RowsInv

\* The parts that depend on the page alone, and those of the hub.
LEMMA PageKept ==
  ASSUME IInv, UNCHANGED page
  PROVE  PageOK' /\ ViewInv' /\ CountInv'
  <1> USE DEF page, rows, IInv
  <1>1. Shown' = Shown /\ Filtering' = Filtering
    BY DEF Shown, Filtering
  <1>2. PageOK'
    BY <1>1, TypeParts DEF PageOK
  <1>3. ViewInv'
    BY <1>1 DEF ViewInv, UnfilteredView
  <1>4. CountInv'
    BY <1>1 DEF CountInv
  <1> QED
    BY <1>2, <1>3, <1>4

LEMMA HubKept ==
  ASSUME IInv, UNCHANGED hub
  PROVE  HubInv' /\ RepeatsInv'
  BY DEF IInv, hub, HubInv, RepeatsInv

\* A step of a socket that does not deliver a message.
LEMMA SocketSteps ==
  ASSUME IInv, UNCHANGED <<hub, read, page>>, NetOK', SocketInv', StatusIsTrue',
         overlap => overlap',
         ~overlap' => \A c \in Sockets : sock'[c] = "open" =>
           sock[c] = "open" \/ c \notin members
  PROVE  IInv'
  <1>1. Len(log) \in Nat /\ log' = log /\ members' = members
        /\ start' = start /\ read' = read /\ UNCHANGED rows
    BY DEF IInv, HubInv, hub, page
  <1>2. ASSUME ~overlap', NEW p \in 1 .. Len(log), Handled(p)
        PROVE  Handled(p)'
    BY <1>1, <1>2 DEF Handled
  <1>3. RowsInv'
    BY <1>1, <1>2, RowsKept DEF IInv
  <1> QED
    BY <1>3, PageKept, HubKept, TypeParts DEF IInv

\* A page opens a websocket: created, or the Start button.
LEMMA connectInv ==
  ASSUME IInv, connect
  PROVE  IInv'
  <1>1. PICK c \in Sockets :
          /\ sock[c] = "new"
          /\ sock' = [sock EXCEPT ![c] = "connecting"]
          /\ ws' = c
          /\ overlap' = (overlap \/ \E d \in Sockets : Open(d))
          /\ UNCHANGED <<hub, read, connected, page>>
    BY DEF connect
  <1>2. NetOK /\ overlap' \in BOOLEAN
    BY <1>1, TypeParts DEF IInv
  <1>3. /\ sock'[c] = "connecting"
        /\ \A d \in Sockets : d # c => sock'[d] = sock[d]
    BY <1>1, <1>2 DEF NetOK
  <1>4. NetOK'
    BY <1>1, <1>2 DEF NetOK, hub
  <1>5. SocketInv'
    BY <1>1, <1>3 DEF IInv, SocketInv, Open, hub
  <1>6. StatusIsTrue'
    BY <1>1, <1>3 DEF IInv, StatusIsTrue
  <1> QED
    BY <1>1, <1>3, <1>4, <1>5, <1>6, SocketSteps

LEMMA onopenInv ==
  ASSUME IInv, NEW c \in Sockets, onopen(c)
  PROVE  IInv'
  <1> USE DEF onopen
  <1>1. NetOK
    BY TypeParts DEF IInv
  <1>2. /\ sock[c] = "connecting" /\ sock'[c] = "open"
        /\ \A d \in Sockets : d # c => sock'[d] = sock[d]
    BY <1>1 DEF NetOK
  <1>3. NetOK'
    BY <1>1 DEF NetOK, hub
  <1>4. SocketInv'
    BY <1>2 DEF IInv, SocketInv, Open, hub
  <1>5. StatusIsTrue'
    BY <1>2 DEF StatusIsTrue
  <1> QED
    BY <1>2, <1>3, <1>4, <1>5, SocketSteps DEF IInv, SocketInv

LEMMA oncloseInv ==
  ASSUME IInv, NEW c \in Sockets, onclose(c)
  PROVE  IInv'
  <1> USE DEF onclose
  <1>1. NetOK
    BY TypeParts DEF IInv
  <1>2. /\ Open(c) /\ sock'[c] = "closed"
        /\ \A d \in Sockets : d # c => sock'[d] = sock[d]
    BY <1>1 DEF NetOK
  <1>3. NetOK'
    BY <1>1 DEF NetOK, hub
  <1>4. SocketInv'
    BY <1>2 DEF IInv, SocketInv, Open, hub
  <1>5. StatusIsTrue'
    BY <1>2 DEF IInv, SocketInv, StatusIsTrue, Open
  <1> QED
    BY <1>2, <1>3, <1>4, <1>5, SocketSteps

\* The Stop button.
LEMMA disconnectInv ==
  ASSUME IInv, disconnect
  PROVE  IInv'
  <1> USE DEF disconnect
  <1>1. NetOK
    BY TypeParts DEF IInv
  <1>2. \A d \in Sockets :
          /\ sock'[d] = IF d = ws /\ sock[d] # "closed" THEN "closing"
                        ELSE sock[d]
    BY <1>1 DEF NetOK
  <1>3. NetOK'
    BY <1>1 DEF NetOK, hub
  <1>4. SocketInv'
    <2>1. \A d \in Sockets :
            Open(d)' <=> Open(d) \/ (d = ws /\ sock[d] # "closed")
      BY <1>2 DEF Open
    <2>2. \A d \in Sockets : /\ sock'[d] \in {"new", "connecting", "open"} =>
                                  sock'[d] = sock[d]
      BY <1>2
    <2> QED
      BY <2>1, <2>2 DEF IInv, SocketInv, hub
  <1>5. StatusIsTrue'
    <2>1. ASSUME ~overlap
          PROVE  \E d \in Sockets : sock'[d] \in {"open", "closing"}
      <3>1. PICK d \in Sockets : sock[d] \in {"open", "closing"}
        BY <2>1 DEF IInv, StatusIsTrue
      <3>2. sock'[d] \in {"open", "closing"}
        BY <1>2, <3>1
      <3> QED
        BY <3>2
    <2> QED
      BY <2>1 DEF StatusIsTrue
  <1> QED
    BY <1>2, <1>3, <1>4, <1>5, SocketSteps

-----------------------------------------------------------------------------
(* Messages.                                                               *)

LEMMA CardSubset ==
  ASSUME NEW S, IsFiniteSet(S), NEW T, T \subseteq S
  PROVE  /\ IsFiniteSet(T) /\ Cardinality(T) \in Nat /\ Cardinality(S) \in Nat
         /\ Cardinality(T) <= Cardinality(S)
  BY FS_Subset, FS_CardinalityType

\* The sets of rows shown and kept only lose elements, and the counter stays.
LEMMA CountKept ==
  ASSUME CountInv, queriesCount' = queriesCount, queriesCount \in Nat,
         undone => undone', (Shown \cup kept)' \subseteq Shown \cup kept
  PROVE  CountInv'
  <1> DEFINE S == Shown \cup kept
             n == Cardinality(S)
             l == Cardinality(S')
  <1>1. IsFiniteSet(S) /\ S' \subseteq S
    BY DEF CountInv
  <1>2. IsFiniteSet(S') /\ l \in Nat /\ n \in Nat /\ l <= n
    BY <1>1, CardSubset
  <1>3. n <= queriesCount \/ undone
    BY DEF CountInv
  <1> HIDE DEF n, l
  <1>4. l <= queriesCount \/ undone
    BY <1>2, <1>3
  <1> QED
    BY <1>2, <1>4 DEF CountInv, l

\* A row is set, as pending, whether there is one or not.
LEMMA CmdRows ==
  ASSUME IInv, NEW q \in Queries, cmdReceived(q)
  PROVE  PageOK' /\ ViewInv' /\ CountInv'
  <1> USE DEF cmdReceived
  <1>1. PageOK
    BY TypeParts DEF IInv
  <1>2. /\ connections'[q] = "pending"
        /\ \A r \in Queries : r # q => connections'[r] = connections[r]
        /\ connections' \in [Queries -> Row]
    BY <1>1 DEF PageOK, Row
  <1>3. Shown' = Shown \cup {q} /\ Filtering' = Filtering
    BY <1>2 DEF Shown, Filtering
  <1>4. PageOK'
    <2>1. shared' \subseteq Shown' /\ (~Filtering' => shared' = {})
      BY <1>1, <1>3 DEF PageOK
    <2>2. \A r \in shared' : backupConnections'[r] = connections'[r]
      BY <1>1, <1>2 DEF PageOK, Shown
    <2>3. connectionsStates' \in [Conns -> {"unknown", "started", "finished"}]
      BY <1>1 DEF PageOK
    <2>4. queriesCount' \in Nat
      BY <1>1 DEF PageOK
    <2>5. kept' \subseteq Queries
      BY <1>1 DEF PageOK
    <2> QED
      BY <1>1, <1>2, <2>1, <2>2, <2>3, <2>4, <2>5 DEF PageOK
  <1>5. ViewInv'
    BY <1>3 DEF IInv, ViewInv, UnfilteredView
  <1>6. CountInv'
    <2> DEFINE S == Shown \cup kept
               n == Cardinality(S)
               m == Cardinality(S \cup {q})
               l == Cardinality(S')
    <2>1. IsFiniteSet(S) /\ (n <= queriesCount \/ undone)
      BY DEF IInv, CountInv
    <2>2. /\ IsFiniteSet(S \cup {q}) /\ m = IF q \in S THEN n ELSE n + 1
          /\ n \in Nat
      BY <2>1, FS_AddElement, FS_CardinalityType
    <2>3. S' \subseteq S \cup {q}
      BY <1>3
    <2>4. IsFiniteSet(S') /\ l \in Nat /\ l <= m
      BY <2>2, <2>3, CardSubset
    <2>5. queriesCount \in Nat /\ queriesCount' = queriesCount + 1
          /\ undone' = undone
      BY <1>1 DEF PageOK
    <2> HIDE DEF n, m, l
    <2>6. l <= queriesCount' \/ undone'
      BY <2>1, <2>2, <2>4, <2>5
    <2> QED
      BY <2>4, <2>6 DEF CountInv, l
  <1> QED
    BY <1>4, <1>5, <1>6

\* A result changes rows that are there, and the same ones in both maps.
LEMMA ResultRows ==
  ASSUME IInv, NEW q \in Queries, NEW result \in {"ok", "error"},
         cmdResultReceived(q, result)
  PROVE  PageOK' /\ ViewInv' /\ CountInv'
  <1> USE DEF cmdResultReceived
  <1>1. PageOK /\ result \in Row /\ result # "none"
    BY TypeParts DEF IInv, Row
  <1>2. /\ connections' = IF q \in Shown
                          THEN [connections EXCEPT ![q] = result]
                          ELSE connections
        /\ backupConnections' = IF q \in shared
                                THEN [backupConnections EXCEPT ![q] = result]
                                ELSE backupConnections
        /\ UNCHANGED <<shared, connectionsStates, queriesCount, kept, undone>>
    OBVIOUS
  <1> HIDE DEF cmdResultReceived
  <1>3. /\ connections' \in [Queries -> Row]
        /\ \A r \in Queries :
             connections'[r] =
               IF r = q /\ q \in Shown THEN result ELSE connections[r]
    BY <1>1, <1>2 DEF PageOK
  <1>4. Shown' = Shown
    BY <1>1, <1>3 DEF Shown
  <1>5. CASE q \in shared
    <2>1. q \in Shown /\ Filtering /\ backupConnections \in [Queries -> Row]
      BY <1>1, <1>5 DEF PageOK, Filtering
    <2>2. /\ backupConnections' \in [Queries -> Row]
          /\ \A r \in Queries :
               backupConnections'[r] =
                 IF r = q THEN result ELSE backupConnections[r]
      BY <1>1, <1>2, <1>5, <2>1
    <2>3. Filtering'
      BY <2>2, NoBackupAssumption DEF Filtering
    <2>4. backupConnections[q] # "none"
      BY <1>1, <1>5, <2>1 DEF PageOK, Shown
    <2>5. {r \in Queries : backupConnections'[r] # "none"} =
            {r \in Queries : backupConnections[r] # "none"}
      BY <1>1, <2>2, <2>4
    <2>6. \A r \in shared' : backupConnections'[r] = connections'[r]
      BY <1>1, <1>2, <1>3, <2>1, <2>2 DEF PageOK, Shown
    <2>7. PageOK'
      BY <1>1, <1>2, <1>3, <1>4, <2>2, <2>3, <2>6 DEF PageOK
    <2>8. ViewInv'
      BY <1>2, <1>4, <2>1, <2>3, <2>5 DEF IInv, ViewInv, UnfilteredView
    <2>9. CountInv'
      BY <1>1, <1>2, <1>4, CountKept DEF IInv, PageOK
    <2> QED
      BY <2>7, <2>8, <2>9
  <1>6. CASE q \notin shared
    <2>1. backupConnections' = backupConnections /\ Filtering' = Filtering
      BY <1>2, <1>6 DEF Filtering
    <2>2. \A r \in shared' : backupConnections'[r] = connections'[r]
      BY <1>1, <1>2, <1>3, <1>6, <2>1 DEF PageOK, Shown
    <2>3. PageOK'
      BY <1>1, <1>2, <1>3, <1>4, <2>1, <2>2 DEF PageOK
    <2>4. ViewInv'
      BY <1>2, <1>4, <2>1 DEF IInv, ViewInv, UnfilteredView
    <2>5. CountInv'
      BY <1>1, <1>2, <1>4, CountKept DEF IInv, PageOK
    <2> QED
      BY <2>3, <2>4, <2>5
  <1> QED
    BY <1>5, <1>6

\* The state of a connection is not part of any row.
LEMMA StateRows ==
  ASSUME IInv, NEW k \in Conns, connStateReceived(k)
  PROVE  PageOK' /\ ViewInv' /\ CountInv'
  <1> USE DEF connStateReceived, rows, IInv
  <1>1. Shown' = Shown /\ Filtering' = Filtering
    BY DEF Shown, Filtering
  <1>2. PageOK'
    BY <1>1, TypeParts DEF PageOK
  <1>3. ViewInv'
    BY <1>1 DEF ViewInv, UnfilteredView
  <1>4. CountInv'
    BY <1>1 DEF CountInv
  <1> QED
    BY <1>2, <1>3, <1>4

\* The frame that is delivered: entry p of the log.
LEMMA Delivered ==
  ASSUME IInv, NEW c \in Sockets, sock[c] = "open", read[c] < Len(seen[c]),
         read' = [read EXCEPT ![c] = @ + 1],
         UNCHANGED <<hub, sock, ws, connected, overlap>>,
         NEW p \in Nat, p = start[c] + read[c] + 1
  PROVE  /\ p \in 1 .. Len(log) /\ seen[c][read'[c]] = log[p] /\ log[p] \in Msgs
         /\ Len(log) \in Nat /\ log' = log
         /\ \A x \in 1 .. Len(log) : Handled(x) => x < p /\ Handled(x)'
         /\ ~overlap => Handled(p)'
         /\ NetOK' /\ SocketInv' /\ StatusIsTrue' /\ HubInv' /\ RepeatsInv'
  <1>1. NetOK /\ HubInv /\ SocketInv
    BY TypeParts DEF IInv
  <1>2. /\ c \in Clients /\ read[c] \in Nat /\ start[c] \in Nat
        /\ seen[c] \in Seq(Msgs) /\ log \in Seq(Msgs)
    BY <1>1 DEF NetOK, HubInv, Clients
  <1>3. /\ start[c] + Len(seen[c]) <= Len(log)
        /\ \A i \in 1 .. Len(seen[c]) : seen[c][i] = log[start[c] + i]
    BY <1>1, <1>2 DEF HubInv
  <1>4. read'[c] = read[c] + 1 /\ \A d \in Sockets : d # c => read'[d] = read[d]
    BY <1>1 DEF NetOK
  <1>5. Len(log) \in Nat /\ Len(seen[c]) \in Nat
    BY <1>2
  <1>6. p \in 1 .. Len(log) /\ seen[c][read'[c]] = log[p]
    <2>1. read'[c] \in 1 .. Len(seen[c]) /\ start[c] + read'[c] = p
      BY <1>2, <1>4, <1>5
    <2>2. p \in 1 .. Len(log)
      BY <1>2, <1>3, <1>5, <2>1
    <2> QED
      BY <1>3, <2>1, <2>2
  <1>7. c \in members
    BY <1>1, <1>2, <1>5 DEF SocketInv
  <1>8. ASSUME NEW x \in 1 .. Len(log), Handled(x)
        PROVE  x < p /\ Handled(x)'
    <2>1. x <= start[c] + read[c]
      BY <1>7, <1>8 DEF Handled
    <2>2. ASSUME NEW d \in Sockets, sock[d] = "open", d \in members
          PROVE  x <= start[d] + read'[d]
      <3>1. x <= start[d] + read[d]
        BY <1>8, <2>2 DEF Handled
      <3>2. CASE d = c
        BY <1>2, <1>4, <2>1, <3>2
      <3>3. CASE d # c
        BY <1>4, <3>1, <3>3
      <3> QED
        BY <3>2, <3>3
    <2>3. Handled(x)'
      BY <2>2 DEF Handled, hub
    <2> QED
      BY <1>2, <2>1, <2>3
  <1>9. ASSUME ~overlap PROVE Handled(p)'
    <2>1. \A d \in Sockets : sock[d] = "open" => d = c
      BY <1>1, <1>9 DEF SocketInv, Open
    <2>2. p <= start[c] + read'[c]
      BY <1>2, <1>4
    <2>3. start' = start /\ members' = members /\ sock' = sock
      BY DEF hub
    <2> QED
      BY <2>1, <2>2, <2>3 DEF Handled
  <1>10. NetOK'
    <2>1. read' \in [Sockets -> Nat]
      BY <1>1 DEF NetOK
    <2>2. ASSUME NEW d \in Sockets PROVE read'[d] <= Len(seen[d])
      <3>1. CASE d = c
        BY <1>2, <1>4, <1>5, <3>1
      <3>2. CASE d # c
        BY <1>1, <1>4, <3>2 DEF NetOK
      <3> QED
        BY <3>1, <3>2
    <2> QED
      BY <1>1, <2>1, <2>2 DEF NetOK, hub
  <1>11. SocketInv' /\ StatusIsTrue'
    BY DEF IInv, SocketInv, StatusIsTrue, Open, hub
  <1>12. HubInv' /\ RepeatsInv' /\ log' = log
    BY HubKept DEF hub
  <1>13. log[p] \in Msgs
    BY <1>2, <1>6
  <1> QED
    BY <1>5, <1>6, <1>8, <1>9, <1>10, <1>11, <1>12, <1>13

LEMMA onmessageInv ==
  ASSUME IInv, NEW c \in Sockets, onmessage(c)
  PROVE  IInv'
  <1>0. PICK p \in Nat : p = start[c] + read[c] + 1
    BY TypeParts DEF IInv, NetOK, HubInv, Clients
  <1> DEFINE m == log[p]
  <1>1. /\ sock[c] = "open" /\ read[c] < Len(seen[c])
        /\ read' = [read EXCEPT ![c] = @ + 1]
        /\ UNCHANGED <<hub, sock, ws, connected, overlap>>
        /\ LET n == seen[c][read'[c]] IN
             \/ n.type = "Cmd" /\ cmdReceived(n.query)
             \/ n.type = "CmdResult" /\ cmdResultReceived(n.query, n.result)
             \/ n.type = "ConnState" /\ connStateReceived(n.conn)
    BY DEF onmessage
  <1>2. /\ p \in 1 .. Len(log) /\ seen[c][read'[c]] = m /\ m \in Msgs
        /\ Len(log) \in Nat /\ log' = log
        /\ \A x \in 1 .. Len(log) : Handled(x) => x < p /\ Handled(x)'
        /\ ~overlap => Handled(p)'
        /\ NetOK' /\ SocketInv' /\ StatusIsTrue' /\ HubInv' /\ RepeatsInv'
    BY <1>0, <1>1, Delivered
  <1>3. ASSUME NEW q \in Queries, NEW s, Backed(q, s) PROVE Backed(q, s)'
    BY <1>2, <1>3, BackedKept
  <1>4. PageOK
    BY TypeParts DEF IInv
  <1>5. CASE m.type = "Cmd" /\ cmdReceived(m.query)
    <2>1. PICK q \in Queries : q = m.query /\ m = CmdOf(q)
      BY <1>2, <1>5, MsgFacts
    <2>2. PageOK' /\ ViewInv' /\ CountInv'
      BY <1>5, <2>1, CmdRows
    <2>3. ASSUME ~overlap PROVE Backed(q, "pending")'
      BY <1>2, <2>1, <2>3 DEF Backed, CmdOf
    <2>4. /\ backupConnections' = backupConnections
          /\ connections' = [connections EXCEPT ![q] = "pending"]
      BY <1>5, <2>1 DEF cmdReceived
    <2>5. ASSUME ~overlap, NEW r \in Queries
          PROVE  /\ Backed(r, connections[r])'
                 /\ Filtering' => Backed(r, backupConnections[r])'
      <3>1. ASSUME NEW s, s = connections'[r] PROVE Backed(r, s)'
        <4>1. CASE r = q
          BY <1>4, <2>3, <2>4, <2>5, <3>1, <4>1 DEF PageOK
        <4>2. CASE r # q
          BY <1>3, <1>4, <2>4, <2>5, <3>1, <4>2 DEF PageOK, IInv, RowsInv
        <4> QED
          BY <4>1, <4>2
      <3>2. ASSUME NEW s, s = backupConnections[r], Filtering
            PROVE  Backed(r, s)'
        BY <1>3, <2>5, <3>2 DEF IInv, RowsInv
      <3> QED
        BY <2>4, <3>1, <3>2 DEF Backed, Filtering
    <2>6. RowsInv'
      BY <1>1, <2>5 DEF RowsInv
    <2> QED
      BY <1>2, <2>2, <2>6, TypeParts DEF IInv
  <1>6. CASE m.type = "CmdResult" /\ cmdResultReceived(m.query, m.result)
    <2>1. PICK q \in Queries, result \in {"ok", "error"} :
            q = m.query /\ result = m.result /\ m = ResultOf(q, result)
      BY <1>2, <1>6, MsgFacts
    <2>2. PageOK' /\ ViewInv' /\ CountInv'
      BY <1>6, <2>1, ResultRows
    <2>3. /\ connections' = IF q \in Shown
                            THEN [connections EXCEPT ![q] = result]
                            ELSE connections
          /\ backupConnections' = IF q \in shared
                                  THEN [backupConnections EXCEPT ![q] = result]
                                  ELSE backupConnections
      BY <1>6, <2>1 DEF cmdResultReceived
    <2>4. ASSUME ~overlap, q \in Shown PROVE Backed(q, result)'
      <3>1. Backed(q, connections[q]) /\ connections[q] # "none"
        BY <2>1, <2>4 DEF IInv, RowsInv, Shown
      <3>2. PICK i \in 1 .. Len(log) : log[i] = CmdOf(q) /\ Handled(i)
        BY <3>1 DEF Backed
      <3>3. i < p
        BY <1>2, <3>2
      <3>4. Handled(p)'
        BY <1>2, <2>4
      <3> QED
        BY <1>2, <2>1, <3>2, <3>3, <3>4 DEF Backed, CmdOf, ResultOf
    <2>5. ASSUME ~overlap, NEW r \in Queries
          PROVE  /\ Backed(r, connections[r])'
                 /\ Filtering' => Backed(r, backupConnections[r])'
      <3>1. ASSUME NEW s, s = connections'[r] PROVE Backed(r, s)'
        <4>1. CASE r = q /\ q \in Shown
          BY <1>4, <2>3, <2>4, <2>5, <3>1, <4>1 DEF PageOK
        <4>2. CASE ~ (r = q /\ q \in Shown)
          <5>1. connections'[r] = connections[r]
            BY <1>4, <2>3, <4>2 DEF PageOK
          <5> QED
            BY <1>3, <2>5, <3>1, <5>1 DEF IInv, RowsInv
        <4> QED
          BY <4>1, <4>2
      <3>2. ASSUME NEW s, s = backupConnections'[r], Filtering'
            PROVE  Backed(r, s)'
        <4>1. CASE r = q /\ q \in shared
          <5>1. q \in Shown /\ backupConnections \in [Queries -> Row]
            BY <1>4, <4>1 DEF PageOK, Filtering
          <5>2. s = result
            BY <2>3, <3>2, <4>1, <5>1
          <5> QED
            BY <2>4, <2>5, <4>1, <5>1, <5>2
        <4>2. CASE q \notin shared
          BY <1>3, <2>3, <2>5, <3>2, <4>2 DEF IInv, RowsInv, Filtering
        <4>3. CASE q \in shared /\ r # q
          <5>1. Filtering /\ backupConnections \in [Queries -> Row]
            BY <1>4, <4>3 DEF PageOK, Filtering
          <5>2. s = backupConnections[r]
            BY <2>3, <3>2, <4>3, <5>1
          <5> QED
            BY <1>3, <2>5, <5>1, <5>2 DEF IInv, RowsInv
        <4> QED
          BY <4>1, <4>2, <4>3
      <3> QED
        BY <3>1, <3>2 DEF Backed
    <2>6. RowsInv'
      BY <1>1, <2>5 DEF RowsInv
    <2> QED
      BY <1>2, <2>2, <2>6, TypeParts DEF IInv
  <1>7. CASE m.type = "ConnState" /\ connStateReceived(m.conn)
    <2>1. PageOK' /\ ViewInv' /\ CountInv'
      BY <1>2, <1>7, MsgFacts, StateRows
    <2>2. RowsInv'
      BY <1>1, <1>2, <1>7, RowsKept DEF IInv, connStateReceived
    <2> QED
      BY <1>2, <2>1, <2>2, TypeParts DEF IInv
  <1> QED
    BY <1>1, <1>2, <1>5, <1>6, <1>7


-----------------------------------------------------------------------------
(* The user.                                                               *)

\* A step of the page without the network: what is left to show.
LEMMA PageSteps ==
  ASSUME IInv, UNCHANGED <<hub, net>>, PageOK', ViewInv', CountInv', RowsInv'
  PROVE  IInv'
  <1>1. HubInv' /\ RepeatsInv'
    BY HubKept
  <1>2. NetOK' /\ SocketInv' /\ StatusIsTrue'
    BY TypeParts DEF IInv, NetOK, SocketInv, StatusIsTrue, Open, hub, net
  <1> QED
    BY <1>1, <1>2, TypeParts DEF IInv

\* Nor does the network's part of the invariant depend on the rows.
LEMMA BackedStays ==
  ASSUME IInv, UNCHANGED <<hub, net>>, NEW q \in Queries, NEW s, Backed(q, s)
  PROVE  Backed(q, s)'
  BY DEF Backed, Handled, hub, net, CmdOf, ResultOf

LEMMA FilterInv ==
  ASSUME IInv, NEW matching \in Texts, Filter(matching)
  PROVE  IInv'
  <1>1. PageOK /\ matching \subseteq Queries
    BY TypeParts, BrowserAssumption DEF IInv
  <1>2. PICK base \in [Queries -> Row] :
          base = IF Filtering THEN backupConnections ELSE connections
    BY <1>1 DEF PageOK, Filtering
  <1>3. /\ backupConnections' = base
        /\ connections' =
             [q \in Queries |-> IF q \in matching THEN base[q] ELSE "none"]
        /\ shared' = {q \in matching : base[q] # "none"}
        /\ UNCHANGED <<hub, net>>
        /\ UNCHANGED <<connectionsStates, queriesCount, kept, undone>>
    BY <1>2 DEF Filter, getFilteredData
  <1>4. Filtering'
    BY <1>3, NoBackupAssumption DEF Filtering
  <1>5. {q \in Queries : base[q] # "none"} = kept
    BY <1>1, <1>2 DEF IInv, ViewInv, UnfilteredView, Shown
  <1>6. Shown' = shared'
    BY <1>1, <1>3 DEF Shown
  <1>7. PageOK'
    <2>1. connections' \in [Queries -> Row]
      BY <1>2, <1>3 DEF Row
    <2>2. \A q \in shared' : backupConnections'[q] = connections'[q]
      BY <1>1, <1>3
    <2> QED
      BY <1>1, <1>3, <1>4, <1>6, <2>1, <2>2 DEF PageOK
  <1>8. ViewInv'
    BY <1>3, <1>4, <1>5 DEF ViewInv, UnfilteredView
  <1>9. CountInv'
    <2>1. (Shown \cup kept)' \subseteq Shown \cup kept
      BY <1>1, <1>3, <1>5, <1>6
    <2> QED
      BY <1>1, <1>3, <2>1, CountKept DEF IInv, PageOK
  <1>10. RowsInv'
    <2>1. ASSUME ~overlap, NEW q \in Queries PROVE Backed(q, base[q])
      BY <1>2, <2>1 DEF IInv, RowsInv
    <2>2. ASSUME ~overlap, NEW q \in Queries,
                 NEW s \in {base[q], "none"}
          PROVE  Backed(q, s)'
      <3>1. Backed(q, s)
        BY <2>1, <2>2 DEF Backed
      <3> QED
        BY <1>3, <3>1, BackedStays
    <2>3. ASSUME ~overlap, NEW q \in Queries
          PROVE  /\ Backed(q, connections[q])'
                 /\ Backed(q, backupConnections[q])'
      <3>1. connections'[q] \in {base[q], "none"}
            /\ backupConnections'[q] \in {base[q], "none"}
        BY <1>3
      <3> QED
        BY <2>2, <2>3, <3>1 DEF Backed
    <2> QED
      BY <1>3, <2>3 DEF RowsInv, net
  <1> QED
    BY <1>3, <1>7, <1>8, <1>9, <1>10, PageSteps

LEMMA UnfilterInv ==
  ASSUME IInv, Unfilter
  PROVE  IInv'
  <1> USE DEF Unfilter
  <1>1. PageOK /\ Filtering /\ backupConnections \in [Queries -> Row]
    BY TypeParts DEF IInv, PageOK, Filtering
  <1>2. ~Filtering' /\ Shown' = kept /\ kept' = kept
    BY <1>1 DEF Filtering, Shown, IInv, ViewInv
  <1>3. PageOK'
    BY <1>1, <1>2 DEF PageOK
  <1>4. ViewInv'
    BY <1>2 DEF ViewInv, UnfilteredView
  <1>5. CountInv'
    <2>1. (Shown \cup kept)' \subseteq Shown \cup kept
      BY <1>2
    <2> QED
      BY <1>1, <2>1, CountKept DEF IInv, PageOK
  <1>6. RowsInv'
    <2>1. ASSUME ~overlap, NEW q \in Queries, NEW s, s = backupConnections[q]
          PROVE  Backed(q, s)'
      BY <1>1, <2>1, BackedStays DEF IInv, RowsInv
    <2>2. ASSUME ~overlap, NEW q \in Queries
          PROVE  Backed(q, connections[q])'
      BY <2>1, <2>2 DEF Backed
    <2> QED
      BY <1>2, <2>2 DEF RowsInv, net
  <1> QED
    BY <1>3, <1>4, <1>5, <1>6, PageSteps

LEMMA clearAllInv ==
  ASSUME IInv, clearAll
  PROVE  IInv'
  <1> USE DEF clearAll
  <1>1. PageOK
    BY TypeParts DEF IInv
  <1>2. Shown' = {} /\ Filtering' = Filtering
    BY DEF Shown, NoRows, Filtering
  <1>3. PageOK'
    <2>1. connections' \in [Queries -> Row]
      BY DEF NoRows, Row
    <2>2. queriesCount' \in Nat /\ kept' \subseteq Queries
          /\ undone' \in BOOLEAN
      BY <1>1 DEF PageOK, Filtering
    <2> QED
      BY <1>1, <1>2, <2>1, <2>2 DEF PageOK
  <1>4. ViewInv'
    BY <1>2 DEF IInv, ViewInv, UnfilteredView
  <1>5. CountInv'
    <2>1. CASE Filtering
      <3>1. IsFiniteSet(Shown \cup kept) /\ (Shown \cup kept)' = kept
            /\ undone'
        BY <1>2, <2>1 DEF IInv, CountInv
      <3>2. IsFiniteSet(kept)
        BY <3>1, CardSubset
      <3> QED
        BY <3>1, <3>2 DEF CountInv
    <2>2. CASE ~Filtering
      <3>1. (Shown \cup kept)' = {} /\ queriesCount' = 0
        BY <1>2, <2>2
      <3>2. IsFiniteSet({}) /\ Cardinality({}) = 0
        BY FS_EmptySet
      <3>3. Cardinality((Shown \cup kept)') = queriesCount'
        BY <3>1, <3>2
      <3>4. Cardinality((Shown \cup kept)') <= queriesCount'
        BY ONLY <3>1, <3>3
      <3> QED
        BY <3>1, <3>2, <3>4 DEF CountInv
    <2> QED
      BY <2>1, <2>2
  <1>6. RowsInv'
    <2>1. ASSUME ~overlap, NEW q \in Queries, NEW s, s = backupConnections[q],
                 Filtering
          PROVE  Backed(q, s)'
      BY <2>1, BackedStays DEF IInv, RowsInv
    <2>2. ASSUME ~overlap, NEW q \in Queries
          PROVE  /\ Backed(q, connections[q])'
                 /\ Filtering' => Backed(q, backupConnections[q])'
      BY <1>2, <2>1, <2>2 DEF Backed, NoRows
    <2> QED
      BY <2>2 DEF RowsInv, net, Filtering
  <1> QED
    BY <1>3, <1>4, <1>5, <1>6, PageSteps


-----------------------------------------------------------------------------
(* The hub.                                                                *)

\* What a step of the hub does to a client.
LEMMA HubClients ==
  ASSUME IInv, HubStep
  PROVE  /\ HubInv' /\ NetOK' /\ SocketInv' /\ StatusIsTrue'
         /\ \A c \in Sockets : c \in members' =>
              \/ c \in members /\ start'[c] = start[c]
              \/ start'[c] = Len(log)
  <1>1. HubInv /\ NetOK /\ SocketInv
    BY TypeParts DEF IInv
  <1>2. /\ log \in Seq(Msgs) /\ members \subseteq Clients
        /\ start \in [Clients -> Nat] /\ seen \in [Clients -> Seq(Msgs)]
        /\ Len(log) \in Nat
    BY <1>1 DEF HubInv
  <1>3. /\ log' \in Seq(Msgs) /\ Len(log') \in Nat /\ Len(log) <= Len(log')
        /\ \A i \in 1 .. Len(log) : log'[i] = log[i]
    BY HubGrows DEF IInv
  <1>4. /\ read' = read /\ sock' = sock /\ ws' = ws /\ connected' = connected
        /\ overlap' = overlap
    BY DEF HubStep, net
  <1>5. StatusIsTrue'
    BY <1>4 DEF IInv, StatusIsTrue
  <1>6. ASSUME NEW d \in Clients,
               start[d] + Len(seen[d]) <= Len(log),
               \A i \in 1 .. Len(seen[d]) : seen[d][i] = log[start[d] + i]
        PROVE  /\ start[d] + Len(seen[d]) <= Len(log')
               /\ \A i \in 1 .. Len(seen[d]) : seen[d][i] = log'[start[d] + i]
    <2>1. start[d] \in Nat /\ Len(seen[d]) \in Nat
      BY <1>2
    <2>2. ASSUME NEW i \in 1 .. Len(seen[d])
          PROVE  start[d] + i \in 1 .. Len(log)
      BY <1>2, <1>6, <2>1
    <2> QED
      BY <1>2, <1>3, <1>6, <2>1, <2>2
  <1>7. CASE UNCHANGED <<members, start, seen>>
    <2>1. HubInv'
      BY <1>1, <1>2, <1>3, <1>6, <1>7 DEF HubInv
    <2>2. NetOK' /\ SocketInv'
      BY <1>1, <1>4, <1>7 DEF NetOK, SocketInv, Open
    <2> QED
      BY <1>5, <1>7, <2>1, <2>2
  <1>8. ASSUME NEW c \in Clients, Come(c)
        PROVE  /\ HubInv' /\ NetOK' /\ SocketInv'
               /\ \A d \in Sockets : d \in members' =>
                    \/ d \in members /\ start'[d] = start[d]
                    \/ start'[d] = Len(log)
    <2>1. /\ c \in Sockets => sock[c] = "open"
          /\ c \notin members /\ seen[c] = <<>>
          /\ members' = members \cup {c} /\ seen' = seen
          /\ start' = [start EXCEPT ![c] = Len(log)]
      BY <1>8 DEF Come, B!Join
    <2>2. HubInv'
      <3>1. start' \in [Clients -> Nat] /\ members' \subseteq Clients
        BY <1>2, <2>1
      <3>2. ASSUME NEW d \in Clients
            PROVE  /\ start'[d] + Len(seen[d]) <= Len(log')
                   /\ \A i \in 1 .. Len(seen[d]) :
                        seen[d][i] = log'[start'[d] + i]
        <4>1. CASE d = c
          <5>1. Len(seen[d]) = 0 /\ start'[d] = Len(log)
            BY <1>2, <2>1, <4>1
          <5> QED
            BY <1>2, <1>3, <5>1
        <4>2. CASE d # c
          <5>1. start'[d] = start[d]
            BY <1>2, <2>1, <4>2
          <5> QED
            BY <1>1, <1>6, <5>1 DEF HubInv
        <4> QED
          BY <4>1, <4>2
      <3> QED
        BY <1>2, <1>3, <2>1, <3>1, <3>2 DEF HubInv
    <2>3. NetOK' /\ SocketInv'
      BY <1>1, <1>4, <2>1 DEF NetOK, SocketInv, Open
    <2> QED
      BY <1>2, <2>1, <2>2, <2>3
  <1>9. ASSUME NEW c \in Clients, Go(c)
        PROVE  /\ HubInv' /\ NetOK' /\ SocketInv'
               /\ \A d \in Sockets : d \in members' =>
                    d \in members /\ start'[d] = start[d]
    <2>1. /\ c \in Sockets => sock[c] \in {"closing", "closed"}
          /\ members' = members \ {c} /\ seen' = seen /\ start' = start
      BY <1>9 DEF Go, B!Quit
    <2>2. HubInv'
      BY <1>1, <1>2, <1>3, <1>6, <2>1 DEF HubInv
    <2>3. NetOK' /\ SocketInv'
      BY <1>1, <1>4, <2>1 DEF NetOK, SocketInv, Open
    <2> QED
      BY <2>1, <2>2, <2>3
  <1>10. ASSUME NEW c \in Clients, B!Show(c)
         PROVE  /\ HubInv' /\ NetOK' /\ SocketInv'
                /\ members' = members /\ start' = start
    <2>1. /\ c \in members /\ Len(log) - (start[c] + Len(seen[c])) > 0
          /\ seen' = [seen EXCEPT ![c] =
                        Append(@, log[start[c] + Len(@) + 1])]
          /\ UNCHANGED <<log, members, start>>
      BY <1>10 DEF B!Show, B!Behind
    <2>2. start[c] \in Nat /\ seen[c] \in Seq(Msgs) /\ Len(seen[c]) \in Nat
      BY <1>2
    <2>3. start[c] + Len(seen[c]) + 1 \in 1 .. Len(log)
      BY <1>2, <2>1, <2>2
    <2>4. log[start[c] + Len(seen[c]) + 1] \in Msgs
      BY <1>2, <2>3
    <2>5. /\ seen'[c] = Append(seen[c], log[start[c] + Len(seen[c]) + 1])
          /\ \A d \in Clients : d # c => seen'[d] = seen[d]
          /\ seen' \in [Clients -> Seq(Msgs)]
      BY <1>2, <2>1, <2>4
    <2>6. /\ Len(seen'[c]) = Len(seen[c]) + 1
          /\ \A i \in 1 .. Len(seen[c]) : seen'[c][i] = seen[c][i]
          /\ seen'[c][Len(seen[c]) + 1] = log[start[c] + Len(seen[c]) + 1]
      BY <2>2, <2>4, <2>5
    <2>7. HubInv'
      <3>1. ASSUME NEW d \in Clients
            PROVE  /\ start[d] + Len(seen'[d]) <= Len(log)
                   /\ \A i \in 1 .. Len(seen'[d]) :
                        seen'[d][i] = log[start[d] + i]
        <4>1. CASE d = c
          <5>1. start[c] + Len(seen'[c]) <= Len(log)
            BY <1>2, <2>2, <2>3, <2>6
          <5>2. ASSUME NEW i \in 1 .. Len(seen'[c])
                PROVE  seen'[c][i] = log[start[c] + i]
            <6>1. CASE i \in 1 .. Len(seen[c])
              BY <1>1, <2>6, <6>1 DEF HubInv
            <6>2. CASE i = Len(seen[c]) + 1
              <7>1. start[c] + i = start[c] + Len(seen[c]) + 1
                BY <2>2, <6>2
              <7> QED
                BY <2>6, <6>2, <7>1
            <6> QED
              BY <2>2, <2>6, <6>1, <6>2
          <5> QED
            BY <4>1, <5>1, <5>2
        <4>2. CASE d # c
          BY <1>1, <2>5, <4>2 DEF HubInv
        <4> QED
          BY <4>1, <4>2
      <3>2. log' = log /\ members' = members /\ start' = start
        BY <2>1
      <3>3. /\ log \in Seq(Msgs) /\ members \subseteq Clients
            /\ start \in [Clients -> Nat]
        BY <1>1 DEF HubInv
      <3> QED
        BY <2>5, <3>1, <3>2, <3>3, Zenon DEF HubInv
    <2>8. NetOK'
      <3>1. ASSUME NEW d \in Sockets PROVE read[d] <= Len(seen'[d])
        <4>1. read[d] \in Nat /\ read[d] <= Len(seen[d]) /\ d \in Clients
          BY <1>1 DEF NetOK, Clients
        <4>2. CASE d = c
          BY <2>2, <2>6, <4>1, <4>2
        <4>3. CASE d # c
          BY <2>5, <4>1, <4>3
        <4> QED
          BY <4>2, <4>3
      <3> QED
        BY <1>1, <1>4, <3>1 DEF NetOK
    <2>9. SocketInv'
      <3>1. ASSUME NEW d \in Sockets, d \notin members
            PROVE  seen'[d] = seen[d]
        BY <2>1, <2>5, <3>1 DEF Clients
      <3> QED
        BY <1>1, <1>4, <2>1, <3>1 DEF SocketInv, Open
    <2> QED
      BY <2>1, <2>7, <2>8, <2>9
  <1> QED
    <2>1. CASE \E m \in Msgs : Publish(m)
      BY <1>5, <1>7, <2>1 DEF Publish, B!Publish
    <2>2. CASE \E c \in Clients : Come(c)
      BY <1>5, <1>8, <2>2
    <2>3. CASE \E c \in Clients : Go(c)
      BY <1>5, <1>9, <2>3
    <2>4. CASE \E c \in Clients : B!Show(c)
      BY <1>5, <1>10, <2>4
    <2> QED
      BY <2>1, <2>2, <2>3, <2>4 DEF HubStep, Clients

LEMMA HubStepInv ==
  ASSUME IInv, HubStep
  PROVE  IInv'
  <1>1. /\ Len(log) \in Nat /\ Len(log') \in Nat /\ Len(log) <= Len(log')
        /\ \A i \in 1 .. Len(log) : log'[i] = log[i]
        /\ RepeatsInv'
    BY HubGrows DEF IInv
  <1>2. /\ HubInv' /\ NetOK' /\ SocketInv' /\ StatusIsTrue'
        /\ \A c \in Sockets : c \in members' =>
             \/ c \in members /\ start'[c] = start[c]
             \/ start'[c] = Len(log)
    BY HubClients
  <1>3. UNCHANGED <<net, page>> /\ read' = read /\ sock' = sock
    BY DEF HubStep, net
  <1>4. PageOK' /\ ViewInv' /\ CountInv'
    BY <1>3, PageKept
  <1>5. ASSUME NEW p \in 1 .. Len(log), Handled(p) PROVE Handled(p)'
    <2>1. ASSUME NEW c \in Sockets, sock[c] = "open", c \in members'
          PROVE  p <= start'[c] + read[c]
      <3>1. read[c] \in Nat
        BY TypeParts DEF IInv, NetOK
      <3>2. CASE start'[c] = Len(log)
        BY <1>1, <3>1, <3>2
      <3>3. CASE c \in members /\ start'[c] = start[c]
        BY <1>5, <2>1, <3>3 DEF Handled
      <3> QED
        BY <1>2, <2>1, <3>2, <3>3
    <2> QED
      BY <1>3, <2>1 DEF Handled
  <1>6. RowsInv'
    BY <1>1, <1>3, <1>5, RowsKept DEF IInv, page, net
  <1> QED
    BY <1>1, <1>2, <1>4, <1>6, TypeParts DEF IInv

-----------------------------------------------------------------------------
(* The theorems.                                                           *)

LEMMA StutterInv ==
  ASSUME IInv, UNCHANGED vars
  PROVE  IInv'
  <1>1. UNCHANGED <<hub, read, page>> /\ UNCHANGED net
    BY DEF vars, net
  <1>2. NetOK' /\ SocketInv' /\ StatusIsTrue'
    BY <1>1, TypeParts
       DEF IInv, NetOK, SocketInv, StatusIsTrue, Open, hub, net
  <1> QED
    BY <1>1, <1>2, SocketSteps DEF net

LEMMA NextInv == IInv /\ [Next]_vars => IInv'
  <1> SUFFICES ASSUME IInv, [Next]_vars PROVE IInv'
    OBVIOUS
  <1>1. CASE connect
    BY <1>1, connectInv
  <1>2. CASE disconnect
    BY <1>2, disconnectInv
  <1>3. ASSUME NEW c \in Sockets, onopen(c) PROVE IInv'
    BY <1>3, onopenInv
  <1>4. ASSUME NEW c \in Sockets, onclose(c) PROVE IInv'
    BY <1>4, oncloseInv
  <1>5. ASSUME NEW c \in Sockets, onmessage(c) PROVE IInv'
    BY <1>5, onmessageInv
  <1>6. ASSUME NEW matching \in Texts, Filter(matching) PROVE IInv'
    BY <1>6, FilterInv
  <1>7. CASE Unfilter
    BY <1>7, UnfilterInv
  <1>8. CASE clearAll
    BY <1>8, clearAllInv
  <1>9. CASE HubStep
    BY <1>9, HubStepInv
  <1>10. CASE UNCHANGED vars
    BY <1>10, StutterInv
  <1> QED
    BY <1>1, <1>2, <1>3, <1>4, <1>5, <1>6, <1>7, <1>8, <1>9, <1>10 DEF Next

LEMMA InductiveInv == Spec => []IInv
  BY InitInv, NextInv, PTL DEF Spec

\* In every reachable state the variables have their types, a socket has
\* handled no more than it was shown, and the rows that the two maps share
\* are the same (app.js: connections, backupConnections).
THEOREM TypeCorrect == Spec => []TypeOK
  <1>1. IInv => TypeOK
    BY DEF IInv
  <1> QED
    BY <1>1, InductiveInv, PTL

\* Without a filter the page shows exactly the queries it received while no
\* filter was applied since it was cleared (getFilteredData, clearAll).
THEOREM ViewIsKept == Spec => []UnfilteredView
  <1>1. IInv => UnfilteredView
    BY DEF IInv, ViewInv
  <1> QED
    BY <1>1, InductiveInv, PTL

\* The counter is no less than the number of rows shown, unless Clear was used
\* with a filter (cmdReceived, clearAll).
THEOREM CountIsEnough == Spec => []CountCovers
  <1>1. ASSUME IInv PROVE CountCovers
    <2> DEFINE n == Cardinality(Shown)
               m == Cardinality(Shown \cup kept)
    <2>1. IsFiniteSet(Shown \cup kept) /\ (m <= queriesCount \/ undone)
      BY <1>1 DEF IInv, CountInv
    <2>2. n \in Nat /\ m \in Nat /\ n <= m
      BY <2>1, CardSubset
    <2>3. queriesCount \in Nat
      BY <1>1 DEF IInv, TypeOK
    <2> HIDE DEF n, m
    <2>4. n <= queriesCount \/ undone
      BY <2>1, <2>2, <2>3
    <2> QED
      BY <2>4 DEF CountCovers, n
  <1> QED
    BY <1>1, InductiveInv, PTL

\* While Start is not used before the last socket is closed, the status shown
\* is the socket's (connect, onopen, onclose, disconnect).
THEOREM StatusShown == Spec => []StatusIsTrue
  <1>1. IInv => StatusIsTrue
    BY DEF IInv
  <1> QED
    BY <1>1, InductiveInv, PTL

\* A Cmd that is handled is not for a row that is settled: between its earlier
\* copy and this one there would be its result, and a repetition has nothing
\* in between.
LEMMA NoLateCmd ==
  ASSUME IInv, ~overlap, NEW c \in Sockets, onmessage(c),
         NEW q \in Queries, Settled(q), cmdReceived(q),
         seen[c][read'[c]] = CmdOf(q)
  PROVE  FALSE
  <1>1. PICK p \in Nat : p = start[c] + read[c] + 1
    BY TypeParts DEF IInv, NetOK, HubInv, Clients
  <1>2. /\ p \in 1 .. Len(log) /\ log[p] = CmdOf(q) /\ Len(log) \in Nat
        /\ \A x \in 1 .. Len(log) : Handled(x) => x < p
    <2>1. /\ sock[c] = "open" /\ read[c] < Len(seen[c])
          /\ read' = [read EXCEPT ![c] = @ + 1]
          /\ UNCHANGED <<hub, sock, ws, connected, overlap>>
      BY DEF onmessage
    <2> QED
      BY <1>1, <2>1, Delivered
  <1>3. PICK i \in 1 .. Len(log), j \in 1 .. Len(log) :
          /\ i < j /\ log[i] = CmdOf(q) /\ Handled(j)
          /\ \E s \in {"ok", "error"} : log[j] = ResultOf(q, s)
    BY DEF IInv, RowsInv, Backed, Settled
  <1>4. j < p
    BY <1>2, <1>3
  <1>5. log[j] = log[i]
    BY <1>2, <1>3, <1>4, MsgFacts DEF IInv, RepeatsInv
  <1> QED
    BY <1>3, <1>5, MsgFacts

\* A query shown as finished does not fall back to pending, although every
\* page that comes or goes repeats the last message, unless two sockets were
\* open at a time or a Cmd was repeated under a filter (Hub.Run, cmdReceived).
THEOREM StaysSettled == Spec => SettledStays
  <1> DEFINE Stays == \A q \in Queries :
               Settled(q) /\ connections'[q] = "pending" =>
                 overlap \/ Forked(q)
  <1>1. ASSUME IInv, [Next]_vars PROVE [Stays]_vars
    <2> SUFFICES ASSUME NEW q \in Queries, Settled(q),
                        connections'[q] = "pending", ~overlap, ~Forked(q),
                        Next
                 PROVE  FALSE
      BY <1>1
    <2>1. PageOK /\ connections[q] # "pending"
      BY <1>1, TypeParts DEF IInv, Settled
    <2>2. CASE UNCHANGED rows
      BY <2>1, <2>2 DEF rows
    <2>3. ASSUME NEW c \in Sockets, onmessage(c) PROVE FALSE
      <3>1. PICK m \in Msgs :
              /\ m = seen[c][read'[c]]
              /\ \/ m.type = "Cmd" /\ cmdReceived(m.query)
                 \/ m.type = "CmdResult" /\ cmdResultReceived(m.query, m.result)
                 \/ m.type = "ConnState" /\ connStateReceived(m.conn)
        <4>1. /\ sock[c] = "open" /\ read[c] < Len(seen[c])
              /\ read' = [read EXCEPT ![c] = @ + 1]
              /\ UNCHANGED <<hub, sock, ws, connected, overlap>>
          BY <2>3 DEF onmessage
        <4>2. PICK p \in Nat : p = start[c] + read[c] + 1
          BY <1>1, TypeParts DEF IInv, NetOK, HubInv, Clients
        <4>3. seen[c][read'[c]] \in Msgs
          BY <1>1, <4>1, <4>2, Delivered
        <4> QED
          BY <2>3, <4>3 DEF onmessage
      <3>2. CASE m.type = "Cmd" /\ cmdReceived(m.query)
        <4>1. m.query \in Queries /\ m = CmdOf(m.query)
          BY <3>2, MsgFacts
        <4>2. m.query = q
          BY <2>1, <3>2, <4>1 DEF cmdReceived, PageOK
        <4> QED
          BY <1>1, <2>3, <3>1, <3>2, <4>1, <4>2, NoLateCmd
      <3>3. CASE m.type = "CmdResult" /\ cmdResultReceived(m.query, m.result)
        <4>1. m.result \in {"ok", "error"}
          BY <3>3, MsgFacts
        <4> QED
          BY <2>1, <3>3, <4>1 DEF cmdResultReceived, PageOK
      <3>4. CASE m.type = "ConnState" /\ connStateReceived(m.conn)
        BY <2>1, <3>4 DEF connStateReceived, rows
      <3> QED
        BY <3>1, <3>2, <3>3, <3>4
    <2>4. ASSUME NEW matching \in Texts, Filter(matching) PROVE FALSE
      <3>1. CASE ~Filtering
        BY <2>1, <2>4, <3>1 DEF Filter, getFilteredData
      <3>2. CASE Filtering
        <4>1. connections'[q] = backupConnections[q]
          BY <2>4, <3>2 DEF Filter, getFilteredData
        <4>2. q \in shared
          BY <3>2, <4>1 DEF Forked
        <4> QED
          BY <2>1, <4>1, <4>2 DEF PageOK
      <3> QED
        BY <3>1, <3>2
    <2>5. CASE Unfilter
      <3>1. q \in shared
        BY <2>5 DEF Unfilter, Forked
      <3> QED
        BY <2>1, <2>5, <3>1 DEF Unfilter, PageOK
    <2>6. CASE clearAll
      BY <2>6 DEF clearAll, NoRows
    <2> QED
      <3>1. connect \/ disconnect \/ HubStep
            \/ (\E c \in Sockets : onopen(c) \/ onclose(c)) => UNCHANGED rows
        BY DEF connect, disconnect, HubStep, onopen, onclose, page
      <3> QED
        BY <2>2, <2>3, <2>4, <2>5, <2>6, <3>1 DEF Next
  <1> QED
    BY <1>1, InductiveInv, PTL DEF Spec, SettledStays
=============================================================================
