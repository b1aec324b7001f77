------------------------------ MODULE Browser ------------------------------
(***************************************************************************)
(* One page of the GUI (web/js/app.js) fed by the broadcast log.  Each     *)
(* websocket the page opens is a member of the log; other pages that come  *)
(* and go make the log repeat its last entry.  JavaScript runs one         *)
(* callback at a time, so one action is one callback.                      *)
(*                                                                         *)
(* `connections` maps a query to its row; when a filter is applied,        *)
(* `backupConnections` keeps the unfiltered map, and both maps refer to    *)
(* the same row objects for the queries that pass (`shared`), until one of *)
(* the maps gets a new object.                                             *)
(***************************************************************************)
EXTENDS Integers, Sequences, FiniteSets

CONSTANTS Sockets,   \* websockets the page may open, in order 1 .. n
          Others,    \* other pages
          Queries,   \* pairs of ConnId and CmdId, each a command of its own
          ConnOf,    \* the database connection of a query
          Texts,     \* what the user types: the queries that contain it
          MaxLog,    \* bound: entries of the log
          NoBackup, NoSocket

ASSUME BrowserAssumption ==
  /\ Sockets = 1 .. Cardinality(Sockets)
  /\ Sockets \cap Others = {} /\ NoSocket \notin Sockets
  /\ Texts \subseteq SUBSET Queries

VARIABLES log, members, start, seen,   \* of Broadcast
          read,         \* frames of a socket the page has handled
          sock,         \* readyState of a socket
          ws,           \* the global variable: the socket opened last
          connected,
          connections, backupConnections, shared,
          connectionsStates, queriesCount,
          kept,         \* history: queries received while no filter was
                        \* applied, since the last Clear without one
          overlap,      \* history: opened a socket while another was not closed
          undone        \* history: Clear was used while a filter was applied

hub  == <<log, members, start, seen>>
net  == <<read, sock, ws, connected, overlap>>
rows == <<connections, backupConnections, shared>>
page == <<rows, connectionsStates, queriesCount, kept, undone>>
vars == <<hub, net, page>>

Conns == {ConnOf[q] : q \in Queries}
CmdOf(q)       == [type |-> "Cmd", query |-> q]
ResultOf(q, s) == [type |-> "CmdResult", query |-> q, result |-> s]
StateOf(k)     == [type |-> "ConnState", conn |-> k]
Msgs == {CmdOf(q) : q \in Queries}
          \cup {ResultOf(q, s) : q \in Queries, s \in {"ok", "error"}}
          \cup {StateOf(k) : k \in Conns}

B == INSTANCE Broadcast WITH Clients <- Sockets \cup Others

Row == {"none", "pending", "ok", "error"}

ASSUME NoBackupAssumption == NoBackup \notin [Queries -> Row]

NoRows == [q \in Queries |-> "none"]
Open(c) == sock[c] \in {"connecting", "open", "closing"}
Shown == {q \in Queries : connections[q] # "none"}
Filtering == backupConnections # NoBackup

Init ==
  /\ B!Init
  /\ read = [c \in Sockets |-> 0]
  /\ sock = [c \in Sockets |-> "new"]
  /\ ws = NoSocket /\ connected = FALSE /\ overlap = FALSE
  /\ connections = NoRows /\ backupConnections = NoBackup /\ shared = {}
  /\ connectionsStates = [k \in Conns |-> "unknown"]
  /\ queriesCount = 0 /\ kept = {} /\ undone = FALSE

-----------------------------------------------------------------------------
(* The websockets.                                                         *)

Mutconnect ==   \* the status does not wait for onopen
  \E c \in Sockets :
    /\ sock[c] = "new" /\ \A d \in 1 .. c - 1 : sock[d] # "new"
    /\ sock' = [sock EXCEPT ![c] = "connecting"]
    /\ ws' = c /\ connected' = TRUE
    /\ overlap' = (overlap \/ \E d \in Sockets : Open(d))
    /\ UNCHANGED <<hub, read, page>>

\* connect, called by created and by the Start button.
connect ==
  \E c \in Sockets :
    /\ sock[c] = "new" /\ \A d \in 1 .. c - 1 : sock[d] # "new"
    /\ sock' = [sock EXCEPT ![c] = "connecting"]
    /\ ws' = c
    /\ overlap' = (overlap \/ \E d \in Sockets : Open(d))
    /\ UNCHANGED <<hub, read, connected, page>>

onopen(c) ==
  /\ sock[c] = "connecting"
  /\ sock' = [sock EXCEPT ![c] = "open"]
  /\ connected' = TRUE
  /\ UNCHANGED <<hub, read, ws, overlap, page>>

\* The page closed the socket, the server did, or it could not be opened.
onclose(c) ==
  /\ Open(c)
  /\ sock' = [sock EXCEPT ![c] = "closed"]
  /\ connected' = FALSE
  /\ UNCHANGED <<hub, read, ws, overlap, page>>

\* The Stop button; a socket that is closing delivers nothing any more.
disconnect ==
  /\ connected
  /\ sock' = [sock EXCEPT ![ws] = IF @ = "closed" THEN @ ELSE "closing"]
  /\ UNCHANGED <<hub, read, ws, connected, overlap, page>>

-----------------------------------------------------------------------------
(* Messages.                                                               *)

\* Vue.set puts a new row in place of the one that may be there.
cmdReceived(q) ==
  /\ connections' = [connections EXCEPT ![q] = "pending"]
  /\ shared' = shared \ {q}
  /\ queriesCount' = queriesCount + 1
  /\ connectionsStates' = [connectionsStates EXCEPT ![ConnOf[q]] = "started"]
  /\ kept' = IF Filtering THEN kept ELSE kept \cup {q}
  /\ UNCHANGED <<backupConnections, undone>>

MutcmdResultReceived(q, result) ==   \* a new row, which the backup does not get
  /\ connections' = IF q \in Shown THEN [connections EXCEPT ![q] = result]
                    ELSE connections
  /\ UNCHANGED <<backupConnections, shared, connectionsStates, queriesCount,
                 kept, undone>>

\* The result of a query that is not shown is dropped.
cmdResultReceived(q, result) ==
  /\ connections' = IF q \in Shown THEN [connections EXCEPT ![q] = result]
                    ELSE connections
  /\ backupConnections' = IF q \in shared
                          THEN [backupConnections EXCEPT ![q] = result]
                          ELSE backupConnections
  /\ UNCHANGED <<shared, connectionsStates, queriesCount, kept, undone>>

connStateReceived(k) ==
  /\ connectionsStates' = [connectionsStates EXCEPT ![k] = "finished"]
  /\ UNCHANGED <<rows, queriesCount, kept, undone>>

\* The next frame of a socket; its fields tell the three kinds apart.
onmessage(c) ==
  /\ sock[c] = "open" /\ read[c] < Len(seen[c])
  /\ read' = [read EXCEPT ![c] = @ + 1]
  /\ LET m == seen[c][read'[c]] IN
       \/ m.type = "Cmd" /\ cmdReceived(m.query)
       \/ m.type = "CmdResult" /\ cmdResultReceived(m.query, m.result)
       \/ m.type = "ConnState" /\ connStateReceived(m.conn)
  /\ UNCHANGED <<hub, sock, ws, connected, overlap>>

-----------------------------------------------------------------------------
(* The user.                                                               *)

MutgetFilteredData(matching) ==   \* every keystroke makes a new backup
  /\ backupConnections' = connections
  /\ connections' = [q \in Queries |-> IF q \in matching THEN connections[q] ELSE "none"]
  /\ shared' = Shown \cap matching

\* getFilteredData, once the user has stopped typing; `matching` are the
\* queries that contain the text.
getFilteredData(matching) ==
  LET base == IF Filtering THEN backupConnections ELSE connections IN
  /\ backupConnections' = base
  /\ connections' = [q \in Queries |-> IF q \in matching THEN base[q] ELSE "none"]
  /\ shared' = {q \in matching : base[q] # "none"}

Filter(matching) ==
  /\ getFilteredData(matching)
  /\ UNCHANGED <<hub, net, connectionsStates, queriesCount, kept, undone>>

\* getFilteredData with an empty text.
Unfilter ==
  /\ Filtering
  /\ connections' = backupConnections
  /\ backupConnections' = NoBackup /\ shared' = {}
  /\ UNCHANGED <<hub, net, connectionsStates, queriesCount, kept, undone>>

MutclearAll ==   \* the rows stay
  /\ queriesCount' = 0
  /\ kept' = IF Filtering THEN kept ELSE {}
  /\ undone' = (undone \/ Filtering)
  /\ UNCHANGED <<rows, hub, net, connectionsStates>>

\* The backup is not cleared.
clearAll ==
  /\ connections' = NoRows /\ shared' = {}
  /\ queriesCount' = 0
  /\ kept' = IF Filtering THEN kept ELSE {}
  /\ undone' = (undone \/ Filtering)
  /\ UNCHANGED <<hub, net, backupConnections, connectionsStates>>

-----------------------------------------------------------------------------
(* The hub (module Broadcast), the proxy and the other pages.              *)

\* Bound.
Grows == Len(log) < MaxLog

\* The proxy reports each command once.  It reports every chunk of an answer,
\* so a query has any number of results; one may overtake its command.
Publish(m) ==
  /\ m.type = "Cmd" => \A i \in 1 .. Len(log) : log[i] # m
  /\ B!Publish(m)

\* A page's socket is registered once it is open, and deregistered when the
\* server has noticed its end.
Come(c) == (c \in Sockets => sock[c] = "open") /\ B!Join(c)
Go(c)   == (c \in Sockets => sock[c] \in {"closing", "closed"}) /\ B!Quit(c)

HubStep ==
  /\ \/ Grows /\ \E m \in Msgs : Publish(m)
     \/ Grows /\ \E c \in Sockets \cup Others : Come(c) \/ Go(c)
     \/ \E c \in Sockets \cup Others : B!Show(c)
  /\ UNCHANGED <<net, page>>

Next ==
  \/ connect \/ disconnect
  \/ \E c \in Sockets : onopen(c) \/ onclose(c) \/ onmessage(c)
  \/ \E matching \in Texts : Filter(matching)
  \/ Unfilter \/ clearAll
  \/ HubStep

Spec == Init /\ [][Next]_vars

-----------------------------------------------------------------------------
(* Properties.                                                             *)

TypeOK ==
  /\ read \in [Sockets -> Nat] /\ \A c \in Sockets : read[c] <= Len(seen[c])
  /\ sock \in [Sockets -> {"new", "connecting", "open", "closing", "closed"}]
  /\ ws \in Sockets \cup {NoSocket} /\ connected \in BOOLEAN
  /\ connections \in [Queries -> Row]
  /\ backupConnections \in [Queries -> Row] \cup {NoBackup}
  /\ shared \subseteq Shown /\ (~Filtering => shared = {})
  /\ \A q \in shared : backupConnections[q] = connections[q]
  /\ connectionsStates \in [Conns -> {"unknown", "started", "finished"}]
  /\ queriesCount \in Nat /\ kept \subseteq Queries
  /\ overlap \in BOOLEAN /\ undone \in BOOLEAN

Settled(q) == connections[q] \in {"ok", "error"}

\* The filtered view shows another row for q than the unfiltered one, because
\* the Cmd was repeated while the filter was applied.
Forked(q) == Filtering /\ backupConnections[q] # "none" /\ q \notin shared

\* A query shown as finished never falls back to pending, although the hub
\* repeats messages whenever a page comes or goes and although a stopped page
\* that starts again is given the last message once more.  The exceptions are
\* two sockets open at a time, of which the slower one repeats a Cmd after its
\* result, and a filter that is changed after a Cmd was repeated under it.
SettledStays ==
  [][\A q \in Queries :
       Settled(q) /\ connections'[q] = "pending" => overlap \/ Forked(q)]_vars

\* Without a filter the page shows exactly the queries it received while no
\* filter was applied, since it was cleared: typing on in the filter does not
\* lose any, those that arrive while it is applied are gone when it is
\* removed, and those cleared while it was applied come back.
UnfilteredView == ~Filtering => Shown = kept

\* The counter in the page's header is no less than the number of rows shown,
\* and "No queries yet" is true, unless Clear was used with a filter.
CountCovers == Cardinality(Shown) <= queriesCount \/ undone

\* As long as Start is not used before the last socket is closed, the status
\* shown is that of the socket: a page that says disconnected receives
\* nothing, and Stop works.  Otherwise an older socket may go on delivering
\* with Stop without effect, or its end hide that the new one is open.
StatusIsTrue ==
  ~overlap => (connected <=> \E c \in Sockets : sock[c] \in {"open", "closing"})
=============================================================================
