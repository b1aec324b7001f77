-------------------------------- MODULE Hub --------------------------------
(***************************************************************************)
(* The broadcast hub and its websocket clients: chat/hub.go,               *)
(* chat/client.go and the "/ws" handler of http.go.                        *)
(*                                                                         *)
(* All channels are unbuffered, so a send and its receive are one joint    *)
(* step, and a goroutine that cannot find its partner waits.  Hub.Run is   *)
(* either at its select (target = NoClient) or inside the range loop,      *)
(* blocked in client.dataChan <- data for the client `target`.             *)
(***************************************************************************)
EXTENDS Integers, Sequences

CONSTANTS Clients,   \* *chat.Client values, one per accepted websocket
          Senders,   \* goroutines of the proxy that send to the hub
          Msgs,      \* marshalled Cmd, CmdResult and ConnState values
          NoData,    \* the nil slice Hub.Run starts with
          NoClient,
          MaxFeed    \* bound: no sender offers once the feed is this long

ASSUME HubAssumption ==
  /\ NoData \notin Msgs
  /\ NoClient \notin Clients
  /\ MaxFeed \in Nat

VARIABLES clients,  \* h.clients
          data,     \* local variable of Hub.Run, kept from round to round
          todo,     \* clients the range loop still has to send data to
          target,   \* the one of them it is sending to
          offers,   \* offers[s]: value s is blocked sending on a hub channel
          closed,   \* clients whose dataChan has been closed
          proc,     \* where the goroutine of Client.Process is
          ws,       \* the websocket: "open", "gone" (peer left), "closed"
          hand,     \* local variable data of Client.Process
          wire,     \* history: frames written to the websocket
          feed,     \* history: data of every round of the range loop
          joined    \* history: length of the feed when c registered

hubVars    == <<clients, data, todo, target, closed, feed, joined>>
clientVars == <<proc, ws, hand, wire>>
vars       == <<hubVars, clientVars, offers>>

ProcState == {"absent", "registering", "starting", "select", "write",
              "leaving", "done"}

TypeOK ==
  /\ clients \subseteq Clients
  /\ data \in Msgs \cup {NoData}
  /\ todo \subseteq clients
  /\ target \in todo \cup {NoClient}
  /\ offers \in [Senders -> Msgs \cup {NoData}]
  /\ closed \subseteq Clients
  /\ proc \in [Clients -> ProcState]
  /\ ws \in [Clients -> {"open", "gone", "closed"}]
  /\ hand \in [Clients -> Msgs \cup {NoData}]
  /\ wire \in [Clients -> Seq(Msgs)]
  /\ feed \in Seq(Msgs)
  /\ joined \in [Clients -> Nat]

Init ==
  /\ clients = {} /\ todo = {} /\ closed = {}
  /\ data = NoData /\ target = NoClient
  /\ offers = [s \in Senders |-> NoData]
  /\ proc = [c \in Clients |-> "absent"]
  /\ ws = [c \in Clients |-> "open"]
  /\ hand = [c \in Clients |-> NoData]
  /\ wire = [c \in Clients |-> <<>>]
  /\ feed = <<>>
  /\ joined = [c \in Clients |-> 0]

-----------------------------------------------------------------------------
(* Hub.Run.                                                                *)

Idle == target = NoClient

\* Go ranges over a map in any order, but commits to a client before it
\* tries to send to it.
NextTarget(S) == IF S = {} THEN {NoClient} ELSE S

\* Seeded fault: select with a default case, skipping clients that are busy.
MutBroadcast(cs, d) ==
  /\ data' = d
  /\ feed' = IF d = NoData THEN feed ELSE Append(feed, d)
  /\ todo' = IF d = NoData THEN {} ELSE {c \in cs : proc[c] = "select"}
  /\ target' \in NextTarget(todo')

\* The range loop that ends every iteration, whichever case was selected:
\* data is sent to each client in cs, unless it is still nil.
Broadcast(cs, d) ==
  /\ data' = d
  /\ feed' = IF d = NoData THEN feed ELSE Append(feed, d)
  /\ todo' = IF d = NoData THEN {} ELSE cs
  /\ target' \in NextTarget(todo')

\* Seeded fault: the range loop works on the clients from before the select.
MutRegister(c) ==
  /\ Idle
  /\ proc[c] = "registering"
  /\ proc' = [proc EXCEPT ![c] = "starting"]
  /\ clients' = clients \cup {c}
  /\ joined' = [joined EXCEPT ![c] = Len(feed)]
  /\ Broadcast(clients, data)
  /\ UNCHANGED <<closed, ws, hand, wire, offers>>

\* case client := <-h.register: the loop then sends the previous data again.
Register(c) ==
  /\ Idle
  /\ proc[c] = "registering"
  /\ proc' = [proc EXCEPT ![c] = "starting"]
  /\ clients' = clients \cup {c}
  /\ joined' = [joined EXCEPT ![c] = Len(feed)]
  /\ Broadcast(clients', data)
  /\ UNCHANGED <<closed, ws, hand, wire, offers>>

\* Seeded fault: dataChan is closed, but the client stays in the map.
MutDeregister(c) ==
  /\ Idle
  /\ proc[c] = "leaving"
  /\ proc' = [proc EXCEPT ![c] = "done"]
  /\ clients' = clients
  /\ closed' = IF c \in clients THEN closed \cup {c} ELSE closed
  /\ Broadcast(clients', data)
  /\ UNCHANGED <<joined, ws, hand, wire, offers>>

\* case client := <-h.deregister, likewise.
Deregister(c) ==
  /\ Idle
  /\ proc[c] = "leaving"
  /\ proc' = [proc EXCEPT ![c] = "done"]
  /\ clients' = clients \ {c}
  /\ closed' = IF c \in clients THEN closed \cup {c} ELSE closed
  /\ Broadcast(clients', data)
  /\ UNCHANGED <<joined, ws, hand, wire, offers>>

\* Seeded fault: rounds are sent in the background, without waiting.
MutTake(s) ==
  /\ offers[s] # NoData
  /\ offers' = [offers EXCEPT ![s] = NoData]
  /\ Broadcast(clients, offers[s])
  /\ UNCHANGED <<clients, closed, joined, clientVars>>

\* case cmd := <-h.cmdChan, and the same for cmdResultChan, connStateChan.
Take(s) ==
  /\ Idle
  /\ offers[s] # NoData
  /\ offers' = [offers EXCEPT ![s] = NoData]
  /\ Broadcast(clients, offers[s])
  /\ UNCHANGED <<clients, closed, joined, clientVars>>

\* Seeded fault: the loop does not advance to the next client.
MutSendDataAgain(c) ==
  /\ target = c
  /\ proc[c] = "select"
  /\ proc' = [proc EXCEPT ![c] = "write"]
  /\ hand' = [hand EXCEPT ![c] = data]
  /\ todo' = todo \ {c}
  /\ UNCHANGED <<target, clients, data, closed, feed, joined, ws, wire, offers>>

\* Seeded fault: a client that is leaving is skipped.
MutSendDataSkips(c) ==
  /\ target = c
  /\ proc[c] \in {"select", "leaving"}
  /\ proc' = [proc EXCEPT ![c] = IF @ = "select" THEN "write" ELSE @]
  /\ hand' = [hand EXCEPT ![c] = IF proc[c] = "select" THEN data ELSE @]
  /\ todo' = todo \ {c}
  /\ target' \in NextTarget(todo')
  /\ UNCHANGED <<clients, data, closed, feed, joined, ws, wire, offers>>

\* client.dataChan <- data meets data, ok := <-c.dataChan.
SendData(c) ==
  /\ target = c
  /\ proc[c] = "select"
  /\ proc' = [proc EXCEPT ![c] = "write"]
  /\ hand' = [hand EXCEPT ![c] = data]
  /\ todo' = todo \ {c}
  /\ target' \in NextTarget(todo')
  /\ UNCHANGED <<clients, data, closed, feed, joined, ws, wire, offers>>

-----------------------------------------------------------------------------
(* Client.Process and the "/ws" handler.                                   *)

\* The handler has upgraded the request and blocks in hub.RegisterClient.
Upgrade(c) ==
  /\ proc[c] = "absent"
  /\ proc' = [proc EXCEPT ![c] = "registering"]
  /\ UNCHANGED <<hubVars, ws, hand, wire, offers>>

\* go client.Process()
Start(c) ==
  /\ proc[c] = "starting"
  /\ proc' = [proc EXCEPT ![c] = "select"]
  /\ UNCHANGED <<hubVars, ws, hand, wire, offers>>

\* Seeded fault: Process does not leave the write, and writes again.
MutWriteMessage(c) ==
  /\ proc[c] = "write"
  /\ ws[c] # "closed"
  /\ wire' = [wire EXCEPT ![c] = Append(@, hand[c])]
  /\ UNCHANGED <<hubVars, proc, ws, hand, offers>>

\* WriteMessage succeeds: on an open socket, or into the kernel's buffer
\* when the peer has left and nobody has noticed yet.
WriteMessage(c) ==
  /\ proc[c] = "write"
  /\ ws[c] # "closed"
  /\ proc' = [proc EXCEPT ![c] = "select"]
  /\ wire' = [wire EXCEPT ![c] = Append(@, hand[c])]
  /\ hand' = [hand EXCEPT ![c] = NoData]
  /\ UNCHANGED <<hubVars, ws, offers>>

\* Seeded fault: the deferred function does not deregister.
MutReturn(c) ==
  /\ proc[c] \in {"select", "write"}
  /\ proc' = [proc EXCEPT ![c] = "done"]
  /\ ws' = [ws EXCEPT ![c] = "closed"]
  /\ hand' = [hand EXCEPT ![c] = NoData]
  /\ UNCHANGED <<hubVars, wire, offers>>

\* Process returns: a write or a ping failed (a closed socket, or a slow
\* peer and the deadline of two seconds), or dataChan is closed.  The
\* deferred function closes the socket, then blocks sending on
\* h.deregister.  A ping that succeeds changes nothing.
Return(c) ==
  /\ proc[c] \in {"select", "write"}
  /\ proc' = [proc EXCEPT ![c] = "leaving"]
  /\ ws' = [ws EXCEPT ![c] = "closed"]
  /\ hand' = [hand EXCEPT ![c] = NoData]
  /\ UNCHANGED <<hubVars, wire, offers>>

\* Seeded fault: a read error is ignored.
MutCloseOnReadError(c) ==
  /\ ws[c] = "gone"
  /\ UNCHANGED vars

\* The handler's second goroutine: NextReader fails, conn.Close().
CloseOnReadError(c) ==
  /\ ws[c] = "gone"
  /\ ws' = [ws EXCEPT ![c] = "closed"]
  /\ UNCHANGED <<hubVars, proc, hand, wire, offers>>

-----------------------------------------------------------------------------
(* The environment: browsers leave, the proxy's goroutines offer values.   *)

PeerLeaves(c) ==
  /\ proc[c] # "absent"
  /\ ws[c] = "open"
  /\ ws' = [ws EXCEPT ![c] = "gone"]
  /\ UNCHANGED <<hubVars, proc, hand, wire, offers>>

Offer(s, m) ==
  /\ offers[s] = NoData
  /\ Len(feed) < MaxFeed
  /\ offers' = [offers EXCEPT ![s] = m]
  /\ UNCHANGED <<hubVars, clientVars>>

ClientNext(c) ==
  \/ Upgrade(c) \/ Start(c) \/ WriteMessage(c) \/ Return(c)
  \/ CloseOnReadError(c) \/ PeerLeaves(c)

HubNext ==
  \/ \E c \in Clients : Register(c) \/ Deregister(c) \/ SendData(c)
  \/ \E s \in Senders : Take(s)

Next ==
  \/ HubNext
  \/ \E c \in Clients : ClientNext(c)
  \/ \E s \in Senders, m \in Msgs : Offer(s, m)

Safety == Init /\ [][Next]_vars

(***************************************************************************)
(* Fairness.  Goroutines that can run do run.  Go's select picks uniformly *)
(* among the ready cases, so a case that is ready again and again is taken *)
(* (strong fairness).  A write ends, by its deadline at the latest; a ping *)
(* every five seconds finds a closed socket; the kernel reports a peer     *)
(* that left to the pending read.  Nothing is assumed of browsers or of    *)
(* the proxy, nor that a write or a ping ever fails on an open socket.     *)
(***************************************************************************)
HubFairness ==
  /\ \A c \in Clients : /\ SF_vars(Register(c))
                        /\ SF_vars(Deregister(c))
                        /\ WF_vars(SendData(c))
  /\ \A s \in Senders : SF_vars(Take(s))

ClientFairness ==
  \A c \in Clients :
    /\ WF_vars(Start(c))
    /\ WF_vars(proc[c] = "write" /\ (WriteMessage(c) \/ Return(c)))
    /\ WF_vars(ws[c] = "closed" /\ Return(c))
    /\ WF_vars(CloseOnReadError(c))

Spec == Safety /\ HubFairness /\ ClientFairness

-----------------------------------------------------------------------------
(* Properties.                                                             *)

Lag(c) == Len(feed) - (joined[c] + Len(wire[c]))

\* Hub.Run never sends on a dataChan it has closed (that panics and takes
\* the whole proxy down), and Process never meets its closed dataChan: the
\* only client the hub closes is one whose Process has already returned.
NoUseAfterClose ==
  \A c \in closed : c \notin todo /\ proc[c] = "done"

\* What a websocket has carried is a contiguous piece of the feed, from the
\* client's registration on: nothing skipped, reordered or sent twice, in
\* spite of the map's random iteration order and of clients coming and going
\* in the middle.  So any two browsers agree on the order of what both see.
GapFree ==
  \A c \in Clients :
    /\ joined[c] + Len(wire[c]) <= Len(feed)
    /\ \A i \in 1 .. Len(wire[c]) : wire[c][i] = feed[joined[c] + i]

\* When the hub is back at its select, a client that is at its own select
\* has been given everything broadcast since it registered.
CaughtUp ==
  Idle => \A c \in clients :
            proc[c] \in {"starting", "select"} => Lag(c) = 0

\* Unbuffered channels hold the hub back: no registered browser is ever more
\* than two rounds behind, however slow it is or however it failed.
BoundedLag == \A c \in clients : Lag(c) <= 2

\* The hub sends to a client whose Process waits for the hub in deregister.
Stuck(c) == target = c /\ proc[c] = "leaving"

\* Once the two wait for each other, no step of anybody frees either of them.
StuckForever == [][\A c \in Clients : Stuck(c) => Stuck(c)']_vars

\* The hub implements the goroutine-free broadcast log.
Abstract == INSTANCE Broadcast
              WITH log <- feed, members <- clients, start <- joined,
                   seen <- wire
BroadcastSpec == Abstract!Spec

\* README.md:16: the browser shows all queries sent to MySQL; for that every
\* value a proxy goroutine sends must be received.  Violated: see Stuck.
PublishCompletes ==
  \A s \in Senders : offers[s] # NoData ~> offers[s] = NoData

\* The mutual wait is the only obstacle: unless some client is stuck, every
\* value offered is received, whatever browsers do.
PublishCompletesUnlessStuck ==
  \A s \in Senders :
    offers[s] # NoData ~> (offers[s] = NoData \/ \E c \in Clients : Stuck(c))

\* A browser that leaves is forgotten by the hub, unless some client is
\* stuck: the read error, the failed ping and the deregistration follow.
PeerLeavesForgotten ==
  \A c \in Clients :
    (c \in clients /\ ws[c] # "open")
      ~> (c \notin clients \/ \E d \in Clients : Stuck(d))

\* Every round is carried to every browser that is registered at the time and
\* keeps its socket, unless some client is stuck.
RoundsArrive ==
  \A c \in Clients : \A n \in 1 .. MaxFeed :
    (c \in clients /\ Len(feed) >= n)
      ~> \/ joined[c] + Len(wire[c]) >= n
         \/ ws[c] # "open"
         \/ \E d \in Clients : Stuck(d)
=============================================================================
