------------------------------ MODULE MCProxy ------------------------------
(* Instances of Proxy for TLC. *)
EXTENDS Proxy, TLC

C(e, f) == [ends |-> e, fifth |-> f]

Queries == {C("answered", "query"), C("answered", "other")}

\* Long queries too, data or the rest of one that looks like a query, commands
\* without an answer and what may follow them in the same chunk.
Commands == Queries \cup {C("middle", "query"), C("silent", "other")}

\* COM_QUIT, and data that looks like it.
Session ==
  Queries \cup {C("silent", "other"), C("quit", "quit"), C("answered", "quit")}

\* A state the proxy reaches from Init: the sessions are authenticated, and
\* greeting and authentication were reported without any race.
Established ==
  /\ app = [k \in Conns |-> "open"] /\ server = [k \in Conns |-> "open"]
  /\ sent = [k \in Conns |-> <<[ends |-> "answered", fifth |-> "other"]>>]
  /\ resp = [k \in Conns |->
               [i \in 1 .. 2 |-> [for |-> i - 1, err |-> FALSE, ff |-> FALSE,
                                  last |-> TRUE]]]
  /\ fwd = [k \in Conns |-> 1] /\ rfwd = [k \in Conns |-> 2]
  /\ queryId = [k \in Conns |-> 1]
  /\ timer = [k \in Conns |-> 1] /\ since = [k \in Conns |-> 1]
  /\ up = [k \in Conns |-> "read"] /\ down = [k \in Conns |-> "read"]
  /\ upOffer = [k \in Conns |-> Nothing]
  /\ downOffer = [k \in Conns |-> Nothing]
  /\ \E k \in Conns :
       /\ Conns = {k}
       /\ feed = <<CmdResult(k, 0, FALSE, 0, 1, 0),
                   CmdResult(k, 1, FALSE, 1, 2, 1)>>

EstablishedSafety == Established /\ [][Next]_vars
=============================================================================
