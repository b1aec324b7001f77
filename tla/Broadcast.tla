----------------------------- MODULE Broadcast -----------------------------
(***************************************************************************)
(* What the hub promises the browsers, with no goroutine and no channel in *)
(* sight: a log that only grows, and members that each show one gap-free   *)
(* stretch of it, starting where they joined and never more than two       *)
(* entries behind its end.  Every change of the membership repeats the     *)
(* last entry of the log.  Module Hub is shown to implement this.          *)
(***************************************************************************)
EXTENDS Integers, Sequences

CONSTANTS Clients, Msgs

VARIABLES log,      \* the entries broadcast so far
          members,  \* who receives them
          start,    \* start[c]: length of the log when c joined
          seen      \* seen[c]: what c has shown, in its own order

bvars == <<log, members, start, seen>>

Behind(c) == Len(log) - (start[c] + Len(seen[c]))

\* The log grows only when nobody is more than one entry behind.
Lockstep == \A c \in members : Behind(c) \in 0 .. 1

Replayed == IF log = <<>> THEN log ELSE Append(log, log[Len(log)])

Init ==
  /\ log = <<>>
  /\ members = {}
  /\ start = [c \in Clients |-> 0]
  /\ seen = [c \in Clients |-> <<>>]

Publish(m) ==
  /\ Lockstep
  /\ log' = Append(log, m)
  /\ UNCHANGED <<members, start, seen>>

Join(c) ==
  /\ Lockstep
  /\ c \notin members
  /\ seen[c] = <<>>
  /\ members' = members \cup {c}
  /\ start' = [start EXCEPT ![c] = Len(log)]
  /\ log' = Replayed
  /\ UNCHANGED seen

Quit(c) ==
  /\ Lockstep
  /\ c \in members
  /\ members' = members \ {c}
  /\ log' = Replayed
  /\ UNCHANGED <<start, seen>>

Show(c) ==
  /\ c \in members
  /\ Behind(c) > 0
  /\ seen' = [seen EXCEPT ![c] = Append(@, log[start[c] + Len(@) + 1])]
  /\ UNCHANGED <<log, members, start>>

Next ==
  \/ \E m \in Msgs : Publish(m)
  \/ \E c \in Clients : Join(c) \/ Quit(c) \/ Show(c)

Spec == Init /\ [][Next]_bvars
=============================================================================
