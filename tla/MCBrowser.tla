----------------------------- MODULE MCBrowser -----------------------------
(* The instance of Browser for TLC: one query. *)
EXTENDS Browser

OneConn == [q \in Queries |-> "k"]
=============================================================================
