----------------------------- MODULE MCService -----------------------------
(* The instance of Service for TLC. *)
EXTENDS Service

\* Every first byte a parser looks for and another, in chunks on both sides of
\* the lengths five, six and eight that are compared with.
Bytes == {[j \in 1 .. n |-> b] : n \in 1 .. 9, b \in {0, 3, 255}}
=============================================================================
