----------------------------- MODULE MCNetHogs ------------------------------
(***************************************************************************)
(* Instances of NetHogs for TLC: which flows exist.                        *)
(***************************************************************************)
EXTENDS NetHogs

\* one IPv4 flow: the accounting of bytes and time
OneFlow == {[addr |-> "a", port |-> 1, peer |-> "x", v6 |-> FALSE]}

\* two peers of one listening port
OnePort == OneFlow \cup {[addr |-> "a", port |-> 1, peer |-> "y", v6 |-> FALSE]}
=============================================================================
