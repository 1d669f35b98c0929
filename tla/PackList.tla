------------------------------ MODULE PackList ------------------------------
(***************************************************************************)
(* The per-direction packet list of a Connection (procnet-monitor/         *)
(* connection.cpp): a singly linked list, newest node first, in which the  *)
(* packets of one second are merged into one node.  A list is a sequence   *)
(* of nodes [sec, len]; every sum is an u_int32_t, so it is taken modulo   *)
(* WORD (2^32 in the code).                                                *)
(***************************************************************************)
EXTENDS Integers, Sequences, FiniteSetsExt

CONSTANTS PERIOD,  \* width in seconds of the window a speed is averaged over
          WORD     \* number of values of an u_int32_t

ASSUME PackListAssumption == PERIOD \in Nat \ {0} /\ WORD \in Nat \ {0}

U32(x) == x % WORD
Byte32 == 0 .. WORD - 1

Node == [sec : Nat, len : Byte32]

(***************************************************************************)
(* PackList::add: only the head is looked at for a node of the same second.*)
(***************************************************************************)
Add(pl, sec, len) ==
  IF pl # <<>> /\ Head(pl).sec = sec
    THEN [pl EXCEPT ![1].len = U32(@ + len)]
    ELSE <<[sec |-> sec, len |-> len]>> \o pl

(***************************************************************************)
(* PackList::sumanddel: the walk stops at the first node that is PERIOD    *)
(* seconds old and frees that node with everything behind it.              *)
(***************************************************************************)
\* mutated form: one second too late
ExpiredLate(pl, t) == {i \in DOMAIN pl : pl[i].sec < t - PERIOD}

Expired(pl, t) == {i \in DOMAIN pl : pl[i].sec <= t - PERIOD}

Kept(pl, t) ==
  IF Expired(pl, t) = {} THEN pl ELSE SubSeq(pl, 1, Min(Expired(pl, t)) - 1)

Bytes(pl) == U32(SumFunction([i \in DOMAIN pl |-> pl[i].len]))
=============================================================================
