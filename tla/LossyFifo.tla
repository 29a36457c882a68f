------------------------------ MODULE LossyFifo ------------------------------
(***************************************************************************)
(* What a transmit ring that may be overrun promises: a FIFO that holds    *)
(* CAPACITY items at most and hands on every one that it has accepted, in  *)
(* the order they came in.  As long as an item has never been accepted     *)
(* behind RESERVE others or more, each comes out as it went in; from then  *)
(* on either half of what comes out may be that of another item, but there *)
(* is still exactly one delivery for each item accepted.  Without a        *)
(* reserve it is spoiled from the start.                                   *)
(***************************************************************************)
EXTENDS Integers, Sequences

CONSTANTS Item, CAPACITY, RESERVE

VARIABLES
  q,        \* items accepted and not yet handed on
  out,      \* what was handed on, as <<first half, second half>>
  spoiled   \* whether the reserve was ever used up

vars == <<q, out, spoiled>>

Init == q = <<>> /\ out = <<>> /\ spoiled = (RESERVE <= 0)

Accept(p) ==
  /\ Len(q) < CAPACITY
  /\ q' = Append(q, p)
  /\ spoiled' \in IF Len(q) < RESERVE THEN {spoiled} ELSE {spoiled, TRUE}
  /\ UNCHANGED out

Deliver ==
  /\ q # <<>>
  /\ q' = Tail(q)
  /\ \E x \in IF spoiled THEN Item \X Item ELSE {<<Head(q), Head(q)>>} :
       out' = Append(out, x)
  /\ UNCHANGED spoiled

Next == Deliver \/ \E p \in Item : Accept(p)

Spec == Init /\ [][Next]_vars
=============================================================================
