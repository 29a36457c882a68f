----------------------------- MODULE MCWifiFifo -----------------------------
(***************************************************************************)
(* Instance of WifiFifo: envelopes are numbered in the order in which they *)
(* are accepted; one that finds the ring full is offered again.            *)
(***************************************************************************)
EXTENDS WifiFifo

CONSTANT MaxAccepted     \* bound: envelopes accepted

MCPacket == 1 .. MaxAccepted

Deliver == Len(accepted) < MaxAccepted /\ AddPacket(Len(accepted) + 1)

MCNext == Deliver \/ Poll \/ Dma
MCSpec == FifoInit /\ [][MCNext]_fifoVars /\ FifoFairness

(* Every accepted envelope leaves the UART, whether or not the radio ever  *)
(* receives another one (wifi.c:424-427).                                  *)
Drained == \A k \in 1 .. MaxAccepted : Len(accepted) >= k ~> Len(uart) >= k
=============================================================================
