----------------------------- MODULE MCEstimator -----------------------------
(***************************************************************************)
(* Instance of Estimator: one known reader and an unknown one, whose       *)
(* datagrams mix sightings with announcements and invalid envelopes.       *)
(***************************************************************************)
EXTENDS Estimator

Sighting(t, j, b) == [kind |-> "sighting", tag |-> t, strength |-> j, button |-> b]
NoSighting(k)     == [Sighting(0, 0, FALSE) EXCEPT !.kind = k]

MCDatagram ==
  {[reader |-> 1, envelopes |-> <<Sighting(1, 0, FALSE), Sighting(1, 1, TRUE),
                                  Sighting(1, 0, FALSE)>>],
   [reader |-> 1, envelopes |-> <<NoSighting("other"), Sighting(2, 1, FALSE),
                                  NoSighting("invalid"), Sighting(1, 0, FALSE)>>],
   [reader |-> 2, envelopes |-> <<Sighting(1, 1, FALSE), Sighting(2, 1, FALSE)>>],
   [reader |-> 2, envelopes |-> <<Sighting(1, 1, FALSE), Sighting(0, 1, FALSE)>>],
   [reader |-> 1, envelopes |-> <<Sighting(0, 0, FALSE)>>]}

(* Everything collides in the last slot, so that probing wraps.            *)
MCHashMap(handle, n) == n
=============================================================================
