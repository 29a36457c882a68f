----------------------------- MODULE MCEinkJobs -----------------------------
(***************************************************************************)
(* Instances of EinkJobs: the paint application (paint.c), whose event     *)
(* loop draws under a cookie while its console draws the whole screen.     *)
(***************************************************************************)
EXTENDS EinkJobs

Area(x, y, w, h, m) == [area |-> TRUE, mode |-> m, x |-> x, y |-> y, w |-> w, h |-> h]
Full(m)             == [area |-> FALSE, mode |-> m, x |-> 0, y |-> 0, w |-> 0, h |-> 0]

(* A column, two bars, one of which crosses the column, and a full screen. *)
Column == Area(2, 0, 1, 4, "PART")
Cross  == Area(0, 2, 5, 1, "FULL")
Corner == Area(0, 0, 3, 1, "PART_SPECIAL")

MCUpdate ==
  [t \in Task |->
     IF t = "paint"
     THEN {[cookie |-> "c", parts |-> <<Corner>>],
           [cookie |-> "c", parts |-> <<Column, Corner>>]}
     ELSE {[cookie |-> NoCookie, parts |-> <<Full("INIT")>>],
           [cookie |-> NoCookie, parts |-> <<Cross, Corner, Column>>]}]

(* One task alone.                                                         *)
MCCrossing ==
  [t \in Task |-> {[cookie |-> NoCookie, parts |-> <<p>>] : p \in {Column, Cross, Corner}}]

ASSUME MCCookies == CookiesApart
=============================================================================
