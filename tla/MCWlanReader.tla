---------------------------- MODULE MCWlanReader ----------------------------
(***************************************************************************)
(* Instance of WlanReader: a beacon, and commands that reset, mute and     *)
(* rename the reader.                                                      *)
(***************************************************************************)
EXTENDS WlanReader

MCFrame ==
  {[cmd |-> c, to |-> 1, arg |-> 1] : c \in {"none", "reset", "mute"}}
  \cup {[cmd |-> "setoid", to |-> 1, arg |-> 2]}
=============================================================================
