------------------------------- MODULE MCChat -------------------------------
(* A radio with two channels, or with none that is active. *)
EXTENDS Chat

MCChannelLists == {<<>>, <<0, 1>>}
=============================================================================
