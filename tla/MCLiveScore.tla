---------------------------- MODULE MCLiveScore ----------------------------
(* An instance of LiveScore. *)
EXTENDS LiveScore, TLC

Both == {TRUE, FALSE}
=============================================================================
