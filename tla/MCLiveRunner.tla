---------------------------- MODULE MCLiveRunner ----------------------------
(* A window of three units against sleeps of one and two.                     *)
EXTENDS LiveRunner

MCBackoff == <<1, 2>>
=============================================================================
