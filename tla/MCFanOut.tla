------------------------------ MODULE MCFanOut ------------------------------
(***************************************************************************)
(* FanOut on foreach blocks of one to three items under a concurrency of    *)
(* two and three, so that there are fewer, as many and more workers than   *)
(* items, and on parallel blocks of one to three branches.  It adds no      *)
(* definitions: the bounds are in the cfg.                                 *)
(***************************************************************************)
EXTENDS FanOut
=============================================================================
