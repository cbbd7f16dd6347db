---------------------------- MODULE MCRateLimits ----------------------------
(***************************************************************************)
(* Instances of RateLimits for TLC.  The windows and limits are small      *)
(* numbers that keep the order of the code's: 15 min < 1 h, reset ip 5 and *)
(* login user 5 < login ip 10.                                             *)
(***************************************************************************)
EXTENDS RateLimits, TLC
=============================================================================
