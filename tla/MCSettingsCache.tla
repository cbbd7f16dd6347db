---------------------------- MODULE MCSettingsCache ----------------------------
(***************************************************************************)
(* An instance of SettingsCache for TLC: a worker whose request thread     *)
(* shares the cache with the monitors' thread, and one with requests only. *)
(***************************************************************************)
EXTENDS SettingsCache, TLC

CONSTANTS w1, w2, t1, t2, t3, form, health

TwoAndOne == (t1 :> w1 @@ t2 :> w1 @@ t3 :> w2)
=============================================================================
