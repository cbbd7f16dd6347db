---------------------------- MODULE MCQuotaMonitor ----------------------------
(***************************************************************************)
(* Instances of QuotaMonitor for TLC: one mailbox with both gauges, the    *)
(* smallest account in which one gauge's flag could be taken for another's.*)
(***************************************************************************)
EXTENDS QuotaMonitor, TLC

CONSTANTS m1, d1

OneMailbox == (m1 :> d1)
=============================================================================
