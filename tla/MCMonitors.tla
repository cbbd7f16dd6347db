------------------------------ MODULE MCMonitors ------------------------------
(***************************************************************************)
(* An instance of Monitors for TLC: a zone that is right, one without DKIM *)
(* and one without MX; checks in which everything answers, or one call     *)
(* does not; one mailbox, which the usage scans look for and which comes   *)
(* and goes, without its gauges: what a usage scan decides of those is     *)
(* MCQuotaMonitor's, when it runs and ends is asked here.                  *)
(***************************************************************************)
EXTENDS Monitors, TLC

CONSTANTS d1, m1

RightZone  == [onMx |-> TRUE, hosting |-> TRUE, server |-> TRUE,
               right |-> Checks \ {"mail"}, cname |-> "right", mail |-> "target"]
NoDkimZone == [RightZone EXCEPT !.right = @ \ {"dkim"}]
NoMxZone   == [RightZone EXCEPT !.right = @ \ {"mx"}]

ThreeZones == {RightZone, NoDkimZone, NoMxZone}
OneSilent  == {Calls} \cup {Calls \ {c} : c \in Calls}
OneMailbox == [m \in {m1} |-> d1]
=============================================================================
