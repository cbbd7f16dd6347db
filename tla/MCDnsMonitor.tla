----------------------------- MODULE MCDnsMonitor -----------------------------
(***************************************************************************)
(* An instance of DnsMonitor for TLC: a zone that is right and one without *)
(* MX; checks in which everything answers, or one call does not.           *)
(***************************************************************************)
EXTENDS DnsMonitor, TLC

RightZone == [onMx |-> TRUE, hosting |-> TRUE, server |-> TRUE,
              right |-> Checks \ {"mail"}, cname |-> "right", mail |-> "target"]
NoMxZone  == [RightZone EXCEPT !.right = @ \ {"mx"}]
TwoZones  == {RightZone, NoMxZone}
OneSilent == {Calls} \cup {Calls \ {c} : c \in Calls}
=============================================================================
