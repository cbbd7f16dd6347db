------------------------------ MODULE MCDnsDeploy ------------------------------
(***************************************************************************)
(* Instances of DnsDeploy for TLC: a new zone, one with an SPF that lists  *)
(* another sender too, and one with two wrong DMARC records.               *)
(***************************************************************************)
EXTENDS DnsDeploy, TLC

CONSTANTS j1, j2, m1, default, reject

MostTypes == {"verification", "mail", "mx", "spf", "dmarc"}

Rec(t, i, c) == [slot |-> t, id |-> i, content |-> c]

SentByOthersToo == {Rec("spf", 1, "extended")}
TwoWrong == {Rec("dmarc", 1, "other"), Rec("dmarc", 2, "other"),
             Rec("verification", 3, "ours")}

SomeZones == {{}, SentByOthersToo, TwoWrong}

\* What the checks find, and one list a caller gives.
FixAllOrSpf == {{}, {"spf"}}

JobSymmetry == Permutations(Jobs)

\* Every call of a check answers, or MXroute, or every record's, stays silent.
SomeSilent == {Calls, Calls \ {"domains"}, Calls \ {"dns"},
               Calls \ (Checks \cup {"cloudflare"})}
=============================================================================
