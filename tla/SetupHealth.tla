------------------------------ MODULE SetupHealth ------------------------------
(***************************************************************************)
(* How one domain's overall DNS status comes about: build_setup_health     *)
(* (services/cloudflare_health.py) and the checks it gathers               *)
(* (services/dns_health.py).  Pure operators.                              *)
(*                                                                         *)
(* A zone says what is really published: the checks whose comparison with  *)
(* the public records succeeds, the mail host's CNAME in the Cloudflare    *)
(* zone and in public, and what MXroute knows of the domain.  The calls    *)
(* that answered are an argument: MXroute, Cloudflare and the resolvers    *)
(* may fail one at a time.                                                 *)
(***************************************************************************)
EXTENDS FiniteSets

Bad      == {"degraded", "unhealthy"}
Statuses == Bad \cup {"healthy"}
NoStatus == "none"    \* build_setup_health returned None, or raised

MailChecks == {"mail", "mx", "spf", "dkim", "dmarc"}
Checks     == MailChecks \cup {"verification"}
Optional   == {"dkim", "dmarc", "verification"}

\* MXroute's and Cloudflare's calls, the resolver's query of each check, and
\* its query for the mail host's address.
Calls == Checks \cup
    {"domains", "verification-key", "dns", "hosting", "cloudflare", "address"}

Zone == [onMx    : BOOLEAN,
         hosting : BOOLEAN,
         server  : BOOLEAN,      \* MX_SERVER names the mail CNAME's target
         right   : SUBSET (Checks \ {"mail"}),
         cname   : {"absent", "right", "wrong"},   \* as the zone's page lists it
         mail    : {"target", "other", "address", "none"}]   \* as the public sees it

CheckStatus(passed, optional) ==
    IF passed THEN "pass" ELSE IF optional THEN "warn" ELSE "fail"

Found(checks) == {checks[k] : k \in DOMAIN checks}

\* Mutant of OverallFromChecks: the worst check's own status.
WorstStatus(checks) ==
    IF "fail" \in Found(checks) THEN "fail"
    ELSE IF "warn" \in Found(checks) THEN "warn" ELSE "pass"

\* overall_from_checks: "skipped" and "pending" do not count.
OverallFromChecks(checks) ==
    IF "fail" \in Found(checks) THEN "unhealthy"
    ELSE IF "warn" \in Found(checks) THEN "degraded" ELSE "healthy"

\* apply_mail_hosting_context
ApplyMailHosting(checks, hosting) ==
    [k \in DOMAIN checks |->
        IF ~hosting /\ k \in MailChecks THEN "skipped" ELSE checks[k]]

\* The keys check_dns_health and mail_health_check report on.
Reported(answered) ==
    MailChecks \cup (IF "verification-key" \in answered THEN {"verification"}
                     ELSE {})

\* mail_health_check.  Without a target there is nothing to check; a CNAME that
\* is right in Cloudflare but not yet public is pending.  No zone, no answer and
\* a CNAME beyond the page of records Cloudflare sends all read as "absent".
MailStatus(zone, answered) ==
    LET listed == IF "cloudflare" \in answered THEN zone.cname ELSE "absent"
        public == IF "mail" \in answered /\ zone.mail \in {"target", "other"}
                  THEN zone.mail ELSE "none"
        resolves == "address" \in answered /\ zone.mail # "none"
    IN  IF ~zone.server THEN "skipped"
        ELSE IF listed = "wrong" THEN "fail"
        ELSE IF \/ public = "target"
                \/ listed = "right" /\ public = "none" /\ resolves
        THEN "pass"
        ELSE IF listed = "right" THEN "pending" ELSE "fail"

\* check_dns_health, and mail_health_check in its place among the checks.  A
\* query that fails reads as a name with no records (_query_*).
PublicChecks(zone, answered) ==
    [k \in Reported(answered) |->
        IF k = "mail" THEN MailStatus(zone, answered)
        ELSE CheckStatus(k \in answered /\ k \in zone.right, k \in Optional)]

\* domain_on_mxroute: a list that cannot be had reads as "not listed".
DomainOnMxroute(zone, answered) == "domains" \in answered /\ zone.onMx

\* The branch for domains MXroute does not know: the mail checks are pending.
PendingChecks(zone, answered) ==
    [k \in Reported(answered) |->
        IF k \in MailChecks THEN "pending"
        ELSE PublicChecks(zone, answered)[k]]

OverallNotOnMxroute(checks) ==
    IF "fail" \in Found(checks) THEN "unhealthy"
    ELSE IF {"warn", "pending"} \cap Found(checks) # {} THEN "degraded"
    ELSE "healthy"

BuildSetupHealth(zone, answered) ==
    IF ~DomainOnMxroute(zone, answered)
    THEN OverallNotOnMxroute(PendingChecks(zone, answered))
    ELSE IF "dns" \notin answered
    THEN NoStatus
    ELSE OverallFromChecks(
            ApplyMailHosting(PublicChecks(zone, answered),
                             "hosting" \notin answered \/ zone.hosting))

\* What a check of the zone would say if everything answered.
TrueStatus(zone) == BuildSetupHealth(zone, Calls)
=============================================================================
