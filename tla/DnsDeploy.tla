------------------------------- MODULE DnsDeploy -------------------------------
(***************************************************************************)
(* Putting a domain's expected records into its Cloudflare zone: "fix"     *)
(* (services/cloudflare_deploy.py), alone or of many domains at once, and  *)
(* the one-call "setup" (routes/cloudflare.py), which also registers the   *)
(* domain with MXroute.                                                    *)
(*                                                                         *)
(* A job lists the zone once and works from that list, one call to         *)
(* Cloudflare a step, while other jobs do the same, records are edited by  *)
(* hand and the settings change.  A call may be refused, its answer may be *)
(* lost, a list may be cut short, and the worker may be killed.            *)
(***************************************************************************)
EXTENDS Naturals, SetupHealth

CONSTANTS
    Jobs,        \* requests under way at once
    Types,       \* record types of this instance
    MxHosts,     \* the MX hosts MXroute asks for
    Policies,    \* DMARC policies
    Default,     \* the one of DMARC_RECORD
    FirstZones,  \* what the zone may hold at first
    Orders,      \* which types a fix asks for; {} is what the checks find
    Answers,     \* which sets of calls may answer a health check
    MaxJobs,     \* bound on jobs
    MaxUpsets    \* bound on failures and outside changes together

NoPolicy == "default"    \* the domain has no row

ASSUME DeployAssumption ==
    /\ Types \subseteq Checks
    /\ "verification" \in Types
    /\ Default \in Policies
    /\ MxHosts \cap (Policies \cup {"ours", "extended", "other"}) = {}
    /\ \A h \in MxHosts : h \notin Nat
    /\ Policies \cap {"ours", "extended", "other", NoPolicy} = {}
    /\ Orders \subseteq SUBSET Types
    /\ Answers \subseteq SUBSET Calls
    /\ MaxJobs \in Nat /\ MaxUpsets \in Nat

\* What a record says: what we would write, an SPF of ours with senders added
\* (the check accepts it), or anything else.
Contents == MxHosts \cup Policies \cup {"ours", "extended", "other"}
Record == [slot : Types, id : Nat, content : Contents]

\* Cloudflare keeps no record twice; these two stand for many contents each.
Distinct(recs) ==
    \A r \in recs, s \in recs :
        r.slot = s.slot /\ r.content = s.content =>
            r = s \/ r.content \in {"other", "extended"}

ASSUME ZonesAssumption ==
    \A z \in FirstZones :
        /\ z \subseteq Record
        /\ \A r \in z : r.id \in 1..10
        /\ \A r \in z, s \in z : r.id = s.id => r = s
        /\ Distinct(z)

VARIABLES
    hosted,     \* the zone exists in Cloudflare
    zone,       \* its records
    ids,        \* ids Cloudflare has given out
    onMx,       \* MXroute knows the domain
    hosting,    \* and has its mail hosting switched on
    policy,     \* the domain's own DMARC policy (domain_dmarc_policies)
    server,     \* MX_SERVER is set, the mail CNAME's target
    job,
    begun, faults, hands,   \* counted to their bounds
    \* history
    disturbed,  \* since some job is under way, somebody changed what it reads
    misread     \* since some job is under way, one got less than the whole list

records == <<zone, ids>>
mxroute == <<onMx, hosting>>
saved == <<policy, server>>
vars == <<hosted, records, mxroute, saved, job, begun, faults, hands,
          disturbed, misread>>

MailTypes == Types \cap MailChecks

\* What MXroute tells of a domain it knows: a profile, with or without these.
Parts == Types \cap {"mx", "spf", "dkim"}
Stages == {"none", "queued", "zone", "list", "deploy", "put", "post",
           "extras", "mx", "register", "profile", "complete", "failed"}
NoJob == [at |-> "none", kind |-> "none", todo |-> {}, seen |-> {},
          data |-> {}, done |-> {}, slot |-> "none", want |-> "none",
          id |-> 0, left |-> {}]
Job == [at : Stages, kind : {"none", "fix", "setup"}, todo : SUBSET Types,
        seen : SUBSET Record,
        data : SUBSET ({"verification", "profile"} \cup Parts),
        done : SUBSET Types, slot : Types \cup {"none"},
        want : Contents \cup {"none"}, id : Nat,
        left : SUBSET (Nat \cup MxHosts)]

At(j, stage) == job[j].at = stage
Of(recs, t) == {r \in recs : r.slot = t}
Says(recs, t) == {r.content : r \in Of(recs, t)}

\* get_dmarc_record_for_domain
Effective == IF policy = NoPolicy THEN Default ELSE policy

\* What each handler asks for: MXroute's word, but for DMARC.
Want(t) == IF t = "dmarc" THEN Effective ELSE "ours"

\* _mx_records_match: the hosts may stand next to others.
HostsMatch == MxHosts \subseteq Says(zone, "mx")

\* _spf_covers_expected: the senders may, too.
SpfCovers == Says(zone, "spf") \cap {"ours", "extended"} # {}

\* Any valid policy will do, unless the domain has one of its own.
DmarcMatches ==
    IF policy = NoPolicy THEN Says(zone, "dmarc") \cap Policies # {}
    ELSE policy \in Says(zone, "dmarc")

MailPasses == "ours" \in Says(zone, "mail")

Passes(t) ==
    /\ t = "mx" => HostsMatch
    /\ t = "spf" => SpfCovers
    /\ t = "dmarc" => DmarcMatches
    /\ t = "mail" => MailPasses
    /\ t \in {"verification", "dkim"} => "ours" \in Says(zone, t)

Published == {t \in Types : Passes(t)}

Init ==
    /\ zone \in FirstZones
    /\ hosted = (zone # {})
    /\ ids = 10
    /\ onMx \in BOOLEAN
    /\ hosting = TRUE
    /\ policy = NoPolicy
    /\ server \in BOOLEAN
    /\ job = [j \in Jobs |-> NoJob]
    /\ begun = 0 /\ faults = 0 /\ hands = 0
    /\ disturbed = FALSE
    /\ misread = FALSE

-----------------------------------------------------------------------------
(* How a job goes on. *)

Busy == {j \in Jobs : ~At(j, "none")}

Becomes(j, stage) == job' = [job EXCEPT ![j] = stage]

Stage(j, at) ==
    [at |-> at, kind |-> job[j].kind, todo |-> job[j].todo,
     seen |-> job[j].seen, data |-> job[j].data, done |-> job[j].done,
     slot |-> "none", want |-> "none", id |-> 0, left |-> {}]

\* A call to Cloudflare for a record of type t.
Call(j, at, t, want, id, left) ==
    [at |-> at, kind |-> job[j].kind, todo |-> job[j].todo \ {t},
     seen |-> job[j].seen, data |-> job[j].data, done |-> job[j].done,
     slot |-> t, want |-> want, id |-> id, left |-> left]

\* The next call for that record.
Goes(j, at, left) ==
    [at |-> at, kind |-> job[j].kind, todo |-> job[j].todo,
     seen |-> job[j].seen, data |-> job[j].data, done |-> job[j].done,
     slot |-> job[j].slot, want |-> job[j].want, id |-> job[j].id,
     left |-> left]

\* The next type: after one that was right, or after one that was written.
Skipped(j, t) ==
    [at |-> "deploy", kind |-> job[j].kind, todo |-> job[j].todo \ {t},
     seen |-> job[j].seen, data |-> job[j].data, done |-> job[j].done,
     slot |-> "none", want |-> "none", id |-> 0, left |-> {}]

Written(j) ==
    [at |-> "deploy", kind |-> job[j].kind, todo |-> job[j].todo,
     seen |-> job[j].seen, data |-> job[j].data,
     done |-> job[j].done \cup {job[j].slot},
     slot |-> "none", want |-> "none", id |-> 0, left |-> {}]

\* A ValueError, or an exception of requests: the job ends with an error.
Raises(j) == Becomes(j, Stage(j, "failed"))

Fault == faults + hands < MaxUpsets /\ faults' = faults + 1
NoFault == faults' = faults

-----------------------------------------------------------------------------
(* deploy_missing_dns_to_cf *)

View ==
    LET right  == "mail" \in Types => MailPasses
        absent == Of(zone, "mail") = {}
    IN [onMx |-> onMx, hosting |-> hosting, server |-> server,
        right |-> (Published \cup (Checks \ Types)) \ {"mail"},
        cname |-> IF right THEN "right" ELSE IF absent THEN "absent" ELSE "wrong",
        mail |-> IF right THEN "target" ELSE IF absent THEN "none" ELSE "other"]

\* The statuses in build_setup_health's answer.
StatusOf(answered) ==
    IF DomainOnMxroute(View, answered)
    THEN ApplyMailHosting(PublicChecks(View, answered),
                          "hosting" \notin answered \/ hosting)
    ELSE PendingChecks(View, answered)

Missing(status) ==
    {t \in DOMAIN status \cap Types : status[t] \in {"warn", "fail"}}
LooksGood(status) ==
    {t \in DOMAIN status : status[t] \in {"pass", "pending"}}

\* What becomes of a fix that asks for some types, or for what is missing.
Fixing(order, answered) ==
    LET status == StatusOf(answered)
        known == DomainOnMxroute(View, answered)
        asked == IF order = {} THEN Missing(status) ELSE order
    IN [at |-> IF \/ BuildSetupHealth(View, answered) = NoStatus
                  \/ asked \cap MailChecks # {} /\ ~known
               THEN "failed"
               ELSE IF asked = {} THEN "complete" ELSE "zone",
        kind |-> "fix", todo |-> asked \ LooksGood(status), seen |-> {},
        data |-> IF known THEN {"profile"} \cup Parts ELSE {}, done |-> {},
        slot |-> "none", want |-> "none", id |-> 0, left |-> {}]

Begins(j) == At(j, "none") /\ begun < MaxJobs /\ begun' = begun + 1

BeginFix(j, order, answered) ==
    /\ Begins(j)
    /\ Becomes(j, Fixing(order, answered))
    /\ UNCHANGED <<hosted, records, mxroute, saved, faults, hands>>

\* _domain_needs_fix
NeedsFix(answered) ==
    BuildSetupHealth(View, answered) \notin {"healthy", NoStatus}

\* fix_dns_bulk picks the domain (only_unhealthy: if it needs a fix), and when
\* it has picked all of them a pool fixes each, by a check of its own.
FixBulk(j, order, unhealthy, answered) ==
    /\ Begins(j)
    /\ unhealthy => NeedsFix(answered)
    /\ Becomes(j, [at |-> "queued", kind |-> "fix", todo |-> order, seen |-> {},
                   data |-> {}, done |-> {}, slot |-> "none", want |-> "none",
                   id |-> 0, left |-> {}])
    /\ UNCHANGED <<hosted, records, mxroute, saved, faults, hands>>

StartQueued(j, answered) ==
    /\ At(j, "queued")
    /\ Becomes(j, Fixing(job[j].todo, answered))
    /\ UNCHANGED <<hosted, records, mxroute, saved, begun, faults, hands>>

\* ensure_cf_zone: found, or created.
EnsureZone(j) ==
    /\ At(j, "zone")
    /\ \/ /\ NoFault
          /\ hosted' = TRUE
          /\ Becomes(j, Stage(j, "list"))
       \/ Fault /\ hosted' \in {hosted, TRUE} /\ Raises(j)
    /\ UNCHANGED <<records, mxroute, saved, begun, hands>>

\* What MXroute can tell: the verification key, and the profile of a domain it
\* knows.
Offered(j) == job[j].data \cup {"verification"}

\* A setup ends when MXroute does not tell the key.
KeyMissing(j, data) == job[j].kind = "setup" /\ "verification" \notin data

\* fetch_cf_dns_sets asks for one page of the zone's records, and takes a list
\* it cannot get for an empty one.
Listed == SUBSET zone

\* A list cut short, and an answer without a part, are counted with the failures.
ListRecords(j) ==
    /\ At(j, "list")
    /\ \/ \E seen \in Listed, data \in SUBSET Offered(j) :
           /\ data \cap Parts # {} => "profile" \in data
           /\ IF seen = zone /\ data = Offered(j) THEN NoFault ELSE Fault
           /\ Becomes(j,
                [at |-> IF KeyMissing(j, data) THEN "failed" ELSE "deploy",
                 kind |-> job[j].kind, todo |-> job[j].todo, seen |-> seen,
                 data |-> data, done |-> {}, slot |-> "none",
                 want |-> "none", id |-> 0, left |-> {}])
       \/ Fault /\ Raises(j)
    /\ UNCHANGED <<hosted, records, mxroute, saved, begun, hands>>

\* deploy_dns_record_to_cf raises without the key, and without any profile.
Lacks(j, t) ==
    IF t = "verification" THEN "verification" \notin job[j].data
    ELSE t # "mail" /\ "profile" \notin job[j].data

\* The handlers leave out what has no target, or no part in the profile.
Skips(data, t) == \/ t = "mail" /\ ~server
                  \/ t \in Parts \ data

\* Mutant of RightIn: any record of the name will do.
RightInIfAny(recs, want) == recs # {}

\* cf_upsert_txt and cf_upsert_cname: one record of the name is as it should be.
RightIn(recs, want) == \E r \in recs : r.content = want

\* Mutant of Extras: the record just written goes with the others.
ExtrasAll(recs, first) == {r.id : r \in recs}

\* at_name[1:], in whatever order Cloudflare lists them.
Extras(recs, first) == {r.id : r \in recs \ {first}}

\* Mutant of Replaces: a record is only ever added.
ReplacesNone(recs) == FALSE

Replaces(recs) == recs # {}

\* Types are deployed one after the other: a setup's in this order, a fix's in
\* the order of the checks or of the caller's list, which matters as little.
Rank == [verification |-> 1, mail |-> 2, mx |-> 3, spf |-> 4, dkim |-> 5,
         dmarc |-> 6]
Turn(todo) == {t \in todo : \A u \in todo : Rank[t] <= Rank[u]}

\* cf_upsert_txt and cf_upsert_cname, up to their first call.
Upsert(j, t, same) ==
    \/ RightIn(same, Want(t)) /\ Becomes(j, Skipped(j, t))
    \/ /\ ~RightIn(same, Want(t)) /\ Replaces(same)
       /\ \E first \in same :
             Becomes(j, Call(j, "put", t, Want(t), first.id,
                             Extras(same, first)))
    \/ /\ ~RightIn(same, Want(t)) /\ ~Replaces(same)
       /\ Becomes(j, Call(j, "post", t, Want(t), 0, {}))

\* _deploy_mx
AddHosts(j, hosts) ==
    IF hosts = {} THEN Skipped(j, "mx")
    ELSE Call(j, "mx", "mx", "none", 0, hosts)

StartType(j, t) ==
    /\ At(j, "deploy")
    /\ t \in Turn(job[j].todo)
    /\ \/ Lacks(j, t) /\ Raises(j)
       \/ ~Lacks(j, t) /\ Skips(job[j].data, t) /\ Becomes(j, Skipped(j, t))
       \/ /\ ~Lacks(j, t) /\ ~Skips(job[j].data, t) /\ t = "mx"
          /\ Becomes(j, AddHosts(j, MxHosts \ Says(job[j].seen, t)))
       \/ /\ ~Lacks(j, t) /\ ~Skips(job[j].data, t) /\ t # "mx"
          /\ Upsert(j, t, Of(job[j].seen, t))
    /\ UNCHANGED <<hosted, records, mxroute, saved, begun, faults, hands>>

-----------------------------------------------------------------------------
(* Cloudflare's side of a call, and what the job makes of the answer. *)

\* Cloudflare refuses a record identical to another one, and a second CNAME.
Identical(t, content, id) ==
    \E r \in Of(zone, t) : r.content = content /\ r.id # id
Accepts(t, content, id) ==
    /\ ~Identical(t, content, id)
    /\ t = "mail" => \A r \in Of(zone, t) : r.id = id

PutAccepted(j) ==
    /\ \E r \in zone : r.id = job[j].id
    /\ Accepts(job[j].slot, job[j].want, job[j].id)

Replaced(j) ==
    {r \in zone : r.id # job[j].id}
    \cup {[slot |-> job[j].slot, id |-> job[j].id, content |-> job[j].want]}

PutRecord(j) ==
    /\ At(j, "put")
    /\ \/ /\ PutAccepted(j) /\ NoFault
          /\ zone' = Replaced(j)
          /\ Becomes(j, IF job[j].left = {} THEN Written(j)
                        ELSE Goes(j, "extras", job[j].left))
       \/ ~PutAccepted(j) /\ NoFault /\ Raises(j) /\ UNCHANGED zone
       \/ Fault /\ Raises(j) /\ UNCHANGED zone
       \/ Fault /\ Raises(j) /\ PutAccepted(j) /\ zone' = Replaced(j)
    /\ UNCHANGED <<hosted, ids, mxroute, saved, begun, hands>>

Add(t, content) ==
    /\ ids' = ids + 1
    /\ zone' = zone \cup {[slot |-> t, id |-> ids + 1, content |-> content]}

PostRecord(j) ==
    LET accepted == Accepts(job[j].slot, job[j].want, 0)
    IN /\ At(j, "post")
       /\ \/ /\ accepted /\ NoFault
             /\ Add(job[j].slot, job[j].want)
             /\ Becomes(j, Written(j))
          \/ ~accepted /\ NoFault /\ Raises(j) /\ UNCHANGED records
          \/ Fault /\ Raises(j) /\ UNCHANGED records
          \/ Fault /\ Raises(j) /\ accepted /\ Add(job[j].slot, job[j].want)
       /\ UNCHANGED <<hosted, mxroute, saved, begun, hands>>

\* The other records of the name go; what Cloudflare says is not looked at.
DropExtra(j, i) ==
    LET left == job[j].left \ {i}
        next == IF left = {} THEN Written(j)
                ELSE Goes(j, "extras", left)
    IN /\ At(j, "extras")
       /\ i \in job[j].left
       /\ \/ NoFault /\ zone' = {r \in zone : r.id # i} /\ Becomes(j, next)
          \/ Fault /\ UNCHANGED zone /\ (Becomes(j, next) \/ Raises(j))
       /\ UNCHANGED <<hosted, ids, mxroute, saved, begun, hands>>

\* _deploy_mx adds what the list lacks, whatever Cloudflare says.
PostMx(j, h) ==
    LET left == job[j].left \ {h}
        next == IF left = {} THEN Written(j)
                ELSE Goes(j, "mx", left)
    IN /\ At(j, "mx")
       /\ h \in job[j].left
       /\ \/ /\ NoFault
             /\ IF Accepts("mx", h, 0) THEN Add("mx", h) ELSE UNCHANGED records
             /\ Becomes(j, next)
          \/ Fault /\ UNCHANGED records /\ (Becomes(j, next) \/ Raises(j))
          \/ Fault /\ Accepts("mx", h, 0) /\ Add("mx", h) /\ Raises(j)
       /\ UNCHANGED <<hosted, mxroute, saved, begun, hands>>

\* Nothing left: a setup that only verified goes on to register the domain.
EndOfTypes(j) ==
    /\ At(j, "deploy")
    /\ job[j].todo = {}
    /\ Becomes(j, Stage(j,
           IF job[j].kind = "setup" /\ "profile" \notin job[j].data
           THEN "register" ELSE "complete"))
    /\ UNCHANGED <<hosted, records, mxroute, saved, begun, faults, hands>>

-----------------------------------------------------------------------------
(* cloudflare_setup *)

BeginSetup(j) ==
    /\ Begins(j)
    /\ Becomes(j, [at |-> "zone", kind |-> "setup", todo |-> {"verification"},
                   seen |-> {}, data |-> {}, done |-> {}, slot |-> "none",
                   want |-> "none", id |-> 0, left |-> {}])
    /\ UNCHANGED <<hosted, records, mxroute, saved, faults, hands>>

\* MXroute takes a new domain whose verification record it can see.
MxrouteTakes == ~onMx /\ "verification" \in Published

\* register_domain_on_mxroute: a list it cannot get lacks the domain, too.
Register(j) ==
    /\ At(j, "register")
    /\ \/ /\ onMx \/ MxrouteTakes
          /\ NoFault
          /\ onMx' = TRUE
          /\ Becomes(j, Stage(j, "profile"))
       \/ ~onMx /\ ~MxrouteTakes /\ NoFault /\ UNCHANGED onMx /\ Raises(j)
       \/ Fault /\ UNCHANGED onMx /\ Raises(j)
       \/ Fault /\ MxrouteTakes /\ onMx' = TRUE /\ Raises(j)
    /\ UNCHANGED <<hosted, records, hosting, saved, begun, hands>>

\* get_mxroute_dns_data
ReadProfile(j) ==
    /\ At(j, "profile")
    /\ \/ \E parts \in SUBSET Parts :
          /\ onMx
          /\ IF parts = Parts THEN NoFault ELSE Fault
          /\ Becomes(j,
               [at |-> "deploy", kind |-> "setup", todo |-> MailTypes,
                seen |-> job[j].seen,
                data |-> job[j].data \cup {"profile"} \cup parts,
                done |-> job[j].done, slot |-> "none", want |-> "none",
                id |-> 0, left |-> {}])
       \/ ~onMx /\ NoFault /\ Raises(j)
       \/ Fault /\ Raises(j)
    /\ UNCHANGED <<hosted, records, mxroute, saved, begun, hands>>

-----------------------------------------------------------------------------
(* Answers, kills, and the world around the jobs. *)

AnswerJob(j) ==
    /\ job[j].at \in {"complete", "failed"}
    /\ Becomes(j, NoJob)
    /\ UNCHANGED <<hosted, records, mxroute, saved, begun, faults, hands>>

\* gunicorn kills the worker, often for taking too long.
KillJob(j) ==
    /\ ~At(j, "none")
    /\ Fault
    /\ Becomes(j, NoJob)
    /\ UNCHANGED <<hosted, records, mxroute, saved, begun, hands>>

ByHand == faults + hands < MaxUpsets /\ hands' = hands + 1

\* update_domain_dmarc_policy_route
SetPolicy(p) ==
    /\ ByHand
    /\ policy' = p
    /\ UNCHANGED <<server, hosted, records, mxroute, job, begun, faults>>

\* clear_domain_dmarc_policy, when that route is sent nothing.
ClearPolicy ==
    /\ ByHand
    /\ policy' = NoPolicy
    /\ UNCHANGED <<server, hosted, records, mxroute, job, begun, faults>>

\* Somebody works on the zone in Cloudflare.
EditZone ==
    /\ ByHand
    /\ hosted
    /\ \/ \E r \in zone : zone' = zone \ {r} /\ UNCHANGED ids
       \/ \E t \in Types \ {"mx", "mail"} : Add(t, "other")
    /\ UNCHANGED <<hosted, mxroute, saved, job, begun, faults>>

\* MX_SERVER is set or cleared on the settings page.
ChangeServer ==
    /\ ByHand
    /\ server' = ~server
    /\ UNCHANGED <<hosted, records, mxroute, policy, job, begun, faults>>

\* The domain is deleted from MXroute, or its mail hosting switched.
ChangeDomain ==
    /\ ByHand
    /\ \/ onMx /\ onMx' = FALSE /\ UNCHANGED hosting
       \/ hosting' = ~hosting /\ UNCHANGED onMx
    /\ UNCHANGED <<hosted, records, saved, job, begun, faults>>

\* get_dns_setup_health reads and changes nothing.
Look ==
    UNCHANGED <<hosted, records, mxroute, saved, job, begun, faults, hands>>

Step ==
    \/ \E j \in Jobs :
        \/ \E answered \in Answers :
            \/ \E order \in Orders :
                \/ BeginFix(j, order, answered)
                \/ \E unhealthy \in BOOLEAN :
                    FixBulk(j, order, unhealthy, answered)
            \/ StartQueued(j, answered)
        \/ BeginSetup(j)
        \/ EnsureZone(j) \/ ListRecords(j)
        \/ \E t \in Types : StartType(j, t)
        \/ PutRecord(j) \/ PostRecord(j)
        \/ \E i \in job[j].left : DropExtra(j, i) \/ PostMx(j, i)
        \/ EndOfTypes(j) \/ Register(j) \/ ReadProfile(j)
        \/ AnswerJob(j) \/ KillJob(j)
    \/ \E p \in Policies : SetPolicy(p)
    \/ ClearPolicy
    \/ EditZone
    \/ ChangeServer
    \/ ChangeDomain
    \/ Look

\* Both are forgotten when the last job ends.
Remember ==
    /\ disturbed' = (Busy' # {} /\ Busy # {} /\ (disturbed \/ hands' # hands))
    /\ misread' = (Busy' # {} /\
           (misread \/ \E j \in Jobs :
               At(j, "list") /\ job'[j].at = "deploy" /\ job'[j].seen # zone))

Next == Step /\ Remember

Spec == Init /\ [][Next]_vars

-----------------------------------------------------------------------------
(* Properties. *)

\* Types; an id names one record, none is given out twice, and no job deletes
\* the record it has just written.
TypeOK ==
    /\ hosted \in BOOLEAN
    /\ zone \subseteq Record
    /\ \A r \in zone, s \in zone : r.id = s.id => r = s
    /\ ids \in Nat /\ \A r \in zone : r.id \in 1..ids
    /\ onMx \in BOOLEAN /\ hosting \in BOOLEAN
    /\ policy \in Policies \cup {NoPolicy}
    /\ server \in BOOLEAN
    /\ job \in [Jobs -> Job]
    /\ \A j \in Jobs : job[j].id \notin job[j].left
    /\ begun \in 0..MaxJobs /\ faults \in 0..MaxUpsets /\ hands \in 0..MaxUpsets
    /\ disturbed \in BOOLEAN /\ misread \in BOOLEAN

\* Whatever its list was, and however jobs overlap, fail and die, no step of a
\* job makes a check fail that passed, unless somebody changed the zone, the
\* settings or the domain meanwhile.
WritesKeepRight ==
    [][~disturbed /\ hands' = hands => Published \subseteq Published']_vars

\* A fix that reports a record as fixed, and a setup that reports success,
\* leave it published, with the domain at MXroute after a setup; but for the MX
\* records, whose additions nobody looks at, and for what a setup leaves out and
\* mentions among its steps: types without a target or a part of the profile.
Claims(j) ==
    (IF job[j].kind = "setup" THEN {t \in Types : ~Skips(job[j].data, t)}
     ELSE job[j].done) \ {"mx"}
DoneIsPublished ==
    \A j \in Jobs : At(j, "complete") /\ ~disturbed =>
        /\ Claims(j) \subseteq Published
        /\ job[j].kind = "setup" => onMx

\* "Update in place; do not blindly create duplicates" (docs/contributing.md): no
\* job adds a record to a name that has one, however many deploy at once, while
\* every job got the whole list: with a page cut short, or none, they do.
NoBlindDuplicates ==
    [][~disturbed /\ hands' = hands /\ ~misread =>
         \A t \in Types \ {"mx"} :
             Of(zone, t) # {} =>
                 {r.id : r \in Of(zone', t)}
                 \subseteq {r.id : r \in Of(zone, t)}]_vars
=============================================================================
