----------------------------- MODULE QuotaMonitor -----------------------------
(***************************************************************************)
(* The scheduled mailbox usage monitor (services/quota_monitor.py): the    *)
(* monitor thread fetches every mailbox of the account, compares storage   *)
(* and daily sends with their thresholds, writes four kinds of audit       *)
(* events and saves one flag per gauge.                                    *)
(*                                                                         *)
(* A gauge is one mailbox's storage or sends.  Its percentage is one of    *)
(* four levels: no limit set, below the recovery mark, between that mark   *)
(* and the threshold, at or over the threshold.  There is one scan at a    *)
(* time (Monitors has the thread it runs in, the lock and the turns); it   *)
(* may be killed between steps.                                            *)
(***************************************************************************)
EXTENDS Naturals, FiniteSets

CONSTANTS
    Mailboxes,
    DomainOf,    \* the domain of each mailbox
    Meters,      \* "quota", "send"
    Levels,      \* the levels a gauge may be at
    MaxCutOffs   \* bound on kills and exceptions

ASSUME QuotaAssumption ==
    /\ Meters \subseteq {"quota", "send"}
    /\ Levels \subseteq {"none", "low", "cooling", "high"}
    /\ MaxCutOffs \in Nat

Gauges  == Mailboxes \X Meters
UsageDomains == {DomainOf[m] : m \in Mailboxes}
NotSeen == "not seen"

VARIABLES
    level,       \* the gauges' real levels
    exists,      \* mailboxes the account has
    flag,        \* QUOTA_MONITOR_STATE: the gauges saved as alerted
    usage,       \* the scan: what the monitor is doing
    \* history
    usageTold,   \* the last thing the audit log says of each gauge
    reasons,     \* why an alert may follow the gauge's last alert
    bare,        \* gauges alerted again without a reason
    steady,      \* gauges at or over the threshold ever since their last alert
    cutOffs      \* kills and exceptions so far

world   == <<level, exists>>
usageHistory == <<usageTold, reasons, bare, steady, cutOffs>>
usageVars    == <<world, flag, usage, usageHistory>>

Readings == [Gauges -> Levels \cup {NotSeen}]
UsageRest     == [at |-> "rest"]
UsageScans ==
    {UsageRest}
    \cup [at : {"list"}, previous : SUBSET Gauges]
    \cup [at : {"fetch"}, previous : SUBSET Gauges, todo : SUBSET UsageDomains,
          seen : Readings]
    \cup [at : {"audit"}, previous : SUBSET Gauges, stage : 1..5, seen : Readings]

UsageAt(step) == usage.at = step
Unread == [g \in Gauges |-> NotSeen]

UsageInit ==
    /\ level \in [Gauges -> Levels]
    /\ exists = Mailboxes
    /\ flag = {}
    /\ usage = UsageRest
    /\ usageTold = [g \in Gauges |-> "nothing"]
    /\ reasons = [g \in Gauges |-> {}]
    /\ bare = {}
    /\ steady = {}
    /\ cutOffs = 0

-----------------------------------------------------------------------------
(* What a scan decides *)

Over(seen) == {g \in Gauges : seen[g] = "high"}

\* Mutants of UsageAlerts: on every poll; and with one flag per mailbox.
UsageAlertsEveryPoll(previous, seen) == Over(seen)
AlertsPerMailbox(previous, seen) ==
    {g \in Over(seen) : \A h \in previous : h[1] # g[1]}

UsageAlerts(previous, seen) == Over(seen) \ previous

\* Not alerting now, alerted before, and under the recovery mark.
UsageRecoveries(previous, seen) == {g \in previous : seen[g] = "low"}

\* The four audit events, in their order; stage 5 is the save.
EventMeter == <<"quota", "quota", "send", "send">>
EventsOf(stage, previous, seen) ==
    {g \in (IF stage \in {1, 3} THEN UsageAlerts(previous, seen)
            ELSE UsageRecoveries(previous, seen)) :
        g[2] = EventMeter[stage]}

\* The gauges this scan has written events for, the save to come.
UsageWritten ==
    IF UsageAt("audit")
    THEN UNION {EventsOf(i, usage.previous, usage.seen) : i \in 1..(usage.stage - 1)}
    ELSE {}

-----------------------------------------------------------------------------
LevelChanges(g) ==
    /\ \E l \in Levels : l # level[g] /\ level' = [level EXCEPT ![g] = l]
    /\ steady' = steady \ {g}
    /\ UNCHANGED <<exists, flag, usage, usageTold, reasons, bare,
                   cutOffs>>

MailboxChanges(m) ==
    /\ exists' = IF m \in exists THEN exists \ {m} ELSE exists \cup {m}
    /\ steady' = {g \in steady : g[1] # m}
    /\ UNCHANGED <<level, flag, usage, usageTold, reasons, bare,
                   cutOffs>>

\* The worker is killed, or an audit event or the save raises: the scan ends
\* with nothing saved.
CutUsageScan ==
    /\ ~UsageAt("rest")
    /\ cutOffs < MaxCutOffs
    /\ cutOffs' = cutOffs + 1
    /\ reasons' = [g \in Gauges |-> IF g \in UsageWritten
                                    THEN reasons[g] \cup {"cut"} ELSE reasons[g]]
    /\ usage' = UsageRest
    /\ UNCHANGED <<world, flag, usageTold, bare, steady>>

\* get_quota_monitor_state: the saved flags, or none of them when the SELECT
\* fails.  Only this thread reads or saves them, so the settings cache never
\* holds an older value.  Whether the interval is over at a tick is left open.
BeginUsageScan ==
    /\ UsageAt("rest")
    /\ \E previous \in {flag, {}} :
          usage' = [at |-> "list", previous |-> previous]
    /\ UNCHANGED <<world, flag, usageHistory>>

Missed(gauges) ==
    reasons' = [g \in Gauges |-> IF g \in gauges THEN reasons[g] \cup {"missed"}
                                 ELSE reasons[g]]

\* A failed list and an empty one are the same: the saved flags are dropped.
ListNothing ==
    /\ UsageAt("list")
    /\ flag' = {}
    /\ usage' = UsageRest
    /\ Missed(Gauges)
    /\ UNCHANGED <<world, usageTold, bare, steady, cutOffs>>

UsageListAnswers ==
    /\ UsageAt("list")
    /\ usage' = [at |-> "fetch", previous |-> usage.previous,
                 todo |-> UsageDomains, seen |-> Unread]
    /\ UNCHANGED <<world, flag, usageHistory>>

Reading(g, answers) ==
    IF answers /\ g[1] \in exists THEN level[g] ELSE NotSeen

\* _fetch_domain_mailboxes: a failure is an empty list.
FetchDomain(d, answers) ==
    /\ UsageAt("fetch")
    /\ d \in usage.todo
    /\ usage' = [usage EXCEPT
          !.todo = @ \ {d},
          !.seen = [g \in Gauges |-> IF DomainOf[g[1]] = d
                                     THEN Reading(g, answers) ELSE @[g]]]
    /\ UNCHANGED <<world, flag, usageHistory>>

FetchesDone ==
    /\ UsageAt("fetch")
    /\ usage.todo = {}
    /\ usage' = [at |-> "audit", previous |-> usage.previous, stage |-> 1,
                 seen |-> usage.seen]
    /\ UNCHANGED <<world, flag, usageHistory>>

Says(stage) == IF stage \in {1, 3} THEN "alert" ELSE "recovered"

\* Flags the scan goes without, because it could not read them.
Unknown == flag \ usage.previous

AuditEvent ==
    /\ UsageAt("audit")
    /\ usage.stage < 5
    /\ LET new == EventsOf(usage.stage, usage.previous, usage.seen)
           alerted == IF Says(usage.stage) = "alert" THEN new ELSE {}
       IN  /\ usageTold' = [g \in Gauges |->
                          IF g \in new THEN Says(usage.stage) ELSE usageTold[g]]
           /\ bare' = bare \cup {g \in alerted \ Unknown :
                                    usageTold[g] = "alert" /\ reasons[g] = {}}
           /\ reasons' = [g \in Gauges |-> IF g \in alerted THEN {}
                                           ELSE reasons[g]]
           /\ steady' = steady \cup {g \in alerted : level[g] = "high"
                                                     /\ g[1] \in exists}
    /\ usage' = [usage EXCEPT !.stage = @ + 1]
    /\ UNCHANGED <<world, flag, cutOffs>>

\* Mutants of Flags: the reading is saved in place of the flag; and every
\* reading over the recovery mark is a flag.
FlagsWithLevel(seen) == {<<g, seen[g]>> : g \in Over(seen)}
FlagsFromMark(seen) == {g \in Gauges : seen[g] \in {"cooling", "high"}}

\* current[key] = {quota_alert, send_alert}, of the mailboxes seen.
Flags(seen) == Over(seen)

SaveUsageScan ==
    /\ UsageAt("audit")
    /\ usage.stage = 5
    /\ flag' = Flags(usage.seen)
    /\ usage' = UsageRest
    /\ reasons' = [g \in Gauges |->
          IF usage.seen[g] = NotSeen THEN reasons[g] \cup {"missed"}
          ELSE IF usage.seen[g] = "high" THEN reasons[g]
          ELSE reasons[g] \cup {"below"}]
    /\ UNCHANGED <<world, usageTold, bare, steady, cutOffs>>

-----------------------------------------------------------------------------
UsageNext ==
    \/ \E g \in Gauges : LevelChanges(g)
    \/ \E m \in Mailboxes : MailboxChanges(m)
    \/ CutUsageScan
    \/ BeginUsageScan
    \/ ListNothing
    \/ UsageListAnswers
    \/ \E d \in UsageDomains, answers \in BOOLEAN : FetchDomain(d, answers)
    \/ FetchesDone
    \/ AuditEvent
    \/ SaveUsageScan

UsageSpec == UsageInit /\ [][UsageNext]_usageVars

\* The monitor thread keeps running, is switched on and due now and then; the
\* list and each domain answer now and then.
UsageFairness ==
    /\ WF_usageVars(BeginUsageScan)
    /\ SF_usageVars(UsageListAnswers)
    /\ \A d \in UsageDomains : SF_usageVars(FetchDomain(d, TRUE))
    /\ WF_usageVars(FetchesDone)
    /\ WF_usageVars(AuditEvent)
    /\ WF_usageVars(SaveUsageScan)

UsageLiveSpec == UsageSpec /\ UsageFairness

-----------------------------------------------------------------------------
\* Every variable has its type; a scan's record is that of one of its steps.
UsageTypeOK ==
    /\ level \in [Gauges -> Levels]
    /\ exists \subseteq Mailboxes
    /\ flag \subseteq Gauges
    /\ usage \in UsageScans
    /\ usageTold \in [Gauges -> {"nothing", "alert", "recovered"}]
    /\ reasons \in [Gauges -> SUBSET {"cut", "missed", "below"}]
    /\ bare \subseteq Gauges /\ steady \subseteq Gauges
    /\ cutOffs \in 0..MaxCutOffs

\* A saved flag means its owner was alerted and not told of a recovery since,
\* whatever fails and wherever a scan ends, save between an event and the save.
FlagMeansTold ==
    \A g \in flag : g \notin UsageWritten /\ "cut" \notin reasons[g]
                    => usageTold[g] = "alert"

\* An alert follows an alert only if a scan in between read the gauge below
\* the threshold, could not read it, or was cut off after the first, or if the
\* second scan could not read that the first is saved.
NoBareRepeat == bare = {}

\* A gauge that stays over its threshold is alerted, though lists and fetches
\* fail in between and the other gauge of the mailbox comes and goes.
HighForGood(g) == [](level[g] = "high" /\ g[1] \in exists)
HighIsTold ==
    \A g \in Gauges :
        <>HighForGood(g) => []<>(usageTold[g] = "alert" \/ "cut" \in reasons[g])

\* "so you only get alerts on transitions": a gauge that has been over its
\* threshold ever since its last alert is alerted again only after a scan that
\* could not read it or was cut off, or by one that could not read its flag.
AlertsAreTransitions ==
    [][\A g \in Gauges :
        UsageAt("audit") /\ usage.stage \in {1, 3}
            /\ usage' # usage /\ usage' # UsageRest
            /\ g \in EventsOf(usage.stage, usage.previous, usage.seen)
            /\ g \in steady
        => reasons[g] \cap {"missed", "cut"} # {} \/ g \in Unknown]_usageVars
=============================================================================
