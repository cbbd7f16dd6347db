------------------------------ MODULE DnsMonitor ------------------------------
(***************************************************************************)
(* The scheduled DNS health monitor (services/dns_monitor.py): a daemon    *)
(* thread in the one worker that took the lock file at its start scans     *)
(* every domain of the account, writes an audit event for each transition  *)
(* and saves the statuses in the settings table.                           *)
(*                                                                         *)
(* A step is one call of the scan that others can see or fail in: the      *)
(* domain list, one domain's check (five run at once, in any order), each  *)
(* audit event, the save.  A worker may be killed between any two, and a   *)
(* step may raise, which ends the tick.                                    *)
(***************************************************************************)
EXTENDS Naturals, FiniteSets, SetupHealth

CONSTANTS
    Workers,         \* gunicorn worker slots
    Domains,
    Zones,           \* what a domain's DNS may look like
    Answers,         \* which sets of calls may answer in one check
    MaxKills,        \* bound on kills and exceptions
    NoWorker,
    Missing          \* no entry in the settings cache; no read in flight

ASSUME MonitorAssumption ==
    /\ IsFiniteSet(Workers)
    /\ Zones \subseteq Zone
    /\ Zones # {}
    /\ Answers \subseteq SUBSET Calls
    /\ NoWorker \notin Workers
    /\ Missing \notin [Domains -> Statuses \cup {NoStatus}]
    /\ MaxKills \in Nat

VARIABLES
    zone,        \* what is really published
    account,     \* domains GET /domains lists
    enabled,     \* notifications and dns_monitor switched on
    saved,       \* DNS_HEALTH_STATE: the last saved status of each domain
    cached,      \* its copy in the settings cache of the monitor's worker
    page,        \* what a request of that worker has read and not cached yet
    up,          \* workers alive
    holder,      \* the worker whose process holds the flock
    scan,        \* what each worker's monitor thread is doing
    \* history
    told,        \* the last thing the audit log says of each domain
    astray,      \* domains whose saved status may have lost touch with the log
                 \* since their last event
    kills        \* kills and exceptions so far

env == <<zone, account, enabled>>
cache == <<cached, page>>
workers == <<up, holder>>
history == <<told, astray, kills>>
vars == <<env, saved, cache, workers, scan, history>>

SavedStatus == Statuses \cup {NoStatus}
NoScan == [at |-> "off"]
Rest   == [at |-> "rest"]
Table  == [Domains -> SavedStatus]

Scans ==
    {NoScan, Rest}
    \cup [at : {"list"}, previous : Table]
    \cup [at : {"check"}, previous : Table, todo : SUBSET Domains, seen : Table]
    \cup [at : {"alert", "recover", "save"}, previous : Table, seen : Table]

At(w, step) == scan[w].at = step

Init ==
    /\ zone \in [Domains -> Zones]
    /\ account = Domains
    /\ enabled \in BOOLEAN
    /\ saved = [d \in Domains |-> NoStatus]
    /\ cached = Missing
    /\ page = Missing
    /\ up = {}
    /\ holder = NoWorker
    /\ scan = [w \in Workers |-> NoScan]
    /\ told = [d \in Domains |-> "nothing"]
    /\ astray = {}
    /\ kills = 0

-----------------------------------------------------------------------------
(* The world around it. *)

\* Records are published, withdrawn or broken; mail hosting is switched.
ZoneChanges(d) ==
    /\ \E z \in Zones : z # zone[d] /\ zone' = [zone EXCEPT ![d] = z]
    /\ UNCHANGED <<account, enabled, saved, cache, workers, scan, history>>

AccountChanges(d) ==
    /\ account' = IF d \in account THEN account \ {d} ELSE account \cup {d}
    /\ UNCHANGED <<zone, enabled, saved, cache, workers, scan, history>>

\* save_notification_settings with another "enabled", from when the worker with
\* the monitor reads it (SettingsCache says when that is).
SwitchMonitor ==
    /\ enabled' = ~enabled
    /\ UNCHANGED <<zone, account, saved, cache, workers, scan, history>>

-----------------------------------------------------------------------------
(* The settings cache of the worker with the monitor, which its requests    *)
(* share: get_config_value reads the database and stores what it read       *)
(* later, and any save of a setting in the worker clears every entry.       *)

\* The settings page reads the state as well (get_dns_health_state).
PageReads ==
    /\ holder # NoWorker
    /\ cached = Missing /\ page = Missing
    /\ page' = saved
    /\ UNCHANGED <<env, saved, cached, workers, scan, history>>

\* A scan may have saved since, and cleared the cache for nothing.
PageFills ==
    /\ page # Missing
    /\ cached' = page
    /\ page' = Missing
    /\ UNCHANGED <<env, saved, workers, scan, history>>

DropCache ==
    /\ cached' = Missing
    /\ UNCHANGED <<env, saved, page, workers, scan, history>>

ClearCache == cached # Missing /\ DropCache

-----------------------------------------------------------------------------
(* Workers: the lock is tried once, when the worker imports the app. *)

\* Mutant of Acquires: the lock file is opened but not locked.
AcquiresAlways(w) == holder' = w

\* flock(LOCK_EX | LOCK_NB): fails while another process holds it.
Acquires(w) == holder = NoWorker /\ holder' = w

\* Any OSError, another holder's lock or a lock file that cannot be opened,
\* leaves the worker without a monitor.
StartWorker(w) ==
    /\ w \notin up
    /\ up' = up \cup {w}
    /\ \/ Acquires(w) /\ scan' = [scan EXCEPT ![w] = Rest]
       \/ UNCHANGED <<holder, scan>>
    /\ UNCHANGED <<env, saved, cache, history>>

\* Mutants of Alerts: every bad status alerts, not only a change to one; and
\* only a change from healthy does.
AlertsEveryPoll(previous, seen) == {d \in Domains : seen[d] \in Bad}
AlertsFromHealthy(previous, seen) ==
    {d \in Domains : seen[d] \in Bad /\ previous[d] = "healthy"}

Alerts(previous, seen) ==
    {d \in Domains : seen[d] \in Bad /\ previous[d] \notin Bad}

\* Mutant of Recoveries: only a degraded domain recovers.
RecoveriesFromDegraded(previous, seen) ==
    {d \in Domains : seen[d] = "healthy" /\ previous[d] = "degraded"}

Recoveries(previous, seen) ==
    {d \in Domains : seen[d] = "healthy" /\ previous[d] \in Bad}

\* The domains this scan has written audit events for, the save to come.
Written(w) ==
    (IF scan[w].at \in {"recover", "save"}
     THEN Alerts(scan[w].previous, scan[w].seen) ELSE {})
    \cup
    (IF scan[w].at = "save"
     THEN Recoveries(scan[w].previous, scan[w].seen) ELSE {})

CutOff(w) ==
    /\ kills < MaxKills
    /\ kills' = kills + 1
    /\ astray' = astray \cup Written(w)

\* The worker is killed; lock and cache go with the process, gunicorn starts
\* another in its slot.
KillWorker(w) ==
    /\ w \in up
    /\ CutOff(w)
    /\ up' = up \ {w}
    /\ IF holder = w
       THEN holder' = NoWorker /\ cached' = Missing /\ page' = Missing
       ELSE UNCHANGED <<holder, cache>>
    /\ scan' = [scan EXCEPT ![w] = NoScan]
    /\ UNCHANGED <<env, saved, told>>

\* write_audit_log or the save raises (no space, database locked): tick()
\* logs it and sleeps.
TickFails(w) ==
    /\ scan[w].at \in {"alert", "recover", "save"}
    /\ CutOff(w)
    /\ scan' = [scan EXCEPT ![w] = Rest]
    /\ UNCHANGED <<env, saved, cache, workers, told>>

-----------------------------------------------------------------------------
(* maybe_run_dns_health_monitor *)

Nothing == [d \in Domains |-> NoStatus]

Scanning(w, previous) ==
    scan' = [scan EXCEPT ![w] = [at |-> "list", previous |-> previous]]

\* get_dns_health_state through the cache: its entry, or the database's, which
\* is then cached, or nothing at all when the SELECT fails.  The clock is no
\* part of the state: whether interval_hours are over at a tick is left open.
BeginScan(w) ==
    /\ At(w, "rest")
    /\ enabled
    /\ \/ cached # Missing /\ Scanning(w, cached) /\ UNCHANGED cached
       \/ cached = Missing /\ Scanning(w, saved) /\ cached' = saved
       \/ cached = Missing /\ Scanning(w, Nothing) /\ UNCHANGED cached
    /\ UNCHANGED <<env, saved, page, workers, history>>

\* A tick that is not due has read the state all the same.
IdleTick(w) ==
    /\ At(w, "rest")
    /\ enabled
    /\ cached = Missing
    /\ cached' = saved
    /\ UNCHANGED <<env, saved, page, workers, scan, history>>

\* save_dns_health_state: the save clears the worker's cache.
Save(w, table) ==
    /\ saved' = table
    /\ cached' = Missing
    /\ scan' = [scan EXCEPT ![w] = Rest]
    /\ UNCHANGED page

ListFails(w) ==
    /\ At(w, "list")
    /\ scan' = [scan EXCEPT ![w] = Rest]
    /\ UNCHANGED <<env, saved, cache, workers, history>>

\* Every status is erased, that of a domain whose alert stands included.
ListEmpty(w) ==
    /\ Save(w, Nothing)
    /\ astray' = astray \cup {d \in Domains : saved[d] # NoStatus}
    /\ UNCHANGED <<env, workers, told, kills>>

ListDomains(w) ==
    /\ scan' = [scan EXCEPT ![w] =
                    [at |-> "check", previous |-> @.previous,
                     todo |-> account, seen |-> Nothing]]
    /\ UNCHANGED <<env, saved, cache, workers, history>>

ListAnswers(w) ==
    /\ At(w, "list")
    /\ IF account = {} THEN ListEmpty(w) ELSE ListDomains(w)

ZoneOf(d) == [zone[d] EXCEPT !.onMx = @ /\ d \in account]

\* _domain_overall in one of the pool's threads.
CheckDomain(w, d, answered) ==
    /\ At(w, "check")
    /\ d \in scan[w].todo
    /\ scan' = [scan EXCEPT ![w] =
                    [at |-> "check", previous |-> @.previous,
                     todo |-> @.todo \ {d},
                     seen |-> [@.seen EXCEPT
                                 ![d] = BuildSetupHealth(ZoneOf(d), answered)]]]
    /\ UNCHANGED <<env, saved, cache, workers, history>>

ChecksDone(w) ==
    /\ At(w, "check")
    /\ scan[w].todo = {}
    /\ scan' = [scan EXCEPT ![w] = [at |-> "alert", previous |-> @.previous,
                                    seen |-> @.seen]]
    /\ UNCHANGED <<env, saved, cache, workers, history>>

\* Mutant of MergeCheckResults: a check never overwrites a known status.
MergeKnownFirst(previous, seen) ==
    [d \in Domains |-> IF previous[d] # NoStatus THEN previous[d] ELSE seen[d]]

\* _merge_check_results
MergeCheckResults(previous, seen) ==
    [d \in Domains |-> IF seen[d] # NoStatus THEN seen[d] ELSE previous[d]]

\* audit("dns.health_alert"), when there is something to alert.
AuditAlerts(w) ==
    /\ At(w, "alert")
    /\ LET new == Alerts(scan[w].previous, scan[w].seen)
       IN  told' = [d \in Domains |-> IF d \in new THEN "alert" ELSE told[d]]
    /\ scan' = [scan EXCEPT ![w].at = "recover"]
    /\ UNCHANGED <<env, saved, cache, workers, astray, kills>>

AuditRecoveries(w) ==
    /\ At(w, "recover")
    /\ LET back == Recoveries(scan[w].previous, scan[w].seen)
       IN  told' = [d \in Domains |->
                       IF d \in back THEN "recovered" ELSE told[d]]
    /\ scan' = [scan EXCEPT ![w].at = "save"]
    /\ UNCHANGED <<env, saved, cache, workers, astray, kills>>

\* The domains for which the scan goes by another status than the saved one.
Misread(w) == {d \in Domains : scan[w].previous[d] # saved[d]}

\* Table and log agree again on the domains this scan wrote an event about.
SaveScan(w) ==
    /\ At(w, "save")
    /\ Save(w, MergeCheckResults(scan[w].previous, scan[w].seen))
    /\ astray' = (astray \cup Misread(w)) \ Written(w)
    /\ UNCHANGED <<env, workers, told, kills>>

-----------------------------------------------------------------------------
Step(w) ==
    \/ BeginScan(w)
    \/ ListFails(w)
    \/ ListAnswers(w)
    \/ \E d \in Domains, answered \in Answers : CheckDomain(w, d, answered)
    \/ ChecksDone(w)
    \/ AuditAlerts(w)
    \/ AuditRecoveries(w)
    \/ SaveScan(w)

Next ==
    \/ \E d \in Domains : ZoneChanges(d) \/ AccountChanges(d)
    \/ SwitchMonitor
    \/ PageReads \/ PageFills \/ ClearCache
    \/ \E w \in Workers : StartWorker(w) \/ KillWorker(w) \/ TickFails(w)
    \/ \E w \in Workers : Step(w) \/ IdleTick(w)

Spec == Init /\ [][Next]_vars

\* gunicorn keeps its workers alive and the monitor thread keeps running; ticks
\* are due, and the list and each check answer in full, now and then; nobody
\* keeps the monitor switched off for ever.
Fairness ==
    /\ SF_vars(SwitchMonitor /\ enabled')
    /\ \A w \in Workers :
        /\ WF_vars(StartWorker(w))
        /\ SF_vars(BeginScan(w))
        /\ SF_vars(ListAnswers(w))
        /\ WF_vars(ChecksDone(w))
        /\ WF_vars(AuditAlerts(w))
        /\ WF_vars(AuditRecoveries(w))
        /\ WF_vars(SaveScan(w))
        /\ \A d \in Domains : SF_vars(CheckDomain(w, d, Calls))

LiveSpec == Spec /\ Fairness

-----------------------------------------------------------------------------
\* Every variable has its type; a scan's record is that of one of its steps;
\* nothing of a dead process's cache is left.
TypeOK ==
    /\ zone \in [Domains -> Zones]
    /\ account \subseteq Domains
    /\ enabled \in BOOLEAN
    /\ saved \in Table
    /\ cached \in Table \cup {Missing} /\ page \in Table \cup {Missing}
    /\ up \subseteq Workers
    /\ holder \in up \cup {NoWorker}
    /\ scan \in [Workers -> Scans]
    /\ told \in [Domains -> {"nothing", "alert", "recovered"}]
    /\ astray \subseteq Domains
    /\ kills \in 0..MaxKills

\* Two workers never scan at the same time, whatever is killed and restarted:
\* "Only one Gunicorn worker should run background monitors".
OneMonitor == \A v, w \in Workers : ~At(v, "off") /\ ~At(w, "off") => v = w

\* Nothing about d waits to be saved, and since its last saved event no scan was
\* cut off between event and save, none went by another status than the saved
\* one (a stale cache entry, a SELECT that failed), and no empty list erased it.
Settled(d) == d \notin astray /\ \A w \in Workers : d \notin Written(w)

\* No transition is lost between one scan and the next, whatever check fails and
\* wherever a worker is killed before its first audit event
\* (maybe_run_dns_health_monitor): what the table calls bad was alerted and not
\* recovered since.
SavedMeansTold ==
    \A d \in Domains : saved[d] \in Bad /\ Settled(d) => told[d] = "alert"

\* The same of recoveries: an alert that stands is of a domain the table still
\* calls bad, so the scan that sees it healthy will say so.
RecoveryTold ==
    \A d \in Domains : told[d] = "alert" /\ Settled(d) => saved[d] \in Bad

\* "You only get alerts on transitions": an alert follows an alert of the same
\* domain only after a scan that was cut off, or went by another table.
RepeatsHaveCause ==
    [][\A w \in Workers :
          At(w, "alert") /\ At(w, "recover")'
            => \A d \in Alerts(scan[w].previous, scan[w].seen)
                           \ (astray \cup Misread(w)) :
                  told[d] # "alert"]_vars

BadForGood(d)  == [](d \in account /\ TrueStatus(zone[d]) \in Bad)
GoodForGood(d) == [](d \in account /\ TrueStatus(zone[d]) = "healthy")

\* Every worker is up and none has the lock: its file could not be opened when
\* they started, and nobody will try again.
Unmonitored == up = Workers /\ holder = NoWorker

\* A domain that stays bad is alerted, whichever worker has to take the monitor
\* over, though checks fail; a cut-off scan, or a stale or failed read of the
\* table, may leave the log wrong.
BadIsTold ==
    \A d \in Domains :
        <>BadForGood(d) => []<>(told[d] = "alert" \/ d \in astray \/ Unmonitored)

\* A domain that stays healthy is not left as an alert, with the same exceptions.
GoodIsTold ==
    \A d \in Domains :
        <>GoodForGood(d) => []<>(told[d] # "alert" \/ d \in astray \/ Unmonitored)

=============================================================================
