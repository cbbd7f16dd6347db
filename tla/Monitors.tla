------------------------------- MODULE Monitors -------------------------------
(***************************************************************************)
(* The monitor thread (start_dns_health_monitor): one loop runs the DNS    *)
(* scan of DnsMonitor and then the usage scan of QuotaMonitor, one tick    *)
(* after the other, in the worker that has the lock.  An exception ends    *)
(* the tick and never the loop: what is left of the tick is skipped, so a  *)
(* DNS scan that raises costs the usage scan its turn.                     *)
(*                                                                         *)
(* Each scan has its own switch, interval and saved state; they share the  *)
(* thread, the lock and the worker's death.                                *)
(***************************************************************************)
EXTENDS DnsMonitor, QuotaMonitor

VARIABLES
    turn,       \* where each worker's thread is in its tick: "dns" until the
                \* DNS scan is over (asleep or not), then "usage"
    usageOn     \* notifications and quota_monitor switched on

threadVars == <<vars, usageVars, turn, usageOn>>

ThreadInit ==
    /\ Init
    /\ UsageInit
    /\ turn = [w \in Workers |-> "dns"]
    /\ usageOn \in BOOLEAN

HasTurn(w, part) == ~At(w, "off") /\ turn[w] = part
GoesTo(w, part) == turn' = [turn EXCEPT ![w] = part]

-----------------------------------------------------------------------------
(* tick() *)

\* A step of the DNS scan; when it returns, the usage scan is next.
DnsStep(w) ==
    /\ HasTurn(w, "dns")
    /\ Step(w)
    /\ GoesTo(w, IF scan'[w] = Rest THEN "usage" ELSE "dns")
    /\ UNCHANGED <<usageVars, usageOn>>

\* maybe_run_dns_health_monitor returns at once: switched off, or not due.
DnsSkips(w) ==
    /\ HasTurn(w, "dns")
    /\ At(w, "rest")
    /\ IdleTick(w) \/ UNCHANGED vars
    /\ GoesTo(w, "usage")
    /\ UNCHANGED <<usageVars, usageOn>>

\* The exception is logged and the thread sleeps: no usage scan in this tick.
DnsFails(w) ==
    /\ HasTurn(w, "dns")
    /\ TickFails(w)
    /\ UNCHANGED <<turn, usageVars, usageOn>>

\* The scan's saves clear the cache the DNS state may be in.
UsageSaves == (ListNothing \/ SaveUsageScan) /\ DropCache

UsageStep(w) ==
    /\ HasTurn(w, "usage")
    /\ \/ UsageSaves
       \/ /\ \/ usageOn /\ BeginUsageScan
             \/ UsageListAnswers
             \/ \E d \in UsageDomains, answers \in BOOLEAN : FetchDomain(d, answers)
             \/ FetchesDone
             \/ AuditEvent
          /\ UNCHANGED vars
    /\ GoesTo(w, IF usage' = UsageRest THEN "dns" ELSE "usage")
    /\ UNCHANGED usageOn

\* maybe_run_quota_monitor returns at once.
UsageSkips(w) ==
    /\ HasTurn(w, "usage")
    /\ UsageAt("rest")
    /\ GoesTo(w, "dns")
    /\ UNCHANGED <<vars, usageVars, usageOn>>

\* An audit event or the save raises.
UsageFails(w) ==
    /\ HasTurn(w, "usage")
    /\ UsageAt("audit")
    /\ CutUsageScan
    /\ GoesTo(w, "dns")
    /\ UNCHANGED <<vars, usageOn>>

-----------------------------------------------------------------------------
(* Workers *)

ThreadStarts(w) ==
    /\ StartWorker(w)
    /\ UNCHANGED <<usageVars, turn, usageOn>>

\* Whichever scan the worker was in ends with it.
ThreadDies(w) ==
    /\ KillWorker(w)
    /\ IF HasTurn(w, "usage") /\ ~UsageAt("rest")
       THEN CutUsageScan
       ELSE UNCHANGED usageVars
    /\ GoesTo(w, "dns")
    /\ UNCHANGED usageOn

-----------------------------------------------------------------------------
(* The world around it. *)

DnsWorld ==
    /\ \/ \E d \in Domains : ZoneChanges(d) \/ AccountChanges(d)
       \/ PageReads \/ PageFills \/ ClearCache
    /\ UNCHANGED <<usageVars, turn, usageOn>>

UsageWorld ==
    /\ \/ \E g \in Gauges : LevelChanges(g)
       \/ \E m \in Mailboxes : MailboxChanges(m)
    /\ UNCHANGED <<vars, turn, usageOn>>

\* A save of the notification settings: either monitor's switch, or both.
SwitchMonitors ==
    /\ \/ SwitchMonitor /\ usageOn' \in BOOLEAN
       \/ UNCHANGED vars /\ usageOn' = ~usageOn
    /\ UNCHANGED <<usageVars, turn>>

-----------------------------------------------------------------------------
ThreadNext ==
    \/ DnsWorld \/ UsageWorld \/ SwitchMonitors
    \/ \E w \in Workers :
          \/ ThreadStarts(w) \/ ThreadDies(w)
          \/ DnsStep(w) \/ DnsSkips(w) \/ DnsFails(w)
          \/ UsageStep(w) \/ UsageSkips(w) \/ UsageFails(w)

ThreadSpec == ThreadInit /\ [][ThreadNext]_threadVars

-----------------------------------------------------------------------------
\* A thread is in one scan at a time, and the one usage scan there is belongs
\* to the worker with the lock.
UsageUnderLock ==
    /\ \A w \in Workers : turn[w] = "usage" => At(w, "rest")
    /\ ~UsageAt("rest") => holder \in Workers /\ HasTurn(holder, "usage")

\* "Only one Gunicorn worker should run background monitors": however workers
\* start and die, in whichever scan, two threads never both run, a thread is
\* in one scan at a time, and a usage scan never outlives the worker it ran in.
OneThread == OneMonitor /\ UsageUnderLock
=============================================================================
