--------------------------- MODULE Monitors_proofs ---------------------------
(***************************************************************************)
(* Proofs about the monitors, for any number of workers, domains and       *)
(* mailboxes and any kills.  SetupHealth: a healthy status can be trusted. *)
(* DnsMonitor: one monitor at a time, and a saved table that agrees with   *)
(* what was told.  QuotaMonitor: a saved flag means an alert was told, and *)
(* no alert is repeated without reason.  Monitors: the one thread          *)
(* implements both, one scan at a time.                                    *)
(***************************************************************************)
EXTENDS Monitors, TLAPS

(* SetupHealth *)

LEMMA NothingFound ==
    ASSUME NEW checks, OverallFromChecks(checks) = "healthy",
           NEW k \in DOMAIN checks
    PROVE  checks[k] \notin {"fail", "warn"}
  BY DEF OverallFromChecks, Found

\* What the mail host's check lets pass: no target to compare with, the target
\* in public, or the right CNAME in Cloudflare, live or not yet.
LEMMA MailPasses ==
    ASSUME NEW z \in Zone, NEW answered
    PROVE  /\ MailStatus(z, answered) # "warn"
           /\ z.server /\ MailStatus(z, answered) # "fail" =>
                 z.mail = "target" \/ z.cname = "right"
           /\ z.server /\ answered = Calls /\ MailStatus(z, answered) # "fail" =>
                 IF z.cname = "absent" THEN z.mail = "target"
                 ELSE z.cname = "right"
           /\ answered = Calls
                 /\ (z.server => IF z.cname = "absent" THEN z.mail = "target"
                                 ELSE z.cname = "right")
              => MailStatus(z, answered) # "fail"
  BY DEF MailStatus, Zone, Calls, Checks, MailChecks

\* A service that does not answer makes no domain look healthy: a check says
\* so only of a domain that MXroute has and, if it hosts its mail, whose mail
\* records are all right and whose mail host, if there is a target, points
\* there in public or at least in Cloudflare (build_setup_health).
THEOREM NoFalseAllClear ==
    ASSUME NEW z \in Zone, NEW answered,
           BuildSetupHealth(z, answered) = "healthy"
    PROVE  /\ z.onMx
           /\ z.hosting =>
                 /\ MailChecks \ {"mail"} \subseteq z.right
                 /\ z.server => z.mail = "target" \/ z.cname = "right"
           /\ "verification-key" \in answered => "verification" \in z.right
  <1> DEFINE hosts == "hosting" \notin answered \/ z.hosting
             public == PublicChecks(z, answered)
             checks == ApplyMailHosting(public, hosts)
  <1>1. CASE ~DomainOnMxroute(z, answered)
    <2>1. "mx" \in DOMAIN PendingChecks(z, answered)
          /\ PendingChecks(z, answered)["mx"] = "pending"
      BY DEF PendingChecks, Reported, MailChecks
    <2>2. "pending" \in Found(PendingChecks(z, answered))
      BY <2>1 DEF Found
    <2> QED
      BY <1>1, <2>2 DEF BuildSetupHealth, OverallNotOnMxroute
  <1>2. CASE DomainOnMxroute(z, answered)
    <2>1. OverallFromChecks(checks) = "healthy"
      BY <1>2 DEF BuildSetupHealth, NoStatus
    <2>2. /\ DOMAIN public = Reported(answered)
          /\ DOMAIN checks = Reported(answered)
      BY DEF PublicChecks, ApplyMailHosting
    <2>3. ASSUME NEW k \in Reported(answered),
                 hosts \/ k \notin MailChecks
          PROVE  IF k = "mail" THEN MailStatus(z, answered) # "fail"
                 ELSE k \in z.right
      <3>1. checks[k] = public[k]
        BY <2>2, <2>3 DEF ApplyMailHosting
      <3>2. checks[k] \notin {"fail", "warn"}
        BY <2>1, <2>2, NothingFound
      <3>3. public[k] =
               IF k = "mail" THEN MailStatus(z, answered)
               ELSE CheckStatus(k \in answered /\ k \in z.right,
                                k \in Optional)
        BY DEF PublicChecks
      <3> QED
        BY <3>1, <3>2, <3>3 DEF CheckStatus
    <2>4. /\ z.hosting => MailChecks \ {"mail"} \subseteq z.right
          /\ "verification-key" \in answered => "verification" \in z.right
      BY <2>3 DEF Reported, MailChecks
    <2>5. z.hosting /\ z.server => z.mail = "target" \/ z.cname = "right"
      BY <2>3, MailPasses DEF Reported, MailChecks
    <2> QED
      BY <1>2, <2>4, <2>5 DEF DomainOnMxroute
  <1> QED
    BY <1>1, <1>2

\* With every call answering, exactly those domains are healthy whose own
\* verification record is right too and whose mail host, if there is a target,
\* has the right CNAME in Cloudflare or, with none there, points to the target
\* in public.
THEOREM HealthyWhenRight ==
    ASSUME NEW z \in Zone
    PROVE  TrueStatus(z) = "healthy" <=>
              /\ z.onMx
              /\ z.hosting =>
                    /\ MailChecks \ {"mail"} \subseteq z.right
                    /\ z.server => IF z.cname = "absent" THEN z.mail = "target"
                                   ELSE z.cname = "right"
              /\ "verification" \in z.right
  <1> DEFINE mailRight ==
                z.server => IF z.cname = "absent" THEN z.mail = "target"
                            ELSE z.cname = "right"
             public == PublicChecks(z, Calls)
             hosts == "hosting" \notin Calls \/ z.hosting
             checks == ApplyMailHosting(public, hosts)
  <1>0. /\ hosts <=> z.hosting
        /\ Reported(Calls) = MailChecks \cup {"verification"}
        /\ DOMAIN checks = Reported(Calls)
        /\ DOMAIN public = Reported(Calls)
        /\ "mail" \in MailChecks
        /\ Reported(Calls) \subseteq Calls
    BY DEF Reported, Calls, Checks, PublicChecks, ApplyMailHosting, MailChecks
  <1>1. ASSUME TrueStatus(z) = "healthy"
        PROVE  /\ z.onMx
               /\ z.hosting => /\ MailChecks \ {"mail"} \subseteq z.right
                               /\ mailRight
               /\ "verification" \in z.right
    <2>1. /\ z.onMx
          /\ z.hosting => MailChecks \ {"mail"} \subseteq z.right
          /\ "verification" \in z.right
      BY <1>1, NoFalseAllClear DEF TrueStatus, Calls
    <2>2. ASSUME z.hosting PROVE mailRight
      <3>1. DomainOnMxroute(z, Calls) /\ "dns" \in Calls
        BY <2>1 DEF DomainOnMxroute, Calls
      <3>2. OverallFromChecks(checks) = "healthy"
        BY <1>1, <3>1 DEF TrueStatus, BuildSetupHealth
      <3>3. checks["mail"] # "fail"
        BY <1>0, <3>2, NothingFound
      <3>4. checks["mail"] = MailStatus(z, Calls)
        BY <1>0, <2>2 DEF ApplyMailHosting, PublicChecks
      <3> QED
        BY <3>3, <3>4, MailPasses
    <2> QED
      BY <2>1, <2>2
  <1>2. ASSUME z.onMx, "verification" \in z.right,
               z.hosting => /\ MailChecks \ {"mail"} \subseteq z.right
                            /\ mailRight
        PROVE  TrueStatus(z) = "healthy"
    <2>1. DomainOnMxroute(z, Calls) /\ "dns" \in Calls
      BY <1>2 DEF DomainOnMxroute, Calls
    <2>2. \A k \in DOMAIN checks : checks[k] \notin {"fail", "warn"}
      <3> SUFFICES ASSUME NEW k \in Reported(Calls)
                   PROVE  checks[k] \notin {"fail", "warn"}
        BY <1>0
      <3>1. CASE ~z.hosting /\ k \in MailChecks
        BY <1>0, <3>1 DEF ApplyMailHosting
      <3>2. CASE z.hosting \/ k \notin MailChecks
        <4>1. checks[k] = public[k]
          BY <1>0, <3>2 DEF ApplyMailHosting
        <4>2. CASE k = "mail"
          <5>1. mailRight
            BY <1>0, <1>2, <3>2, <4>2
          <5> QED
            BY <4>1, <4>2, <5>1, MailPasses DEF PublicChecks
        <4>3. CASE k # "mail"
          <5>1. k \in z.right /\ k \in Calls
            BY <1>0, <1>2, <3>2, <4>3
          <5> QED
            BY <4>1, <4>3, <5>1 DEF PublicChecks, CheckStatus
        <4> QED
          BY <4>2, <4>3
      <3> QED
        BY <3>1, <3>2
    <2>3. OverallFromChecks(checks) = "healthy"
      BY <2>2 DEF OverallFromChecks, Found
    <2> QED
      BY <2>1, <2>3 DEF TrueStatus, BuildSetupHealth
  <1> QED
    BY <1>1, <1>2

-----------------------------------------------------------------------------
(* DnsMonitor *)

\* Only the holder of the lock has a monitor thread.
HolderScans == \A w \in Workers : scan[w] # NoScan => w = holder

\* What a domain list that came may hold.
FoundNone(w) == ListAnswers(w) /\ account = {}
FoundSome(w) == ListAnswers(w) /\ account # {}

LEMMA ListFound ==
    \A w \in Workers : ListAnswers(w) => FoundNone(w) \/ FoundSome(w)
  BY DEF FoundNone, FoundSome

\* The events a scan has written are the last ones of their domains.
WrittenIsTold ==
    \A w \in Workers, d \in Domains :
        /\ scan[w].at \in {"recover", "save"}
                /\ d \in Alerts(scan[w].previous, scan[w].seen)
            => told[d] = "alert"
        /\ At(w, "save") /\ d \in Recoveries(scan[w].previous, scan[w].seen)
            => told[d] = "recovered"

\* With the events of the scan under way, SavedMeansTold and RecoveryTold are
\* inductive: neither speaks of what a scan believes to be saved.
ToldInv == WrittenIsTold /\ SavedMeansTold /\ RecoveryTold

\* The world, the caches and a tick that is not due touch neither a scan nor
\* the table nor the log.
OutsideStep ==
    \/ \E d \in Domains : ZoneChanges(d) \/ AccountChanges(d)
    \/ SwitchMonitor
    \/ PageReads \/ PageFills \/ ClearCache
    \/ \E w \in Workers : IdleTick(w)
    \/ UNCHANGED vars

LEMMA Outside ==
    ASSUME OutsideStep
    PROVE  UNCHANGED <<saved, up, holder, scan, told, astray, kills>>
  BY DEF OutsideStep, ZoneChanges, AccountChanges, SwitchMonitor, PageReads,
         PageFills, ClearCache, DropCache, IdleTick, vars, workers, history

\* A check reports one of the three statuses, or none.
LEMMA OverallType == \A checks : OverallFromChecks(checks) \in SavedStatus
  BY DEF OverallFromChecks, SavedStatus, Statuses, Bad

LEMMA PendingType == \A checks : OverallNotOnMxroute(checks) \in SavedStatus
  BY DEF OverallNotOnMxroute, SavedStatus, Statuses, Bad

LEMMA HealthType ==
    \A z, answered : BuildSetupHealth(z, answered) \in SavedStatus
  BY OverallType, PendingType DEF BuildSetupHealth, SavedStatus, NoStatus

\* The shape of a scan by its step.
LEMMA ScanShape ==
    ASSUME TypeOK, NEW w \in Workers
    PROVE  /\ scan[w].at \in {"off", "rest", "list", "check", "alert",
                              "recover", "save"}
           /\ At(w, "off") <=> scan[w] = NoScan
           /\ At(w, "rest") <=> scan[w] = Rest
           /\ At(w, "list") => scan[w] \in [at : {"list"}, previous : Table]
           /\ At(w, "check") =>
                 scan[w] \in [at : {"check"}, previous : Table,
                              todo : SUBSET Domains, seen : Table]
           /\ scan[w].at \in {"alert", "recover", "save"} =>
                 scan[w] \in [at : {"alert", "recover", "save"},
                              previous : Table, seen : Table]
           /\ NoScan # Rest
  <1>1. scan[w] \in Scans
    BY DEF TypeOK
  <1>2. CASE scan[w] = NoScan
    BY <1>2 DEF NoScan, Rest, At
  <1>3. CASE scan[w] = Rest
    BY <1>3 DEF NoScan, Rest, At
  <1>4. CASE scan[w] \in [at : {"list"}, previous : Table]
    BY <1>4 DEF NoScan, Rest, At
  <1>5. CASE scan[w] \in [at : {"check"}, previous : Table,
                          todo : SUBSET Domains, seen : Table]
    BY <1>5 DEF NoScan, Rest, At
  <1>6. CASE scan[w] \in [at : {"alert", "recover", "save"},
                          previous : Table, seen : Table]
    BY <1>6 DEF NoScan, Rest, At
  <1> QED
    BY <1>1, <1>2, <1>3, <1>4, <1>5, <1>6 DEF Scans

LEMMA MergeType ==
    ASSUME NEW previous \in Table, NEW seen \in Table
    PROVE  MergeCheckResults(previous, seen) \in Table
  BY DEF MergeCheckResults, Table

-----------------------------------------------------------------------------
(* Types. *)

LEMMA TypeInit == Init => TypeOK
  BY MonitorAssumption
  DEF Init, TypeOK, Table, Scans, NoScan, SavedStatus, NoStatus

LEMMA NothingType == Nothing \in Table
  BY DEF Nothing, Table, SavedStatus

LEMMA TypeNext == TypeOK /\ [Next]_vars => TypeOK'
  <1> SUFFICES ASSUME TypeOK, [Next]_vars PROVE TypeOK'
    OBVIOUS
  <1> USE MonitorAssumption
  <1>a. ASSUME NEW d \in Domains, ZoneChanges(d) PROVE TypeOK'
    BY <1>a DEF ZoneChanges, TypeOK, workers, history, cache
  <1>b. ASSUME NEW d \in Domains, AccountChanges(d) PROVE TypeOK'
    BY <1>b DEF AccountChanges, TypeOK, workers, history, cache
  <1>c. CASE SwitchMonitor
    BY <1>c DEF SwitchMonitor, TypeOK, workers, history, cache
  <1>d. CASE PageReads \/ PageFills \/ ClearCache
    BY <1>d DEF PageReads, PageFills, ClearCache, DropCache, TypeOK, env,
                workers, history
  <1>e. ASSUME NEW w \in Workers, StartWorker(w) PROVE TypeOK'
    <2>1. Rest \in Scans
      BY DEF Scans
    <2> QED
      BY <1>e, <2>1 DEF StartWorker, Acquires, TypeOK, env, history, cache
  <1>f. ASSUME NEW w \in Workers, KillWorker(w) PROVE TypeOK'
    <2>1. NoScan \in Scans
      BY DEF Scans
    <2>2. /\ scan' \in [Workers -> Scans]
          /\ astray' \subseteq Domains /\ kills' \in 0..MaxKills
      BY <1>f, <2>1 DEF KillWorker, CutOff, TypeOK, Written, Alerts, Recoveries
    <2>3. /\ up' \subseteq Workers /\ holder' \in up' \cup {NoWorker}
          /\ cached' \in Table \cup {Missing} /\ page' \in Table \cup {Missing}
      BY <1>f DEF KillWorker, TypeOK, cache
    <2> QED
      BY <1>f, <2>2, <2>3 DEF KillWorker, TypeOK, env
  <1>g. ASSUME NEW w \in Workers, TickFails(w) PROVE TypeOK'
    BY <1>g DEF TickFails, CutOff, TypeOK, env, workers, cache, Scans, Written,
                Alerts, Recoveries
  <1>h. ASSUME NEW w \in Workers, BeginScan(w) PROVE TypeOK'
    <2>1. PICK previous \in Table : Scanning(w, previous)
      BY <1>h, NothingType DEF BeginScan, TypeOK
    <2>2. scan' \in [Workers -> Scans]
      BY <2>1 DEF Scanning, TypeOK, Scans
    <2>3. cached' \in Table \cup {Missing}
      BY <1>h DEF BeginScan, TypeOK
    <2> QED
      BY <1>h, <2>2, <2>3 DEF BeginScan, TypeOK, env, workers, history
  <1>i. ASSUME NEW w \in Workers, ListFails(w) PROVE TypeOK'
    BY <1>i DEF ListFails, TypeOK, env, workers, history, cache, Scans
  <1>j. ASSUME NEW w \in Workers, FoundNone(w) PROVE TypeOK'
    BY <1>j, NothingType DEF FoundNone, ListAnswers, ListEmpty, Save, TypeOK,
        env, workers, Scans
  <1>k. ASSUME NEW w \in Workers, FoundSome(w) PROVE TypeOK'
    <2>1. scan[w] \in [at : {"list"}, previous : Table]
      BY <1>k, ScanShape DEF FoundSome, ListAnswers, ListDomains
    <2> QED
      BY <1>k, <2>1, NothingType DEF FoundSome, ListAnswers, ListDomains,
          TypeOK, env, workers, history, cache, Scans
  <1>l. ASSUME NEW w \in Workers, NEW d \in Domains, NEW answered \in Answers,
               CheckDomain(w, d, answered)
        PROVE  TypeOK'
    <2>1. scan[w] \in [at : {"check"}, previous : Table,
                       todo : SUBSET Domains, seen : Table]
      BY <1>l, ScanShape DEF CheckDomain
    <2> DEFINE s == [at |-> "check", previous |-> scan[w].previous,
                     todo |-> scan[w].todo \ {d},
                     seen |-> [scan[w].seen EXCEPT
                                 ![d] = BuildSetupHealth(ZoneOf(d), answered)]]
    <2>2. scan' = [scan EXCEPT ![w] = s]
      BY <1>l DEF CheckDomain, TypeOK
    <2>3. BuildSetupHealth(ZoneOf(d), answered) \in SavedStatus
      BY HealthType
    <2>4. s \in [at : {"check"}, previous : Table, todo : SUBSET Domains,
                 seen : Table]
      BY <2>1, <2>3 DEF Table
    <2> QED
      BY <1>l, <2>2, <2>4
      DEF CheckDomain, TypeOK, env, workers, history, cache, Scans
  <1>m. ASSUME NEW w \in Workers, ChecksDone(w) PROVE TypeOK'
    <2>1. scan[w] \in [at : {"check"}, previous : Table,
                       todo : SUBSET Domains, seen : Table]
      BY <1>m, ScanShape DEF ChecksDone
    <2> QED
      BY <1>m, <2>1 DEF ChecksDone, TypeOK, env, workers, history, cache, Scans
  <1>n. ASSUME NEW w \in Workers, AuditAlerts(w) PROVE TypeOK'
    <2>1. scan[w] \in [at : {"alert", "recover", "save"}, previous : Table,
                       seen : Table]
      BY <1>n, ScanShape DEF AuditAlerts, At
    <2>2. scan' \in [Workers -> Scans]
      BY <1>n, <2>1 DEF AuditAlerts, TypeOK, Scans
    <2>3. told' \in [Domains -> {"nothing", "alert", "recovered"}]
      BY <1>n DEF AuditAlerts, TypeOK
    <2> QED
      BY <1>n, <2>2, <2>3 DEF AuditAlerts, TypeOK, env, workers, cache
  <1>o. ASSUME NEW w \in Workers, AuditRecoveries(w) PROVE TypeOK'
    <2>1. scan[w] \in [at : {"alert", "recover", "save"}, previous : Table,
                       seen : Table]
      BY <1>o, ScanShape DEF AuditRecoveries, At
    <2> QED
      BY <1>o, <2>1 DEF AuditRecoveries, TypeOK, env, workers, cache, Scans
  <1>p. ASSUME NEW w \in Workers, SaveScan(w) PROVE TypeOK'
    <2>1. MergeCheckResults(scan[w].previous, scan[w].seen) \in Table
      BY <1>p, ScanShape, MergeType DEF SaveScan, At
    <2> QED
      BY <1>p, <2>1 DEF SaveScan, Save, Misread, TypeOK, env, workers, Scans
  <1>q. ASSUME NEW w \in Workers, IdleTick(w) PROVE TypeOK'
    BY <1>q DEF IdleTick, TypeOK, env, workers, history
  <1>r. CASE UNCHANGED vars
    BY <1>r DEF vars, env, workers, history, cache, TypeOK
  <1> QED
    BY <1>a, <1>b, <1>c, <1>d, <1>e, <1>f, <1>g, <1>h, <1>i, <1>j, <1>k, <1>l,
       <1>m, <1>n, <1>o, <1>p, <1>q, <1>r, ListFound DEF Next, Step

\* The variables of DnsMonitor keep their types.
THEOREM TypeCorrectness == Spec => []TypeOK
  BY TypeInit, TypeNext, PTL DEF Spec

-----------------------------------------------------------------------------
(* One monitor at a time. *)

OwnerInv == TypeOK /\ HolderScans

LEMMA OwnerNext == OwnerInv /\ [Next]_vars => HolderScans'
  <1> SUFFICES ASSUME OwnerInv, [Next]_vars PROVE HolderScans'
    OBVIOUS
  <1> USE DEF OwnerInv
  <1>1. \A w \in Workers : scan[w].at \notin {"off"} => scan[w] # NoScan
    BY DEF NoScan
  <1>2. TypeOK'
    BY TypeNext
  <1>3. \A w \in Workers : Step(w) =>
            /\ UNCHANGED holder
            /\ scan[w] # NoScan
            /\ \A v \in Workers \ {w} : scan'[v] = scan[v]
    BY <1>1 DEF Step, BeginScan, Scanning, ListFails, ListAnswers,
                ListEmpty, ListDomains, CheckDomain, ChecksDone, AuditAlerts,
                AuditRecoveries, SaveScan, Save, At,
                workers, TypeOK
  <1>4. \A w \in Workers : TickFails(w) =>
            /\ UNCHANGED holder
            /\ scan[w] # NoScan
            /\ \A v \in Workers \ {w} : scan'[v] = scan[v]
    BY <1>1 DEF TickFails, workers, TypeOK
  <1>5. ASSUME NEW w \in Workers, StartWorker(w) PROVE HolderScans'
    BY <1>5, MonitorAssumption DEF StartWorker, Acquires, HolderScans, TypeOK
  <1>6. ASSUME NEW w \in Workers, KillWorker(w) PROVE HolderScans'
    BY <1>6 DEF KillWorker, HolderScans, TypeOK
  <1>7. CASE OutsideStep
    BY <1>7, Outside DEF HolderScans
  <1>8. ASSUME NEW w \in Workers, Step(w) \/ TickFails(w) PROVE HolderScans'
    BY <1>3, <1>4, <1>8 DEF HolderScans
  <1> QED
    BY <1>5, <1>6, <1>7, <1>8 DEF Next, OutsideStep

LEMMA OwnerInvariant == Spec => []OwnerInv
  <1>1. Init => OwnerInv
    BY TypeInit DEF Init, OwnerInv, HolderScans
  <1>2. OwnerInv /\ [Next]_vars => OwnerInv'
    BY TypeNext, OwnerNext DEF OwnerInv
  <1> QED
    BY <1>1, <1>2, PTL DEF Spec

\* Two workers never scan at the same time.
THEOREM OneMonitorHolds == Spec => []OneMonitor
  <1>1. OwnerInv => OneMonitor
    BY ScanShape DEF OwnerInv, HolderScans, OneMonitor
  <1> QED
    BY <1>1, OwnerInvariant, PTL

-----------------------------------------------------------------------------
(* The table agrees with what was told. *)

\* The events written are the monitor's alone.
LEMMA WrittenByHolder ==
    ASSUME HolderScans, NEW w \in Workers, scan[w] # NoScan,
           NEW v \in Workers, v # w
    PROVE  scan[v] = NoScan /\ Written(v) = {}
  BY DEF HolderScans, Written, NoScan

\* A step that touches neither the table nor what was told.
LEMMA Quiet ==
    ASSUME UNCHANGED <<saved, told, astray>>,
           \A w \in Workers : Written(w)' = Written(w)
    PROVE  /\ SavedMeansTold => SavedMeansTold'
           /\ RecoveryTold => RecoveryTold'
  <1>1. \A d \in Domains : Settled(d)' = Settled(d)
    BY DEF Settled
  <1> QED
    BY <1>1 DEF SavedMeansTold, RecoveryTold

\* A step of the scan before its audit events.
EarlyStep(w) ==
    \/ BeginScan(w) \/ ListFails(w) \/ FoundSome(w) \/ ChecksDone(w)
    \/ \E d \in Domains, answered \in Answers : CheckDomain(w, d, answered)

LEMMA EarlyStepQuiet ==
    ASSUME TypeOK, NEW w \in Workers, EarlyStep(w)
    PROVE  /\ UNCHANGED <<saved, told, astray>>
           /\ \A v \in Workers \ {w} : scan'[v] = scan[v]
           /\ scan'[w].at \in {"rest", "list", "check", "alert"}
           /\ \A v \in Workers : Written(v)' = Written(v)
  <1>1. CASE BeginScan(w)
    <2>1. /\ scan[w].at = "rest" /\ scan'[w].at = "list"
          /\ \A v \in Workers \ {w} : scan'[v] = scan[v]
      BY <1>1 DEF BeginScan, Scanning, At, TypeOK
    <2> QED
      BY <1>1, <2>1 DEF BeginScan, history, Written
  <1>2. CASE ListFails(w)
    BY <1>2 DEF ListFails, At, env, workers, history, Written, TypeOK, Rest
  <1>3. CASE FoundSome(w)
    BY <1>3 DEF FoundSome, ListAnswers, ListDomains, At, env, workers,
        history, Written, TypeOK, Rest
  <1>4. CASE ChecksDone(w)
    BY <1>4 DEF ChecksDone, At, env, workers, history, Written, TypeOK, Rest
  <1>5. ASSUME NEW d \in Domains, NEW answered \in Answers,
               CheckDomain(w, d, answered)
        PROVE  /\ UNCHANGED <<saved, told, astray>>
               /\ \A v \in Workers \ {w} : scan'[v] = scan[v]
               /\ scan'[w].at \in {"rest", "list", "check", "alert"}
               /\ \A v \in Workers : Written(v)' = Written(v)
    BY <1>5 DEF CheckDomain, At, env, workers, history, Written, TypeOK, Rest
  <1> QED
    BY <1>1, <1>2, <1>3, <1>4, <1>5 DEF EarlyStep

LEMMA WrittenNext ==
    ASSUME OwnerInv, WrittenIsTold, [Next]_vars
    PROVE  WrittenIsTold'
  <1> USE DEF OwnerInv
  <1>0. NoScan # Rest /\ NoScan.at = "off" /\ Rest.at = "rest"
    BY DEF NoScan, Rest
  <1>1. CASE OutsideStep
    BY <1>1, Outside DEF WrittenIsTold, At
  <1>3. ASSUME NEW w \in Workers,
               StartWorker(w) \/ KillWorker(w) \/ TickFails(w)
        PROVE  WrittenIsTold'
    BY <1>0, <1>3 DEF StartWorker, KillWorker, TickFails, WrittenIsTold, At,
                      history, TypeOK
  <1>4. ASSUME NEW w \in Workers, EarlyStep(w)
        PROVE  WrittenIsTold'
    <2>1. UNCHANGED told /\ \A v \in Workers \ {w} : scan'[v] = scan[v]
      BY <1>4, EarlyStepQuiet
    <2>2. scan'[w].at \notin {"recover", "save"}
      BY <1>4, EarlyStepQuiet
    <2> QED
      BY <2>1, <2>2 DEF WrittenIsTold, At
  <1>5. ASSUME NEW w \in Workers, SaveScan(w) \/ FoundNone(w)
        PROVE  WrittenIsTold'
    <2>1. scan'[w] = Rest /\ \A v \in Workers \ {w} : scan'[v] = scan[v]
      BY <1>5 DEF SaveScan, FoundNone, ListAnswers, ListEmpty, Save, TypeOK
    <2>2. UNCHANGED told
      BY <1>5 DEF SaveScan, FoundNone, ListAnswers, ListEmpty
    <2> QED
      BY <1>0, <2>1, <2>2 DEF WrittenIsTold, At
  <1>6. ASSUME NEW w \in Workers, AuditAlerts(w) \/ AuditRecoveries(w)
        PROVE  WrittenIsTold'
    <2>1. scan[w] \in [at : {"alert", "recover", "save"}, previous : Table,
                       seen : Table]
      BY <1>6, ScanShape DEF AuditAlerts, AuditRecoveries, At
    <2>2. \A v \in Workers \ {w} : scan'[v] = NoScan
      BY <1>0, <1>6, <2>1, WrittenByHolder
      DEF AuditAlerts, AuditRecoveries, TypeOK
    <2>3. /\ scan'[w].previous = scan[w].previous
          /\ scan'[w].seen = scan[w].seen
      BY <1>6, <2>1 DEF AuditAlerts, AuditRecoveries, TypeOK
    <2> DEFINE new == Alerts(scan[w].previous, scan[w].seen)
               back == Recoveries(scan[w].previous, scan[w].seen)
    <2>4. new \cap back = {}
      BY DEF Alerts, Recoveries
    <2>5. CASE AuditAlerts(w)
      <3>1. scan'[w].at = "recover"
        BY <2>1, <2>5 DEF AuditAlerts, TypeOK
      <3>2. \A d \in Domains : d \in new => told'[d] = "alert"
        BY <2>5 DEF AuditAlerts
      <3> QED
        BY <1>0, <2>2, <2>3, <3>1, <3>2 DEF WrittenIsTold, At
    <2>6. CASE AuditRecoveries(w)
      <3>1. scan[w].at = "recover" /\ scan'[w].at = "save"
        BY <2>1, <2>6 DEF AuditRecoveries, TypeOK, At
      <3>2. \A d \in Domains : d \in back => told'[d] = "recovered"
        BY <2>6 DEF AuditRecoveries
      <3>3. \A d \in Domains : d \in new => told'[d] = "alert"
        BY <2>4, <2>6, <3>1 DEF AuditRecoveries, WrittenIsTold
      <3> QED
        BY <1>0, <2>2, <2>3, <3>1, <3>2, <3>3 DEF WrittenIsTold, At
    <2> QED
      BY <1>6, <2>5, <2>6
  <1> QED
    BY <1>1, <1>3, <1>4, <1>5, <1>6, ListFound
    DEF Next, Step, EarlyStep, OutsideStep

\* What each step of the scan does to the events waiting for the save.
LEMMA WrittenSteps ==
    ASSUME OwnerInv, NEW w \in Workers
    PROVE  LET new  == Alerts(scan[w].previous, scan[w].seen)
               back == Recoveries(scan[w].previous, scan[w].seen)
           IN  /\ AuditAlerts(w) => Written(w) = {} /\ Written(w)' = new
               /\ AuditRecoveries(w) =>
                     Written(w) = new /\ Written(w)' = new \cup back
               /\ SaveScan(w) => Written(w) = new \cup back /\ Written(w)' = {}
               /\ FoundNone(w) => Written(w) = {} /\ Written(w)' = {}
               /\ AuditAlerts(w) \/ AuditRecoveries(w) \/ SaveScan(w)
                     \/ FoundNone(w) =>
                  \A v \in Workers \ {w} : Written(v) = {} /\ Written(v)' = {}
  <1> USE DEF OwnerInv
  <1> DEFINE new  == Alerts(scan[w].previous, scan[w].seen)
             back == Recoveries(scan[w].previous, scan[w].seen)
  <1>0. NoScan # Rest /\ NoScan.at = "off" /\ Rest.at = "rest"
    BY DEF NoScan, Rest
  <1>1. CASE AuditAlerts(w)
    <2>1. scan[w] \in [at : {"alert", "recover", "save"}, previous : Table,
                       seen : Table] /\ scan[w].at = "alert"
      BY <1>1, ScanShape DEF AuditAlerts, At
    <2>2. /\ scan'[w].at = "recover"
          /\ scan'[w].previous = scan[w].previous
          /\ scan'[w].seen = scan[w].seen
          /\ \A v \in Workers \ {w} : scan'[v] = scan[v]
      BY <1>1, <2>1 DEF AuditAlerts, TypeOK
    <2>3. \A v \in Workers \ {w} : scan[v] = NoScan
      BY <1>0, <2>1, WrittenByHolder
    <2> QED
      BY <1>0, <1>1, <2>1, <2>2, <2>3
      DEF Written, AuditRecoveries, SaveScan, FoundNone, ListAnswers,
          ListEmpty, At
  <1>2. CASE AuditRecoveries(w)
    <2>1. scan[w] \in [at : {"alert", "recover", "save"}, previous : Table,
                       seen : Table] /\ scan[w].at = "recover"
      BY <1>2, ScanShape DEF AuditRecoveries, At
    <2>2. /\ scan'[w].at = "save"
          /\ scan'[w].previous = scan[w].previous
          /\ scan'[w].seen = scan[w].seen
          /\ \A v \in Workers \ {w} : scan'[v] = scan[v]
      BY <1>2, <2>1 DEF AuditRecoveries, TypeOK
    <2>3. \A v \in Workers \ {w} : scan[v] = NoScan
      BY <1>0, <2>1, WrittenByHolder
    <2> QED
      BY <1>0, <1>2, <2>1, <2>2, <2>3
      DEF Written, AuditAlerts, SaveScan, FoundNone, ListAnswers, ListEmpty, At
  <1>3. CASE SaveScan(w) \/ FoundNone(w)
    <2>1. scan[w].at \in {"save", "list"}
      BY <1>3 DEF SaveScan, FoundNone, ListAnswers, ListEmpty, At
    <2>2. scan'[w] = Rest /\ \A v \in Workers \ {w} : scan'[v] = scan[v]
      BY <1>3 DEF SaveScan, FoundNone, ListAnswers, ListEmpty, Save, TypeOK
    <2>3. \A v \in Workers \ {w} : scan[v] = NoScan
      BY <1>0, <2>1, WrittenByHolder
    <2> QED
      BY <1>0, <1>3, <2>1, <2>2, <2>3
      DEF Written, AuditAlerts, AuditRecoveries, SaveScan, FoundNone,
          ListAnswers, ListEmpty, At
  <1> QED
    BY <1>1, <1>2, <1>3

LEMMA CutOffSteps ==
    ASSUME OwnerInv, NEW w \in Workers, KillWorker(w) \/ TickFails(w)
    PROVE  /\ UNCHANGED <<saved, told>>
           /\ \A d \in Domains : Settled(d)' => Settled(d)
  <1> USE DEF OwnerInv
  <1>1. \A v \in Workers \ {w} : scan'[v] = scan[v]
    BY DEF KillWorker, TickFails, TypeOK
  <1>2. astray' = astray \cup Written(w) /\ UNCHANGED <<saved, told>>
    BY DEF KillWorker, TickFails, CutOff
  <1>3. \A v \in Workers \ {w} : Written(v)' = Written(v)
    BY <1>1 DEF Written
  <1> QED
    BY <1>2, <1>3 DEF Settled

LEMMA StartWorkerQuiet ==
    ASSUME OwnerInv, NEW w \in Workers, StartWorker(w)
    PROVE  /\ UNCHANGED <<saved, told, astray>>
           /\ \A v \in Workers : Written(v)' = Written(v)
  <1> USE DEF OwnerInv
  <1>1. scan[w] = NoScan
    BY MonitorAssumption DEF StartWorker, HolderScans, TypeOK
  <1> QED
    BY <1>1 DEF StartWorker, Written, NoScan, Rest, TypeOK, env, history

\* The save: what the scan read is the table's, or the domain goes astray.
LEMMA SaveNextTold ==
    ASSUME OwnerInv, ToldInv, NEW w \in Workers, SaveScan(w)
    PROVE  SavedMeansTold' /\ RecoveryTold'
  <1> USE DEF OwnerInv, ToldInv
  <1> DEFINE new  == Alerts(scan[w].previous, scan[w].seen)
             back == Recoveries(scan[w].previous, scan[w].seen)
  <1>1. /\ UNCHANGED told /\ scan[w].at = "save"
        /\ saved' = MergeCheckResults(scan[w].previous, scan[w].seen)
        /\ astray' = (astray \cup Misread(w)) \ Written(w)
    BY DEF SaveScan, Save, At
  <1>2. Written(w) = new \cup back
    BY WrittenSteps
  <1>3. scan[w].seen \in Table /\ scan[w].previous \in Table
    BY <1>1, ScanShape
  <1>4. \A d \in new : told[d] = "alert" /\ saved'[d] \in Bad
    BY <1>1 DEF WrittenIsTold, Alerts, MergeCheckResults, Bad, NoStatus
  <1>5. \A d \in back : told[d] = "recovered" /\ saved'[d] \notin Bad
    BY <1>1 DEF WrittenIsTold, Recoveries, MergeCheckResults, Bad, NoStatus, At
  <1>6. ASSUME NEW d \in Domains, Settled(d)', d \notin new \cup back
        PROVE  Settled(d) /\ (saved'[d] \in Bad <=> saved[d] \in Bad)
    <2>1. d \notin astray /\ scan[w].previous[d] = saved[d]
      BY <1>1, <1>2, <1>6 DEF Settled, Misread
    <2>2. \A v \in Workers : d \notin Written(v)
      BY <1>2, <1>6, WrittenSteps
    <2>3. saved'[d] \in Bad <=> saved[d] \in Bad
      BY <1>1, <1>3, <1>6, <2>1
      DEF MergeCheckResults, Alerts, Recoveries, Bad, NoStatus, Table,
          SavedStatus, Statuses
    <2> QED
      BY <2>1, <2>2, <2>3 DEF Settled
  <1> QED
    BY <1>1, <1>4, <1>5, <1>6 DEF SavedMeansTold, RecoveryTold

LEMMA ToldNext ==
    ASSUME OwnerInv, ToldInv, [Next]_vars
    PROVE  SavedMeansTold' /\ RecoveryTold'
  <1> USE DEF OwnerInv, ToldInv
  <1>1. CASE OutsideStep
    <2>1. \A w \in Workers : Written(w)' = Written(w)
      BY <1>1, Outside DEF Written
    <2> QED
      BY <1>1, <2>1, Outside, Quiet
  <1>2. ASSUME NEW w \in Workers, StartWorker(w)
        PROVE  SavedMeansTold' /\ RecoveryTold'
    BY <1>2, StartWorkerQuiet, Quiet
  <1>3. ASSUME NEW w \in Workers, KillWorker(w) \/ TickFails(w)
        PROVE  SavedMeansTold' /\ RecoveryTold'
    BY <1>3, CutOffSteps DEF SavedMeansTold, RecoveryTold
  <1>4. ASSUME NEW w \in Workers, EarlyStep(w)
        PROVE  SavedMeansTold' /\ RecoveryTold'
    BY <1>4, EarlyStepQuiet, Quiet
  <1>5. ASSUME NEW w \in Workers, AuditAlerts(w) \/ AuditRecoveries(w)
        PROVE  SavedMeansTold' /\ RecoveryTold'
    <2> DEFINE new  == Alerts(scan[w].previous, scan[w].seen)
               back == Recoveries(scan[w].previous, scan[w].seen)
    <2>1. UNCHANGED <<saved, astray>>
      BY <1>5 DEF AuditAlerts, AuditRecoveries
    <2>2. \A d \in Domains : Settled(d)' =>
             Settled(d) /\ (AuditAlerts(w) => d \notin new)
             /\ (AuditRecoveries(w) => d \notin back)
      BY <1>5, <2>1, WrittenSteps DEF Settled
    <2>3. \A d \in Domains : Settled(d)' => told'[d] = told[d]
      BY <1>5, <2>2 DEF AuditAlerts, AuditRecoveries
    <2> QED
      BY <2>1, <2>2, <2>3 DEF SavedMeansTold, RecoveryTold
  <1>6. ASSUME NEW w \in Workers, FoundNone(w)
        PROVE  SavedMeansTold' /\ RecoveryTold'
    <2>1. /\ UNCHANGED told
          /\ \A d \in Domains : saved'[d] = NoStatus
          /\ astray' = astray \cup {d \in Domains : saved[d] # NoStatus}
      BY <1>6 DEF FoundNone, ListAnswers, ListEmpty, Save, Nothing
    <2>2. \A d \in Domains :
             Settled(d)' => Settled(d) /\ saved[d] = NoStatus
      BY <1>6, <2>1, WrittenSteps DEF Settled
    <2> QED
      BY <2>1, <2>2 DEF SavedMeansTold, RecoveryTold, Bad, NoStatus
  <1> QED
    BY <1>1, <1>2, <1>3, <1>4, <1>5, <1>6, SaveNextTold, ListFound
    DEF Next, Step, EarlyStep, OutsideStep

LEMMA ToldInvariant == Spec => [](OwnerInv /\ ToldInv)
  <1>1. Init => OwnerInv /\ ToldInv
    BY TypeInit DEF Init, OwnerInv, HolderScans, ToldInv, WrittenIsTold,
                    SavedMeansTold, RecoveryTold, NoScan, NoStatus, Bad, At
  <1>2. OwnerInv /\ ToldInv /\ [Next]_vars => OwnerInv' /\ ToldInv'
    BY TypeNext, OwnerNext, WrittenNext, ToldNext DEF OwnerInv, ToldInv
  <1> QED
    BY <1>1, <1>2, PTL DEF Spec

\* What the saved table calls bad was alerted, unless the domain went astray:
\* its scan was cut off, or went by another status than the saved one.
THEOREM SavedMeansToldHolds == Spec => []SavedMeansTold
  BY ToldInvariant, PTL DEF ToldInv

\* And an alert that stands is of a domain the table still calls bad, with the
\* same exception.
THEOREM RecoveryToldHolds == Spec => []RecoveryTold
  BY ToldInvariant, PTL DEF ToldInv

\* An alert follows an alert only where a scan was cut off, or went by another
\* status than the saved one.
THEOREM RepeatsHaveCauseHolds == Spec => RepeatsHaveCause
  <1> DEFINE Caused ==
        \A w \in Workers :
            At(w, "alert") /\ At(w, "recover")'
              => \A d \in Alerts(scan[w].previous, scan[w].seen)
                             \ (astray \cup Misread(w)) :
                    told[d] # "alert"
  <1>1. OwnerInv /\ ToldInv => Caused
    <2> SUFFICES ASSUME OwnerInv, ToldInv, NEW w \in Workers, At(w, "alert"),
                        NEW d \in Alerts(scan[w].previous, scan[w].seen)
                                   \ (astray \cup Misread(w))
                 PROVE  told[d] # "alert"
      OBVIOUS
    <2>1. d \in Domains /\ saved[d] \notin Bad /\ d \notin astray
      BY DEF Alerts, Misread
    <2>2. \A v \in Workers : Written(v) = {}
      BY WrittenByHolder DEF OwnerInv, Written, At, NoScan
    <2> QED
      BY <2>1, <2>2 DEF ToldInv, RecoveryTold, Settled
  <1>2. OwnerInv /\ ToldInv => [Caused]_vars
    BY <1>1
  <1> QED
    BY <1>2, ToldInvariant, PTL DEF RepeatsHaveCause

-----------------------------------------------------------------------------
(* QuotaMonitor *)

\* The events written are the last of their gauges.
UsageWrittenIsTold ==
    UsageAt("audit") => \A g \in UsageWritten :
        usageTold[g] = IF g \in UsageAlerts(usage.previous, usage.seen) THEN "alert"
                       ELSE "recovered"

\* The other half of FlagMeansTold: an alert whose flag is gone may be
\* repeated, and has its reason.
ReasonToRepeat ==
    \A g \in Gauges :
        usageTold[g] = "alert" /\ g \notin flag /\ g \notin UsageWritten
                      => reasons[g] # {}

\* Nobody else saves the flags: a scan goes by what it will replace, or by none.
PreviousIsFlag == ~UsageAt("rest") => usage.previous \in {flag, {}}

UsageInv == UsageTypeOK /\ PreviousIsFlag /\ UsageWrittenIsTold
               /\ FlagMeansTold /\ ReasonToRepeat /\ NoBareRepeat

\* Which events come before a stage.
LEMMA WrittenForm ==
    ASSUME UsageTypeOK
    PROVE  /\ ~UsageAt("audit") => UsageWritten = {}
           /\ UsageAt("audit") =>
                 /\ usage \in [at : {"audit"}, previous : SUBSET Gauges, stage : 1..5,
                     seen : Readings]
                 /\ UsageWritten =
                    {g \in Gauges :
                       \/ g \in UsageAlerts(usage.previous, usage.seen)
                             /\ (\/ g[2] = "quota" /\ usage.stage > 1
                                 \/ g[2] = "send" /\ usage.stage > 3)
                       \/ g \in UsageRecoveries(usage.previous, usage.seen)
                             /\ (\/ g[2] = "quota" /\ usage.stage > 2
                                 \/ g[2] = "send" /\ usage.stage > 4)}
  <1>1. ~UsageAt("audit") => UsageWritten = {}
    BY DEF UsageWritten
  <1>2. ASSUME UsageAt("audit")
        PROVE  usage \in [at : {"audit"}, previous : SUBSET Gauges, stage : 1..5,
                     seen : Readings]
    BY <1>2 DEF UsageTypeOK, UsageScans, UsageAt, UsageRest
  <1>3. ASSUME UsageAt("audit")
        PROVE  UsageWritten =
               {g \in Gauges :
                  \/ g \in UsageAlerts(usage.previous, usage.seen)
                        /\ (\/ g[2] = "quota" /\ usage.stage > 1
                            \/ g[2] = "send" /\ usage.stage > 3)
                  \/ g \in UsageRecoveries(usage.previous, usage.seen)
                        /\ (\/ g[2] = "quota" /\ usage.stage > 2
                            \/ g[2] = "send" /\ usage.stage > 4)}
    <2> DEFINE previous == usage.previous
               seen == usage.seen
    <2>0. previous \subseteq Gauges
      BY <1>2, <1>3
    <2>1. /\ EventsOf(1, previous, seen) =
                {g \in UsageAlerts(previous, seen) : g[2] = "quota"}
          /\ EventsOf(2, previous, seen) =
                {g \in UsageRecoveries(previous, seen) : g[2] = "quota"}
          /\ EventsOf(3, previous, seen) =
                {g \in UsageAlerts(previous, seen) : g[2] = "send"}
          /\ EventsOf(4, previous, seen) =
                {g \in UsageRecoveries(previous, seen) : g[2] = "send"}
      BY DEF EventsOf, EventMeter
    <2>2. /\ UsageAlerts(previous, seen) \subseteq Gauges
          /\ UsageRecoveries(previous, seen) \subseteq Gauges
      BY <2>0 DEF UsageAlerts, Over, UsageRecoveries
    <2>3. UsageWritten = UNION {EventsOf(i, previous, seen) : i \in 1..(usage.stage - 1)}
      BY <1>3 DEF UsageWritten
    <2>4. usage.stage \in 1..5
      BY <1>2, <1>3
    <2>5. CASE usage.stage = 1
      <3>1. 1..(usage.stage - 1) = {}
        BY <2>5
      <3> QED
        BY <2>3, <2>5, <3>1
    <2>6. CASE usage.stage = 2
      <3>1. 1..(usage.stage - 1) = {1}
        BY <2>6
      <3>2. UsageWritten = EventsOf(1, previous, seen)
        BY <2>3, <3>1
      <3> QED
        BY <2>1, <2>2, <2>6, <3>2
    <2>7. CASE usage.stage = 3
      <3>1. 1..(usage.stage - 1) = {1, 2}
        BY <2>7
      <3>2. UsageWritten = EventsOf(1, previous, seen) \cup EventsOf(2, previous, seen)
        BY <2>3, <3>1
      <3> QED
        BY <2>1, <2>2, <2>7, <3>2
    <2>8. CASE usage.stage = 4
      <3>1. 1..(usage.stage - 1) = {1, 2, 3}
        BY <2>8
      <3>2. UsageWritten = EventsOf(1, previous, seen) \cup EventsOf(2, previous, seen)
                        \cup EventsOf(3, previous, seen)
        BY <2>3, <3>1
      <3> QED
        BY <2>1, <2>2, <2>8, <3>2
    <2>9. CASE usage.stage = 5
      <3>1. 1..(usage.stage - 1) = {1, 2, 3, 4}
        BY <2>9
      <3>2. UsageWritten = EventsOf(1, previous, seen) \cup EventsOf(2, previous, seen)
                        \cup EventsOf(3, previous, seen) \cup EventsOf(4, previous, seen)
        BY <2>3, <3>1
      <3> QED
        BY <2>1, <2>2, <2>9, <3>2
    <2> QED
      BY <2>4, <2>5, <2>6, <2>7, <2>8, <2>9
  <1> QED
    BY <1>1, <1>2, <1>3

-----------------------------------------------------------------------------
(* Types. *)

LEMMA UsageTypeInit == UsageInit => UsageTypeOK
  BY QuotaAssumption DEF UsageInit, UsageTypeOK, UsageScans, UsageRest

LEMMA EventsType ==
    ASSUME NEW stage, NEW previous \in SUBSET Gauges, NEW seen
    PROVE  EventsOf(stage, previous, seen) \subseteq Gauges
  BY DEF EventsOf, UsageAlerts, Over, UsageRecoveries

LEMMA UsageTypeNext == UsageTypeOK /\ [UsageNext]_usageVars => UsageTypeOK'
  <1> SUFFICES ASSUME UsageTypeOK, [UsageNext]_usageVars PROVE UsageTypeOK'
    OBVIOUS
  <1> USE QuotaAssumption
  <1>a. ASSUME NEW g \in Gauges, LevelChanges(g) PROVE UsageTypeOK'
    BY <1>a DEF LevelChanges, UsageTypeOK
  <1>b. ASSUME NEW m \in Mailboxes, MailboxChanges(m) PROVE UsageTypeOK'
    BY <1>b DEF MailboxChanges, UsageTypeOK
  <1>d. CASE CutUsageScan
    BY <1>d DEF CutUsageScan, UsageTypeOK, world, UsageScans
  <1>e. CASE BeginUsageScan
    BY <1>e DEF BeginUsageScan, UsageTypeOK, world, usageHistory, UsageScans
  <1>f. CASE ListNothing
    BY <1>f DEF ListNothing, Missed, UsageTypeOK, world, UsageScans
  <1>g. CASE UsageListAnswers
    <2>1. usage \in [at : {"list"}, previous : SUBSET Gauges]
      BY <1>g DEF UsageListAnswers, UsageTypeOK, UsageScans, UsageAt, UsageRest
    <2>2. Unread \in Readings
      BY DEF Unread, Readings
    <2> QED
      BY <1>g, <2>1, <2>2 DEF UsageListAnswers, UsageTypeOK, world,
          usageHistory, UsageScans
  <1>h. ASSUME NEW d \in UsageDomains, NEW answers \in BOOLEAN,
               FetchDomain(d, answers)
        PROVE  UsageTypeOK'
    <2>1. usage \in [at : {"fetch"}, previous : SUBSET Gauges,
                     todo : SUBSET UsageDomains,
                    seen : Readings]
      BY <1>h DEF FetchDomain, UsageTypeOK, UsageScans, UsageAt, UsageRest
    <2>2. \A g \in Gauges : Reading(g, answers) \in Levels \cup {NotSeen}
      BY DEF Reading, UsageTypeOK
    <2> DEFINE read == [g \in Gauges |-> IF DomainOf[g[1]] = d
                                         THEN Reading(g, answers)
                                         ELSE usage.seen[g]]
    <2>3. read \in Readings
      BY <2>1, <2>2 DEF Readings
    <2>4. usage' \in UsageScans
      BY <1>h, <2>1, <2>3 DEF FetchDomain, UsageScans
    <2> QED
      BY <1>h, <2>4 DEF FetchDomain, UsageTypeOK, world, usageHistory
  <1>i. CASE FetchesDone
    <2>1. usage \in [at : {"fetch"}, previous : SUBSET Gauges,
                     todo : SUBSET UsageDomains,
                    seen : Readings]
      BY <1>i DEF FetchesDone, UsageTypeOK, UsageScans, UsageAt, UsageRest
    <2> QED
      BY <1>i, <2>1 DEF FetchesDone, UsageTypeOK, world, usageHistory,
          UsageScans
  <1>j. CASE AuditEvent
    <2>1. usage \in [at : {"audit"}, previous : SUBSET Gauges, stage : 1..5,
                     seen : Readings]
      BY <1>j, WrittenForm DEF AuditEvent
    <2>2. usage' \in UsageScans
      BY <1>j, <2>1 DEF AuditEvent, UsageScans
    <2>3. usageTold' \in [Gauges -> {"nothing", "alert", "recovered"}]
      BY <1>j DEF AuditEvent, UsageTypeOK, Says
    <2>4. reasons' \in [Gauges -> SUBSET {"cut", "missed", "below"}]
      BY <1>j DEF AuditEvent, UsageTypeOK
    <2>5. bare' \subseteq Gauges /\ steady' \subseteq Gauges
      BY <1>j, <2>1, EventsType DEF AuditEvent, UsageTypeOK
    <2> QED
      BY <1>j, <2>2, <2>3, <2>4, <2>5 DEF AuditEvent, UsageTypeOK, world
  <1>k. CASE SaveUsageScan
    BY <1>k DEF SaveUsageScan, Flags, Over, UsageTypeOK, world, UsageScans
  <1>l. CASE UNCHANGED usageVars
    BY <1>l DEF usageVars, world, usageHistory, UsageTypeOK
  <1> QED
    BY <1>a, <1>b, <1>d, <1>e, <1>f, <1>g, <1>h, <1>i, <1>j, <1>k, <1>l
    DEF UsageNext

\* The variables of QuotaMonitor keep their types.
THEOREM UsageTypeCorrectness == UsageSpec => []UsageTypeOK
  BY UsageTypeInit, UsageTypeNext, PTL DEF UsageSpec

-----------------------------------------------------------------------------
(* What was told and what is saved. *)

\* A step that leaves flags, events and what was told as they are.
LEMMA UsageQuiet ==
    ASSUME UsageInv, UNCHANGED <<flag, usageTold, reasons, bare>>,
           UsageWritten = {} /\ UsageWritten' = {}
    PROVE  /\ UsageWrittenIsTold' /\ FlagMeansTold'
           /\ ReasonToRepeat' /\ NoBareRepeat'
  BY DEF UsageInv, UsageWrittenIsTold, FlagMeansTold, ReasonToRepeat,
      NoBareRepeat

LEMMA UsageOutside ==
    ASSUME UsageInv, UNCHANGED <<flag, usageTold, reasons, bare, usage>>
    PROVE  /\ UsageWrittenIsTold' /\ FlagMeansTold'
           /\ ReasonToRepeat' /\ NoBareRepeat'
  <1>1. UsageWritten' = UsageWritten
    BY DEF UsageWritten, EventsOf, UsageAlerts, Over, UsageRecoveries, UsageAt
  <1>2. /\ UsageAlerts(usage.previous, usage.seen)' = UsageAlerts(usage.previous, usage.seen)
        /\ UsageAt("audit")' = UsageAt("audit")
    BY DEF UsageAlerts, Over, UsageAt
  <1> QED
    BY <1>1, <1>2 DEF UsageInv, UsageWrittenIsTold, FlagMeansTold,
        ReasonToRepeat,
                      NoBareRepeat

\* The audit events of one scan are of different gauges.
LEMMA EventsOnce ==
    ASSUME UsageTypeOK, UsageAt("audit"), usage.stage < 5
    PROVE  /\ EventsOf(usage.stage, usage.previous, usage.seen) \cap UsageWritten = {}
           /\ Says(usage.stage) = "alert" =>
                 EventsOf(usage.stage, usage.previous, usage.seen)
                    \subseteq UsageAlerts(usage.previous, usage.seen)
           /\ Says(usage.stage) # "alert" =>
                 /\ EventsOf(usage.stage, usage.previous, usage.seen)
                       \subseteq UsageRecoveries(usage.previous, usage.seen)
                 /\ Says(usage.stage) = "recovered"
           /\ UsageAlerts(usage.previous, usage.seen)
                 \cap UsageRecoveries(usage.previous, usage.seen) = {}
  <1>1. usage.stage \in {1, 2, 3, 4}
    BY WrittenForm
  <1>2. UsageAlerts(usage.previous, usage.seen)
           \cap UsageRecoveries(usage.previous, usage.seen) = {}
    BY DEF UsageAlerts, UsageRecoveries
  <1>3. EventsOf(usage.stage, usage.previous, usage.seen) =
           {g \in (IF usage.stage \in {1, 3} THEN UsageAlerts(usage.previous, usage.seen)
                   ELSE UsageRecoveries(usage.previous, usage.seen)) :
              g[2] = IF usage.stage \in {1, 2} THEN "quota" ELSE "send"}
    BY <1>1 DEF EventsOf, EventMeter
  <1>4. EventsOf(usage.stage, usage.previous, usage.seen) \cap UsageWritten = {}
    BY <1>1, <1>2, <1>3, WrittenForm
  <1> QED
    BY <1>1, <1>2, <1>3, <1>4 DEF Says

LEMMA EventNext ==
    ASSUME UsageInv, AuditEvent
    PROVE  /\ UsageWrittenIsTold' /\ FlagMeansTold'
           /\ ReasonToRepeat' /\ NoBareRepeat'
  <1> USE DEF UsageInv
  <1> DEFINE new == EventsOf(usage.stage, usage.previous, usage.seen)
             alerted == IF Says(usage.stage) = "alert" THEN new ELSE {}
  <1>1. /\ usage \in [at : {"audit"}, previous : SUBSET Gauges, stage : 1..5,
                     seen : Readings]
        /\ UsageAt("audit") /\ usage.stage \in 1..4
    BY WrittenForm DEF AuditEvent
  <1>2. /\ UNCHANGED flag
        /\ usage'.seen = usage.seen /\ usage'.previous = usage.previous
        /\ usage'.stage = usage.stage + 1
        /\ UsageAt("audit")'
    BY <1>1 DEF AuditEvent, UsageAt
  <1>3. \A i : EventsOf(i, usage.previous, usage.seen)'
                  = EventsOf(i, usage.previous, usage.seen)
    BY <1>2 DEF EventsOf, UsageAlerts, Over, UsageRecoveries
  <1>4. UsageWritten' = UsageWritten \cup new
    <2>1. UsageWritten' =
             UNION {EventsOf(i, usage.previous, usage.seen) : i \in 1..usage.stage}
      BY <1>1, <1>2, <1>3 DEF UsageWritten
    <2>2. UsageWritten =
             UNION {EventsOf(i, usage.previous, usage.seen) : i \in 1..(usage.stage - 1)}
      BY <1>1 DEF UsageWritten
    <2>3. 1..usage.stage = 1..(usage.stage - 1) \cup {usage.stage}
      BY <1>1
    <2> QED
      BY <2>1, <2>2, <2>3
  <1>5. new \cap UsageWritten = {} /\ new \subseteq Gauges
    BY <1>1, EventsOnce, EventsType
  <1>6. \A g \in Gauges : g \notin new => usageTold'[g] = usageTold[g]
                                          /\ reasons'[g] = reasons[g]
    BY DEF AuditEvent, UsageTypeOK
  <1>7. \A g \in new : usageTold'[g] = Says(usage.stage)
    BY <1>5 DEF AuditEvent
  <1>8. UsageAlerts(usage.previous, usage.seen)' = UsageAlerts(usage.previous, usage.seen)
    BY <1>2 DEF UsageAlerts, Over
  <1>9. UsageWritten \subseteq Gauges
    BY <1>1, WrittenForm
  <1>10. UsageWrittenIsTold'
    <2> SUFFICES ASSUME NEW g \in UsageWritten'
                 PROVE  usageTold'[g] =
                           IF g \in UsageAlerts(usage.previous, usage.seen) THEN "alert"
                                   ELSE "recovered"
      BY <1>2, <1>8 DEF UsageWrittenIsTold
    <2>1. CASE g \in new
      BY <1>1, <1>7, <2>1, EventsOnce
    <2>2. CASE g \in UsageWritten
      BY <1>1, <1>5, <1>6, <1>9, <2>2 DEF UsageWrittenIsTold
    <2> QED
      BY <1>4, <2>1, <2>2
  <1>11. FlagMeansTold'
    BY <1>2, <1>4, <1>6 DEF FlagMeansTold, UsageTypeOK
  <1>12. ReasonToRepeat'
    BY <1>2, <1>4, <1>6 DEF ReasonToRepeat
  <1>13. NoBareRepeat'
    <2>1. ASSUME NEW g \in alerted \ Unknown, usageTold[g] = "alert",
                 reasons[g] = {}
          PROVE  FALSE
      <3>1. /\ g \in UsageAlerts(usage.previous, usage.seen)
            /\ g \in Gauges /\ g \notin UsageWritten
        BY <1>1, <1>5, <2>1, EventsOnce
      <3> QED
        BY <2>1, <3>1 DEF UsageAlerts, Unknown, ReasonToRepeat
    <2> QED
      BY <2>1 DEF AuditEvent, NoBareRepeat
  <1> QED
    BY <1>10, <1>11, <1>12, <1>13

LEMMA SaveNext ==
    ASSUME UsageInv, SaveUsageScan
    PROVE  /\ UsageWrittenIsTold' /\ FlagMeansTold'
           /\ ReasonToRepeat' /\ NoBareRepeat'
  <1> USE DEF UsageInv
  <1>1. /\ usage \in [at : {"audit"}, previous : SUBSET Gauges, stage : 1..5,
                     seen : Readings]
        /\ UsageAt("audit") /\ usage.stage = 5
    BY WrittenForm DEF SaveUsageScan
  <1>2. \A g \in Gauges : g[2] \in {"quota", "send"}
    BY QuotaAssumption DEF Gauges
  <1>3. UsageWritten =
           UsageAlerts(usage.previous, usage.seen) \cup UsageRecoveries(usage.previous, usage.seen)
    BY <1>1, <1>2, WrittenForm DEF UsageAlerts, Over, UsageRecoveries,
        UsageTypeOK
  <1>4. usage' = UsageRest /\ UsageWritten' = {} /\ ~UsageAt("audit")'
    BY DEF SaveUsageScan, UsageWritten, UsageAt, UsageRest
  <1>5. \A g \in Gauges :
           reasons'[g] = IF usage.seen[g] = NotSeen THEN reasons[g] \cup {"missed"}
                         ELSE IF usage.seen[g] = "high" THEN reasons[g]
                         ELSE reasons[g] \cup {"below"}
    BY DEF SaveUsageScan
  <1>6. flag' = {g \in Gauges : usage.seen[g] = "high"}
    BY DEF SaveUsageScan, Flags, Over
  <1>7. UNCHANGED <<usageTold, bare>>
    BY DEF SaveUsageScan
  <1>8. FlagMeansTold'
    <2> SUFFICES ASSUME NEW g \in Gauges, usage.seen[g] = "high",
                        "cut" \notin reasons'[g]
                 PROVE  usageTold[g] = "alert"
      BY <1>6, <1>7 DEF FlagMeansTold
    <2>1. "cut" \notin reasons[g]
      BY <1>5 DEF NotSeen
    <2>2. CASE g \in usage.previous
      <3>1. g \notin UsageWritten
        BY <1>3, <2>2 DEF UsageAlerts, UsageRecoveries
      <3>2. g \in flag
        BY <1>1, <2>2 DEF PreviousIsFlag, UsageAt
      <3> QED
        BY <2>1, <3>1, <3>2 DEF FlagMeansTold
    <2>3. CASE g \notin usage.previous
      <3>1. g \in UsageAlerts(usage.previous, usage.seen)
        BY <2>3 DEF UsageAlerts, Over
      <3> QED
        BY <1>1, <1>3, <3>1 DEF UsageWrittenIsTold
    <2> QED
      BY <2>2, <2>3
  <1>9. ReasonToRepeat'
    <2> SUFFICES ASSUME NEW g \in Gauges, usage.seen[g] # "high"
                 PROVE  reasons'[g] # {}
      BY <1>6 DEF ReasonToRepeat
    <2> QED
      BY <1>5
  <1> QED
    BY <1>4, <1>7, <1>8, <1>9 DEF UsageWrittenIsTold, NoBareRepeat

LEMMA CutNext ==
    ASSUME UsageInv, CutUsageScan
    PROVE  /\ UsageWrittenIsTold' /\ FlagMeansTold'
           /\ ReasonToRepeat' /\ NoBareRepeat'
  <1> USE DEF UsageInv
  <1>1. usage' = UsageRest /\ UsageWritten' = {} /\ ~UsageAt("audit")'
    BY DEF CutUsageScan, UsageWritten, UsageAt, UsageRest
  <1>2. UNCHANGED <<usageTold, bare, flag>>
    BY DEF CutUsageScan
  <1>3. \A g \in Gauges : reasons'[g] = IF g \in UsageWritten
                             THEN reasons[g] \cup {"cut"} ELSE reasons[g]
    BY DEF CutUsageScan
  <1>4. flag \subseteq Gauges
    BY DEF UsageTypeOK
  <1>5. FlagMeansTold'
    BY <1>2, <1>3, <1>4 DEF FlagMeansTold
  <1>6. ReasonToRepeat'
    BY <1>2, <1>3 DEF ReasonToRepeat
  <1> QED
    BY <1>1, <1>2, <1>5, <1>6 DEF UsageWrittenIsTold, NoBareRepeat

LEMMA PreviousNext ==
    ASSUME UsageInv, [UsageNext]_usageVars
    PROVE  PreviousIsFlag'
  <1>1. UsageTypeOK
    BY DEF UsageInv
  <1>2. CASE UNCHANGED <<usage, flag>>
    BY <1>2 DEF UsageInv, PreviousIsFlag, UsageAt
  <1>3. CASE CutUsageScan \/ ListNothing \/ SaveUsageScan
    BY <1>3 DEF CutUsageScan, ListNothing, SaveUsageScan, PreviousIsFlag,
                UsageAt, UsageRest
  <1>4. CASE BeginUsageScan
    BY <1>4 DEF BeginUsageScan, PreviousIsFlag
  <1>5. CASE UsageListAnswers \/ FetchesDone \/ AuditEvent
    <2>1. ~UsageAt("rest") /\ UNCHANGED flag
      BY <1>5 DEF UsageListAnswers, FetchesDone, AuditEvent, UsageAt, world
    <2>2. usage'.previous = usage.previous
      BY <1>1, <1>5, WrittenForm DEF UsageListAnswers, FetchesDone, AuditEvent
    <2> QED
      BY <2>1, <2>2 DEF UsageInv, PreviousIsFlag
  <1>6. ASSUME NEW d \in UsageDomains, NEW answers \in BOOLEAN,
               FetchDomain(d, answers)
        PROVE  PreviousIsFlag'
    <2>1. ~UsageAt("rest") /\ UNCHANGED flag
      BY <1>6 DEF FetchDomain, UsageAt
    <2>2. usage \in [at : {"fetch"}, previous : SUBSET Gauges,
                     todo : SUBSET UsageDomains, seen : Readings]
      BY <1>1, <1>6 DEF FetchDomain, UsageTypeOK, UsageScans, UsageAt, UsageRest
    <2>3. usage'.previous = usage.previous
      BY <1>6, <2>2 DEF FetchDomain
    <2> QED
      BY <2>1, <2>3 DEF UsageInv, PreviousIsFlag
  <1> QED
    BY <1>2, <1>3, <1>4, <1>5, <1>6
    DEF UsageNext, LevelChanges, MailboxChanges, usageVars

LEMMA UsageInvNext == UsageInv /\ [UsageNext]_usageVars => UsageInv'
  <1> SUFFICES ASSUME UsageInv, [UsageNext]_usageVars
               PROVE  UsageWrittenIsTold' /\ FlagMeansTold' /\ ReasonToRepeat'
                      /\ NoBareRepeat'
    BY UsageTypeNext, PreviousNext DEF UsageInv
  <1>1. CASE UNCHANGED usageVars
    BY <1>1, UsageOutside DEF usageVars, usageHistory
  <1>2. ASSUME NEW g \in Gauges, LevelChanges(g)
        PROVE  UNCHANGED <<flag, usageTold, reasons, bare, usage>>
    BY <1>2 DEF LevelChanges
  <1>3. ASSUME NEW m \in Mailboxes, MailboxChanges(m)
        PROVE  UNCHANGED <<flag, usageTold, reasons, bare, usage>>
    BY <1>3 DEF MailboxChanges
  <1>4. CASE BeginUsageScan \/ UsageListAnswers
    <2>1. UsageWritten = {} /\ UsageWritten' = {}
      BY <1>4 DEF BeginUsageScan, UsageListAnswers, UsageWritten, UsageAt
    <2> QED
      BY <1>4, <2>1, UsageQuiet DEF BeginUsageScan, UsageListAnswers,
          usageHistory
  <1>5. ASSUME NEW d \in UsageDomains, NEW answers \in BOOLEAN,
               FetchDomain(d, answers)
        PROVE  /\ UNCHANGED <<flag, usageTold, reasons, bare>>
               /\ UsageWritten = {} /\ UsageWritten' = {}
    BY <1>5 DEF FetchDomain, UsageWritten, UsageAt, usageHistory
  <1>6. CASE FetchesDone
    <2>1. UsageWritten = {}
      BY <1>6 DEF FetchesDone, UsageWritten, UsageAt
    <2>2. 1..(usage'.stage - 1) = {}
      BY <1>6 DEF FetchesDone
    <2>3. UsageWritten' = {}
      BY <2>2 DEF UsageWritten
    <2> QED
      BY <1>6, <2>1, <2>3, UsageQuiet DEF FetchesDone, usageHistory
  <1>7. CASE ListNothing
    <2>1. UsageWritten' = {} /\ ~UsageAt("audit")'
      BY <1>7 DEF ListNothing, UsageWritten, UsageAt, UsageRest
    <2>2. \A g \in Gauges : "missed" \in reasons'[g]
      BY <1>7 DEF ListNothing, Missed
    <2> QED
      BY <1>7, <2>1, <2>2
      DEF ListNothing, UsageInv, UsageWrittenIsTold, FlagMeansTold,
          ReasonToRepeat,
          NoBareRepeat
  <1> QED
    BY <1>1, <1>2, <1>3, <1>4, <1>5, <1>6, <1>7, UsageOutside, UsageQuiet,
        EventNext,
       SaveNext, CutNext DEF UsageNext

LEMMA UsageInvariant == UsageSpec => []UsageInv
  <1>1. UsageInit => UsageInv
    BY UsageTypeInit DEF UsageInit, UsageInv, PreviousIsFlag,
        UsageWrittenIsTold, FlagMeansTold, ReasonToRepeat, NoBareRepeat,
        UsageAt, UsageRest
  <1> QED
    BY <1>1, UsageInvNext, PTL DEF UsageSpec

\* A saved flag means an alert was told and no recovery since, unless a scan
\* was cut off, and though a scan may go without the flags it could not read.
THEOREM FlagMeansToldHolds == UsageSpec => []FlagMeansTold
  BY UsageInvariant, PTL DEF UsageInv

\* No alert is repeated without a reason, but for the flags a scan could not
\* read.
THEOREM NoBareRepeatHolds == UsageSpec => []NoBareRepeat
  BY UsageInvariant, PTL DEF UsageInv

-----------------------------------------------------------------------------
(* Alerts are transitions: an action property, from what is known of the    *)
(* gauges that have stayed over their threshold since their last alert.     *)

\* Such a gauge is over it now, in an account that has its mailbox, and the
\* scan under way has read it so or not read it.
SteadyIsHigh ==
    \A g \in steady :
        /\ level[g] = "high" /\ g[1] \in exists
        /\ usage.at \in {"fetch", "audit"} =>
              usage.seen[g] \in {NotSeen, "high"}

\* If neither its flag nor an event of this scan speaks for its last alert, a
\* scan since could not read it or was cut off.
SteadyIsFlagged ==
    \A g \in steady : g \in flag \/ g \in UsageWritten
                      \/ reasons[g] \cap {"missed", "cut"} # {}

SteadyInv == SteadyIsHigh /\ SteadyIsFlagged

LEMMA SteadyEvent ==
    ASSUME UsageInv, SteadyInv, AuditEvent
    PROVE  SteadyInv'
  <1> DEFINE new == EventsOf(usage.stage, usage.previous, usage.seen)
             alerted == IF Says(usage.stage) = "alert" THEN new ELSE {}
  <1>1. /\ usage \in [at : {"audit"}, previous : SUBSET Gauges, stage : 1..5,
                     seen : Readings]
        /\ UsageAt("audit") /\ usage.stage \in 1..4
        /\ UsageTypeOK
    BY WrittenForm DEF AuditEvent, UsageInv
  <1>2. /\ UNCHANGED <<flag, level, exists>>
        /\ usage'.seen = usage.seen /\ usage'.previous = usage.previous
        /\ usage'.stage = usage.stage + 1
        /\ usage'.at = "audit" /\ UsageAt("audit")'
        /\ steady' = steady \cup {g \in alerted : level[g] = "high"
                                                  /\ g[1] \in exists}
        /\ reasons' = [g \in Gauges |->
                         IF g \in alerted THEN {} ELSE reasons[g]]
    BY <1>1 DEF AuditEvent, UsageAt, world
  <1>3. UsageWritten' =
           UNION {EventsOf(i, usage.previous, usage.seen) : i \in 1..usage.stage}
    BY <1>1, <1>2 DEF UsageWritten, EventsOf, UsageAlerts, Over,
        UsageRecoveries
  <1>4. new \subseteq UsageWritten' /\ UsageWritten \subseteq UsageWritten'
    <2>1. UsageWritten =
             UNION {EventsOf(i, usage.previous, usage.seen) : i \in 1..(usage.stage - 1)}
      BY <1>1 DEF UsageWritten
    <2>2. 1..(usage.stage - 1) \subseteq 1..usage.stage
      BY <1>1
    <2> QED
      BY <1>1, <1>3, <2>1, <2>2
  <1>5. \A g \in alerted : usage.seen[g] = "high"
    BY <1>1, EventsOnce DEF UsageAlerts, Over
  <1>6. SteadyIsHigh'
    BY <1>1, <1>2, <1>5 DEF SteadyInv, SteadyIsHigh, UsageAt
  <1>7. SteadyIsFlagged'
    <2> SUFFICES ASSUME NEW g \in steady', g \notin flag,
                        g \notin UsageWritten'
                 PROVE  reasons'[g] \cap {"missed", "cut"} # {}
      BY <1>2 DEF SteadyIsFlagged
    <2>1. g \notin new /\ g \notin alerted /\ g \notin UsageWritten
      BY <1>4
    <2>2. g \in steady /\ g \in Gauges
      BY <1>1, <1>2, <2>1 DEF UsageTypeOK
    <2>3. reasons'[g] = reasons[g]
      BY <1>2, <2>1, <2>2
    <2> QED
      BY <2>1, <2>2, <2>3 DEF SteadyInv, SteadyIsFlagged
  <1> QED
    BY <1>6, <1>7 DEF SteadyInv

LEMMA SteadyNext ==
    UsageInv /\ SteadyInv /\ [UsageNext]_usageVars => SteadyInv'
  <1> SUFFICES ASSUME UsageInv, SteadyInv, [UsageNext]_usageVars
               PROVE  SteadyInv'
    OBVIOUS
  <1> USE DEF SteadyInv, SteadyIsHigh, SteadyIsFlagged
  <1>1. UsageTypeOK /\ steady \subseteq Gauges
    BY DEF UsageInv, UsageTypeOK
  <1>2. CASE UNCHANGED usage /\ UNCHANGED flag
    <2>1. UsageWritten' = UsageWritten
      BY <1>2 DEF UsageWritten, EventsOf, UsageAlerts, Over, UsageRecoveries,
          UsageAt
    <2>2. ASSUME NEW g \in Gauges, LevelChanges(g)
          PROVE  SteadyInv'
      BY <1>1, <1>2, <2>1, <2>2 DEF LevelChanges, UsageTypeOK
    <2>3. ASSUME NEW m \in Mailboxes, MailboxChanges(m)
          PROVE  SteadyInv'
      BY <1>1, <1>2, <2>1, <2>3 DEF MailboxChanges
    <2>4. CASE UNCHANGED usageVars
      BY <1>2, <2>1, <2>4 DEF usageVars, world, usageHistory
    <2>5. ~(CutUsageScan \/ BeginUsageScan \/ ListNothing
            \/ UsageListAnswers \/ FetchesDone
            \/ AuditEvent \/ SaveUsageScan)
      BY <1>2, WrittenForm, <1>1
      DEF CutUsageScan, BeginUsageScan, ListNothing, UsageListAnswers,
          FetchesDone, AuditEvent,
          SaveUsageScan, UsageAt, UsageRest
    <2>6. ASSUME NEW d \in UsageDomains, NEW answers \in BOOLEAN,
                 FetchDomain(d, answers)
          PROVE  SteadyInv'
      BY <1>2, <2>1, <2>6 DEF FetchDomain, world, usageHistory
    <2> QED
      BY <2>2, <2>3, <2>4, <2>5, <2>6 DEF UsageNext
  <1>3. CASE CutUsageScan
    <2>1. usage' = UsageRest /\ UNCHANGED <<steady, level, exists, flag>>
      BY <1>3 DEF CutUsageScan, world
    <2>2. \A g \in Gauges : reasons'[g] = IF g \in UsageWritten
                               THEN reasons[g] \cup {"cut"} ELSE reasons[g]
      BY <1>3 DEF CutUsageScan
    <2> QED
      BY <1>1, <2>1, <2>2 DEF UsageRest
  <1>4. CASE BeginUsageScan \/ UsageListAnswers
    <2>1. UsageWritten = {}
      BY <1>4 DEF BeginUsageScan, UsageListAnswers, UsageWritten, UsageAt
    <2>2. UNCHANGED <<steady, level, exists, flag, reasons>>
      BY <1>4 DEF BeginUsageScan, UsageListAnswers, world, usageHistory
    <2>3. usage'.at \in {"fetch", "audit"} =>
             \A g \in Gauges : usage'.seen[g] = NotSeen
      BY <1>4 DEF BeginUsageScan, UsageListAnswers, Unread
    <2> QED
      BY <1>1, <2>1, <2>2, <2>3
  <1>5. CASE ListNothing
    <2>1. usage' = UsageRest /\ UNCHANGED <<steady, level, exists>>
      BY <1>5 DEF ListNothing, world
    <2>2. \A g \in Gauges : "missed" \in reasons'[g]
      BY <1>5 DEF ListNothing, Missed
    <2> QED
      BY <1>1, <2>1, <2>2 DEF UsageRest
  <1>6. ASSUME NEW d \in UsageDomains, NEW answers \in BOOLEAN,
               FetchDomain(d, answers)
        PROVE  SteadyInv'
    <2>1. UNCHANGED <<steady, level, exists, flag, reasons>> /\ UsageAt("fetch")
      BY <1>6 DEF FetchDomain, world, usageHistory
    <2>2. UsageWritten = {}
      BY <2>1 DEF UsageWritten, UsageAt
    <2>3. \A g \in Gauges :
             usage'.seen[g] = IF DomainOf[g[1]] = d THEN Reading(g, answers)
                             ELSE usage.seen[g]
      BY <1>6 DEF FetchDomain
    <2>4. \A g \in steady : Reading(g, answers) \in {NotSeen, "high"}
      BY DEF Reading
    <2> QED
      BY <1>1, <2>1, <2>2, <2>3, <2>4 DEF UsageAt
  <1>7. CASE FetchesDone
    <2>1. /\ UNCHANGED <<steady, level, exists, flag, reasons>>
          /\ UsageAt("fetch")
          /\ usage'.seen = usage.seen
      BY <1>7 DEF FetchesDone, world, usageHistory
    <2>2. UsageWritten = {}
      BY <2>1 DEF UsageWritten, UsageAt
    <2> QED
      BY <2>1, <2>2 DEF UsageAt
  <1>8. CASE AuditEvent
    BY <1>8, SteadyEvent
  <1>9. CASE SaveUsageScan
    <2>1. /\ usage' = UsageRest /\ UNCHANGED <<steady, level, exists>>
          /\ UsageAt("audit")
          /\ flag' = {g \in Gauges : usage.seen[g] = "high"}
      BY <1>9 DEF SaveUsageScan, world, Flags, Over
    <2>2. \A g \in Gauges : usage.seen[g] = NotSeen => "missed" \in reasons'[g]
      BY <1>9 DEF SaveUsageScan
    <2> QED
      BY <1>1, <2>1, <2>2 DEF UsageAt, UsageRest
  <1> QED
    BY <1>2, <1>3, <1>4, <1>5, <1>6, <1>7, <1>8, <1>9
    DEF UsageNext, LevelChanges, MailboxChanges, usageVars

LEMMA SteadyInvariant == UsageSpec => []SteadyInv
  <1>1. UsageInit => SteadyInv
    BY DEF UsageInit, SteadyInv, SteadyIsHigh, SteadyIsFlagged
  <1> QED
    BY <1>1, UsageInvariant, SteadyNext, PTL DEF UsageSpec

\* A gauge that has been over its threshold ever since its last alert is
\* alerted again only after a scan that could not read it or was cut off, or by
\* one that could not read its flag, whatever the readings of other gauges and
\* wherever scans end.
THEOREM AlertsAreTransitionsHolds == UsageSpec => AlertsAreTransitions
  <1> DEFINE Transition ==
        \A g \in Gauges :
            UsageAt("audit") /\ usage.stage \in {1, 3}
                /\ usage' # usage /\ usage' # UsageRest
                /\ g \in EventsOf(usage.stage, usage.previous, usage.seen) /\ g \in steady
            => reasons[g] \cap {"missed", "cut"} # {} \/ g \in Unknown
  <1>1. UsageInv /\ SteadyInv => Transition
    <2> SUFFICES ASSUME UsageInv, SteadyInv, NEW g \in Gauges,
                        UsageAt("audit"),
                        usage.stage \in {1, 3}, g \in steady,
                        g \in EventsOf(usage.stage, usage.previous, usage.seen)
                 PROVE  reasons[g] \cap {"missed", "cut"} # {} \/ g \in Unknown
      OBVIOUS
    <2>1. g \in UsageAlerts(usage.previous, usage.seen) /\ g \notin UsageWritten
      BY EventsOnce DEF UsageInv, Says
    <2> QED
      BY <2>1 DEF SteadyInv, SteadyIsFlagged, UsageAlerts, Unknown
  <1>2. UsageInv /\ SteadyInv => [Transition]_usageVars
    BY <1>1
  <1> QED
    BY <1>2, UsageInvariant, SteadyInvariant, PTL DEF AlertsAreTransitions

-----------------------------------------------------------------------------
(* The thread that runs both scans. *)

\* Every step of the thread and its worker is one of the DNS monitor or leaves
\* it alone.
LEMMA DnsPart == [ThreadNext]_threadVars => [Next]_vars
  <1> SUFFICES ASSUME [ThreadNext]_threadVars PROVE [Next]_vars
    OBVIOUS
  <1>1. CASE DnsWorld
    BY <1>1 DEF DnsWorld, Next
  <1>2. CASE UsageWorld
    BY <1>2 DEF UsageWorld
  <1>3. CASE SwitchMonitors
    BY <1>3 DEF SwitchMonitors, Next
  <1>4. ASSUME NEW w \in Workers, ThreadStarts(w) \/ ThreadDies(w)
        PROVE  Next
    BY <1>4 DEF ThreadStarts, ThreadDies, Next
  <1>5. ASSUME NEW w \in Workers, DnsStep(w) \/ DnsFails(w)
        PROVE  Next
    BY <1>5 DEF DnsStep, DnsFails, Next
  <1>6. ASSUME NEW w \in Workers, DnsSkips(w) \/ UsageStep(w)
        PROVE  [Next]_vars
    <2>1. DropCache => ClearCache \/ UNCHANGED vars
      BY DEF DropCache, ClearCache, vars, cache
    <2>2. IdleTick(w) \/ DropCache \/ UNCHANGED vars
      BY <1>6 DEF DnsSkips, UsageStep, UsageSaves
    <2> QED
      BY <2>1, <2>2 DEF Next
  <1>7. ASSUME NEW w \in Workers, UsageSkips(w) \/ UsageFails(w)
        PROVE  UNCHANGED vars
    BY <1>7 DEF UsageSkips, UsageFails
  <1>8. CASE UNCHANGED threadVars
    BY <1>8 DEF threadVars
  <1> QED
    BY <1>1, <1>2, <1>3, <1>4, <1>5, <1>6, <1>7, <1>8 DEF ThreadNext

\* The same of the usage monitor: a worker that dies cuts its scan off.
LEMMA UsagePart == [ThreadNext]_threadVars => [UsageNext]_usageVars
  <1> SUFFICES ASSUME [ThreadNext]_threadVars PROVE [UsageNext]_usageVars
    OBVIOUS
  <1>1. CASE DnsWorld \/ SwitchMonitors
    BY <1>1 DEF DnsWorld, SwitchMonitors
  <1>2. CASE UsageWorld
    BY <1>2 DEF UsageWorld, UsageNext
  <1>3. ASSUME NEW w \in Workers, ThreadStarts(w) PROVE UNCHANGED usageVars
    BY <1>3 DEF ThreadStarts
  <1>4. ASSUME NEW w \in Workers, ThreadDies(w) PROVE [UsageNext]_usageVars
    BY <1>4 DEF ThreadDies, UsageNext
  <1>5. ASSUME NEW w \in Workers,
               DnsStep(w) \/ DnsSkips(w) \/ DnsFails(w) \/ UsageSkips(w)
        PROVE  UNCHANGED usageVars
    BY <1>5 DEF DnsStep, DnsSkips, DnsFails, UsageSkips
  <1>6. ASSUME NEW w \in Workers, UsageStep(w) PROVE UsageNext
    BY <1>6 DEF UsageStep, UsageSaves, UsageNext
  <1>7. ASSUME NEW w \in Workers, UsageFails(w) PROVE UsageNext
    BY <1>7 DEF UsageFails, UsageNext
  <1>8. CASE UNCHANGED threadVars
    BY <1>8 DEF threadVars
  <1> QED
    BY <1>1, <1>2, <1>3, <1>4, <1>5, <1>6, <1>7, <1>8 DEF ThreadNext

\* The thread implements the DNS monitor as it is specified alone, though the
\* usage scan takes its time and may cost it the worker.
THEOREM ThreadRunsDnsMonitor == ThreadSpec => Spec
  <1>1. ThreadInit => Init
    BY DEF ThreadInit
  <1> QED
    BY <1>1, DnsPart, PTL DEF ThreadSpec, Spec

\* And the usage monitor, though a DNS scan that raises costs it a tick.
THEOREM ThreadRunsUsageMonitor == ThreadSpec => UsageSpec
  <1>1. ThreadInit => UsageInit
    BY DEF ThreadInit
  <1> QED
    BY <1>1, UsagePart, PTL DEF ThreadSpec, UsageSpec

-----------------------------------------------------------------------------
(* One thread, one scan at a time. *)

ThreadInv == OwnerInv /\ turn \in [Workers -> {"dns", "usage"}]
                /\ UsageUnderLock

\* A worker with a thread has the lock.
LEMMA TurnIsHolders ==
    ASSUME OwnerInv, NEW w \in Workers, ~At(w, "off")
    PROVE  w = holder
  BY ScanShape DEF OwnerInv, HolderScans

\* A step of a scan, or its end, leaves the other workers alone.
LEMMA StepIsOwn ==
    ASSUME TypeOK, NEW w \in Workers, Step(w) \/ TickFails(w)
    PROVE  /\ UNCHANGED holder
           /\ \A v \in Workers \ {w} : scan'[v] = scan[v]
           /\ TickFails(w) => scan'[w] = Rest
  BY DEF Step, BeginScan, Scanning, ListFails, ListAnswers, ListEmpty,
         ListDomains, CheckDomain, ChecksDone, AuditAlerts, AuditRecoveries,
         SaveScan, Save,
         workers, TickFails, TypeOK

LEMMA DnsTurn ==
    ASSUME ThreadInv, NEW w \in Workers,
           DnsStep(w) \/ DnsSkips(w) \/ DnsFails(w)
    PROVE  UsageUnderLock'
  <1> USE DEF ThreadInv
  <1>1. HasTurn(w, "dns") /\ turn[w] = "dns" /\ UNCHANGED usage
    BY DEF DnsStep, DnsSkips, DnsFails, HasTurn, usageVars
  <1>2. UsageAt("rest")'
    <2>1. w = holder
      BY <1>1, TurnIsHolders DEF HasTurn
    <2> QED
      BY <1>1, <2>1 DEF UsageUnderLock, HasTurn, UsageAt
  <1>3. \A v \in Workers \ {w} : scan'[v] = scan[v] /\ turn'[v] = turn[v]
    BY StepIsOwn DEF OwnerInv, DnsStep, DnsSkips, DnsFails, IdleTick, GoesTo,
                     vars
  <1>4. turn'[w] = "usage" => At(w, "rest")'
    BY <1>1 DEF DnsStep, DnsSkips, DnsFails, IdleTick, GoesTo, At, Rest, vars
  <1> QED
    BY <1>2, <1>3, <1>4 DEF UsageUnderLock, At

LEMMA UsageTurn ==
    ASSUME ThreadInv, NEW w \in Workers,
           UsageStep(w) \/ UsageSkips(w) \/ UsageFails(w)
    PROVE  UsageUnderLock'
  <1> USE DEF ThreadInv
  <1>1. HasTurn(w, "usage") /\ turn[w] = "usage" /\ UNCHANGED <<scan, holder>>
    BY DEF UsageStep, UsageSaves, DropCache, UsageSkips, UsageFails, HasTurn,
           vars, workers
  <1>2. w = holder
    BY <1>1, TurnIsHolders DEF HasTurn
  <1>3. \A v \in Workers : turn'[v] = "usage" => turn[v] = "usage"
    BY <1>1 DEF UsageStep, UsageSkips, UsageFails, GoesTo
  <1>4. ~UsageAt("rest")' => turn'[w] = "usage"
    BY DEF UsageStep, UsageSkips, UsageFails, GoesTo, UsageAt, UsageRest,
           CutUsageScan, usageVars
  <1> QED
    BY <1>1, <1>2, <1>3, <1>4 DEF UsageUnderLock, HasTurn, At

LEMMA WorkerTurn ==
    ASSUME ThreadInv, NEW w \in Workers, ThreadStarts(w) \/ ThreadDies(w)
    PROVE  UsageUnderLock'
  <1> USE DEF ThreadInv, OwnerInv
  <1>0. /\ NoScan.at = "off" /\ Rest.at = "rest" /\ UsageRest.at = "rest"
        /\ NoWorker \notin Workers
    BY MonitorAssumption DEF NoScan, Rest, UsageRest
  <1>1. CASE ThreadStarts(w)
    <2>1. w \notin up /\ UNCHANGED <<usage, turn>>
      BY <1>1 DEF ThreadStarts, StartWorker, usageVars
    <2>2. scan[w] = NoScan
      BY <1>0, <2>1 DEF HolderScans, TypeOK
    <2>3. turn[w] = "dns"
      BY <1>0, <2>2 DEF UsageUnderLock, At
    <2>4. \A v \in Workers \ {w} : scan'[v] = scan[v]
      BY <1>1 DEF ThreadStarts, StartWorker, TypeOK
    <2>5. holder \in Workers => UNCHANGED <<holder, scan>>
      BY <1>0, <1>1 DEF ThreadStarts, StartWorker, Acquires
    <2> QED
      BY <2>1, <2>3, <2>4, <2>5 DEF UsageUnderLock, HasTurn, At, UsageAt
  <1>2. CASE ThreadDies(w)
    <2>1. /\ \A v \in Workers \ {w} : scan'[v] = scan[v] /\ turn'[v] = turn[v]
          /\ turn'[w] = "dns"
          /\ holder' = IF holder = w THEN NoWorker ELSE holder
      BY <1>2 DEF ThreadDies, KillWorker, GoesTo, TypeOK
    <2>2. \A v \in Workers : turn'[v] = "usage" => At(v, "rest")'
      BY <2>1 DEF UsageUnderLock, At
    <2>3. UsageAt("rest") => UsageAt("rest")'
      BY <1>2 DEF ThreadDies, UsageAt, usageVars
    <2>4. CASE holder = w
      <3>1. UsageAt("rest")'
        BY <1>0, <1>2, <2>3, <2>4
        DEF ThreadDies, UsageUnderLock, CutUsageScan, UsageAt
      <3> QED
        BY <2>2, <3>1 DEF UsageUnderLock
    <2>5. CASE holder # w
      <3>1. UNCHANGED holder
        BY <2>1, <2>5
      <3>2. ~UsageAt("rest")' => ~UsageAt("rest")
        BY <2>3
      <3> QED
        BY <2>1, <2>2, <2>5, <3>1, <3>2 DEF UsageUnderLock, HasTurn, At
    <2> QED
      BY <2>4, <2>5
  <1> QED
    BY <1>1, <1>2

LEMMA ThreadNextKeeps == ThreadInv /\ [ThreadNext]_threadVars => ThreadInv'
  <1> SUFFICES ASSUME ThreadInv, [ThreadNext]_threadVars PROVE ThreadInv'
    OBVIOUS
  <1>1. OwnerInv'
    BY DnsPart, TypeNext, OwnerNext DEF ThreadInv, OwnerInv
  <1>2. turn' \in [Workers -> {"dns", "usage"}]
    BY DEF ThreadInv, ThreadNext, DnsWorld, UsageWorld, SwitchMonitors,
           ThreadStarts, ThreadDies, DnsStep, DnsSkips, DnsFails, UsageStep,
           UsageSkips, UsageFails, GoesTo, threadVars
  <1>3. CASE DnsWorld \/ UsageWorld \/ SwitchMonitors \/ UNCHANGED threadVars
    <2>1. UNCHANGED <<scan, holder, turn>>
      BY <1>3 DEF DnsWorld, ZoneChanges, AccountChanges, PageReads, PageFills,
                  ClearCache, DropCache, UsageWorld, SwitchMonitors,
                  SwitchMonitor, threadVars, vars, workers
    <2>2. UNCHANGED usage
      BY <1>3 DEF DnsWorld, UsageWorld, LevelChanges, MailboxChanges,
                  SwitchMonitors, threadVars, usageVars
    <2> QED
      BY <1>1, <1>2, <2>1, <2>2
      DEF ThreadInv, UsageUnderLock, HasTurn, At, UsageAt
  <1> QED
    BY <1>1, <1>2, <1>3, DnsTurn, UsageTurn, WorkerTurn
    DEF ThreadInv, ThreadNext

LEMMA ThreadInvariant == ThreadSpec => []ThreadInv
  <1>1. ThreadInit => ThreadInv
    BY TypeInit
    DEF ThreadInit, Init, UsageInit, ThreadInv, OwnerInv, HolderScans,
        UsageUnderLock, UsageAt, UsageRest
  <1> QED
    BY <1>1, ThreadNextKeeps, PTL DEF ThreadSpec

\* However workers start and die, two threads never both run, a thread is in
\* one scan at a time, and a usage scan never outlives the worker it ran in.
THEOREM OneThreadHolds == ThreadSpec => []OneThread
  <1>1. ThreadInv => OneThread
    BY ScanShape DEF ThreadInv, OwnerInv, HolderScans, OneMonitor, OneThread
  <1> QED
    BY <1>1, ThreadInvariant, PTL

\* What each monitor promises alone it keeps in the thread they share.
THEOREM ThreadKeepsPromises ==
    ThreadSpec =>
        /\ [](SavedMeansTold /\ RecoveryTold /\ FlagMeansTold /\ NoBareRepeat)
        /\ RepeatsHaveCause
        /\ AlertsAreTransitions
  BY ThreadRunsDnsMonitor, ThreadRunsUsageMonitor, SavedMeansToldHolds,
     RecoveryToldHolds, RepeatsHaveCauseHolds, FlagMeansToldHolds,
     NoBareRepeatHolds, AlertsAreTransitionsHolds, PTL
=============================================================================
