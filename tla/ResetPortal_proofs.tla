------------------------- MODULE ResetPortal_proofs -------------------------
(***************************************************************************)
(* Theorems about ResetPortal, for any workers, domains, hosts, proxies    *)
(* and number of requests.                                                 *)
(***************************************************************************)
EXTENDS ResetPortal, TLAPS

Fresh(d) == d \notin tangled
Live(h) == DomainOf[h] \in live /\ row[DomainOf[h]].host = h
Busy(w) == job[w].kind \in Outside
Holds(w) == job[w].at \in {"reread", "write"}

\* What a request's kind says of where it is.
Jobs ==
    \A w \in Workers :
        /\ job[w].kind = "idle" => job[w].at = "idle" /\ job[w].domain = None
        /\ job[w].kind # "idle" => job[w].domain \in Domains
        /\ job[w].kind \in {"save", "draft"} => job[w].at = job[w].kind
        /\ Busy(w) => /\ job[w].at \in Stages
                      /\ job[w].host \in HostsOf(job[w].domain)
        /\ job[w].kind = "teardown" => job[w].at \notin {"sender", "forward"}
        /\ job[w].kind = "save" /\ job[w].host # None
              => job[w].host \in HostsOf(job[w].domain)
        /\ Holds(w) => backend \in ListBased

\* Requests that meet have entangled their domains.
Apart ==
    \A w, v \in Workers :
        w # v /\ job[w].kind # "idle" /\ job[v].kind # "idle"
        => /\ job[w].domain = job[v].domain => ~Fresh(job[w].domain)
           /\ backend \in ListBased /\ Busy(w) /\ Busy(v)
                 => ~Fresh(job[w].domain)

LiveRows == \A d \in live : Enabled(d) /\ Fresh(d) /\ Quiet(d)

\* A request knows the row of its domain, until something overlaps it.
Known ==
    \A w \in Workers :
        job[w].kind # "idle" /\ Fresh(job[w].domain)
        => /\ job[w].kind = "save" =>
                 job[w].host = (IF Enabled(job[w].domain)
                                THEN row[job[w].domain].host ELSE None)
           /\ job[w].kind = "draft" => row[job[w].domain] = None
           /\ job[w].kind = "deploy" =>
                 Enabled(job[w].domain) /\ row[job[w].domain].host = job[w].host
           /\ job[w].kind = "teardown" => ~Enabled(job[w].domain)

\* A host with a CNAME is the deployed one or that of the request under way.
Cnames ==
    \A h \in cname : Fresh(DomainOf[h]) =>
        /\ Quiet(DomainOf[h]) => Live(h)
        /\ \A w \in Workers : Busy(w) /\ job[w].domain = DomainOf[h] =>
              /\ h = job[w].host
              /\ job[w].kind = "teardown" => job[w].at = "cname"

\* So is a host with a route.
Routed ==
    \A h \in routes \cap Hosts : Fresh(DomainOf[h]) =>
        /\ Quiet(DomainOf[h]) => Live(h)
        /\ \A w \in Workers : Busy(w) /\ job[w].domain = DomainOf[h] =>
              /\ h = job[w].host
              /\ job[w].kind = "teardown" => job[w].at # "answer"

\* A proxy that is configured by hand is left alone.
ByHand == backend = "manual" => routes \cap Hosts = {}

\* A list under way has, of the entangled requests' bystanders, the deployed
\* hosts and no others.
Lists ==
    \A w \in Workers : Holds(w) =>
        /\ \A h \in job[w].seen \cap Hosts : Fresh(DomainOf[h]) =>
              IF DomainOf[h] = job[w].domain THEN h = job[w].host ELSE Live(h)
        /\ \A h \in Hosts : Live(h) => h \in job[w].seen \/ misread
        /\ Foreign \in job[w].seen \/ misread

\* What a deployment has done so far is done.
Progress ==
    \A w \in Workers :
        job[w].kind = "deploy" /\ Fresh(job[w].domain)
        => /\ job[w].at \notin {"sender", "forward"} =>
                 sender[job[w].domain] \/ job[w].domain \in Caught
           /\ job[w].at \notin {"sender", "forward", "cname"} => job[w].host \in cname
           /\ job[w].at = "answer" => job[w].host \in routes \/ misread

IInv ==
    /\ TypeOK
    /\ Jobs
    /\ Apart
    /\ LiveRows
    /\ Known
    /\ Cnames
    /\ Routed
    /\ ByHand
    /\ Lists
    /\ Progress
    /\ DeployedIsReachable
    /\ ForeignKept

-----------------------------------------------------------------------------
USE DomainOfAssumption, BackendsAssumption, NoneAssumption, ForeignAssumption,
    MaxRequestsAssumption
USE DEF Fresh, Live, Busy, Holds, Quiet, Enabled, HostsOf, Outside, ListBased

\* A save is read and may meet other requests.
LEMMA SaveReadKeeps ==
    ASSUME IInv, NEW w \in Workers, NEW d \in Domains, SaveRead(w, d),
           requests' \in 0 .. MaxRequests
    PROVE  IInv'
<1>1. TypeOK'
  BY DEF world, Portals, PortalsOf, MaySave, Begin, Rivals, Clash, Tangle,
         SaveRead, Stages, JobType, TypeOK, Jobs, IInv
<1>2. Jobs'
  BY DEF world, PortalsOf, MaySave, Begin, Rivals, Clash, Tangle, SaveRead,
         Stages, JobType, TypeOK, Jobs, IInv
<1>3. Apart' /\ LiveRows' /\ Known'
  BY DEF world, Begin, Rivals, Clash, Tangle, SaveRead, TypeOK, Jobs, Apart,
         LiveRows, Known, IInv
<1>4. Cnames'
  BY DEF world, Begin, Rivals, Clash, Tangle, SaveRead, TypeOK,
         DeployedIsReachable, Jobs, Apart, LiveRows, Known, Cnames, IInv
<1>5. Routed'
  BY DEF world, Begin, Rivals, Clash, Tangle, SaveRead, TypeOK, Jobs, Apart,
         LiveRows, Known, Routed, ByHand, IInv
<1>6. Lists'
  BY DEF world, PortalsOf, MaySave, Begin, Rivals, Clash, Tangle, SaveRead,
         Stages, JobType, TypeOK, DeployedIsReachable, ForeignKept, Jobs,
         Apart, LiveRows, Known, Routed, Lists, IInv
<1>7. Progress'
  BY DEF world, PortalsOf, MaySave, Begin, Rivals, Clash, Tangle, SaveRead,
         Stages, JobType, TypeOK, Jobs, Apart, Routed, Lists, Progress, IInv
<1>8. DeployedIsReachable'
  BY DEF world, PortalsOf, MaySave, Begin, Rivals, Clash, Tangle, SaveRead,
         Stages, JobType, TypeOK, DeployedIsReachable, Jobs, Apart,
         LiveRows, Known, Lists, Progress, IInv
<1>9. ForeignKept' /\ ByHand'
  BY DEF world, PortalsOf, MaySave, Begin, Rivals, Clash, Tangle, SaveRead,
         Stages, JobType, TypeOK, ForeignKept, Jobs, ByHand, Lists, IInv
<1> QED
  BY <1>1, <1>2, <1>3, <1>4, <1>5, <1>6, <1>7, <1>8, <1>9 DEF IInv

\* A logo's upload finds no row.
LEMMA DraftReadKeeps ==
    ASSUME IInv, NEW w \in Workers, NEW d \in Domains, DraftRead(w, d),
           requests' \in 0 .. MaxRequests
    PROVE  IInv'
<1>1. TypeOK'
  BY DEF world, Begin, Rivals, Clash, Tangle, DraftRead, Stages, JobType,
         TypeOK, Jobs, IInv
<1>2. Jobs'
  BY DEF world, PortalsOf, MaySave, Begin, Rivals, Clash, Tangle, DraftRead,
         Stages, JobType, TypeOK, Jobs, IInv
<1>3. Apart' /\ LiveRows' /\ Known'
  BY DEF world, Begin, Rivals, Clash, Tangle, DraftRead, TypeOK, Jobs,
         Apart, LiveRows, Known, IInv
<1>4. Cnames'
  BY DEF world, Begin, Rivals, Clash, Tangle, DraftRead, TypeOK,
         DeployedIsReachable, Jobs, Apart, LiveRows, Known, Cnames, IInv
<1>5. Routed'
  BY DEF world, Begin, Rivals, Clash, Tangle, DraftRead, TypeOK, Jobs,
         Apart, LiveRows, Known, Routed, ByHand, IInv
<1>6. Lists'
  BY DEF world, PortalsOf, MaySave, Begin, Rivals, Clash, Tangle, DraftRead,
         Stages, JobType, TypeOK, DeployedIsReachable, ForeignKept, Jobs,
         Apart, LiveRows, Known, Routed, Lists, IInv
<1>7. Progress'
  BY DEF world, PortalsOf, MaySave, Begin, Rivals, Clash, Tangle, DraftRead,
         Stages, JobType, TypeOK, Jobs, Apart, Routed, Lists, Progress, IInv
<1>8. DeployedIsReachable'
  BY DEF world, PortalsOf, MaySave, Begin, Rivals, Clash, Tangle, DraftRead,
         Stages, JobType, TypeOK, DeployedIsReachable, Jobs, Apart,
         LiveRows, Known, Lists, Progress, IInv
<1>9. ForeignKept' /\ ByHand'
  BY DEF world, PortalsOf, MaySave, Begin, Rivals, Clash, Tangle, DraftRead,
         Stages, JobType, TypeOK, ForeignKept, Jobs, ByHand, Lists, IInv
<1> QED
  BY <1>1, <1>2, <1>3, <1>4, <1>5, <1>6, <1>7, <1>8, <1>9 DEF IInv

\* A deployment begins, of the row as it is.
LEMMA BeginDeployKeeps ==
    ASSUME IInv, NEW w \in Workers, NEW d \in Domains, BeginDeploy(w, d),
           requests' \in 0 .. MaxRequests
    PROVE  IInv'
<1>1. TypeOK'
  BY DEF world, Portals, PortalsOf, MaySave, Begin, Rivals, Clash,
         TangleAndDrop, BeginDeploy, Stages, JobType, TypeOK, Jobs, IInv
<1>2. Jobs'
  BY DEF world, PortalsOf, MaySave, Begin, Rivals, Clash, TangleAndDrop,
         BeginDeploy, Stages, JobType, TypeOK, Jobs, IInv
<1>3. Apart' /\ LiveRows' /\ Known'
  BY DEF world, Begin, Rivals, Clash, TangleAndDrop, BeginDeploy, TypeOK,
         Jobs, Apart, LiveRows, Known, IInv
<1>4. Cnames'
  BY DEF world, Begin, Rivals, Clash, TangleAndDrop, BeginDeploy, TypeOK,
         DeployedIsReachable, Jobs, Apart, LiveRows, Known, Cnames, IInv
<1>5. Routed'
  BY DEF world, Begin, Rivals, Clash, TangleAndDrop, BeginDeploy, TypeOK,
         Jobs, Apart, LiveRows, Known, Routed, ByHand, IInv
<1>6. Lists'
  BY DEF world, PortalsOf, MaySave, Begin, Rivals, Clash, TangleAndDrop,
         BeginDeploy, Stages, JobType, TypeOK, DeployedIsReachable,
         ForeignKept, Jobs, Apart, LiveRows, Known, Routed, Lists, IInv
<1>7. Progress'
  BY DEF world, PortalsOf, MaySave, Begin, Rivals, Clash, TangleAndDrop,
         BeginDeploy, Stages, JobType, TypeOK, Jobs, Apart, Routed, Lists,
         Progress, IInv
<1>8. DeployedIsReachable'
  BY DEF world, PortalsOf, MaySave, Begin, Rivals, Clash, TangleAndDrop,
         BeginDeploy, Stages, JobType, TypeOK, DeployedIsReachable, Jobs,
         Apart, LiveRows, Known, Lists, Progress, IInv
<1>9. ForeignKept' /\ ByHand'
  BY DEF world, PortalsOf, MaySave, Begin, Rivals, Clash, TangleAndDrop,
         BeginDeploy, Stages, JobType, TypeOK, ForeignKept, Jobs, ByHand,
         Lists, IInv
<1> QED
  BY <1>1, <1>2, <1>3, <1>4, <1>5, <1>6, <1>7, <1>8, <1>9 DEF IInv

\* A row is saved without a tear-down.
LEMMA SaveWriteKeeps ==
    ASSUME IInv, NEW w \in Workers, SaveWrite(w),
           requests' \in 0 .. MaxRequests
    PROVE  IInv'
<1>1. TypeOK'
  BY DEF Portals, PortalsOf, MaySave, Idle, Tangle, TearsDown, SaveWrite,
         Stages, JobType, TypeOK, Jobs, IInv
<1>2. Jobs'
  BY DEF PortalsOf, MaySave, Idle, Tangle, TearsDown, SaveWrite, Stages,
         JobType, TypeOK, Jobs, IInv
<1>3. Apart' /\ LiveRows' /\ Known'
<2>1. Apart'
  BY DEF PortalsOf, MaySave, Idle, Tangle, TearsDown, SaveWrite, TypeOK,
         Jobs, Apart, IInv
<2>2. LiveRows'
  BY DEF PortalsOf, MaySave, Idle, Tangle, TearsDown, SaveWrite, Stages,
         JobType, TypeOK, Jobs, Apart, LiveRows, Known, IInv
<2>3. Known'
  BY DEF PortalsOf, MaySave, Idle, Tangle, TearsDown, SaveWrite, Stages,
         JobType, TypeOK, Jobs, Apart, LiveRows, Known, IInv
<2> QED
  BY <2>1, <2>2, <2>3
<1>4. Cnames'
  BY DEF PortalsOf, MaySave, Idle, Tangle, TearsDown, SaveWrite, TypeOK,
         DeployedIsReachable, Jobs, Apart, LiveRows, Known, Cnames, IInv
<1>5. Routed'
  BY DEF PortalsOf, MaySave, Idle, Tangle, TearsDown, SaveWrite, TypeOK,
         Jobs, Apart, LiveRows, Known, Routed, ByHand, IInv
<1>6. Lists'
  BY DEF PortalsOf, MaySave, Idle, Tangle, TearsDown, SaveWrite, Stages,
         JobType, TypeOK, DeployedIsReachable, ForeignKept, Jobs, Apart,
         LiveRows, Known, Routed, Lists, IInv
<1>7. Progress'
  BY DEF PortalsOf, MaySave, Idle, Tangle, TearsDown, SaveWrite, Stages,
         JobType, TypeOK, Jobs, Apart, Routed, Lists, Progress, IInv
<1>8. DeployedIsReachable'
  BY DEF PortalsOf, MaySave, Idle, Tangle, TearsDown, SaveWrite, Stages,
         JobType, TypeOK, DeployedIsReachable, Jobs, Apart, LiveRows, Known,
         Lists, Progress, IInv
<1>9. ForeignKept' /\ ByHand'
  BY DEF PortalsOf, MaySave, Idle, Tangle, TearsDown, SaveWrite, Stages,
         JobType, TypeOK, ForeignKept, Jobs, ByHand, Lists, IInv
<1> QED
  BY <1>1, <1>2, <1>3, <1>4, <1>5, <1>6, <1>7, <1>8, <1>9 DEF IInv

\* A row is disabled and its tear-down begins.
LEMMA SaveDisablesKeeps ==
    ASSUME IInv, NEW w \in Workers, SaveDisables(w),
           requests' \in 0 .. MaxRequests
    PROVE  IInv'
<1>1. TypeOK'
  BY DEF Portals, PortalsOf, MaySave, Begin, Rivals, Clash, TangleAndDrop,
         TearsDown, SaveDisables, Stages, JobType, TypeOK, Jobs,
         IInv
<1>2. Jobs'
  BY DEF PortalsOf, MaySave, Begin, Rivals, Clash, TangleAndDrop,
         TearsDown, SaveDisables, Stages, JobType, TypeOK, Jobs,
         IInv
<1>3. Apart' /\ LiveRows' /\ Known'
<2>1. Apart'
  BY DEF PortalsOf, MaySave, Begin, Rivals, Clash, TangleAndDrop,
         TearsDown, SaveDisables, TypeOK, Jobs, Apart, IInv
<2>2. LiveRows'
  BY DEF PortalsOf, MaySave, Begin, Rivals, Clash, TangleAndDrop,
         TearsDown, SaveDisables, Stages, JobType, TypeOK, Jobs,
         Apart, LiveRows, Known, IInv
<2>3. Known'
  BY DEF PortalsOf, MaySave, Begin, Rivals, Clash, TangleAndDrop,
         TearsDown, SaveDisables, Stages, JobType, TypeOK, Jobs,
         Apart, LiveRows, Known, IInv
<2> QED
  BY <2>1, <2>2, <2>3
<1>4. Cnames'
  BY DEF PortalsOf, MaySave, Begin, Rivals, Clash, TangleAndDrop,
         TearsDown, SaveDisables, TypeOK, DeployedIsReachable,
         Jobs, Apart, LiveRows, Known, Cnames, IInv
<1>5. Routed'
  BY DEF PortalsOf, MaySave, Begin, Rivals, Clash, TangleAndDrop,
         TearsDown, SaveDisables, TypeOK, Jobs, Apart, LiveRows,
         Known, Routed, ByHand, IInv
<1>6. Lists'
  BY DEF PortalsOf, MaySave, Begin, Rivals, Clash, TangleAndDrop,
         TearsDown, SaveDisables, Stages, JobType, TypeOK,
         DeployedIsReachable, ForeignKept, Jobs, Apart, LiveRows, Known,
         Routed, Lists, IInv
<1>7. Progress'
  BY DEF PortalsOf, MaySave, Begin, Rivals, Clash, TangleAndDrop,
         TearsDown, SaveDisables, Stages, JobType, TypeOK, Jobs,
         Apart, Routed, Lists, Progress, IInv
<1>8. DeployedIsReachable'
  BY DEF PortalsOf, MaySave, Begin, Rivals, Clash, TangleAndDrop,
         TearsDown, SaveDisables, Stages, JobType, TypeOK,
         DeployedIsReachable, Jobs, Apart, LiveRows, Known, Lists, Progress,
         IInv
<1>9. ForeignKept' /\ ByHand'
  BY DEF PortalsOf, MaySave, Begin, Rivals, Clash, TangleAndDrop,
         TearsDown, SaveDisables, Stages, JobType, TypeOK,
         ForeignKept, Jobs, ByHand, Lists, IInv
<1> QED
  BY <1>1, <1>2, <1>3, <1>4, <1>5, <1>6, <1>7, <1>8, <1>9 DEF IInv

\* A draft is written.
LEMMA DraftWriteKeeps ==
    ASSUME IInv, NEW w \in Workers, DraftWrite(w),
           requests' \in 0 .. MaxRequests
    PROVE  IInv'
<1>1. TypeOK'
  BY DEF Portals, PortalsOf, Draft, MaySave, Idle, DraftWrite, Stages,
         JobType, TypeOK, Jobs, IInv
<1>2. Jobs'
  BY DEF PortalsOf, Draft, MaySave, Idle, DraftWrite, Stages, JobType,
         TypeOK, Jobs, IInv
<1>3. Apart' /\ LiveRows' /\ Known'
  BY DEF PortalsOf, Draft, MaySave, Idle, DraftWrite, TypeOK, Jobs, Apart,
         LiveRows, Known, IInv
<1>4. Cnames'
  BY DEF PortalsOf, Draft, MaySave, Idle, DraftWrite, TypeOK,
         DeployedIsReachable, Jobs, Apart, LiveRows, Known, Cnames, IInv
<1>5. Routed'
  BY DEF PortalsOf, Draft, MaySave, Idle, DraftWrite, TypeOK, Jobs, Apart,
         LiveRows, Known, Routed, ByHand, IInv
<1>6. Lists'
  BY DEF PortalsOf, Draft, MaySave, Idle, DraftWrite, Stages, JobType,
         TypeOK, DeployedIsReachable, ForeignKept, Jobs, Apart, LiveRows,
         Known, Routed, Lists, IInv
<1>7. Progress'
  BY DEF PortalsOf, Draft, MaySave, Idle, DraftWrite, Stages, JobType,
         TypeOK, Jobs, Apart, Routed, Lists, Progress, IInv
<1>8. DeployedIsReachable'
  BY DEF PortalsOf, Draft, MaySave, Idle, DraftWrite, Stages, JobType,
         TypeOK, DeployedIsReachable, Jobs, Apart, LiveRows, Known, Lists,
         Progress, IInv
<1>9. ForeignKept' /\ ByHand'
  BY DEF PortalsOf, Draft, MaySave, Idle, DraftWrite, Stages, JobType,
         TypeOK, ForeignKept, Jobs, ByHand, Lists, IInv
<1> QED
  BY <1>1, <1>2, <1>3, <1>4, <1>5, <1>6, <1>7, <1>8, <1>9 DEF IInv

\* The sender needs nothing.
LEMMA SenderIsThereKeeps ==
    ASSUME IInv, NEW w \in Workers, SenderIsThere(w),
           requests' \in 0 .. MaxRequests
    PROVE  IInv'
<1>1. TypeOK'
  BY DEF world, Carry, Goto, SenderIsThere, Stages, JobType, TypeOK, Jobs,
         IInv
<1>2. Jobs'
  BY DEF world, PortalsOf, MaySave, Carry, Goto, SenderIsThere, Stages,
         JobType, TypeOK, Jobs, IInv
<1>3. Apart' /\ LiveRows' /\ Known'
  BY DEF world, Carry, Goto, SenderIsThere, TypeOK, Jobs, Apart, LiveRows,
         Known, IInv
<1>4. Cnames'
  BY DEF world, Carry, Goto, SenderIsThere, TypeOK, DeployedIsReachable,
         Jobs, Apart, LiveRows, Known, Cnames, IInv
<1>5. Routed'
  BY DEF world, Carry, Goto, SenderIsThere, TypeOK, Jobs, Apart, LiveRows,
         Known, Routed, ByHand, IInv
<1>6. Lists'
  BY DEF world, PortalsOf, MaySave, Carry, Goto, SenderIsThere, Stages,
         JobType, TypeOK, DeployedIsReachable, ForeignKept, Jobs, Apart,
         LiveRows, Known, Routed, Lists, IInv
<1>7. Progress'
  BY DEF world, PortalsOf, MaySave, Carry, Goto, SenderIsThere, Stages,
         JobType, TypeOK, Jobs, Apart, Routed, Lists, Progress, IInv
<1>8. DeployedIsReachable'
  BY DEF world, PortalsOf, MaySave, Carry, Goto, SenderIsThere, Stages,
         JobType, TypeOK, DeployedIsReachable, Jobs, Apart, LiveRows, Known,
         Lists, Progress, IInv
<1>9. ForeignKept' /\ ByHand'
  BY DEF world, PortalsOf, MaySave, Carry, Goto, SenderIsThere, Stages,
         JobType, TypeOK, ForeignKept, Jobs, ByHand, Lists, IInv
<1> QED
  BY <1>1, <1>2, <1>3, <1>4, <1>5, <1>6, <1>7, <1>8, <1>9 DEF IInv

\* The forwarder goes before it is added again.
LEMMA RemoveSenderKeeps ==
    ASSUME IInv, NEW w \in Workers, RemoveSender(w),
           requests' \in 0 .. MaxRequests
    PROVE  IInv'
<1>1. TypeOK'
  BY DEF Carry, Goto, RemoveSender, Stages, JobType, TypeOK, Jobs, IInv
<1>2. Jobs'
  BY DEF PortalsOf, MaySave, Carry, Goto, RemoveSender, Stages, JobType,
         TypeOK, Jobs, IInv
<1>3. Apart' /\ LiveRows' /\ Known'
  BY DEF Carry, Goto, RemoveSender, TypeOK, Jobs, Apart, LiveRows, Known,
         IInv
<1>4. Cnames'
  BY DEF Carry, Goto, RemoveSender, TypeOK, DeployedIsReachable, Jobs,
         Apart, LiveRows, Known, Cnames, IInv
<1>5. Routed'
  BY DEF Carry, Goto, RemoveSender, TypeOK, Jobs, Apart, LiveRows, Known,
         Routed, ByHand, IInv
<1>6. Lists'
  BY DEF PortalsOf, MaySave, Carry, Goto, RemoveSender, Stages, JobType,
         TypeOK, DeployedIsReachable, ForeignKept, Jobs, Apart, LiveRows,
         Known, Routed, Lists, IInv
<1>7. Progress'
  BY DEF PortalsOf, MaySave, Carry, Goto, RemoveSender, Stages, JobType,
         TypeOK, Jobs, Apart, Routed, Lists, Progress, IInv
<1>8. DeployedIsReachable'
  BY DEF PortalsOf, MaySave, Carry, Goto, RemoveSender, Stages, JobType,
         TypeOK, DeployedIsReachable, Jobs, Apart, LiveRows, Known, Lists,
         Progress, IInv
<1>9. ForeignKept' /\ ByHand'
  BY DEF PortalsOf, MaySave, Carry, Goto, RemoveSender, Stages, JobType,
         TypeOK, ForeignKept, Jobs, ByHand, Lists, IInv
<1> QED
  BY <1>1, <1>2, <1>3, <1>4, <1>5, <1>6, <1>7, <1>8, <1>9 DEF IInv

\* The forwarder is added.
LEMMA AddSenderKeeps ==
    ASSUME IInv, NEW w \in Workers, AddSender(w),
           requests' \in 0 .. MaxRequests
    PROVE  IInv'
<1>1. TypeOK'
  BY DEF Carry, Goto, AddSender, Stages, JobType, TypeOK, Jobs, IInv
<1>2. Jobs'
  BY DEF PortalsOf, MaySave, Carry, Goto, AddSender, Stages, JobType,
         TypeOK, Jobs, IInv
<1>3. Apart' /\ LiveRows' /\ Known'
  BY DEF Carry, Goto, AddSender, TypeOK, Jobs, Apart, LiveRows, Known, IInv
<1>4. Cnames'
  BY DEF Carry, Goto, AddSender, TypeOK, DeployedIsReachable, Jobs, Apart,
         LiveRows, Known, Cnames, IInv
<1>5. Routed'
  BY DEF Carry, Goto, AddSender, TypeOK, Jobs, Apart, LiveRows, Known,
         Routed, ByHand, IInv
<1>6. Lists'
  BY DEF PortalsOf, MaySave, Carry, Goto, AddSender, Stages, JobType,
         TypeOK, DeployedIsReachable, ForeignKept, Jobs, Apart, LiveRows,
         Known, Routed, Lists, IInv
<1>7. Progress'
  BY DEF PortalsOf, MaySave, Carry, Goto, AddSender, Stages, JobType,
         TypeOK, Jobs, Apart, Routed, Lists, Progress, IInv
<1>8. DeployedIsReachable'
  BY DEF PortalsOf, MaySave, Carry, Goto, AddSender, Stages, JobType,
         TypeOK, DeployedIsReachable, Jobs, Apart, LiveRows, Known, Lists,
         Progress, IInv
<1>9. ForeignKept' /\ ByHand'
  BY DEF PortalsOf, MaySave, Carry, Goto, AddSender, Stages, JobType,
         TypeOK, ForeignKept, Jobs, ByHand, Lists, IInv
<1> QED
  BY <1>1, <1>2, <1>3, <1>4, <1>5, <1>6, <1>7, <1>8, <1>9 DEF IInv

\* The CNAME is put in place.
LEMMA DeployCnameKeeps ==
    ASSUME IInv, NEW w \in Workers, DeployCname(w),
           requests' \in 0 .. MaxRequests
    PROVE  IInv'
<1>1. TypeOK'
  BY DEF Carry, Goto, DeployCname, Stages, JobType, TypeOK, Jobs, IInv
<1>2. Jobs'
  BY DEF PortalsOf, MaySave, Carry, Goto, DeployCname, Stages, JobType,
         TypeOK, Jobs, IInv
<1>3. Apart' /\ LiveRows' /\ Known'
  BY DEF Carry, Goto, DeployCname, TypeOK, Jobs, Apart, LiveRows, Known,
         IInv
<1>4. Cnames'
  BY DEF Carry, Goto, DeployCname, TypeOK, DeployedIsReachable, Jobs, Apart,
         LiveRows, Known, Cnames, IInv
<1>5. Routed'
  BY DEF Carry, Goto, DeployCname, TypeOK, Jobs, Apart, LiveRows, Known,
         Routed, ByHand, IInv
<1>6. Lists'
  BY DEF PortalsOf, MaySave, Carry, Goto, DeployCname, Stages, JobType,
         TypeOK, DeployedIsReachable, ForeignKept, Jobs, Apart, LiveRows,
         Known, Routed, Lists, IInv
<1>7. Progress'
  BY DEF PortalsOf, MaySave, Carry, Goto, DeployCname, Stages, JobType,
         TypeOK, Jobs, Apart, Routed, Lists, Progress, IInv
<1>8. DeployedIsReachable'
  BY DEF PortalsOf, MaySave, Carry, Goto, DeployCname, Stages, JobType,
         TypeOK, DeployedIsReachable, Jobs, Apart, LiveRows, Known, Lists,
         Progress, IInv
<1>9. ForeignKept' /\ ByHand'
  BY DEF PortalsOf, MaySave, Carry, Goto, DeployCname, Stages, JobType,
         TypeOK, ForeignKept, Jobs, ByHand, Lists, IInv
<1> QED
  BY <1>1, <1>2, <1>3, <1>4, <1>5, <1>6, <1>7, <1>8, <1>9 DEF IInv

\* The CNAME is removed.
LEMMA RemoveCnameKeeps ==
    ASSUME IInv, NEW w \in Workers, RemoveCname(w),
           requests' \in 0 .. MaxRequests
    PROVE  IInv'
<1>1. TypeOK'
  BY DEF Carry, Goto, RemoveCname, Stages, JobType, TypeOK, Jobs, IInv
<1>2. Jobs'
  BY DEF PortalsOf, MaySave, Carry, Goto, RemoveCname, Stages, JobType,
         TypeOK, Jobs, IInv
<1>3. Apart' /\ LiveRows' /\ Known'
  BY DEF Carry, Goto, RemoveCname, TypeOK, Jobs, Apart, LiveRows, Known,
         IInv
<1>4. Cnames'
  BY DEF Carry, Goto, RemoveCname, TypeOK, DeployedIsReachable, Jobs, Apart,
         LiveRows, Known, Cnames, IInv
<1>5. Routed'
  BY DEF Carry, Goto, RemoveCname, TypeOK, Jobs, Apart, LiveRows, Known,
         Routed, ByHand, IInv
<1>6. Lists'
  BY DEF PortalsOf, MaySave, Carry, Goto, RemoveCname, Stages, JobType,
         TypeOK, DeployedIsReachable, ForeignKept, Jobs, Apart, LiveRows,
         Known, Routed, Lists, IInv
<1>7. Progress'
  BY DEF PortalsOf, MaySave, Carry, Goto, RemoveCname, Stages, JobType,
         TypeOK, Jobs, Apart, Routed, Lists, Progress, IInv
<1>8. DeployedIsReachable'
  BY DEF PortalsOf, MaySave, Carry, Goto, RemoveCname, Stages, JobType,
         TypeOK, DeployedIsReachable, Jobs, Apart, LiveRows, Known, Lists,
         Progress, IInv
<1>9. ForeignKept' /\ ByHand'
  BY DEF PortalsOf, MaySave, Carry, Goto, RemoveCname, Stages, JobType,
         TypeOK, ForeignKept, Jobs, ByHand, Lists, IInv
<1> QED
  BY <1>1, <1>2, <1>3, <1>4, <1>5, <1>6, <1>7, <1>8, <1>9 DEF IInv

\* A proxy with one entry for each host adds or removes it.
LEMMA ProvisionEntryKeeps ==
    ASSUME IInv, NEW w \in Workers, ProvisionEntry(w),
           requests' \in 0 .. MaxRequests
    PROVE  IInv'
<1>1. TypeOK'
  BY DEF OneEntryEach, Carry, Goto, ProvisionEntry, Stages, JobType, TypeOK,
         Jobs, IInv
<1>2. Jobs'
  BY DEF OneEntryEach, PortalsOf, MaySave, Carry, Goto, ProvisionEntry,
         Stages, JobType, TypeOK, Jobs, IInv
<1>3. Apart' /\ LiveRows' /\ Known'
  BY DEF OneEntryEach, Carry, Goto, ProvisionEntry, TypeOK, Jobs, Apart,
         LiveRows, Known, IInv
<1>4. Cnames'
  BY DEF OneEntryEach, Carry, Goto, ProvisionEntry, TypeOK,
         DeployedIsReachable, Jobs, Apart, LiveRows, Known, Cnames, IInv
<1>5. Routed'
  BY DEF OneEntryEach, Carry, Goto, ProvisionEntry, TypeOK, Jobs, Apart,
         LiveRows, Known, Routed, ByHand, IInv
<1>6. Lists'
  BY DEF OneEntryEach, PortalsOf, MaySave, Carry, Goto, ProvisionEntry,
         Stages, JobType, TypeOK, DeployedIsReachable, ForeignKept, Jobs,
         Apart, LiveRows, Known, Routed, Lists, IInv
<1>7. Progress'
  BY DEF OneEntryEach, PortalsOf, MaySave, Carry, Goto, ProvisionEntry,
         Stages, JobType, TypeOK, Jobs, Apart, Routed, Lists, Progress, IInv
<1>8. DeployedIsReachable'
  BY DEF OneEntryEach, PortalsOf, MaySave, Carry, Goto, ProvisionEntry,
         Stages, JobType, TypeOK, DeployedIsReachable, Jobs, Apart,
         LiveRows, Known, Lists, Progress, IInv
<1>9. ForeignKept' /\ ByHand'
  BY DEF OneEntryEach, PortalsOf, MaySave, Carry, Goto, ProvisionEntry,
         Stages, JobType, TypeOK, ForeignKept, Jobs, ByHand, Lists, IInv
<1> QED
  BY <1>1, <1>2, <1>3, <1>4, <1>5, <1>6, <1>7, <1>8, <1>9 DEF IInv

\* The proxy's list is read.
LEMMA ReadListKeeps ==
    ASSUME IInv, NEW w \in Workers, ReadList(w),
           requests' \in 0 .. MaxRequests
    PROVE  IInv'
<1>1. TypeOK'
  BY DEF world, Carry, Goto, AfterRead, ReadList, Stages, JobType, TypeOK,
         Jobs, IInv
<1>2. Jobs'
  BY DEF world, PortalsOf, MaySave, Carry, Goto, AfterRead, ReadList,
         Stages, JobType, TypeOK, Jobs, IInv
<1>3. Apart' /\ LiveRows' /\ Known'
  BY DEF world, Carry, Goto, AfterRead, ReadList, TypeOK, Jobs, Apart,
         LiveRows, Known, IInv
<1>4. Cnames'
  BY DEF world, Carry, Goto, AfterRead, ReadList, TypeOK,
         DeployedIsReachable, Jobs, Apart, LiveRows, Known, Cnames, IInv
<1>5. Routed'
  BY DEF world, Carry, Goto, AfterRead, ReadList, TypeOK, Jobs, Apart,
         LiveRows, Known, Routed, ByHand, IInv
<1>6. Lists'
  BY DEF world, PortalsOf, MaySave, Carry, Goto, AfterRead, ReadList,
         Stages, JobType, TypeOK, DeployedIsReachable, ForeignKept, Jobs,
         Apart, LiveRows, Known, Routed, Lists, IInv
<1>7. Progress'
  BY DEF world, PortalsOf, MaySave, Carry, Goto, AfterRead, ReadList,
         Stages, JobType, TypeOK, Jobs, Apart, Routed, Lists, Progress, IInv
<1>8. DeployedIsReachable'
  BY DEF world, PortalsOf, MaySave, Carry, Goto, AfterRead, ReadList,
         Stages, JobType, TypeOK, DeployedIsReachable, Jobs, Apart,
         LiveRows, Known, Lists, Progress, IInv
<1>9. ForeignKept' /\ ByHand'
  BY DEF world, PortalsOf, MaySave, Carry, Goto, AfterRead, ReadList,
         Stages, JobType, TypeOK, ForeignKept, Jobs, ByHand, Lists, IInv
<1> QED
  BY <1>1, <1>2, <1>3, <1>4, <1>5, <1>6, <1>7, <1>8, <1>9 DEF IInv

\* A failed read of the list.
LEMMA MisreadListKeeps ==
    ASSUME IInv, NEW w \in Workers, MisreadList(w),
           requests' \in 0 .. MaxRequests
    PROVE  IInv'
<1>1. TypeOK'
<2>1. CASE backend = "caddy" /\ job[w].kind = "teardown"
  BY <2>1 DEF world, Tangle, Carry, Goto, AfterRead, MisreadList, Stages,
         JobType, TypeOK, Jobs, IInv
<2>2. CASE ~(backend = "caddy" /\ job[w].kind = "teardown")
  <3>1. AfterRead \in Stages
    BY DEF AfterRead, Stages
  <3>2. Goto(w, AfterRead) /\ misread' = TRUE /\ live' = live /\ tangled' = tangled
    BY <2>2 DEF MisreadList
  <3>3. job' \in [Workers -> JobType]
    BY <3>1, <3>2 DEF Goto, Carry, IInv, TypeOK, JobType
  <3> QED
    BY <3>2, <3>3 DEF MisreadList, world, IInv, TypeOK
<2> QED
  BY <2>1, <2>2
<1>2. Jobs'
  BY DEF world, PortalsOf, MaySave, Tangle, Carry, Goto, AfterRead,
         MisreadList, Stages, JobType, TypeOK, Jobs, IInv
<1>3. Apart' /\ LiveRows' /\ Known'
  BY DEF world, Tangle, Carry, Goto, AfterRead, MisreadList, TypeOK, Jobs,
         Apart, LiveRows, Known, IInv
<1>4. Cnames'
  BY DEF world, Tangle, Carry, Goto, AfterRead, MisreadList, TypeOK,
         DeployedIsReachable, Jobs, Apart, LiveRows, Known, Cnames, IInv
<1>5. Routed'
  BY DEF world, Tangle, Carry, Goto, AfterRead, MisreadList, TypeOK, Jobs,
         Apart, LiveRows, Known, Routed, ByHand, IInv
<1>6. Lists'
  BY DEF world, PortalsOf, MaySave, Tangle, Carry, Goto, AfterRead,
         MisreadList, Stages, JobType, TypeOK, DeployedIsReachable,
         ForeignKept, Jobs, Apart, LiveRows, Known, Routed, Lists, IInv
<1>7. Progress'
  BY DEF world, PortalsOf, MaySave, Tangle, Carry, Goto, AfterRead,
         MisreadList, Stages, JobType, TypeOK, Jobs, Apart, Routed, Lists,
         Progress, IInv
<1>8. DeployedIsReachable'
  BY DEF world, PortalsOf, MaySave, Tangle, Carry, Goto, AfterRead,
         MisreadList, Stages, JobType, TypeOK, DeployedIsReachable, Jobs,
         Apart, LiveRows, Known, Lists, Progress, IInv
<1>9. ForeignKept' /\ ByHand'
  BY DEF world, PortalsOf, MaySave, Tangle, Carry, Goto, AfterRead,
         MisreadList, Stages, JobType, TypeOK, ForeignKept, Jobs, ByHand,
         Lists, IInv
<1> QED
  BY <1>1, <1>2, <1>3, <1>4, <1>5, <1>6, <1>7, <1>8, <1>9 DEF IInv

\* The second read of the tunnel's list.
LEMMA RereadKeeps ==
    ASSUME IInv, NEW w \in Workers, Reread(w),
           requests' \in 0 .. MaxRequests
    PROVE  IInv'
<1>1. TypeOK'
  BY DEF world, Carry, Goto, Reread, Stages, JobType, TypeOK, Jobs, IInv
<1>2. Jobs'
  BY DEF world, PortalsOf, MaySave, Carry, Goto, Reread, Stages, JobType,
         TypeOK, Jobs, IInv
<1>3. Apart' /\ LiveRows' /\ Known'
  BY DEF world, Carry, Goto, Reread, TypeOK, Jobs, Apart, LiveRows, Known,
         IInv
<1>4. Cnames'
  BY DEF world, Carry, Goto, Reread, TypeOK, DeployedIsReachable, Jobs,
         Apart, LiveRows, Known, Cnames, IInv
<1>5. Routed'
  BY DEF world, Carry, Goto, Reread, TypeOK, Jobs, Apart, LiveRows, Known,
         Routed, ByHand, IInv
<1>6. Lists'
  BY DEF world, PortalsOf, MaySave, Carry, Goto, Reread, Stages, JobType,
         TypeOK, DeployedIsReachable, ForeignKept, Jobs, Apart, LiveRows,
         Known, Routed, Lists, IInv
<1>7. Progress'
  BY DEF world, PortalsOf, MaySave, Carry, Goto, Reread, Stages, JobType,
         TypeOK, Jobs, Apart, Routed, Lists, Progress, IInv
<1>8. DeployedIsReachable'
  BY DEF world, PortalsOf, MaySave, Carry, Goto, Reread, Stages, JobType,
         TypeOK, DeployedIsReachable, Jobs, Apart, LiveRows, Known, Lists,
         Progress, IInv
<1>9. ForeignKept' /\ ByHand'
  BY DEF world, PortalsOf, MaySave, Carry, Goto, Reread, Stages, JobType,
         TypeOK, ForeignKept, Jobs, ByHand, Lists, IInv
<1> QED
  BY <1>1, <1>2, <1>3, <1>4, <1>5, <1>6, <1>7, <1>8, <1>9 DEF IInv

\* A failed second read.
LEMMA RereadFailsKeeps ==
    ASSUME IInv, NEW w \in Workers, RereadFails(w),
           requests' \in 0 .. MaxRequests
    PROVE  IInv'
<1>1. TypeOK'
  BY DEF world, Portals, PortalsOf, MaySave, Tangle, Carry, Goto,
         RereadFails, Stages, JobType, TypeOK, Jobs, IInv
<1>2. Jobs'
  BY DEF world, PortalsOf, MaySave, Tangle, Carry, Goto, RereadFails,
         Stages, JobType, TypeOK, Jobs, IInv
<1>3. Apart' /\ LiveRows' /\ Known'
  BY DEF world, Tangle, Carry, Goto, RereadFails, TypeOK, Jobs, Apart,
         LiveRows, Known, IInv
<1>4. Cnames'
  BY DEF world, Tangle, Carry, Goto, RereadFails, TypeOK,
         DeployedIsReachable, Jobs, Apart, LiveRows, Known, Cnames, IInv
<1>5. Routed'
  BY DEF world, Tangle, Carry, Goto, RereadFails, TypeOK, Jobs, Apart,
         LiveRows, Known, Routed, ByHand, IInv
<1>6. Lists'
  BY DEF world, PortalsOf, MaySave, Tangle, Carry, Goto, RereadFails,
         Stages, JobType, TypeOK, DeployedIsReachable, ForeignKept, Jobs,
         Apart, LiveRows, Known, Routed, Lists, IInv
<1>7. Progress'
  BY DEF world, PortalsOf, MaySave, Tangle, Carry, Goto, RereadFails,
         Stages, JobType, TypeOK, Jobs, Apart, Routed, Lists, Progress, IInv
<1>8. DeployedIsReachable'
  BY DEF world, PortalsOf, MaySave, Tangle, Carry, Goto, RereadFails,
         Stages, JobType, TypeOK, DeployedIsReachable, Jobs, Apart,
         LiveRows, Known, Lists, Progress, IInv
<1>9. ForeignKept' /\ ByHand'
  BY DEF world, PortalsOf, MaySave, Tangle, Carry, Goto, RereadFails,
         Stages, JobType, TypeOK, ForeignKept, Jobs, ByHand, Lists, IInv
<1> QED
  BY <1>1, <1>2, <1>3, <1>4, <1>5, <1>6, <1>7, <1>8, <1>9 DEF IInv

\* The list goes back, with the host or without.
LEMMA WriteListKeeps ==
    ASSUME IInv, NEW w \in Workers, WriteList(w),
           requests' \in 0 .. MaxRequests
    PROVE  IInv'
<1>1. TypeOK'
  BY DEF Merged, Without, Carry, Goto, WriteList, Stages, JobType, TypeOK,
         Jobs, IInv
<1>2. Jobs'
  BY DEF PortalsOf, MaySave, Merged, Without, Carry, Goto, WriteList,
         Stages, JobType, TypeOK, Jobs, IInv
<1>3. Apart' /\ LiveRows' /\ Known'
  BY DEF Merged, Without, Carry, Goto, WriteList, TypeOK, Jobs, Apart,
         LiveRows, Known, IInv
<1>4. Cnames'
  BY DEF Merged, Without, Carry, Goto, WriteList, TypeOK,
         DeployedIsReachable, Jobs, Apart, LiveRows, Known, Cnames, IInv
<1>5. Routed'
<2> SUFFICES ASSUME NEW h \in routes' \cap Hosts, Fresh(DomainOf[h])
             PROVE  /\ Quiet(DomainOf[h])' => Live(h)
                    /\ \A v \in Workers :
                          Busy(v)' /\ job'[v].domain = DomainOf[h] =>
                             /\ h = job'[v].host
                             /\ job'[v].kind = "teardown" => job'[v].at # "answer"
  BY DEF Routed, WriteList, world
<2>1. h \in job[w].seen \/ (job[w].kind = "deploy" /\ h = job[w].host)
  BY DEF WriteList, Merged, Without
<2>2. Holds(w) /\ Busy(w) /\ job[w].host \in HostsOf(job[w].domain)
  BY DEF WriteList, IInv, TypeOK, JobType, Stages, Jobs
<2>3. /\ \A v \in Workers \ {w} : job'[v] = job[v]
      /\ job'[w].kind = job[w].kind /\ job'[w].domain = job[w].domain
      /\ job'[w].host = job[w].host
  BY DEF WriteList, Goto, Carry, IInv, TypeOK
<2>4. CASE DomainOf[h] = job[w].domain
  <3>1. h = job[w].host
    BY <2>1, <2>2, <2>4 DEF IInv, Lists
  <3>2. job[w].kind # "teardown"
    BY <2>1, <2>2, <3>1 DEF WriteList, Without, IInv, TypeOK
  <3>3. \A v \in Workers \ {w} : job[v].domain = DomainOf[h] => ~Busy(v)
    BY <2>2, <2>4 DEF IInv, Apart
  <3> QED
    BY <2>2, <2>3, <2>4, <3>1, <3>2, <3>3
<2>5. CASE DomainOf[h] # job[w].domain
  <3>1. Live(h)
    BY <2>1, <2>2, <2>5 DEF IInv, Lists
  <3>2. Quiet(DomainOf[h])
    BY <3>1 DEF IInv, LiveRows
  <3> QED
    BY <2>3, <3>1, <3>2
<2> QED
  BY <2>4, <2>5
<1>6. Lists'
  BY DEF PortalsOf, MaySave, Merged, Without, Carry, Goto, WriteList,
         Stages, JobType, TypeOK, DeployedIsReachable, ForeignKept, Jobs,
         Apart, LiveRows, Known, Routed, Lists, IInv
<1>7. Progress'
  BY DEF PortalsOf, MaySave, Merged, Without, Carry, Goto, WriteList,
         Stages, JobType, TypeOK, Jobs, Apart, Routed, Lists, Progress, IInv
<1>8. DeployedIsReachable'
  BY DEF PortalsOf, MaySave, Merged, Without, Carry, Goto, WriteList,
         Stages, JobType, TypeOK, DeployedIsReachable, Jobs, Apart,
         LiveRows, Known, Lists, Progress, IInv
<1>9. ForeignKept' /\ ByHand'
  BY DEF PortalsOf, MaySave, Merged, Without, Carry, Goto, WriteList,
         Stages, JobType, TypeOK, ForeignKept, Jobs, ByHand, Lists, IInv
<1> QED
  BY <1>1, <1>2, <1>3, <1>4, <1>5, <1>6, <1>7, <1>8, <1>9 DEF IInv

\* The list is refused, unnoticed.
LEMMA WriteListFailsKeeps ==
    ASSUME IInv, NEW w \in Workers, WriteListFails(w),
           requests' \in 0 .. MaxRequests
    PROVE  IInv'
<1>1. TypeOK'
  BY DEF world, Tangle, Carry, Goto, WriteListFails, Stages, JobType,
         TypeOK, Jobs, IInv
<1>2. Jobs'
  BY DEF world, PortalsOf, MaySave, Tangle, Carry, Goto, WriteListFails,
         Stages, JobType, TypeOK, Jobs, IInv
<1>3. Apart' /\ LiveRows' /\ Known'
  BY DEF world, Tangle, Carry, Goto, WriteListFails, TypeOK, Jobs, Apart,
         LiveRows, Known, IInv
<1>4. Cnames'
  BY DEF world, Tangle, Carry, Goto, WriteListFails, TypeOK,
         DeployedIsReachable, Jobs, Apart, LiveRows, Known, Cnames, IInv
<1>5. Routed'
  BY DEF world, Tangle, Carry, Goto, WriteListFails, TypeOK, Jobs, Apart,
         LiveRows, Known, Routed, ByHand, IInv
<1>6. Lists'
  BY DEF world, PortalsOf, MaySave, Tangle, Carry, Goto, WriteListFails,
         Stages, JobType, TypeOK, DeployedIsReachable, ForeignKept, Jobs,
         Apart, LiveRows, Known, Routed, Lists, IInv
<1>7. Progress'
  BY DEF world, PortalsOf, MaySave, Tangle, Carry, Goto, WriteListFails,
         Stages, JobType, TypeOK, Jobs, Apart, Routed, Lists, Progress, IInv
<1>8. DeployedIsReachable'
  BY DEF world, PortalsOf, MaySave, Tangle, Carry, Goto, WriteListFails,
         Stages, JobType, TypeOK, DeployedIsReachable, Jobs, Apart,
         LiveRows, Known, Lists, Progress, IInv
<1>9. ForeignKept' /\ ByHand'
  BY DEF world, PortalsOf, MaySave, Tangle, Carry, Goto, WriteListFails,
         Stages, JobType, TypeOK, ForeignKept, Jobs, ByHand, Lists, IInv
<1> QED
  BY <1>1, <1>2, <1>3, <1>4, <1>5, <1>6, <1>7, <1>8, <1>9 DEF IInv

\* A removal fails.
LEMMA RemovalFailsKeeps ==
    ASSUME IInv, NEW w \in Workers, RemovalFails(w),
           requests' \in 0 .. MaxRequests
    PROVE  IInv'
<1>1. TypeOK'
  BY DEF world, Tangle, Carry, Goto, RemovalFails, Stages, JobType, TypeOK,
         Jobs, IInv
<1>2. Jobs'
  BY DEF world, PortalsOf, MaySave, Tangle, Carry, Goto, RemovalFails,
         Stages, JobType, TypeOK, Jobs, IInv
<1>3. Apart' /\ LiveRows' /\ Known'
  BY DEF world, Tangle, Carry, Goto, RemovalFails, TypeOK, Jobs, Apart,
         LiveRows, Known, IInv
<1>4. Cnames'
  BY DEF world, Tangle, Carry, Goto, RemovalFails, TypeOK,
         DeployedIsReachable, Jobs, Apart, LiveRows, Known, Cnames, IInv
<1>5. Routed'
  BY DEF world, Tangle, Carry, Goto, RemovalFails, TypeOK, Jobs, Apart,
         LiveRows, Known, Routed, ByHand, IInv
<1>6. Lists'
  BY DEF world, PortalsOf, MaySave, Tangle, Carry, Goto, RemovalFails,
         Stages, JobType, TypeOK, DeployedIsReachable, ForeignKept, Jobs,
         Apart, LiveRows, Known, Routed, Lists, IInv
<1>7. Progress'
  BY DEF world, PortalsOf, MaySave, Tangle, Carry, Goto, RemovalFails,
         Stages, JobType, TypeOK, Jobs, Apart, Routed, Lists, Progress, IInv
<1>8. DeployedIsReachable'
  BY DEF world, PortalsOf, MaySave, Tangle, Carry, Goto, RemovalFails,
         Stages, JobType, TypeOK, DeployedIsReachable, Jobs, Apart,
         LiveRows, Known, Lists, Progress, IInv
<1>9. ForeignKept' /\ ByHand'
  BY DEF world, PortalsOf, MaySave, Tangle, Carry, Goto, RemovalFails,
         Stages, JobType, TypeOK, ForeignKept, Jobs, ByHand, Lists, IInv
<1> QED
  BY <1>1, <1>2, <1>3, <1>4, <1>5, <1>6, <1>7, <1>8, <1>9 DEF IInv

\* A request is answered.
LEMMA AnswerKeeps ==
    ASSUME IInv, NEW w \in Workers, Answer(w),
           requests' \in 0 .. MaxRequests
    PROVE  IInv'
<1>1. TypeOK'
  BY DEF world, Idle, Answer, Stages, JobType, TypeOK, Jobs, IInv
<1>2. Jobs'
  BY DEF world, PortalsOf, MaySave, Idle, Answer, Stages, JobType, TypeOK,
         Jobs, IInv
<1>3. Apart' /\ LiveRows' /\ Known'
  BY DEF world, Idle, Answer, TypeOK, Jobs, Apart, LiveRows, Known, IInv
<1>4. Cnames'
  BY DEF world, Idle, Answer, TypeOK, DeployedIsReachable, Jobs, Apart,
         LiveRows, Known, Cnames, IInv
<1>5. Routed'
<2>1. CASE job[w].kind = "deploy"
  BY <2>1 DEF world, Idle, Answer, TypeOK, Jobs, Apart, LiveRows, Known,
         Routed, ByHand, IInv
<2>2. CASE job[w].kind # "deploy"
  BY <2>2 DEF world, Idle, Answer, TypeOK, Jobs, Apart, LiveRows, Known,
         Routed, ByHand, IInv
<2> QED
  BY <2>1, <2>2
<1>6. Lists'
  BY DEF world, PortalsOf, MaySave, Idle, Answer, Stages, JobType, TypeOK,
         DeployedIsReachable, ForeignKept, Jobs, Apart, LiveRows, Known,
         Routed, Lists, IInv
<1>7. Progress'
  BY DEF world, PortalsOf, MaySave, Idle, Answer, Stages, JobType, TypeOK,
         Jobs, Apart, Routed, Lists, Progress, IInv
<1>8. DeployedIsReachable'
  BY DEF world, PortalsOf, MaySave, Idle, Answer, Stages, JobType, TypeOK,
         DeployedIsReachable, Jobs, Apart, LiveRows, Known, Lists, Progress,
         IInv
<1>9. ForeignKept' /\ ByHand'
  BY DEF world, PortalsOf, MaySave, Idle, Answer, Stages, JobType, TypeOK,
         ForeignKept, Jobs, ByHand, Lists, IInv
<1> QED
  BY <1>1, <1>2, <1>3, <1>4, <1>5, <1>6, <1>7, <1>8, <1>9 DEF IInv

\* A request ends early.
LEMMA AbortKeeps ==
    ASSUME IInv, NEW w \in Workers, Abort(w),
           requests' \in 0 .. MaxRequests
    PROVE  IInv'
<1>1. TypeOK'
  BY DEF world, Idle, Tangle, Abort, Stages, JobType, TypeOK, Jobs, IInv
<1>2. Jobs'
  BY DEF world, PortalsOf, MaySave, Idle, Tangle, Abort, Stages, JobType,
         TypeOK, Jobs, IInv
<1>3. Apart' /\ LiveRows' /\ Known'
  BY DEF world, Idle, Tangle, Abort, TypeOK, Jobs, Apart, LiveRows, Known,
         IInv
<1>4. Cnames'
  BY DEF world, Idle, Tangle, Abort, TypeOK, DeployedIsReachable, Jobs,
         Apart, LiveRows, Known, Cnames, IInv
<1>5. Routed'
  BY DEF world, Idle, Tangle, Abort, TypeOK, Jobs, Apart, LiveRows, Known,
         Routed, ByHand, IInv
<1>6. Lists'
  BY DEF world, PortalsOf, MaySave, Idle, Tangle, Abort, Stages, JobType,
         TypeOK, DeployedIsReachable, ForeignKept, Jobs, Apart, LiveRows,
         Known, Routed, Lists, IInv
<1>7. Progress'
  BY DEF world, PortalsOf, MaySave, Idle, Tangle, Abort, Stages, JobType,
         TypeOK, Jobs, Apart, Routed, Lists, Progress, IInv
<1>8. DeployedIsReachable'
  BY DEF world, PortalsOf, MaySave, Idle, Tangle, Abort, Stages, JobType,
         TypeOK, DeployedIsReachable, Jobs, Apart, LiveRows, Known, Lists,
         Progress, IInv
<1>9. ForeignKept' /\ ByHand'
  BY DEF world, PortalsOf, MaySave, Idle, Tangle, Abort, Stages, JobType,
         TypeOK, ForeignKept, Jobs, ByHand, Lists, IInv
<1> QED
  BY <1>1, <1>2, <1>3, <1>4, <1>5, <1>6, <1>7, <1>8, <1>9 DEF IInv

-----------------------------------------------------------------------------
\* At the start nothing is saved, deployed or under way.
LEMMA InitIInv == Init => IInv
<1> SUFFICES ASSUME Init PROVE IInv
  OBVIOUS
<1> USE DEF Init, Idle
<1>1. TypeOK
  <2>1. job \in [Workers -> JobType] /\ requests \in 0 .. MaxRequests
    BY DEF JobType
  <2> QED
    BY <2>1 DEF TypeOK
<1>2. Jobs /\ Apart /\ LiveRows /\ Known
  BY DEF Jobs, Apart, LiveRows, Known
<1>3. Cnames /\ Routed /\ ByHand /\ Lists /\ Progress
  BY DEF Cnames, Routed, ByHand, Lists, Progress
<1>4. DeployedIsReachable /\ ForeignKept
  BY DEF DeployedIsReachable, ForeignKept
<1> QED
  BY <1>1, <1>2, <1>3, <1>4 DEF IInv

\* A step that changes nothing keeps the invariant.
LEMMA StutterKeeps == ASSUME IInv, UNCHANGED vars PROVE IInv'
<1> USE DEF vars
<1>1. TypeOK'
  BY DEF IInv, TypeOK
<1>2. Jobs' /\ Apart' /\ LiveRows' /\ Known'
  BY DEF IInv, Jobs, Apart, LiveRows, Known
<1>3. Cnames' /\ Routed' /\ ByHand' /\ Lists' /\ Progress'
  BY DEF IInv, Cnames, Routed, ByHand, Lists, Progress
<1>4. DeployedIsReachable' /\ ForeignKept'
  BY DEF IInv, DeployedIsReachable, ForeignKept
<1> QED
  BY <1>1, <1>2, <1>3, <1>4 DEF IInv

\* Every step keeps the invariant.
LEMMA NextKeeps == ASSUME IInv, [Next]_vars PROVE IInv'
<1>1. CASE UNCHANGED vars
  BY <1>1, StutterKeeps
<1>2. ASSUME NEW w \in Workers, Look(w) PROVE IInv'
  BY <1>2, StutterKeeps DEF Look
<1>3. ASSUME NEW w \in Workers, Request(w) PROVE IInv'
  <2>1. requests' \in 0 .. MaxRequests
    BY <1>3 DEF Request, IInv, TypeOK
  <2> QED
    BY <1>3, <2>1, SaveReadKeeps, DraftReadKeeps, BeginDeployKeeps DEF Request
<1>4. ASSUME NEW w \in Workers, Step(w) PROVE IInv'
  <2>1. requests' \in 0 .. MaxRequests
    BY <1>4 DEF Step, IInv, TypeOK
  <2>2. CASE SaveWrite(w) \/ SaveDisables(w) \/ DraftWrite(w)
    BY <2>1, <2>2, SaveWriteKeeps, SaveDisablesKeeps, DraftWriteKeeps
  <2>3. CASE SenderIsThere(w) \/ RemoveSender(w) \/ AddSender(w)
    BY <2>1, <2>3, SenderIsThereKeeps, RemoveSenderKeeps, AddSenderKeeps
  <2>4. CASE DeployCname(w) \/ RemoveCname(w) \/ ProvisionEntry(w)
    BY <2>1, <2>4, DeployCnameKeeps, RemoveCnameKeeps, ProvisionEntryKeeps
  <2>5. CASE ReadList(w) \/ MisreadList(w) \/ Reread(w) \/ RereadFails(w)
    BY <2>1, <2>5, ReadListKeeps, MisreadListKeeps, RereadKeeps, RereadFailsKeeps
  <2>6. CASE WriteList(w) \/ WriteListFails(w)
    BY <2>1, <2>6, WriteListKeeps, WriteListFailsKeeps
  <2>7. CASE RemovalFails(w) \/ Answer(w) \/ Abort(w)
    BY <2>1, <2>7, RemovalFailsKeeps, AnswerKeeps, AbortKeeps
  <2> QED
    BY <1>4, <2>2, <2>3, <2>4, <2>5, <2>6, <2>7 DEF Step
<1> QED
  BY <1>1, <1>2, <1>3, <1>4 DEF Next

\* What the routes and CNAMEs of a domain between its requests may be.
LEMMA IInvServed == IInv => ServedAsSaved
<1> SUFFICES ASSUME IInv, NEW d \in Domains \ tangled, Quiet(d),
                    NEW h \in Served(d)
             PROVE  Enabled(d) /\ h = row[d].host
  BY DEF ServedAsSaved
<1>1. h \in Hosts /\ DomainOf[h] = d /\ (h \in cname \/ h \in routes)
  BY DEF Served
<1>2. Live(h)
  BY <1>1 DEF IInv, Cnames, Routed
<1> QED
  BY <1>1, <1>2 DEF IInv, LiveRows

\* IInv holds always.
THEOREM Invariance == Spec => []IInv
<1> QED
  BY InitIInv, NextKeeps, PTL DEF Spec

\* The variables keep their types; an enabled portal has a host of its own
\* domain.
THEOREM TypeCorrectness == Spec => []TypeOK
<1>1. IInv => TypeOK
  BY DEF IInv
<1> QED
  BY <1>1, Invariance, PTL

\* Of a domain between its requests nothing is served but the host of its
\* enabled portal, for any number of workers and domains: disabling a portal
\* removes it, apart from failures, overlaps and renames.
THEOREM ServedAsSavedHolds == Spec => []ServedAsSaved
  BY IInvServed, Invariance, PTL

\* A portal deployed with success stays deployed until its domain is changed,
\* however the requests of other domains overlap.
THEOREM DeployedIsReachableHolds == Spec => []DeployedIsReachable
<1>1. IInv => DeployedIsReachable
  BY DEF IInv
<1> QED
  BY <1>1, Invariance, PTL

\* A route that is not a portal's is never lost in a race.
THEOREM ForeignKeptHolds == Spec => []ForeignKept
<1>1. IInv => ForeignKept
  BY DEF IInv
<1> QED
  BY <1>1, Invariance, PTL

=============================================================================
