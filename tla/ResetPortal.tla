---------------------------- MODULE ResetPortal ----------------------------
(***************************************************************************)
(* Branded reset portals: routes/reset_portal.py and the services under    *)
(* it.  Saving a portal writes one row; deploying it goes through MXroute  *)
(* (a forwarder for the sender of the mails), Cloudflare (a CNAME) and a   *)
(* reverse proxy (a route); disabling it takes the last two away again.    *)
(* There is no undo and no lock, and two of the proxies keep their routes  *)
(* in one list that is read, changed and written back whole.               *)
(*                                                                         *)
(* An upsert or a removal at a service is one step: it looks the thing up  *)
(* first, and takes effect at its last call.                               *)
(***************************************************************************)
EXTENDS Naturals

CONSTANTS
    Workers,
    Domains,
    Hosts,      \* the portal hosts that may be chosen, prefix.domain
    DomainOf,   \* the domain of each
    Caught,     \* domains whose catch-all satisfies the sender's verification
    Backends,   \* values of REVERSE_PROXY_BACKEND to consider
    Foreign,    \* a route of the proxy that is not a portal's
    MaxRequests, \* bound: how many requests come in all
    None

ListBased == {"caddy", "cloudflare_tunnel"}
OneEntryEach == {"npm", "traefik"}

ASSUME DomainOfAssumption == DomainOf \in [Hosts -> Domains]
ASSUME BackendsAssumption ==
    Backends \subseteq ListBased \cup OneEntryEach \cup {"manual"}
ASSUME NoneAssumption ==
    /\ None \notin Hosts
    /\ None \notin Domains
    /\ None \notin [enabled : BOOLEAN, host : Hosts \cup {None}]
ASSUME MaxRequestsAssumption == MaxRequests \in Nat
ASSUME ForeignAssumption == Foreign \notin Hosts

VARIABLES
    backend,    \* the proxy; it is chosen at installation
    row,        \* domain_reset_portals
    cname,      \* hosts with a CNAME at Cloudflare
    routes,     \* what the proxy serves
    sender,     \* whether the forwarder reset@domain exists
    job,        \* the request each worker serves
    requests,   \* how many have come
    \* history
    live,       \* domains whose last change outside was a deployment that
                \* ended well, of the row they still have
    tangled,    \* domains with a failure, an overlap or a rename behind them
    misread     \* a failed read of the list was taken for an empty one

vars == <<backend, row, cname, routes, sender, job, requests, live, tangled,
          misread>>
world == <<backend, row, cname, routes, sender>>

----------------------------------------------------------------------------
HostsOf(d) == {h \in Hosts : DomainOf[h] = d}
Portals == [enabled : BOOLEAN, host : Hosts \cup {None}]
PortalsOf(d) == [enabled : BOOLEAN, host : HostsOf(d) \cup {None}]
Draft == [enabled |-> FALSE, host |-> None]

Enabled(d) == row[d] # None /\ row[d].enabled

\* Mutant of MaySave: a portal may be enabled without a prefix.
MaySaveAny(new) == TRUE
\* The check at the head of the handler, which the upsert repeats.
MaySave(new) == new.enabled => new.host # None

\* Mutant of Merged: the other portals' hosts are forgotten.
KeptOwn(seen, h) == (seen \ Hosts) \cup {h}
\* merge_tunnel_ingress_hostname and upsert_caddy_portal_route
Merged(seen, h) == seen \cup {h}

\* Mutant of Without: routes that are no portal's go too.
WithoutOthers(seen, h) == (seen \ {h}) \cap Hosts
\* remove_tunnel_ingress_hostname and CaddyBackend.delete_portal_host
Without(seen, h) == seen \ {h}

Outside == {"deploy", "teardown"}
Idle == [kind |-> "idle", at |-> "idle", domain |-> None, host |-> None,
         seen |-> {}]
Begin(kind, at, d, h) ==
    [kind |-> kind, at |-> at, domain |-> d, host |-> h, seen |-> {}]

\* The other workers' requests that a request of this kind gets mixed up
\* with: those of its domain and, where the proxy has one list, those that
\* edit it.
Rivals(w, kind, d) ==
    {v \in Workers \ {w} :
        /\ job[v].kind # "idle"
        /\ \/ job[v].domain = d
           \/ backend \in ListBased /\ {kind, job[v].kind} \subseteq Outside}
Clash(w, kind, d) ==
    LET met == Rivals(w, kind, d)
    IN  {job[v].domain : v \in met} \cup (IF met = {} THEN {} ELSE {d})

\* History: these domains are entangled, and d is no longer as deployed.
Tangle(S) == tangled' = tangled \cup S /\ live' = live \ S
TangleAndDrop(S, d) == tangled' = tangled \cup S /\ live' = live \ (S \cup {d})

\* The request goes on, with a list in hand or without.
Carry(w, at, seen) ==
    job' = [job EXCEPT ![w] = [kind |-> @.kind, at |-> at, domain |-> @.domain,
                               host |-> @.host, seen |-> seen]]
Goto(w, at) == Carry(w, at, {})

----------------------------------------------------------------------------
Init ==
    /\ backend \in Backends
    /\ row = [d \in Domains |-> None]
    /\ cname = {}
    /\ routes = {Foreign}
    /\ sender \in [Domains -> BOOLEAN]
    /\ job = [w \in Workers |-> Idle]
    /\ requests = 0
    /\ live = {}
    /\ tangled = {}
    /\ misread = FALSE

\* PATCH: the row before.  Of it the handler uses the host, if it was enabled.
SaveRead(w, d) ==
    /\ job[w].kind = "idle"
    /\ job' = [job EXCEPT ![w] =
                 Begin("save", "save", d, IF Enabled(d) THEN row[d].host ELSE None)]
    /\ Tangle(Clash(w, "save", d))
    /\ UNCHANGED <<world, misread>>

\* Mutant of TearsDown: the new row's host decides.
TearsDownNew(w, new) == ~new.enabled /\ job[w].host # None /\ new.host # None
\* A disabling save tears down the host of the row before, whatever prefix
\* the form has now.
TearsDown(w, new) == ~new.enabled /\ job[w].host # None

\* PATCH: the new row, where nothing is torn down.  Renaming a portal that
\* is deployed leaves the old host's CNAME and route in place.
SaveWrite(w) ==
    LET d == job[w].domain IN
    /\ job[w].kind = "save"
    /\ \E new \in PortalsOf(d) :
          /\ MaySave(new)
          /\ ~TearsDown(w, new)
          /\ row' = [row EXCEPT ![d] = new]
          /\ Tangle(IF d \in live /\ new.enabled /\ new.host # row[d].host
                    THEN {d} ELSE {})
    /\ job' = [job EXCEPT ![w] = Idle]
    /\ UNCHANGED <<backend, cname, routes, sender, misread>>

\* PATCH: the new row, with the portal disabled; teardown_reset_portal begins.
SaveDisables(w) ==
    LET d == job[w].domain IN
    /\ job[w].kind = "save"
    /\ \E new \in PortalsOf(d) :
          /\ MaySave(new)
          /\ TearsDown(w, new)
          /\ row' = [row EXCEPT ![d] = new]
    /\ job' = [job EXCEPT ![w] = Begin("teardown", "cname", d, job[w].host)]
    /\ TangleAndDrop(Clash(w, "teardown", d), d)
    /\ UNCHANGED <<backend, cname, routes, sender, misread>>

\* A logo is uploaded for a domain without a row; with one nothing changes
\* here.
DraftRead(w, d) ==
    /\ job[w].kind = "idle"
    /\ row[d] = None
    /\ job' = [job EXCEPT ![w] = Begin("draft", "draft", d, None)]
    /\ Tangle(Clash(w, "draft", d))
    /\ UNCHANGED <<world, misread>>

\* The empty draft, over whatever row there is by now.
DraftWrite(w) ==
    /\ job[w].kind = "draft"
    /\ row' = [row EXCEPT ![job[w].domain] = Draft]
    /\ job' = [job EXCEPT ![w] = Idle]
    /\ UNCHANGED <<backend, cname, routes, sender, live, tangled, misread>>

----------------------------------------------------------------------------
\* deploy-dns: the row is read, and what it says is deployed to the end.
BeginDeploy(w, d) ==
    /\ job[w].kind = "idle"
    /\ Enabled(d)
    /\ backend # "manual"
    /\ job' = [job EXCEPT ![w] = Begin("deploy", "sender", d, row[d].host)]
    /\ TangleAndDrop(Clash(w, "deploy", d), d)
    /\ UNCHANGED <<world, misread>>

\* ensure_reset_sender_forwarder finds the catch-all, or the forwarder with
\* the administrator among its destinations.
SenderIsThere(w) ==
    /\ job[w].at = "sender"
    /\ job[w].domain \in Caught \/ sender[job[w].domain]
    /\ Goto(w, "cname")
    /\ UNCHANGED <<world, live, tangled, misread>>

\* It finds no catch-all, or gets no answer about it, and no forwarder, or
\* one to others, which it deletes.
RemoveSender(w) ==
    /\ job[w].at = "sender"
    /\ sender' = [sender EXCEPT ![job[w].domain] = FALSE]
    /\ Goto(w, "forward")
    /\ UNCHANGED <<backend, row, cname, routes, live, tangled, misread>>

AddSender(w) ==
    /\ job[w].at = "forward"
    /\ sender' = [sender EXCEPT ![job[w].domain] = TRUE]
    /\ Goto(w, "cname")
    /\ UNCHANGED <<backend, row, cname, routes, live, tangled, misread>>

DeployCname(w) ==
    /\ job[w].at = "cname"
    /\ job[w].kind = "deploy"
    /\ cname' = cname \cup {job[w].host}
    /\ Goto(w, "proxy")
    /\ UNCHANGED <<backend, row, routes, sender, live, tangled, misread>>

RemoveCname(w) ==
    /\ job[w].at = "cname"
    /\ job[w].kind = "teardown"
    /\ cname' = cname \ {job[w].host}
    /\ Goto(w, IF backend = "manual" THEN "answer" ELSE "proxy")
    /\ UNCHANGED <<backend, row, routes, sender, live, tangled, misread>>

----------------------------------------------------------------------------
\* Nginx Proxy Manager and Traefik have an entry of its own for each host.
ProvisionEntry(w) ==
    /\ job[w].at = "proxy"
    /\ backend \in OneEntryEach
    /\ routes' = IF job[w].kind = "deploy" THEN routes \cup {job[w].host}
                 ELSE routes \ {job[w].host}
    /\ Goto(w, "answer")
    /\ UNCHANGED <<backend, row, cname, sender, live, tangled, misread>>

\* The tunnel's configuration is read a second time before it is written.
AfterRead == IF backend = "caddy" THEN "write" ELSE "reread"

ReadList(w) ==
    /\ job[w].at = "proxy"
    /\ backend \in ListBased
    /\ \/ /\ backend = "caddy"
          /\ job[w].kind = "teardown"
          /\ job[w].host \notin routes
          /\ Goto(w, "answer")
       \/ /\ backend = "caddy" /\ job[w].kind = "teardown"
                => job[w].host \in routes
          /\ Carry(w, AfterRead, routes)
    /\ UNCHANGED <<world, live, tangled, misread>>

\* The read is answered with an error, which reads as no configuration.
\* Caddy's tear-down finds no server in it and is done.
MisreadList(w) ==
    /\ job[w].at = "proxy"
    /\ backend \in ListBased
    /\ IF backend = "caddy" /\ job[w].kind = "teardown"
       THEN /\ Goto(w, "answer")
            /\ Tangle({job[w].domain})
            /\ UNCHANGED misread
       ELSE /\ Goto(w, AfterRead)
            /\ misread' = TRUE
            /\ UNCHANGED <<live, tangled>>
    /\ UNCHANGED world

\* The second read decides whether there is anything to write.  A host that
\* is there is written again when the origin has changed.
Reread(w) ==
    /\ job[w].at = "reread"
    /\ \/ /\ job[w].kind = "deploy" <=> job[w].host \in routes
          /\ Goto(w, "answer")
       \/ /\ job[w].kind = "teardown" => job[w].host \in routes
          /\ Carry(w, "write", job[w].seen)
    /\ UNCHANGED <<world, live, tangled, misread>>

\* The second read is answered with an error and shows no host.
RereadFails(w) ==
    /\ job[w].at = "reread"
    /\ IF job[w].kind = "deploy"
       THEN /\ Carry(w, "write", job[w].seen)
            /\ UNCHANGED <<live, tangled>>
       ELSE /\ Goto(w, "answer")
            /\ Tangle({job[w].domain})
    /\ UNCHANGED <<world, misread>>

\* The whole list as it was read, with the host added or taken out.
WriteList(w) ==
    /\ job[w].at = "write"
    /\ routes' = IF job[w].kind = "deploy" THEN Merged(job[w].seen, job[w].host)
                 ELSE Without(job[w].seen, job[w].host)
    /\ Goto(w, "answer")
    /\ UNCHANGED <<backend, row, cname, sender, live, tangled, misread>>

\* Nobody looks at what Cloudflare answers to the tunnel's new list.
WriteListFails(w) ==
    /\ job[w].at = "write"
    /\ backend = "cloudflare_tunnel"
    /\ Goto(w, "answer")
    /\ Tangle({job[w].domain})
    /\ UNCHANGED <<world, misread>>

----------------------------------------------------------------------------
\* A removal fails; the tear-down notes it and goes on.
RemovalFails(w) ==
    /\ job[w].kind = "teardown"
    /\ job[w].at # "answer"
    /\ Goto(w, IF job[w].at = "cname" /\ backend # "manual" THEN "proxy"
               ELSE "answer")
    /\ Tangle({job[w].domain})
    /\ UNCHANGED <<world, misread>>

Answer(w) ==
    /\ job[w].at = "answer"
    /\ live' = IF job[w].kind = "deploy" /\ job[w].domain \notin tangled
               THEN live \cup {job[w].domain} ELSE live
    /\ job' = [job EXCEPT ![w] = Idle]
    /\ UNCHANGED <<world, tangled, misread>>

\* An exception ends a deployment, or gunicorn kills the worker.
Abort(w) ==
    /\ job[w].kind # "idle"
    /\ job' = [job EXCEPT ![w] = Idle]
    /\ Tangle(IF job[w].kind \in Outside THEN {job[w].domain} ELSE {})
    /\ UNCHANGED <<world, misread>>

\* GET of the portal and of the preview of its logo.
Look(w) == job[w].kind = "idle" /\ UNCHANGED vars

Request(w) ==
    /\ requests < MaxRequests
    /\ requests' = requests + 1
    /\ \E d \in Domains : SaveRead(w, d) \/ DraftRead(w, d) \/ BeginDeploy(w, d)

Step(w) ==
    /\ \/ SaveWrite(w) \/ SaveDisables(w) \/ DraftWrite(w)
       \/ SenderIsThere(w) \/ RemoveSender(w) \/ AddSender(w)
       \/ DeployCname(w) \/ RemoveCname(w)
       \/ ProvisionEntry(w)
       \/ ReadList(w) \/ MisreadList(w) \/ Reread(w) \/ RereadFails(w)
       \/ WriteList(w) \/ WriteListFails(w)
       \/ RemovalFails(w) \/ Answer(w) \/ Abort(w)
    /\ UNCHANGED requests

Next == \E w \in Workers : Look(w) \/ Request(w) \/ Step(w)

Spec == Init /\ [][Next]_vars

----------------------------------------------------------------------------
Stages == {"sender", "forward", "cname", "proxy", "reread", "write", "answer"}
JobType ==
    [kind : {"idle", "save", "draft"} \cup Outside,
     at : {"idle", "save", "draft"} \cup Stages,
     domain : Domains \cup {None}, host : Hosts \cup {None},
     seen : SUBSET (Hosts \cup {Foreign})]

\* Every variable keeps its type; an enabled portal has a host, and a host
\* of its own domain.
TypeOK ==
    /\ backend \in Backends
    /\ row \in [Domains -> Portals \cup {None}]
    /\ \A d \in Domains : row[d] # None => row[d] \in PortalsOf(d) /\ MaySave(row[d])
    /\ cname \subseteq Hosts
    /\ routes \subseteq Hosts \cup {Foreign}
    /\ sender \in [Domains -> BOOLEAN]
    /\ job \in [Workers -> JobType]
    /\ requests \in 0 .. MaxRequests
    /\ live \subseteq Domains
    /\ tangled \subseteq Domains
    /\ misread \in BOOLEAN

Quiet(d) == \A w \in Workers : job[w].domain = d => job[w].kind \notin Outside
Served(d) == HostsOf(d) \cap (cname \cup routes)

\* Disabling a portal removes its CNAME and its route (docs/reverse-proxy.md):
\* unless a removal failed, two requests overlapped or a deployed portal was
\* renamed, what is served of a domain between its requests is the host of
\* its enabled portal or nothing, whatever the other domains' requests do to
\* the list they share and whatever was lost from it in their races.
ServedAsSaved ==
    \A d \in Domains \ tangled : Quiet(d) =>
        Served(d) \subseteq (IF Enabled(d) THEN {row[d].host} ELSE {})

\* A portal whose deployment was answered with success stays deployed, with
\* its CNAME, its route and a sender, until the same domain is changed:
\* deployments and tear-downs of others that overlap each other lose only
\* their own changes.
DeployedIsReachable ==
    \A d \in live :
        /\ row[d].host \in cname
        /\ row[d].host \in routes \/ misread
        /\ sender[d] \/ d \in Caught

\* The routes that are not a portal's survive every deployment, tear-down
\* and race of them, unless a failed read was taken for an empty list.
ForeignKept == Foreign \in routes \/ misread

============================================================================
