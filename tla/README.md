# MXroute Manager in TLA+

MXroute Manager is a Flask application that administers the mail domains of an
MXroute account: mailboxes, forwarders, DNS at Cloudflare, delegated users,
self-service password reset and branded reset portals, with monitors that tell
of unhealthy DNS and full mailboxes. This directory models the parts of it whose
correctness depends on the order of events, checks them with TLC and proves the
main results for every size with TLAPS.

How to run: `tlc -config X.cfg M` for a run of `PROJECT.json`, `tlapm
M_proofs.tla` for the proofs of a module.

## The system

`Dockerfile` starts gunicorn with **two synchronous workers**. Each is a process
that serves one request at a time, imports `app.py` at its start and has its own
module globals. What they share is one SQLite file, the audit log file, a lock
file and the services outside: MXroute's API, Cloudflare's API, a reverse proxy,
an SMTP server and public DNS. Next to its request thread a worker may run

- the **monitor thread**, in the one worker that took the lock file when it
  started (`services/dns_monitor.py`);
- a **dispatch thread** per audit event that has a notification target;
- pools of five threads that check domains at once.

A worker that does not answer in 120 s is killed and replaced. SQLite serialises
transactions, but Python's `sqlite3` begins one at the first DML statement only,
so a SELECT before it is not part of it: many of the interleavings below come
from that.

### Components

| Component | State it keeps | Operations | How it interacts | What is hard |
| --- | --- | --- | --- | --- |
| Rate limits `utils/rate_limit.py` | rows of `rate_limit_events` | hit, is_blocked, register, clear, prune | the login and both reset handlers; one table and one `ip:` bucket for two limiters | check and count in different transactions |
| Password reset `models/db_reset.py`, `routes/password_reset.py` | tokens, recovery addresses | request, confirm; set, remove, delete, provision | mail, MXroute's password call, portals | two workers on one token; failure after the token is used |
| DNS monitor `services/dns_monitor.py`, `cloudflare_health.py`, `dns_health.py` | saved status per domain, the lock | scan, merge, audit, save | MXroute, DNS, audit log, settings cache | kills between event and save; silent services |
| Usage monitor `services/quota_monitor.py` | saved flags per mailbox | scan, audit, save | the same | the band between two thresholds; failed lists |
| Settings cache `models/db_settings.py` | settings table, a dictionary per worker | read, fill, save, invalidate | every component | stale fills, stale workers |
| Fleet overview `services/fleet_monitor.py` | a row per domain | full scan, merge, read | monitor thread, delegates, settings cache | read-modify-write of a cached value |
| Reset portals `routes/reset_portal.py`, `services/reset_portal_deploy.py`, `models/db_portals.py` | a portal per domain, a logo file | save, deploy, tear down | MXroute forwarder, Cloudflare CNAME, reverse proxy | a saga over four systems without undo |
| Proxy backends `services/reverse_proxy/`, `services/npm.py` | external | add, remove, find a host | portals | find-then-create, get-then-put |
| DNS deployment `services/cloudflare_*.py`, `routes/cloudflare.py` | a job per request; the zone is Cloudflare's | setup, fix, bulk fix | Cloudflare, MXroute, the health checks, DMARC policies | upserts that delete, from a list taken earlier |
| Access control `utils/auth_helpers.py`, `models/db_delegations.py`, `routes/auth_*.py` | users and their delegations; sessions in cookies | login, check, edit and delete users | every handler | a check of several reads; sessions that outlive their rows |
| API tokens `models/db_api_tokens.py` | token hashes | mint, look up, revoke | access control | revocation under a request |
| OIDC `routes/auth_oidc.py` | session state, configuration cache | login, callback | access control, settings | a configuration cached for an hour |
| Start-up `models/db_init.py` | schema, session key | create, migrate | both workers at once | get-or-create |
| Audit log `utils/audit_log.py` | a file | append, read the last entries | notifications | block boundaries |
| Notifications `routes/admin_notifications.py`, `services/notifications.py`, `utils/apprise*` | targets with credentials, a copy on every page | load, edit, save, dispatch | settings cache, audit log | masked URLs put back by label, from another list |
| Mailboxes and import `routes/emails.py`, `services/mailbox_import.py` | external | create, delete, import | recovery addresses | partial imports |
| Browser client `static/js` | caches in the page | fetch, invalidate | the API | answers out of order |

### What makes each correct

- *Rate limits*: a client's admitted attempts in a window stay within the limit
  however many workers serve it, and a lock-out ends.
- *Password reset*: a token changes one password once, for its mailbox, through
  its portal, and stops working with the recovery address, a newer token or
  time.
- *Monitors*: the log tells of every transition and of nothing else; the saved
  state agrees with what was told; one monitor at a time.
- *Settings*: no worker reads backwards or behind its own save; saves arrive
  everywhere.
- *Fleet overview*: a refresh of some rows leaves the others alone.
- *Portals*: a disabled portal is not served, an enabled one is reachable or
  reported as not.
- *DNS deployment*: it breaks no check that passed, what it reports as done is
  published, and it adds no second record to a name.
- *Access control*: a request is allowed only what the tables allowed while it
  was under way, refused only with a reason, and nobody becomes an admin
  unnamed.
- *Notifications*: a target that an admin leaves alone keeps its URL, and no
  mask is ever saved as one.

`PROJECT.json` lists the hazards behind these, each at its line.

## Plan

In this order, the most consequential behaviour first.

1. `RateLimits` on `SlidingWindow` - done, proved
2. `PasswordReset` - done, proved
3. `DnsMonitor` on `SetupHealth` - done, proved
4. `QuotaMonitor` - done, proved
5. `SettingsCache` implementing `SettingsStore` - done, proved
6. `ResetPortal` - done, proved
7. `AccessControl`, with sessions, delegations, tokens and OIDC - done, proved
8. `DnsDeploy`, with `SetupHealth` as its goal - done, proved
9. `Notifications` - done, proved
10. `Monitors`, the thread with both scans - done, proved

Not taken up: the fleet overview, the session key of a first start, the audit
log's reader and the CSV import; see "Abstractions, and what is left out".

## Modules

| Module | Models | State and actions |
| --- | --- | --- |
| `SlidingWindow` | `SlidingWindowRateLimiter` | one bucket's rows with their ages; `Prune`, `Hit`, `IsBlocked`, `Register` are functions of it |
| `RateLimits` | the three handlers that use it | `table` is `rate_limit_events`, `req[w]` the call a worker is at; one action per limiter call, which is one transaction |
| `PasswordReset` | tokens and recovery addresses | `rows` and `recovery` are the tables, `age` the clock of `expires_at`; `SelectToken` and `MarkUsed` are the two statements of `consume_reset_token`, `CheckPortal` the check after it, `ChangePassword` the call to MXroute, which changes the password or not, whatever it answers |
| `SetupHealth` | `check_dns_health`, `build_setup_health` | pure: the status of a domain from what is published of it, in Cloudflare and in public, and from which of the check's calls answer; `MailStatus` is the mail host's check with its "pending" and "skipped" |
| `DnsMonitor` | lock, scan, events, save | `holder` is the flock, `scan[w]` the thread, `saved` the table, `told` the log; `cached` is the worker's copy of the table, `page` what a request of the worker has read of it and not cached yet; `MergeCheckResults`, `Alerts`, `Recoveries` are the decisions of a scan |
| `QuotaMonitor` | scan, events, save | `usage` is the scan under way, `flag` the saved table, `level` the truth, `usageTold` the log; names that both monitors have carry `Usage` here, so that one module can extend both |
| `Monitors` | `start_dns_health_monitor` | `turn[w]` is where the thread of a worker is in its tick; `DnsStep`, `UsageStep` are the scans' own steps in their turn, `DnsFails` the exception that skips the usage scan, `ThreadDies` the kill that ends either scan |
| `SettingsCache` | `get_config_value`, the saves | `stored` is the table, `cache[w]` the dictionary, `thread[t]` a read or a save under way in the request thread or another thread of a worker |
| `SettingsStore` | abstract | each worker advances along the history of saves; `SettingsCache` implements it |
| `ResetPortal` | save, draft, deploy and tear down a portal; the proxies | `row` is `domain_reset_portals`; `cname`, `routes`, `sender` are what Cloudflare, the proxy and MXroute hold; `job[w]` is the request at the call it makes next, with the list it has read in `seen` |
| `AccessControl` | the checks of a request, users, tokens, logins | `rows` is the users table with its delegations, `session[b]` the cookie of a browser, which may send a token's requests too, `req[c]` the request of a browser or a token at the read or write it makes next: `ReadMapping`, `ReadFlag`, `ReadGrants` are the three reads of a check, `EditReads` and `EditSaves` the SELECT and the transaction of an edit |
| `DnsDeploy` | fix, bulk fix and setup | `zone` is what Cloudflare holds, `policy` the DMARC row, `server` whether MX_SERVER is set, `job[j]` a request with the list it took in `seen`, what MXroute told it in `data`, what is left in `todo`, and the call it makes next; `Skips` says what a handler leaves out, `PutRecord`, `PostRecord`, `DropExtra`, `PostMx` are the calls with what Cloudflare makes of them, `Register` and `ReadProfile` those of a setup to MXroute |
| `Notifications` | the notification settings and the page that edits them | `stored` is the row, `cache[w]` a worker's copy, `page[a]` the list on a page, whose masked entries carry the URL they stand for as history, `req[a]` a save between its merge and its commit; `Merged` is `merge_target_urls` |
| `*_proofs` | | theorems about the module of that name |
| `MC*` | | instances for TLC |

They compose by what they share. `RateLimits` admits the requests that
`PasswordReset` serves, so the latter lets any request come at any time.
`Monitors` composes `DnsMonitor` and `QuotaMonitor` in the thread that runs
both, and implements each: that the usage monitor may be specified with one scan
and no workers is proved there, from the lock. `DnsMonitor!enabled` is the
switch as the monitor's worker reads it, and `SettingsCache` says how late that
may be; `DnsMonitor!cached` is the one entry of such a cache that decides what a
scan tells. `PasswordReset!portal[d]` says that `ResetPortal!row[d]` is enabled,
at whatever moment. `DnsDeploy` uses the checks of `SetupHealth` both ways: a
fix starts from what they find missing, and its properties say what they would
find afterwards. `Notifications` has the cache of `SettingsCache` around its one
setting. `AccessControl` guards the handlers of all of them, so that they let
any request come at any time.

History variables (after the `\* history` mark) are written and never read by a
guard. Each operator that PROJECT.json names as a mutant stands before the
definition it imitates and is used by no definition of the model.

## Runs

| Run | Shows |
| --- | --- |
| `rate_limits` | two workers, one client: at most one failure and one reset request beyond their limits per extra worker, and a lock-out ends however often the client retries (`LockoutEnds`) |
| `password_reset` | two workers, two mailboxes of one domain, requests on its portal, another domain's and the main host: a token changes at most one password per worker; one live token per mailbox, none lost without a cause, none that survives the recovery address or works through another domain's portal |
| `password_reset_reuse` (violation) | two workers use one token twice |
| `monitors` | two workers, the thread with both scans, kills and exceptions at each step, stale and failed reads of the table: two threads never both run and a usage scan ends with its worker (`OneThread`), and the DNS table agrees with the log |
| `dns_monitor_live` | one domain, which leaves the account and returns, and the cache of its worker: an alert that stands is of a domain the table calls bad (`RecoveryTold`), a repeated alert has a cause, and what stays bad, or good, is told at last (`BadIsTold`, `GoodIsTold`) |
| `quota_monitor` | flags agree with the log; an alert after an alert has a missed or cut-off scan between, or flags that could not be read; what stays over its threshold is told (`HighIsTold`) |
| `settings_cache` | a worker with a request thread and a monitor's, and one with requests only: answered saves apply but for keys that the other thread was reading, the caches implement the store (`StoreSpec`) |
| `access_control` | an admin at one browser edits, deletes and recreates the user of another while that one's requests are checked; logins by password and OIDC, a token, a failing read: who is admitted was entitled at some moment of the request, who is denied lacked it, saw a failing read or was edited meanwhile, and no session or row has an admin flag that nobody gave, to a user or to a token of that name |
| `dns_deploy` | two jobs on one zone, each a fix or a setup, and one failure, one incomplete list or profile, one kill or one change from outside: nothing breaks that was right, what is reported as done is published, no name gets a second record while the lists are whole |
| `notifications` | two pages, two workers with caches that lag: only typed URLs are saved (`UrlsWereTyped`), and what is left alone keeps its URL where every target has a label of its own |
| `notification_labels` (violation) | two targets with one label come back with one URL |
| `reset_portal` | two workers, two domains, each kind of proxy: what is served is what was saved, what is deployed stays deployed, other routes survive |

### Bounds, and why they are enough

- *Workers*: two, as deployed; one in `dns_monitor_live`, where the lock leaves
  one at a time anyway. The interleavings of the handlers need two; what depends
  on their number is proved for any number.
- *Windows, TTL, limits*: times are ages that stop at one past the largest
  window; windows of 1 and 2 ticks and limits of 1 and 2 give each boundary on
  both sides and keep the order of the real values (15 min < 1 h, 5 <= 10). A
  token's TTL is 0 ticks: it is valid in the tick it is made in and expires with
  the next.
- *Tokens*: two, so that one replaces another while it is in use.
- *Zones and levels*: three kinds of zone cover the three statuses, four levels
  the two thresholds and "no limit". `Answers` lists the sets of calls of one
  check that answer: all, or all but one. `dns_monitor_live` takes the two
  outermost zones.
- *Mailboxes*: one with two gauges in `quota_monitor`. `monitors` has one
  without gauges (`Meters` is empty): its usage scans go through all their
  steps and read the mailbox, as it asks when they run and end, not what they
  decide. The proofs have any mailboxes and both meters.
- *Kills*: one per run (`MaxKills`, `MaxCutOffs`), which cuts a scan anywhere.
  The proofs hold for any number. Stale reads and reads that fail are not
  bounded.
- *Saves*: one of each key (`MaxSaves`), so that a value is there, or stale, or
  missing. The proofs hold for any number.
- *Requests* (`MaxRequests` of `ResetPortal`): six. Saving and deploying two
  portals takes four, and two more meet each other afterwards. One domain has
  two hosts, for renames, the other a catch-all. The proofs hold for any number.
- *Accounts* (`access_control`): a name is created at most twice (`MaxIds`), so
  a user is deleted and made anew under an id that a request still holds; one
  read fails (`MaxFailures`), at any place. Two requests are served at once
  (`MaxRequests`), as the two workers do. One scope is enough: a request needs
  one of a set, and the set is empty or not.
- *Jobs* (`dns_deploy`): two, the second beginning at any step of the first; one
  call fails, one list or profile is incomplete, one worker dies or one change
  comes from outside (`MaxUpsets` counts all of them). Five of the six record
  types: "dkim" is handled as "verification" is, with the guards of "spf". The
  proofs hold for all six, any zone and any bounds.
- *Targets* (`notifications`): lists of at most two, with two labels, two URLs
  and four acts (`MaxActs`) of two admins: enough for one page to rename,
  replace or drop what another has loaded. The violation run has one admin, one
  worker, no label next to two, and five acts.
- Symmetry is used in `password_reset`, `reset_portal`, `dns_deploy` and
  `notifications`, which check safety only, on sets whose members no definition
  tells apart.

### Fairness

`RateLimits` has weak fairness of the clock alone: no worker has to go on.
`DnsMonitor` and `QuotaMonitor` assume that the monitor thread goes on, that
gunicorn replaces workers, and (strong fairness) that a service which answers
now and then also answers when the monitor asks: the loop is unconditional and
the thread a daemon, so the code gives the first; the second is gunicorn's, the
third is about the network and is what the properties are conditional on. That
the thread goes on includes that a tick reaches its scan: an exception of the
DNS scan (or of the fleet scan) in every tick would keep the usage scan from
running at all, and `Monitors` states no fairness against it. The other modules
state no liveness: their requests come from outside, and a killed worker's
request is not taken up again. Where such a module would stop at its bounds, a
request that only reads and changes nothing (`Look` in `DnsDeploy`) goes on, or
the clock or a restart does.

## Proofs

Everything in the `_proofs` modules holds for any sets of workers, mailboxes,
domains, tokens and keys and any limits that satisfy the named assumptions of
the modules.

- `RateLimits_proofs`: types; `FailureBound`; `HitBound`. The bound is not
  inductive as stated. `IInv` adds that the failures counted are rows of the
  table (`failed` within the pruned bucket), and that rows plus the workers
  between check and registration never exceed limit - 1 + workers: each worker
  that passed the check saw a bucket below its limit.
- `PasswordReset_proofs`: types; `ChangesBounded` and, with one worker,
  `SingleUse`; `OneLiveToken`; `TokenKept`; `RevokedWithRecovery`;
  `PortalIsolation`, from a history of each request under way: whether the
  domain had no enabled portal at some moment of it. `IInv` counts the workers
  in flight with a token: an unused token has changed nothing and nobody is past
  its `UPDATE`, and changes plus workers in flight never exceed the workers.
- `Monitors_proofs`, of `SetupHealth`: however many services are silent, a
  status is healthy only if MXroute has the domain and, where it hosts its mail,
  every mail record is right, where the mail host's may also be right in
  Cloudflare and pending in public, or without a target to check
  (`NoFalseAllClear`); when all answer and the verification record is right too,
  such a domain is healthy and no other (`HealthyWhenRight`). Of `DnsMonitor`:
  types; `OneMonitor` (a worker whose thread runs holds the lock);
  `SavedMeansTold`; `RecoveryTold`; `RepeatsHaveCause`. The invariant relates
  table, log and the scan under way: with the events of a scan whose save is
  still to come (`WrittenIsTold`), the two are inductive, and say nothing of
  what a scan believes to be saved. Of `QuotaMonitor`: types; `FlagMeansTold`;
  `NoBareRepeat`, which needs the converse of the flags: a told alert without
  its flag has a reason, and so has one whose flag the scan could not read; and
  `AlertsAreTransitions`, an action property. It needs that no scan under way
  can have read a gauge lower that has been over its threshold since its last
  alert (`SteadyIsHigh`), and that such a gauge has its flag or its event,
  unless it was missed or cut off (`SteadyIsFlagged`). Of `Monitors`: every step
  of the thread is a step of each monitor or none (`ThreadRunsDnsMonitor`,
  `ThreadRunsUsageMonitor`), so that what was proved of each alone holds in the
  thread they share (`ThreadKeepsPromises`); and `OneThread`, from the lock's
  invariant and the turns.
- `SettingsCache_proofs`: types; `SavedIsApplied` and that `SettingsCache`
  implements `SettingsStore`, for workers of any number of threads. The
  invariant: nothing a worker has reached, or a thread has read, is ahead of the
  table (`OnlySaved`), and a value that a thread has read and not cached yet is
  not behind what its worker has reached, nor behind its cache, unless the key
  is `exposed` (`FillsForward`).
- `ResetPortal_proofs`: types; `ServedAsSaved`, `DeployedIsReachable`,
  `ForeignKept`. What makes them inductive is `Lists`: a list of routes in some
  worker's hands has, of every domain that no overlapping request has touched,
  exactly the deployed hosts, so that writing it back, however late, loses only
  what was being changed meanwhile; and `Known`: a request's copy of its row is
  the row, until something overlaps it.
- `AccessControl_proofs`: types, with a deleted user's id given to nobody and no
  delegation left behind; `AdmittedWasEntitled`; `DeniedHadReason`;
  `AdminFlagHasSource`. `IInv` adds four parts. `Checking` is what a check knows
  between its reads: its user is on no list, and past the second read it was no
  admin, unless the row changed or could not be read since it arrived.
  `Building` says the same of a login between its read and its cookie: who comes
  out of it as an admin was named one. `HasSession` and `Room` keep a check with
  a session and a name creatable.
- `DnsDeploy_proofs`: types, with an id naming one record; `DoneIsPublished`;
  `WritesKeepRight`; `NoBlindDuplicates`. The first is not inductive: it speaks
  of jobs that have ended. `Good` says what a job may rely on in the middle, as
  long as nobody changed anything from outside: what was right in its list still
  is, what it has written is right, so is every type it is past and did not skip
  (`Due`), and, where every list was whole, a name its list lacks has nothing
  but what a job would write. It survives the other jobs because every step is
  `Steady`: right records stay, and what is new is right. That a job's deletions
  spare what another has just written follows from `Distinct`: no record is there
  twice, so a job whose PUT was accepted holds the one right record of its name,
  and what it deletes is not right. `Ids` relates lists to the zone for jobs that
  were disturbed, and `Shapes` says what a job at each stage holds.
- `Notifications_proofs`: types; `UrlsWereTyped`; `LeftAloneKeepsUrl`. The merge
  keeps some entries of the page's list, in order: its n-th result is the entry
  whose rank among those kept is n. Lemmas on ranks show that these results are
  a list and that every entry kept is one of them; no induction is needed, as
  the map from places to ranks is injective. `AllSound` says that the saved
  settings, every worker's copy of them and every save under way can do what
  they say and deliver to typed URLs; `PagesAreKnown`, that an entry of a page
  has a typed URL or hides one that the page was filled with under its label.

Only model-checked, because TLAPS does not do ENABLED, are the four liveness
properties: `LockoutEnds`, `BadIsTold`, `GoodIsTold`, `HighIsTold`. Shown false
in general by a violation run, and so not proved: `SingleUse` with several
workers (with one it is proved) and `PlaceholdersPreserved` (`LeftAloneKeepsUrl`
is what is left of it).

## Where the code and its documentation part

Two of these are violation runs, with the line of the document in
`PROJECT.json`:

- A reset token, "single-use" in docs/password-reset.md, can be used by two
  workers at once: the SELECT is in no transaction and the UPDATE does not
  repeat its condition (`password_reset_reuse`).
- The masked targets of the notifications page get their URLs back by label, and
  a label is the service's name unless the admin gives one: of two targets of
  one service both get the last one's URL (`notification_labels`).

The others were met while modelling. The models behave as the code does, and the
properties that hold say so in their conditions.

- Rate limits: logins and reset requests count in the same `ip:` bucket with
  different windows, and a login that succeeds clears it, so the limit per
  address of docs/password-reset.md:163 is not exact. `HitBound` speaks of the
  buckets that only the reset handlers use.
- Password reset: docs/password-reset.md:165 has a token used up by a successful
  change; the code uses it up before it asks MXroute for the change.
  `ChangesBounded` is the side that holds.
- Usage monitor: a recovery is reported when one scan sees the mailbox below the
  recovery mark while the flag is set. The flag is cleared, and nothing told, by
  a scan that reads the band between the marks, although
  docs/notifications.md:142 promises an event. An alert is repeated after a
  failed list (`AlertsAreTransitions` excepts it).
- Settings: docs/settings-walkthrough.md:76 has a save apply at once in the
  worker that made it. A second thread of the worker (the monitor's, or one that
  sends notifications) can put the old value back into the cache after the save
  has cleared it, where it stays until the next save. `SavedIsApplied` and the
  abstract store name the keys this can happen to (`exposed`): those that
  another thread had read and not cached yet.
- Access: a token with admin access reaches the handlers meant for browsers.
  PATCH /api/me/profile inserts a row `token:<label>` with its admin flag, GET
  /api/me hands out a session of that name; revoking the token ends neither.
  `AdminFlagHasSource` counts the token's flag among the sources and says
  nothing of how long the row and the session last.
- DNS monitor: a scan compares with the statuses in its worker's settings cache.
  A request that read them before the last save may put them back there, and a
  failed read counts as none; an alert is then repeated or missing, a recovery
  lost. The same happens when a scan is cut off between event and save, and an
  account that becomes empty erases every status. `astray` is the set of domains
  whose status may have lost touch with the log that way, `Misread` those whose
  status a scan does not have.
- DNS monitor: a lock file that cannot be opened leaves a worker without a
  monitor as another's lock does; when every worker met that, nobody monitors
  until one is replaced (`Unmonitored`).
- Setup health: a domain is called healthy while its mail CNAME is not public
  yet, or when no MX_SERVER is set (`HealthyWhenRight` says so).
- Deployment: an accepted SPF with further senders (docs/dns-health.md:26) is
  rewritten by a setup, which deploys every type, and an upsert deletes the
  other TXT records of its name. "Existing correct records are skipped"
  (docs/adding-a-domain.md:80) holds of exact ones. `WritesKeepRight` speaks of
  the checks, which pass before and after.
- Deployment: hosts besides MXroute's do not fail the MX check, nor does their
  priority, although docs/dns-health.md:34 asks for an exact match. The answer
  to an added MX host is not looked at: a setup can report success without it
  (`Claims` leaves "mx" out).
- Deployment: "do not blindly create duplicates" (docs/contributing.md:65) holds
  while a job's list is whole. One page of 100 records is asked for, whatever
  the zone holds, and a list that cannot be had reads as an empty zone; what is
  not on it is posted again (`misread`).
- Deployment: a type whose part is missing from MXroute's profile, or that has
  no target as MX_SERVER is not set, is skipped; a setup then reports success,
  and mentions the skip among its steps (`Claims` leaves out what it `Skips`).
- Notifications: the editor of a masked target is filled by its place in the
  page's list from the list that the worker has, which may be another; a masked
  target whose label the worker does not know is dropped without a word.
- Portals: a deployed portal that is renamed keeps its old CNAME and route after
  it is disabled, and a tunnel's deployment reports success when Cloudflare
  refuses its list (`ServedAsSaved` and `DeployedIsReachable` except them,
  through `tangled`).

## Abstractions, and what is left out

- A domain's check is one step: its DNS and MXroute calls are made within
  seconds and nothing in it depends on their order, only on which answer.
- In `SetupHealth` the comparison of a record with the public ones is a yes or
  no, and a check's queries for it are one call; the mail host has its three:
  the zone's page of records, the CNAME in public, the address.
- In `DnsMonitor` the settings cache has the one entry for the statuses.
  Requests that read it are those of the monitor's worker; what its own thread
  reads and fills in one go is one step. The switches and the interval are read
  through the same cache and may be late, so when a scan starts is left open.
- In `PasswordReset` a request that comes while mail is not set up is refused
  and changes nothing, so it is left out.
- In `ResetPortal` an upsert or a removal at a service is one step, at its last
  call; npm's and Traefik's entries behave alike. A proxy's certificate, the
  portal's title, theme and logo file and the check of its HTTPS are left out.
  `tangled`, `live` and `misread` are history: `tangled` counts a domain as
  beyond promise after a failed removal, a request that ended early, an overlap
  of two requests (of one domain or, where the proxy has one list, of any two
  that edit it) and a rename of a deployed portal.
- A recovery address is there or not: changing one for another is not told
  apart.
- In `SettingsCache`, the reads that the saving handler itself makes between its
  commit and its clears are left out: they are not answered to anybody.
- The validation of forms, the look of mails and pages, logging and wording are
  left out throughout.
- In `AccessControl` a permission on a domain is a member of `Scopes`, and the
  levels "read" and "manage" are two of them. A session's expiry, CSRF and the
  hashes are left out; a request with a token is checked by one lookup. The list
  of admins (`Listed`: ADMIN_USER and OIDC_ADMIN_USERS) does not change; that an
  edit of it arrives late in the other worker is `SettingsCache`'s. `Watch`
  writes the history (`entitled`, `lacking`, `unread`, `edited`) of each
  request.
- In `DnsDeploy` there is one zone. A record has a name and type (`slot`), an id
  and a content that is what we would write, an SPF with more senders, or
  something else; public DNS has what the zone has at once; a check compares
  with MXroute's whole profile though a job may have got a part of it;
  priorities, TTLs and the optional webmail record are left out. A bulk fix is
  one job per domain that starts by itself, so only the jobs of one domain meet.
  A health check at the start of a job is one step, as in `DnsMonitor`.
- In `Notifications` the dispatch of events, the parsing of URLs into fields and
  `cred_env` (which travels with its target) are left out. A read that fails
  shows the defaults, an empty list among them.

Not modelled:

- *Fleet overview*: a snapshot with a row per domain, which a full scan computes
  anew and a delegate's refresh merges into. It is a setting: a merge into a
  stale copy, which `SettingsCache` permits, puts old rows back until the next
  scan, and nothing but the page reads them.
- *The session key*: two workers that start for the first time on an empty table
  may each store one; the second stands and the first worker's sessions end.
- *Audit log*: bytes appended to a file and its last lines read backwards. What
  the monitors send through it is their `told`.
- *Mailbox handlers and CSV import*: calls passed on to MXroute one by one, with
  a result per row and nothing undone. What they do to recovery addresses is in
  `PasswordReset`.
- *The address guard, validators, documentation, themes, icons*: no state.
