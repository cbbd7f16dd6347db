----------------------------- MODULE Notifications -----------------------------
(***************************************************************************)
(* The notification settings and the page that edits them: targets, each a *)
(* label and a URL with a credential in it, and the audit events that are  *)
(* sent to them (routes/admin_notifications.py).  The page never gets a    *)
(* credential back: it shows masked URLs, edits its own copy of the list   *)
(* and sends all of it; the server puts the URLs back by label.            *)
(*                                                                         *)
(* Requests go to any worker, each with its own cache of the settings: the *)
(* list a page shows, the one its targets are merged into and the one in   *)
(* the table may be three different ones.                                  *)
(***************************************************************************)
EXTENDS Naturals, Sequences, FiniteSets, FiniteSetsExt, SequencesExt

CONSTANTS
    Admins,       \* pages open on the Notifications tab
    Workers,
    Labels,
    Urls,         \* with their credentials
    Events,       \* audit actions
    Monitors,
    EventsOf,     \* what a monitor that is on must be able to send
    Missing,      \* not in a worker's cache
    FirstSettings,  \* what may have been saved before
    MaxTargets, MaxActs   \* bounds on a list and on what the admins do to it

Unlabelled == "unlabelled"
Masked == "masked"
NoUrl == "no url"

ASSUME NotificationsAssumption ==
    /\ Urls \cap {Masked, NoUrl} = {}
    /\ EventsOf \in [Monitors -> SUBSET Events]
    /\ MaxTargets \in Nat /\ MaxActs \in Nat

Target == [label : Labels, url : Urls]
Lists(S) == UNION {[1..n -> S] : n \in 0..MaxTargets}
Settings == [enabled : BOOLEAN, targets : Lists(Target),
             events : SUBSET Events, monitors : SUBSET Monitors]

\* Settings that can do what they say: enabled ones have an event and a target,
\* and a monitor that is on has its events.
Deliverable(s) ==
    /\ s.enabled => s.events # {} /\ s.targets # <<>>
    /\ \A m \in s.monitors : EventsOf[m] \subseteq s.events

\* What was saved before was saved by this handler.
ASSUME FirstAssumption ==
    FirstSettings \subseteq {s \in Settings : Deliverable(s)}

\* A target on the page; "hides" is the URL a masked one stands for.
Entry == [label : Labels, url : Urls \cup {Masked}, hides : Urls]

VARIABLES
    stored,     \* NOTIFICATION_SETTINGS
    cache,      \* each worker's copy of it
    page,       \* the targets on each page
    req,        \* the save each page has under way
    acts,
    \* history
    shown,      \* the targets each page was filled from
    fresh,      \* its save was merged into those very targets
    typed       \* URLs the admins typed or pasted

vars == <<stored, cache, page, req, acts, shown, fresh, typed>>

Idle == [at |-> "idle"]
Request == {Idle} \cup [at : {"save"}, on : Workers, to : Settings]

At(a, step) == req[a].at = step

\* _default_notification_settings
Default == [enabled |-> FALSE, targets |-> <<>>, events |-> {}, monitors |-> {}]

\* get_notification_settings, of one worker: its copy, or the row, which is then
\* copied, or the defaults, when the SELECT fails.
ReadBy(w, read) ==
    \/ cache[w] # Missing /\ read = cache[w] /\ UNCHANGED cache
    \/ /\ cache[w] = Missing
       /\ \/ read = stored /\ cache' = [cache EXCEPT ![w] = read]
          \/ read = Default /\ UNCHANGED cache

UrlsOf(targets) == {targets[i].url : i \in DOMAIN targets}

Init ==
    /\ stored \in {Default} \cup FirstSettings
    /\ cache = [w \in Workers |-> Missing]
    /\ page = [a \in Admins |-> <<>>]
    /\ req = [a \in Admins |-> Idle]
    /\ acts = 0
    /\ shown = [a \in Admins |-> <<>>]
    /\ fresh = [a \in Admins |-> FALSE]
    /\ typed = UrlsOf(stored.targets)

-----------------------------------------------------------------------------
(* The page (static/js/app/notifications-actions.js). *)

\* mask_notification_settings_for_response
MaskedList(targets) ==
    [i \in DOMAIN targets |-> [label |-> targets[i].label, url |-> Masked,
                               hides |-> targets[i].url]]

Fills(a, targets) ==
    /\ page' = [page EXCEPT ![a] = MaskedList(targets)]
    /\ shown' = [shown EXCEPT ![a] = targets]

Load(a, w, read) ==
    /\ At(a, "idle")
    /\ ReadBy(w, read)
    /\ Fills(a, read.targets)
    /\ UNCHANGED <<stored, req, acts, fresh, typed>>

Acts(a) == At(a, "idle") /\ acts < MaxActs /\ acts' = acts + 1

Written(l, u) == [label |-> l, url |-> u, hides |-> u]

AddTarget(a, l, u) ==
    /\ Acts(a)
    /\ Len(page[a]) < MaxTargets
    /\ page' = [page EXCEPT ![a] = Append(page[a], Written(l, u))]
    /\ typed' = typed \cup {u}
    /\ UNCHANGED <<stored, cache, req, shown, fresh>>

RemoveTarget(a, i) ==
    /\ Acts(a)
    /\ page' = [page EXCEPT ![a] = RemoveAt(page[a], i)]
    /\ UNCHANGED <<stored, cache, req, shown, fresh, typed>>

\* parse_notification_url fills the editor of a masked target with the one that
\* the worker has in that place, and the admin gives it a label.
EditTarget(a, i, l, w, read) ==
    /\ Acts(a)
    /\ ReadBy(w, read)
    /\ page[a][i].url = Masked => i \in DOMAIN read.targets
    /\ page' = [page EXCEPT ![a] =
           [page[a] EXCEPT ![i] =
               Written(l, IF page[a][i].url = Masked
                          THEN read.targets[i].url ELSE page[a][i].url)]]
    /\ UNCHANGED <<stored, req, shown, fresh, typed>>

-----------------------------------------------------------------------------
(* save_notifications *)

\* Mutant of Key: a target's place in the list.
KeyByIndex(target, i) == <<Unlabelled, i>>

Key(target, i) == <<target.label, IF target.label = Unlabelled THEN i ELSE 0>>

\* existing_by_label: of several targets with one label, the last.
UrlOf(existing, key) ==
    LET same == {i \in DOMAIN existing : Key(existing[i], i) = key}
    IN IF same = {} THEN NoUrl ELSE existing[Max(same)].url

\* Mutant of Restored: what the page sends is taken as it is.
RestoredAsSent(target, i, existing) == target.url

Restored(target, i, existing) ==
    IF target.url = Masked THEN UrlOf(existing, Key(target, i)) ELSE target.url

\* The member of a set of places that comes n-th.
Nth(places, n) ==
    CHOOSE i \in places : Cardinality({k \in places : k <= i}) = n

\* merge_target_urls drops what it finds no URL for.
Merged(incoming, existing) ==
    LET url == [i \in DOMAIN incoming |-> Restored(incoming[i], i, existing)]
        kept == {i \in DOMAIN incoming : url[i] # NoUrl}
    IN [n \in 1..Cardinality(kept) |->
           [label |-> incoming[Nth(kept, n)].label, url |-> url[Nth(kept, n)]]]

\* Mutant of Refused: the list is looked at before the merge.
RefusedAsSent(enabled, events, incoming, targets) ==
    enabled /\ (events = {} \/ incoming = <<>>)

Refused(enabled, events, incoming, targets) ==
    enabled /\ (events = {} \/ targets = <<>>)

\* normalize_notification_payload: a monitor the caller says nothing of stays as
\* it is, and one that is on gets its events.
Normalized(enabled, events, said, on, targets, existing) ==
    LET monitors == on \cup (existing.monitors \ said)
    IN [enabled |-> enabled, targets |-> targets, monitors |-> monitors,
        events |-> events \cup UNION {EventsOf[m] : m \in monitors}]

MergeSave(a, w, existing, enabled, events, said, on) ==
    LET targets == Merged(page[a], existing.targets)
        refused == Refused(enabled, events, page[a], targets)
    IN /\ Acts(a)
       /\ ReadBy(w, existing)
       /\ req' = [req EXCEPT ![a] =
              IF refused THEN Idle
              ELSE [at |-> "save", on |-> w,
                    to |-> Normalized(enabled, events, said, on, targets,
                                      existing)]]
       /\ fresh' = [fresh EXCEPT ![a] = ~refused /\ existing.targets = shown[a]]
       /\ UNCHANGED <<stored, page, shown, typed>>

\* save_notification_settings, and the page is filled from the answer.
CommitSave(a) ==
    /\ At(a, "save")
    /\ stored' = req[a].to
    /\ cache' = [cache EXCEPT ![req[a].on] = Missing]
    /\ req' = [req EXCEPT ![a] = Idle]
    /\ fresh' = [fresh EXCEPT ![a] = FALSE]
    /\ Fills(a, req[a].to.targets)
    /\ UNCHANGED <<acts, typed>>

\* The write raises: "Failed to save notification settings."
SaveFails(a) ==
    /\ At(a, "save")
    /\ req' = [req EXCEPT ![a] = Idle]
    /\ fresh' = [fresh EXCEPT ![a] = FALSE]
    /\ UNCHANGED <<stored, cache, page, acts, shown, typed>>

\* Another save in the worker clears its cache; so does a restart, which takes
\* the worker's requests with it.
Forget(w) ==
    /\ cache' = [cache EXCEPT ![w] = Missing]
    /\ UNCHANGED <<stored, page, req, acts, shown, fresh, typed>>

Restart(w) ==
    LET lost == {a \in Admins : At(a, "save") /\ req[a].on = w}
    IN /\ cache' = [cache EXCEPT ![w] = Missing]
       /\ req' = [a \in Admins |-> IF a \in lost THEN Idle ELSE req[a]]
       /\ fresh' = [a \in Admins |-> fresh[a] /\ a \notin lost]
       /\ UNCHANGED <<stored, page, acts, shown, typed>>

-----------------------------------------------------------------------------
Next ==
    \/ \E a \in Admins, w \in Workers : \E read \in {cache[w], stored, Default} :
        \/ Load(a, w, read)
        \/ \E i \in DOMAIN page[a], l \in Labels : EditTarget(a, i, l, w, read)
        \/ \E enabled \in BOOLEAN, events \in SUBSET Events,
              said \in SUBSET Monitors :
            \E on \in SUBSET said :
                MergeSave(a, w, read, enabled, events, said, on)
    \/ \E a \in Admins :
        \/ \E l \in Labels, u \in Urls : AddTarget(a, l, u)
        \/ \E i \in DOMAIN page[a] : RemoveTarget(a, i)
        \/ CommitSave(a) \/ SaveFails(a)
    \/ \E w \in Workers : Forget(w) \/ Restart(w)

Spec == Init /\ [][Next]_vars

-----------------------------------------------------------------------------
(* Properties. *)

\* Types; whatever the merge drops, what is saved and what is read can deliver.
TypeOK ==
    /\ stored \in Settings /\ Deliverable(stored)
    /\ cache \in [Workers -> Settings \cup {Missing}]
    /\ \A w \in Workers : cache[w] # Missing => Deliverable(cache[w])
    /\ page \in [Admins -> Lists(Entry)]
    /\ req \in [Admins -> Request]
    /\ acts \in 0..MaxActs
    /\ shown \in [Admins -> Lists(Target)]
    /\ fresh \in [Admins -> BOOLEAN]
    /\ typed \subseteq Urls

\* However stale the page, the worker and the list it is merged into, what is
\* saved as a target's URL is one that some admin once typed, never a mask.
UrlsWereTyped == UrlsOf(stored.targets) \subseteq typed

Named(targets) == \A i \in DOMAIN targets : targets[i].label # Unlabelled
Distinct(targets) ==
    \A i, k \in DOMAIN targets : targets[i].label = targets[k].label => i = k

\* The masked targets of a page come back with the URLs they stand for.
Preserves(a) ==
    \A i \in DOMAIN page[a] : page[a][i].url = Masked =>
        \E k \in DOMAIN req[a].to.targets :
            req[a].to.targets[k] = [label |-> page[a][i].label,
                                    url |-> page[a][i].hides]

\* What an admin leaves alone keeps its URL, whatever else on the page is
\* added, removed or renamed, when the worker has the targets the page shows
\* and each has a label of its own.
LeftAloneKeepsUrl ==
    \A a \in Admins :
        At(a, "save") /\ fresh[a] /\ Named(shown[a]) /\ Distinct(shown[a])
            => Preserves(a)

\* "Preserve stored URLs and cred_env when the client sends masked
\* placeholders": the same whatever the labels are.
PlaceholdersPreserved ==
    \A a \in Admins : At(a, "save") /\ fresh[a] => Preserves(a)
=============================================================================
