---------------------------- MODULE PasswordReset ----------------------------
(***************************************************************************)
(* Self-service password reset: the tables password_reset_tokens and       *)
(* mailbox_recovery (models/db_reset.py), the two public handlers of       *)
(* routes/password_reset.py, and the admin handlers that give, take away   *)
(* and delete what they work on (routes/emails.py, mailbox_provision.py).  *)
(*                                                                         *)
(* Every worker serves one request at a time; between two steps of a       *)
(* handler the other workers run.  A step is one SQLite transaction or     *)
(* statement, one call to MXroute or one mail.  The rate limits are module *)
(* RateLimits: here any request may come at any time.                      *)
(***************************************************************************)
EXTENDS Naturals, FiniteSets

CONSTANTS
    Workers,      \* gunicorn worker processes
    Mailboxes,
    Domains,      \* the domains that can have a reset portal
    DomainOf,     \* the domain of each mailbox
    MainHost,     \* scope of a request that reached no enabled portal host
    Tokens,       \* the bound on tokens ever minted (secrets.token_urlsafe)
    TTL,          \* RESET_TOKEN_TTL_HOURS, in ticks
    None          \* no row, not minted

ASSUME ParameterAssumption ==
    /\ IsFiniteSet(Workers)
    /\ Workers # {}
    /\ TTL \in Nat
    /\ None \notin Mailboxes
    /\ None \notin [mailbox : Mailboxes, used : BOOLEAN]
    /\ DomainOf \in [Mailboxes -> Domains]
    /\ MainHost \notin Domains

Scopes == Domains \cup {MainHost}

VARIABLES
    portal,     \* portal[d]: domain d has an enabled reset portal
    exists,     \* MXroute: the mailbox exists
    recovery,   \* mailbox_recovery has a row for the mailbox
    rows,       \* password_reset_tokens: the row of each token, or None
    age,        \* ticks since the token was minted (expires_at = TTL later)
    mailed,     \* tokens that reached a mailbox owner
    req,        \* what each worker is doing
    \* history
    minted,     \* the mailbox each token was minted for, or None
    changes,    \* password changes MXroute applied for the token
    closed,     \* tokens replaced by a newer one, revoked or consumed
    late        \* tokens minted although the recovery row was gone by then

vars == <<portal, exists, recovery, rows, age, mailed, req,
          minted, changes, closed, late>>
history == <<minted, changes, closed, late>>

\* One more history is a field of the confirm requests: open, that the request
\* came to the main host and that, at some moment since it came, its mailbox's
\* domain had no enabled portal.

Row  == [mailbox : Mailboxes, used : BOOLEAN]
Idle == [at |-> "idle"]

Requests ==
    {Idle}
    \cup [at : {"mint"}, mailbox : Mailboxes]
    \cup [at : {"mail"}, mailbox : Mailboxes, token : Tokens]
    \cup [at : {"mark", "check", "patch"}, mailbox : Mailboxes, token : Tokens,
          scope : Scopes, open : BOOLEAN]
    \cup [at : {"forget", "provision"}, mailbox : Mailboxes]

Expired(t) == age[t] > TTL
\* Mutant of Live: the SELECT without "used_at IS NULL".
LiveThoughUsed(t) == rows[t] # None /\ ~Expired(t)

\* SELECT ... WHERE token_hash = ? AND used_at IS NULL AND expires_at >= now
Live(t) == rows[t] # None /\ ~rows[t].used /\ ~Expired(t)
RowsOf(m) == {t \in Tokens : rows[t] # None /\ rows[t].mailbox = m}

\* _mailbox_allowed_for_portal for a request whose host resolved to scope.
Allowed(m, scope) ==
    IF scope # MainHost THEN scope = DomainOf[m] ELSE ~portal[DomainOf[m]]

\* resolve_reset_portal: the scope a request can arrive with.
Resolved(scope) == scope \in {MainHost} \cup {d \in Domains : portal[d]}

Init ==
    /\ portal   = [d \in Domains |-> FALSE]
    /\ exists   = [m \in Mailboxes |-> TRUE]
    /\ recovery = [m \in Mailboxes |-> FALSE]
    /\ rows     = [t \in Tokens |-> None]
    /\ age      = [t \in Tokens |-> 0]
    /\ mailed   = {}
    /\ req      = [w \in Workers |-> Idle]
    /\ minted   = [t \in Tokens |-> None]
    /\ changes  = [t \in Tokens |-> 0]
    /\ closed   = {}
    /\ late     = {}

Start(w, request) == req[w] = Idle /\ req' = [req EXCEPT ![w] = request]
At(w, step)       == req[w].at = step
Done(w)           == req' = [req EXCEPT ![w] = Idle]
Confirming(w)     == At(w, "mark") \/ At(w, "check") \/ At(w, "patch")

-----------------------------------------------------------------------------
(* POST password-reset/request *)

\* Every check up to get_recovery_email; a request that fails one of them, or
\* comes while is_password_reset_available says no, changes nothing.
RequestReset(w, m, scope) ==
    /\ Resolved(scope) /\ Allowed(m, scope)
    /\ recovery[m]
    /\ Start(w, [at |-> "mint", mailbox |-> m])
    /\ UNCHANGED <<portal, exists, recovery, rows, age, mailed, history>>

\* create_reset_token: one write transaction.
Purged(t) == rows[t] # None /\ (Expired(t) \/ rows[t].used)

\* Mutants of RowsWithNew: purged rows used again for the new mailbox instead
\* of deleted; without the DELETE of the mailbox's older tokens; with a DELETE
\* that forgets its WHERE.
RowsWithNewRecycled(t, m) ==
    [u \in Tokens |->
        IF u = t \/ Purged(u) THEN [mailbox |-> m, used |-> FALSE]
        ELSE IF u \in RowsOf(m) THEN None ELSE rows[u]]
RowsWithNewAndOld(t, m) ==
    [u \in Tokens |-> IF u = t THEN [mailbox |-> m, used |-> FALSE]
                      ELSE IF Purged(u) THEN None ELSE rows[u]]
RowsWithNewOnly(t, m) ==
    [u \in Tokens |-> IF u = t THEN [mailbox |-> m, used |-> FALSE] ELSE None]

RowsWithNew(t, m) ==
    [u \in Tokens |->
        IF u = t THEN [mailbox |-> m, used |-> FALSE]
        ELSE IF Purged(u) \/ u \in RowsOf(m) THEN None ELSE rows[u]]

CreateResetToken(w) ==
    /\ At(w, "mint")
    /\ \E t \in Tokens :
          LET m == req[w].mailbox IN
          /\ minted[t] = None
          /\ rows' = RowsWithNew(t, m)
          /\ age'    = [age EXCEPT ![t] = 0]
          /\ minted' = [minted EXCEPT ![t] = m]
          /\ closed' = closed \cup RowsOf(m)
          /\ late'   = IF recovery[m] THEN late ELSE late \cup {t}
          /\ req' = [req EXCEPT ![w] = [at |-> "mail", mailbox |-> m, token |-> t]]
    /\ UNCHANGED <<portal, exists, recovery, mailed, changes>>

\* send_password_reset_email; a failed delivery is swallowed.
SendMail(w) ==
    /\ At(w, "mail")
    /\ mailed' \in {mailed, mailed \cup {req[w].token}}
    /\ Done(w)
    /\ UNCHANGED <<portal, exists, recovery, rows, age, history>>

-----------------------------------------------------------------------------
(* POST password-reset/confirm *)

\* consume_reset_token, first statement: the SELECT runs outside a transaction.
SelectToken(w, t, scope) ==
    /\ t \in mailed
    /\ Resolved(scope)
    /\ Live(t)
    /\ Start(w, [at |-> "mark", mailbox |-> rows[t].mailbox, token |-> t,
                 scope |-> scope,
                 open |-> scope = MainHost /\ ~portal[DomainOf[rows[t].mailbox]]])
    /\ UNCHANGED <<portal, exists, recovery, rows, age, mailed, history>>

\* Mutant of Used: the UPDATE is never committed.
UsedNever(t) == rows

Used(t) == IF rows[t] = None THEN rows ELSE [rows EXCEPT ![t].used = TRUE]

\* consume_reset_token, second statement: UPDATE ... SET used_at WHERE id = ?,
\* which changes no row when the row has gone; the mailbox is returned anyway.
MarkUsed(w) ==
    /\ At(w, "mark")
    /\ LET t == req[w].token IN
          /\ rows' = Used(t)
          /\ closed' = closed \cup {t}
    /\ req' = [req EXCEPT ![w].at = "check"]
    /\ UNCHANGED <<portal, exists, recovery, age, mailed, minted, changes,
                   late>>

\* Mutant of CheckPortal: the portal is not checked again.
CheckNothing(w) ==
    /\ At(w, "check")
    /\ req' = [req EXCEPT ![w].at = "patch"]
    /\ UNCHANGED <<portal, exists, recovery, rows, age, mailed, history>>

\* _mailbox_allowed_for_portal reads the domain's portal once more; a portal
\* switched after this read no longer stops the request.
CheckPortal(w) ==
    /\ At(w, "check")
    /\ IF Allowed(req[w].mailbox, req[w].scope)
       THEN req' = [req EXCEPT ![w].at = "patch"]
       ELSE Done(w)
    /\ UNCHANGED <<portal, exists, recovery, rows, age, mailed, history>>

\* MXroute may refuse the PATCH, apply it, or apply it and the answer be lost.
ChangePassword(w) ==
    /\ At(w, "patch")
    /\ LET m == req[w].mailbox
           t == req[w].token
       IN  changes' \in
             {changes} \cup
             (IF exists[m] THEN {[changes EXCEPT ![t] = @ + 1]} ELSE {})
    /\ Done(w)
    /\ UNCHANGED <<portal, exists, recovery, rows, age, mailed, minted,
                   closed, late>>

-----------------------------------------------------------------------------
(* The admin's handlers *)

\* update_recovery_email with an address.
SetRecoveryEmail(w, m) ==
    /\ req[w] = Idle
    /\ recovery' = [recovery EXCEPT ![m] = TRUE]
    /\ UNCHANGED <<portal, exists, rows, age, mailed, req, history>>

\* Mutant of RowsWithout: the tokens stay behind.
RowsKept(m) == rows

RowsWithout(m) == [t \in Tokens |-> IF t \in RowsOf(m) THEN None ELSE rows[t]]

\* delete_recovery_email: the recovery row and the tokens in one transaction.
Forget(m) ==
    /\ recovery' = [recovery EXCEPT ![m] = FALSE]
    /\ rows'   = RowsWithout(m)
    /\ closed' = closed \cup RowsOf(m)
    /\ UNCHANGED <<minted, changes, late>>

\* update_recovery_email with no address.
RemoveRecoveryEmail(w, m) ==
    /\ req[w] = Idle
    /\ Forget(m)
    /\ UNCHANGED <<portal, exists, age, mailed, req>>

\* delete_email_api: the mailbox goes at MXroute; the local rows follow only
\* after an answer that says so.
DeleteMailbox(w, m) ==
    /\ exists[m]
    /\ exists' = [exists EXCEPT ![m] = FALSE]
    /\ \/ Start(w, [at |-> "forget", mailbox |-> m])
       \/ req[w] = Idle /\ UNCHANGED req
    /\ UNCHANGED <<portal, recovery, rows, age, mailed, history>>

DeleteRecoveryAfterMxDelete(w) ==
    /\ At(w, "forget")
    /\ Forget(req[w].mailbox)
    /\ Done(w)
    /\ UNCHANGED <<portal, exists, age, mailed>>

\* provision_mailbox: POST to MXroute, then the recovery address if one was
\* given and MXroute's answer arrived.
ProvisionMailbox(w, m) ==
    /\ ~exists[m]
    /\ exists' = [exists EXCEPT ![m] = TRUE]
    /\ \/ Start(w, [at |-> "provision", mailbox |-> m])
       \/ req[w] = Idle /\ UNCHANGED req
    /\ UNCHANGED <<portal, recovery, rows, age, mailed, history>>

ProvisionRecovery(w) ==
    /\ At(w, "provision")
    /\ recovery' = [recovery EXCEPT ![req[w].mailbox] = TRUE]
    /\ Done(w)
    /\ UNCHANGED <<portal, exists, rows, age, mailed, history>>

\* upsert_reset_portal, as far as it matters here; the history of the confirm
\* requests for a mailbox of the domain.
SwitchPortal(d) ==
    /\ portal' = [portal EXCEPT ![d] = ~@]
    /\ req' = [w \in Workers |->
          IF Confirming(w) /\ req[w].scope = MainHost
                /\ DomainOf[req[w].mailbox] = d /\ portal[d]
          THEN [req[w] EXCEPT !.open = TRUE] ELSE req[w]]
    /\ UNCHANGED <<exists, recovery, rows, age, mailed, history>>

-----------------------------------------------------------------------------
\* The worker dies or its request fails between two steps.
Abort(w) ==
    /\ req[w] # Idle
    /\ Done(w)
    /\ UNCHANGED <<portal, exists, recovery, rows, age, mailed, history>>

Aged(t) == IF minted[t] = None \/ Expired(t) THEN age[t] ELSE age[t] + 1

\* Time passes: the age of a minted token grows until it is past the TTL.
Tick ==
    /\ age' = [t \in Tokens |-> Aged(t)]
    /\ UNCHANGED <<portal, exists, recovery, rows, mailed, req, history>>

RequestStep(w) ==
    \/ \E m \in Mailboxes, scope \in Scopes : RequestReset(w, m, scope)
    \/ CreateResetToken(w)
    \/ SendMail(w)

ConfirmStep(w) ==
    \/ \E t \in Tokens, scope \in Scopes : SelectToken(w, t, scope)
    \/ MarkUsed(w)
    \/ CheckPortal(w)
    \/ ChangePassword(w)

AdminStep(w) ==
    \/ \E m \in Mailboxes : \/ SetRecoveryEmail(w, m)
                            \/ RemoveRecoveryEmail(w, m)
                            \/ DeleteMailbox(w, m)
                            \/ ProvisionMailbox(w, m)
    \/ DeleteRecoveryAfterMxDelete(w)
    \/ ProvisionRecovery(w)

Next ==
    \/ \E w \in Workers : RequestStep(w) \/ ConfirmStep(w) \/ AdminStep(w) \/ Abort(w)
    \/ \E d \in Domains : SwitchPortal(d)
    \/ Tick

Spec == Init /\ [][Next]_vars

-----------------------------------------------------------------------------
(* The rows, the requests and the history have their types; a row belongs  *)
(* to the mailbox its token was minted for (models/db_reset.py).           *)
TypeOK ==
    /\ portal \in [Domains -> BOOLEAN]
    /\ exists \in [Mailboxes -> BOOLEAN]
    /\ recovery \in [Mailboxes -> BOOLEAN]
    /\ rows \in [Tokens -> Row \cup {None}]
    /\ age \in [Tokens -> 0..TTL+1]
    /\ mailed \subseteq Tokens
    /\ req \in [Workers -> Requests]
    /\ minted \in [Tokens -> Mailboxes \cup {None}]
    /\ changes \in [Tokens -> Nat]
    /\ closed \subseteq Tokens /\ late \subseteq Tokens
    /\ \A t \in Tokens : rows[t] # None => rows[t].mailbox = minted[t]

(* A token changes a password at most once per worker: the SELECT and the  *)
(* UPDATE of consume_reset_token are not one transaction, so each worker   *)
(* can pass the SELECT once before the first UPDATE lands, and none after  *)
(* it (models/db_reset.py:145-168).                                        *)
ChangesBounded == \A t \in Tokens : changes[t] <= Cardinality(Workers)

(* What docs/password-reset.md:3 says of a token: it is single-use.        *)
SingleUse == \A t \in Tokens : changes[t] <= 1

(* However requests interleave, a mailbox has one token that works: a new  *)
(* request replaces the old one (models/db_reset.py:118-142).              *)
OneLiveToken ==
    \A t, u \in Tokens :
        Live(t) /\ Live(u) /\ rows[t].mailbox = rows[u].mailbox => t = u

(* A token stops working only for a reason of its own: it expired, it was  *)
(* consumed, its mailbox asked again or its mailbox lost its recovery      *)
(* address.  What other mailboxes do, with the purge that runs in every    *)
(* request, does not cost it (models/db_reset.py:94-142).                  *)
TokenKept ==
    \A t \in Tokens :
        minted[t] # None /\ ~Expired(t) /\ t \notin closed => Live(t)

(* Taking the recovery address away (or deleting the mailbox) leaves no    *)
(* working token but those minted afterwards by a request that had already *)
(* read the address (delete_recovery_email, models/db_reset.py:94-107).    *)
RevokedWithRecovery ==
    \A t \in Tokens : Live(t) /\ t \notin late => recovery[rows[t].mailbox]

(* A password changes through a portal's host only for a mailbox of that   *)
(* portal's domain.  Through the main host it changes only if the domain   *)
(* had no enabled portal at some moment of this very request: a portal     *)
(* switched on after the link was sent stops every confirm that comes      *)
(* later, one switched on after the check at                               *)
(* routes/password_reset.py:208 comes too late for this request            *)
(* (docs/password-reset.md:167; routes/password_reset.py:57-64, 208-220).  *)
PortalIsolation ==
    [][\A w \in Workers :
          LET m == req[w].mailbox
              scope == req[w].scope
          IN  changes' # changes /\ At(w, "patch") /\ req'[w] = Idle
                => IF scope = MainHost THEN req[w].open
                   ELSE DomainOf[m] = scope]_vars

=============================================================================
