----------------------------- MODULE RateLimits -----------------------------
(***************************************************************************)
(* The request handlers that count in the table rate_limit_events, served  *)
(* by the gunicorn workers at the same time:                               *)
(*   - POST /login                  routes/auth_local.py, _login_limiter   *)
(*   - password-reset/request       routes/password_reset.py, _reset_limiter*)
(*   - password-reset/confirm       the same limiter                       *)
(*                                                                         *)
(* One limiter call is one SQLite transaction and one action: its DELETE   *)
(* takes the write lock before anything is counted.  A handler makes two   *)
(* to four such calls, and the other workers' calls come between them.     *)
(*                                                                         *)
(* Both limiters count in ONE table, and the login handler and the reset   *)
(* request both use the bucket "ip:<address>".                             *)
(***************************************************************************)
EXTENDS SlidingWindow

CONSTANTS
    Workers,        \* gunicorn worker processes, one request each
    Clients,        \* client addresses (request.remote_addr)
    Names,          \* user names typed into the login form
    NoName,         \* the empty user name: the handler uses no "user:" bucket
    Mailboxes,      \* mailbox addresses a reset is asked for
    LoginWindow, LoginIpLimit, LoginUserLimit,
    ResetWindow, ResetIpLimit, MailboxLimit, ConfirmIpLimit

\* The values of the code keep to these: 15 min < 1 h, 10 and 5, 5, 3 and 10.
ASSUME ParameterAssumption ==
    /\ IsFiniteSet(Workers)
    /\ Workers # {}
    /\ LoginWindow \in Nat /\ ResetWindow \in Nat
    /\ LoginWindow < ResetWindow
    /\ MaxAge = ResetWindow + 1
    /\ LoginIpLimit \in Nat \ {0} /\ LoginUserLimit \in Nat \ {0}
    /\ ResetIpLimit \in Nat \ {0} /\ MailboxLimit \in Nat \ {0}
    /\ ConfirmIpLimit \in Nat \ {0}
    /\ ResetIpLimit <= LoginIpLimit

VARIABLES
    table,      \* rate_limit_events: the rows of every bucket
    req,        \* what each worker is doing
    admitted,   \* history: the hits each bucket admitted, while in the window
    failed      \* history: the failed logins each bucket counted, while in the
                \* window and since a login last cleared the bucket

vars == <<table, req, admitted, failed>>

IpKey(client)       == <<"ip", client>>
UserKey(name)       == <<"user", name>>
MailboxKey(mailbox) == <<"mailbox", mailbox>>
ConfirmKey(client)  == <<"confirm-ip", client>>

IpKeys      == {IpKey(c) : c \in Clients}
UserKeys    == {UserKey(n) : n \in Names \ {NoName}}
MailboxKeys == {MailboxKey(m) : m \in Mailboxes}
ConfirmKeys == {ConfirmKey(c) : c \in Clients}
LoginKeys   == IpKeys \cup UserKeys
Keys        == LoginKeys \cup MailboxKeys \cup ConfirmKeys

LoginLimit(key) == IF key[1] = "ip" THEN LoginIpLimit ELSE LoginUserLimit
HitLimit(key)   == IF key[1] = "ip" THEN ResetIpLimit
                   ELSE IF key[1] = "mailbox" THEN MailboxLimit
                   ELSE ConfirmIpLimit

-----------------------------------------------------------------------------
(* Where a worker is: idle, or about to make the named limiter call. *)

Idle == [at |-> "idle"]
NamedLogins == [at : {"check_user", "register_user", "clear_user"},
                client : Clients, name : Names \ {NoName}]
Verifying   == [at : {"verify"}, client : Clients, name : Names]
Resetting   == [at : {"hit_mailbox"}, mailbox : Mailboxes]
Requests    == {Idle} \cup NamedLogins \cup Verifying \cup Resetting

Go(w, step) == req' = [req EXCEPT ![w].at = step]
Done(w)     == req' = [req EXCEPT ![w] = Idle]

\* Mutant of StepOrDone: `if user_key is not None` is forgotten.
StepAlways(w, step) == Go(w, step)

\* The user bucket is used only when a name was typed.
StepOrDone(w, step) == IF req[w].name = NoName THEN Done(w) ELSE Go(w, step)

Init ==
    /\ table    = [key \in Keys |-> {}]
    /\ req      = [w \in Workers |-> Idle]
    /\ admitted = [key \in Keys |-> {}]
    /\ failed   = [key \in Keys |-> {}]

-----------------------------------------------------------------------------
(* POST /login *)

\* Mutant of LoginCheckIp: a blocked attempt is counted as a failure.
LoginCheckIpCounting(w, c, n) ==
    /\ req[w] = Idle
    /\ LET key   == IpKey(c)
           check == IsBlocked(table[key], LoginWindow, LoginIpLimit)
       IN  /\ table' = [table EXCEPT ![key] =
                IF check.blocked THEN Register(@, LoginWindow) ELSE check.rows]
           /\ req' = [req EXCEPT ![w] =
                IF check.blocked THEN Idle
                ELSE [at |-> IF n = NoName THEN "verify" ELSE "check_user",
                      client |-> c, name |-> n]]
    /\ UNCHANGED <<admitted, failed>>

\* is_blocked(ip_key): blocked logins are answered 429 and counted nowhere.
LoginCheckIp(w, c, n) ==
    /\ req[w] = Idle
    /\ LET check == IsBlocked(table[IpKey(c)], LoginWindow, LoginIpLimit)
       IN  /\ table' = [table EXCEPT ![IpKey(c)] = check.rows]
           /\ req' = [req EXCEPT ![w] =
                IF check.blocked THEN Idle
                ELSE [at |-> IF n = NoName THEN "verify" ELSE "check_user",
                      client |-> c, name |-> n]]
    /\ UNCHANGED <<admitted, failed>>

\* is_blocked(user_key)
LoginCheckUser(w) ==
    /\ req[w].at = "check_user"
    /\ LET key   == UserKey(req[w].name)
           check == IsBlocked(table[key], LoginWindow, LoginUserLimit)
       IN  /\ table' = [table EXCEPT ![key] = check.rows]
           /\ IF check.blocked THEN Done(w) ELSE Go(w, "verify")
    /\ UNCHANGED <<admitted, failed>>

\* The password is right: _clear_login_attempts begins with the ip bucket.
LoginSucceeds(w) ==
    /\ req[w].at = "verify"
    /\ table'  = [table  EXCEPT ![IpKey(req[w].client)] = {}]
    /\ failed' = [failed EXCEPT ![IpKey(req[w].client)] = {}]
    /\ StepOrDone(w, "clear_user")
    /\ UNCHANGED admitted

LoginClearUser(w) ==
    /\ req[w].at = "clear_user"
    /\ table'  = [table  EXCEPT ![UserKey(req[w].name)] = {}]
    /\ failed' = [failed EXCEPT ![UserKey(req[w].name)] = {}]
    /\ Done(w)
    /\ UNCHANGED admitted

\* register(key), and the same row in the history.
CountFailure(key) ==
    /\ table'  = [table EXCEPT ![key] = Register(table[key], LoginWindow)]
    /\ failed' = [failed EXCEPT ![key] =
                    @ \cup {NewRow(Prune(table[key], LoginWindow))}]

\* The password is wrong: register(ip_key).
LoginFails(w) ==
    /\ req[w].at = "verify"
    /\ CountFailure(IpKey(req[w].client))
    /\ StepOrDone(w, "register_user")
    /\ UNCHANGED admitted

LoginRegisterUser(w) ==
    /\ req[w].at = "register_user"
    /\ CountFailure(UserKey(req[w].name))
    /\ Done(w)
    /\ UNCHANGED admitted

-----------------------------------------------------------------------------
(* POST /api/public/password-reset/request and .../confirm *)

\* _rate_limit_ok(key, limit): the answer, the table and the history.
TakeHit(key, answer) ==
    LET hit == Hit(table[key], ResetWindow, HitLimit(key))
    IN  /\ answer = hit.admitted
        /\ table' = [table EXCEPT ![key] = hit.rows]
        /\ admitted' = IF hit.admitted
              THEN [admitted EXCEPT ![key] =
                      @ \cup {NewRow(Prune(table[key], ResetWindow))}]
              ELSE admitted
        /\ UNCHANGED failed

ResetHitIp(w, c, m) ==
    /\ req[w] = Idle
    /\ \E ok \in BOOLEAN :
          /\ TakeHit(IpKey(c), ok)
          /\ IF ok THEN req' = [req EXCEPT ![w] =
                                  [at |-> "hit_mailbox", mailbox |-> m]]
             ELSE UNCHANGED req

\* What the handler does once admitted is module PasswordReset.
ResetHitMailbox(w) ==
    /\ req[w].at = "hit_mailbox"
    /\ \E ok \in BOOLEAN : TakeHit(MailboxKey(req[w].mailbox), ok)
    /\ Done(w)

ConfirmHit(w, c) ==
    /\ req[w] = Idle
    /\ \E ok \in BOOLEAN : TakeHit(ConfirmKey(c), ok)
    /\ UNCHANGED req

-----------------------------------------------------------------------------
(* The worker dies or its request is cut short (gunicorn's timeout, a       *)
(* "database is locked" error) between two limiter calls.                   *)
Abort(w) ==
    /\ req[w] # Idle
    /\ Done(w)
    /\ UNCHANGED <<table, admitted, failed>>

Tick ==
    /\ table'    = [key \in Keys |-> AllOlder(table[key])]
    /\ admitted' = [key \in Keys |->
                      Prune(AllOlder(admitted[key]), ResetWindow)]
    /\ failed'   = [key \in Keys |-> Prune(AllOlder(failed[key]), LoginWindow)]
    /\ UNCHANGED req

LoginStep(w) ==
    \/ \E c \in Clients, n \in Names : LoginCheckIp(w, c, n)
    \/ LoginCheckUser(w)
    \/ LoginSucceeds(w)
    \/ LoginClearUser(w)
    \/ LoginFails(w)
    \/ LoginRegisterUser(w)

ResetStep(w) ==
    \/ \E c \in Clients, m \in Mailboxes : ResetHitIp(w, c, m)
    \/ ResetHitMailbox(w)
    \/ \E c \in Clients : ConfirmHit(w, c)

Next == Tick \/ \E w \in Workers : LoginStep(w) \/ ResetStep(w) \/ Abort(w)

\* Time passes.  No fairness on the requests: clients may stop asking.
Spec == Init /\ [][Next]_vars /\ WF_vars(Tick)

-----------------------------------------------------------------------------
(* Every variable has its type.  A worker is between the calls of one      *)
(* handler, and a login with an empty name never gets to a call on a user  *)
(* bucket: its key would be None, for which clear() empties the whole      *)
(* table (routes/auth_local.py:23-26, 80-81, utils/rate_limit.py:88).      *)
TypeOK ==
    /\ table    \in [Keys -> SUBSET Rows]
    /\ req      \in [Workers -> Requests]
    /\ admitted \in [Keys -> SUBSET Rows]
    /\ failed   \in [Keys -> SUBSET Rows]

(* The check of the login handler and the row it later adds are separate   *)
(* transactions, so workers can pass the check together.  They overshoot   *)
(* by at most one failure each beyond the first: within the window no      *)
(* bucket ever counts more than limit + workers - 1 failed logins since a  *)
(* login last cleared it (login_page, routes/auth_local.py:39-81).         *)
FailureBound ==
    \A key \in LoginKeys :
        Cardinality(failed[key]) <= LoginLimit(key) - 1 + Cardinality(Workers)

(* hit() counts and inserts in one transaction, so a bucket that only the  *)
(* reset handlers use is exact: never more than its limit of admitted      *)
(* requests in any window (routes/password_reset.py:100-103, 162).  Not so *)
(* an address's: logins prune and clear the same bucket by their window.   *)
HitBound ==
    \A key \in MailboxKeys \cup ConfirmKeys :
        Cardinality(admitted[key]) <= HitLimit(key)

(* A login lock-out ends: a blocked attempt is not counted, so however     *)
(* often a locked-out client retries, its bucket drops below the limit     *)
(* (login_page returns before it registers, routes/auth_local.py:44-52).   *)
Locked(key) == Reached(table[key], LoginWindow, LoginLimit(key))
LockoutEnds == \A key \in LoginKeys : Locked(key) ~> ~Locked(key)
=============================================================================
