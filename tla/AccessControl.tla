----------------------------- MODULE AccessControl -----------------------------
(***************************************************************************)
(* Who may do what (utils/auth_helpers.py): users and their delegations in *)
(* SQLite, API tokens, and the sessions that live in the browsers' cookies *)
(* and that no worker can take back.  Every request checks a session's     *)
(* user against the tables, in separate reads; while it does, an admin may *)
(* edit or delete that user, who may also log in elsewhere.                *)
(*                                                                         *)
(* A step is one statement or transaction of SQLite.  A permission is a    *)
(* <<domain, permission>> pair, here a member of Scopes; a request needs   *)
(* one of a set of them, and only an admin has the empty set.              *)
(***************************************************************************)
EXTENDS Naturals, FiniteSets

CONSTANTS
    Names,        \* what users log in with, in lower case, and tokens' names
    AdminUser,    \* ADMIN_USER
    Listed,       \* ADMIN_USER and OIDC_ADMIN_USERS, as they are configured
    LocalNames,   \* names that need a password (requires_local_password)
    Legacy,       \* the old mapping file: some names and their scopes
    LegacyAdmins, \* names with "*" in that file
    Browsers,     \* sessions, one request of each at a time
    UsedBy,       \* who logs in on each browser, and the tokens it sends
    Managed,      \* names the admins edit and delete
    Tokens,
    TokenName,    \* "token:<label>", the user a token stands for
    Scopes,
    Needs,        \* what the routes ask for
    MaxRequests,  \* requests served at once: gunicorn's sync workers
    MaxIds,       \* bound on how often a name is created (the last one stays)
    MaxFailures   \* bound on failing reads

ASSUME AccessAssumption ==
    /\ AdminUser \in Listed
    /\ Listed \subseteq Names
    /\ LegacyAdmins \subseteq Names
    /\ DOMAIN Legacy \subseteq Names
    /\ \A n \in DOMAIN Legacy : Legacy[n] \subseteq Scopes
    /\ Browsers \cap Tokens = {}
    /\ UsedBy \in [Browsers -> SUBSET (Names \cup Tokens)]
    /\ Names \cap Tokens = {}
    /\ TokenName \in [Tokens -> Names]
    /\ Managed \subseteq Names
    /\ Needs \subseteq SUBSET Scopes
    /\ {} \in Needs
    /\ MaxRequests \in Nat
    /\ MaxIds \in Nat \ {0}
    /\ MaxFailures \in Nat

VARIABLES
    rows,      \* users, each with its delegations (they go with it: CASCADE)
    created,   \* how often each name was inserted: AUTOINCREMENT gives a
               \* deleted user's id to nobody
    tokens,    \* api_tokens
    session,   \* the user each browser's cookie carries
    req,       \* the request each caller has under way
    failures,  \* reads that failed so far
    \* history
    named,     \* names some admin, IdP or list has called an admin, and those
               \* of the tokens that an admin gave admin access
    entitled,  \* at some moment since it arrived, the tables allowed it
    lacking,   \* at some moment since it arrived, they did not
    unread,    \* since it arrived its user had no row, or a read of it failed
    edited     \* since it arrived its user's row was changed

users == <<rows, created>>
watched == <<entitled, lacking, unread, edited>>
vars == <<users, tokens, session, req, failures, named, watched>>

Callers == Browsers \cup Tokens

NoRow == [id |-> 0, admin |-> FALSE, password |-> FALSE, grants |-> {}]
NoSession == [name |-> "none", admin |-> FALSE]
NoToken == [live |-> FALSE, admin |-> FALSE, grants |-> {}]
Idle == [at |-> "idle"]

Row == [id : 0..MaxIds, admin : BOOLEAN, password : BOOLEAN,
        grants : SUBSET Scopes]
Session == {NoSession} \cup [name : Names, admin : BOOLEAN]
Token == [live : BOOLEAN, admin : BOOLEAN, grants : SUBSET Scopes]

\* _normalize_permissions: an empty list of permissions becomes the defaults,
\* so what is delegated is never nothing.
Delegations == SUBSET Scopes \ {{}}

\* What an admin submits: an admin, whose grants are dropped, or some domains
\* with permissions (parse_delegation_grants and _validate_grant_list).
Edit == {e \in [admin : BOOLEAN, password : BOOLEAN,
                grants : {{}} \cup Delegations] : e.admin <=> e.grants = {}}

Request ==
    {Idle}
    \cup [at : {"mapping", "flag", "grants", "allowed", "denied"}, need : Needs]
    \cup [at : {"save"}, name : Names, id : 0..MaxIds, edit : Edit]
    \cup [at : {"drop"}, name : Names, id : 0..MaxIds]
    \cup [at : {"sync"}, name : Names, found : BOOLEAN]
    \cup [at : {"me"}, name : Names]
    \cup [at : {"build", "profile", "insert"}, name : Names, admin : BOOLEAN]

Exists(n) == rows[n].id # 0
At(c, step) == req[c].at = step
User(b) == session[b].name

Free(c) ==
    At(c, "idle") /\ Cardinality({d \in Callers : ~At(d, "idle")}) < MaxRequests

Goes(c, r) == req' = [req EXCEPT ![c] = r]

\* load_domain_mapping gives an admin's row a "*".
StarIn(n) == Exists(n) /\ rows[n].admin

\* load_user_grants leaves out the rows of admins.
GrantsOf(n) == IF Exists(n) /\ ~rows[n].admin THEN rows[n].grants ELSE {}

-----------------------------------------------------------------------------
(* What the tables say of a request, for the properties. *)

Watched(c) == req[c].at \in {"mapping", "flag", "grants", "allowed", "denied"}

Entitled(c) ==
    IF c \in Browsers
    THEN \/ User(c) \in Listed
         \/ StarIn(User(c))
         \/ GrantsOf(User(c)) \cap req[c].need # {}
    ELSE /\ tokens[c].live
         /\ tokens[c].admin \/ tokens[c].grants \cap req[c].need # {}

Rowless(c) == c \in Browsers /\ ~Exists(User(c))

Watch ==
    /\ entitled' = [c \in Callers |->
           Watched(c)' /\ (entitled[c] \/ Entitled(c)')]
    /\ lacking' = [c \in Callers |->
           Watched(c)' /\ (lacking[c] \/ ~Entitled(c)')]
    /\ unread' = [c \in Callers |->
           /\ Watched(c)'
           /\ \/ unread[c]
              \/ Rowless(c)'
              \/ failures' # failures /\ req'[c] # req[c]]
    /\ edited' = [c \in Callers |->
           /\ Watched(c) /\ Watched(c)'
           /\ edited[c] \/ (c \in Browsers /\ rows'[User(c)] # rows[User(c)])]

\* _migrate_json_domain_mapping
Migrated(n) ==
    [id |-> 1, password |-> FALSE, grants |-> Legacy[n],
     admin |-> n \in Listed \cup LegacyAdmins]

Init ==
    /\ rows = [n \in Names |->
           IF n \in DOMAIN Legacy THEN Migrated(n) ELSE NoRow]
    /\ created = [n \in Names |-> IF n \in DOMAIN Legacy THEN 1 ELSE 0]
    /\ tokens = [t \in Tokens |-> NoToken]
    /\ session = [b \in Browsers |-> NoSession]
    /\ req = [c \in Callers |-> Idle]
    /\ failures = 0
    /\ named = Listed \cup LegacyAdmins
    /\ entitled = [c \in Callers |-> FALSE]
    /\ lacking = [c \in Callers |-> FALSE]
    /\ unread = [c \in Callers |-> FALSE]
    /\ edited = [c \in Callers |-> FALSE]

-----------------------------------------------------------------------------
(* The checks of a browser's request: is_user_admin, then the grants. *)

\* A read raised (the file is locked or gone); each reader catches it.
ReadFails == failures < MaxFailures /\ failures' = failures + 1
ReadWorks == UNCHANGED failures

OnlyReads == UNCHANGED <<users, tokens, session, named>>

\* check_authentication: the cookie carries a user.
LoggedIn(b) == session[b] # NoSession

\* The lists are settings, not rows: they are looked at first.
Arrives(b, need) ==
    /\ Free(b)
    /\ LoggedIn(b)
    /\ Goes(b, [at |-> IF User(b) \in Listed THEN "allowed" ELSE "mapping",
                need |-> need])
    /\ ReadWorks
    /\ OnlyReads

ReadMapping(b) ==
    /\ At(b, "mapping")
    /\ \/ /\ ReadWorks
          /\ Goes(b, [at |-> IF StarIn(User(b)) THEN "allowed" ELSE "flag",
                      need |-> req[b].need])
       \/ ReadFails /\ Goes(b, [at |-> "flag", need |-> req[b].need])
    /\ OnlyReads

\* Mutant of FlagOf: the session's flag is looked at before the table's.
FlagOfSessionFirst(b) ==
    session[b].admin \/ (Exists(User(b)) /\ rows[User(b)].admin)

\* _resolve_db_is_admin: the session's flag counts only without a row.
FlagOf(b) ==
    IF Exists(User(b)) THEN rows[User(b)].admin ELSE session[b].admin

\* Mutant of AfterFlag: who is no admin is refused.
AfterFlagRefuses(admin, need) == IF admin THEN "allowed" ELSE "denied"

AfterFlag(admin, need) ==
    IF admin THEN "allowed" ELSE IF need = {} THEN "denied" ELSE "grants"

ReadFlag(b) ==
    /\ At(b, "flag")
    /\ \/ /\ ReadWorks
          /\ Goes(b, [at |-> AfterFlag(FlagOf(b), req[b].need),
                      need |-> req[b].need])
       \/ /\ ReadFails
          /\ Goes(b, [at |-> AfterFlag(session[b].admin, req[b].need),
                      need |-> req[b].need])
    /\ OnlyReads

ReadGrants(b) ==
    /\ At(b, "grants")
    /\ \/ /\ ReadWorks
          /\ Goes(b, [at |-> IF GrantsOf(User(b)) \cap req[b].need # {}
                             THEN "allowed" ELSE "denied",
                      need |-> req[b].need])
       \/ ReadFails /\ Goes(b, [at |-> "denied", need |-> req[b].need])
    /\ OnlyReads

\* build_user_from_api_token: a user of that one request.
TokenAllows(t, need) == tokens[t].admin \/ tokens[t].grants \cap need # {}

\* lookup_api_token finds only what is not revoked.
Found(t) == tokens[t].live

\* authenticate_bearer_token: one lookup, whose answer all checks use.
BearerArrives(t, need) ==
    /\ Free(t)
    /\ Found(t)
    /\ Goes(t, [at |-> IF TokenAllows(t, need) THEN "allowed" ELSE "denied",
                need |-> need])
    /\ ReadWorks
    /\ OnlyReads

\* A refusal, or an answer that leaves these tables alone.
Answers(c) ==
    /\ req[c].at \in {"allowed", "denied"}
    /\ Goes(c, Idle)
    /\ ReadWorks
    /\ OnlyReads

-----------------------------------------------------------------------------
(* What an admin does to users and tokens. *)

Admitted(c) == At(c, "allowed") /\ req[c].need = {}

WithId(row, id) == [id |-> id, admin |-> row.admin, password |-> row.password,
                    grants |-> row.grants]

Insert(n, row) ==
    /\ created' = [created EXCEPT ![n] = created[n] + 1]
    /\ rows' = [rows EXCEPT ![n] = WithId(row, created[n] + 1)]

\* _password_required_error
PasswordMissing(n, e) ==
    n \in LocalNames /\ ~e.password /\ ~rows[n].password

\* The SELECT of update_delegation; without the password it asks for it answers
\* 400.
EditReads(c, n, e) ==
    /\ Admitted(c)
    /\ ~PasswordMissing(n, e)
    /\ Goes(c, [at |-> "save", name |-> n, id |-> rows[n].id, edit |-> e])
    /\ ReadWorks
    /\ OnlyReads

Edited(n, e) ==
    [id |-> rows[n].id, admin |-> e.admin,
     password |-> rows[n].password \/ e.password,
     grants |-> e.grants]

\* Mutant of StillThere: the user is updated by name.
StillThereByName(n, id) == id # 0

\* The UPDATE goes by id; without the row, it changes nothing and the INSERT of
\* a delegation fails on its foreign key, which rolls the transaction back.
StillThere(n, id) == id # 0 /\ rows[n].id = id

EditSaves(c) ==
    /\ At(c, "save")
    /\ LET n == req[c].name
           e == req[c].edit
       IN \/ /\ req[c].id = 0 /\ ~Exists(n)
             /\ Insert(n, Edited(n, e))
             /\ named' = IF e.admin THEN named \cup {n} ELSE named
          \/ /\ StillThere(n, req[c].id)
             /\ rows' = [rows EXCEPT ![n] = Edited(n, e)]
             /\ named' = IF e.admin THEN named \cup {n} ELSE named
             /\ UNCHANGED created
          \/ /\ IF req[c].id = 0 THEN Exists(n) ELSE rows[n].id # req[c].id
             /\ UNCHANGED <<users, named>>
    /\ Goes(c, Idle)
    /\ ReadWorks
    /\ UNCHANGED <<tokens, session>>

\* delete_delegation, at most MaxIds - 1 times a name: nobody deletes the account
\* they are logged in with.
DeleteReads(c, n) ==
    /\ Admitted(c)
    /\ c \in Browsers => User(c) # n
    /\ Exists(n) /\ created[n] < MaxIds
    /\ Goes(c, [at |-> "drop", name |-> n, id |-> rows[n].id])
    /\ ReadWorks
    /\ OnlyReads

DeleteDrops(c) ==
    /\ At(c, "drop")
    /\ rows' = IF rows[req[c].name].id = req[c].id
               THEN [rows EXCEPT ![req[c].name] = NoRow] ELSE rows
    /\ Goes(c, Idle)
    /\ ReadWorks
    /\ UNCHANGED <<created, tokens, session, named>>

\* _require_browser_admin: only a browser's admin mints and revokes.
BrowserAdmin(c) == c \in Browsers /\ Admitted(c)

\* create_api_token: an admin, or scopes like a delegation's.
Minted(e) == [live |-> TRUE, admin |-> e.admin, grants |-> e.grants]

Mint(b, t, e) ==
    /\ BrowserAdmin(b)
    /\ tokens[t] = NoToken
    /\ tokens' = [tokens EXCEPT ![t] = Minted(e)]
    /\ named' = IF e.admin THEN named \cup {TokenName[t]} ELSE named
    /\ Goes(b, Idle)
    /\ ReadWorks
    /\ UNCHANGED <<users, session>>

\* revoke_api_token
Revoked(t) == [live |-> FALSE, admin |-> tokens[t].admin,
               grants |-> tokens[t].grants]

Revoke(b, t) ==
    /\ BrowserAdmin(b)
    /\ tokens[t].live
    /\ tokens' = [tokens EXCEPT ![t] = Revoked(t)]
    /\ Goes(b, Idle)
    /\ ReadWorks
    /\ UNCHANGED <<users, session, named>>

-----------------------------------------------------------------------------
(* Sessions: login, OIDC, /api/me, the profile and logout. *)

\* The SELECT of login_page, the right password typed.
LocalLogin(b, n) ==
    /\ Free(b) /\ session[b] = NoSession
    /\ rows[n].password
    /\ Goes(b, [at |-> "build", name |-> n, admin |-> rows[n].admin])
    /\ ReadWorks
    /\ OnlyReads

\* verify_admin_password
AdminLogin(b) ==
    /\ Free(b) /\ session[b] = NoSession
    /\ AdminUser \in UsedBy[b]
    /\ Goes(b, [at |-> "build", name |-> AdminUser, admin |-> TRUE])
    /\ ReadWorks
    /\ OnlyReads

\* The IdP vouches for n, and says whether n is in the admins' group.  Who is
\* unknown here and no admin there is turned away.
OidcReads(b, n, group) ==
    /\ Free(b)
    /\ LET admin == group \/ n \in Listed
       IN /\ admin \/ Exists(n)
          /\ Goes(b, IF admin
                     THEN [at |-> "sync", name |-> n, found |-> Exists(n)]
                     ELSE [at |-> "build", name |-> n, admin |-> rows[n].admin])
          /\ named' = IF admin THEN named \cup {n} ELSE named
    /\ ReadWorks
    /\ UNCHANGED <<users, tokens, session>>

OidcUser == [id |-> 0, admin |-> TRUE, password |-> FALSE, grants |-> {}]

Promoted(n) == [id |-> rows[n].id, admin |-> TRUE,
                password |-> rows[n].password, grants |-> rows[n].grants]

\* The UPDATE goes by name, and finds nothing when the user was just deleted;
\* the INSERT fails when the user was just created (503).
OidcSyncs(b) ==
    /\ At(b, "sync")
    /\ LET n == req[b].name
           in == [at |-> "build", name |-> n, admin |-> TRUE]
       IN \/ /\ req[b].found
             /\ rows' = IF Exists(n)
                        THEN [rows EXCEPT ![n] = Promoted(n)] ELSE rows
             /\ Goes(b, in)
             /\ UNCHANGED created
          \/ /\ ~req[b].found /\ ~Exists(n)
             /\ Insert(n, OidcUser)
             /\ Goes(b, in)
          \/ /\ ~req[b].found /\ Exists(n)
             /\ Goes(b, Idle)
             /\ UNCHANGED users
    /\ ReadWorks
    /\ UNCHANGED <<tokens, session, named>>

\* get_me takes the flag of the user's row, none without one.
MeReads(b, n) ==
    /\ \E mapped \in BOOLEAN :
        /\ Goes(b, [at |-> "build", name |-> n, admin |-> mapped])
        /\ \/ ReadWorks /\ mapped = StarIn(n)
           \/ ReadFails /\ mapped = FALSE
    /\ OnlyReads

GetMe(b) == Free(b) /\ LoggedIn(b) /\ MeReads(b, User(b))

\* With a token, whose user is stored in the cookie of the answer.
TokenAsksMe(b, t) ==
    /\ Free(b)
    /\ Found(t)
    /\ Goes(b, [at |-> "me", name |-> TokenName[t]])
    /\ ReadWorks
    /\ OnlyReads

TokenGetMe(b) == At(b, "me") /\ MeReads(b, req[b].name)

\* Mutant of SessionFlag: whoever has a row is an admin.
SessionFlagOfRow(n, admin, mapped) == admin \/ n \in Listed \/ Exists(n)

SessionFlag(n, admin, mapped) == admin \/ n \in Listed \/ mapped

\* build_session_user, and the cookie it ends up in.
BuildSession(b) ==
    /\ At(b, "build")
    /\ LET n == req[b].name
           Stores(mapped) ==
               session' = [session EXCEPT ![b] =
                   [name |-> n, admin |-> SessionFlag(n, req[b].admin, mapped)]]
       IN \/ ReadWorks /\ Stores(StarIn(n))
          \/ ReadFails /\ Stores(FALSE)
    /\ Goes(b, Idle)
    /\ UNCHANGED <<users, tokens, named>>

\* The lookup of a token that sends a profile.
TokenSendsProfile(t) ==
    /\ Free(t)
    /\ Found(t)
    /\ Goes(t, [at |-> "profile", name |-> TokenName[t],
                admin |-> tokens[t].admin])
    /\ ReadWorks
    /\ OnlyReads

\* The SELECT of set_user_contact_email for a user and its flag; a row that is
\* there keeps what is modelled of it.
ProfileReads(c, n, admin) ==
    /\ Goes(c, IF Exists(n) THEN Idle
               ELSE [at |-> "insert", name |-> n, admin |-> admin])
    /\ ReadWorks
    /\ OnlyReads

SendsProfile(b) ==
    Free(b) /\ LoggedIn(b) /\ ProfileReads(b, User(b), session[b].admin)

TokenProfile(t) ==
    At(t, "profile") /\ ProfileReads(t, req[t].name, req[t].admin)

\* The INSERT, with the flag of the session or token, fails when the row was
\* just created.
ProfileInserts(c) ==
    /\ At(c, "insert")
    /\ LET n == req[c].name
       IN \/ /\ ~Exists(n)
             /\ Insert(n, [id |-> 0, admin |-> req[c].admin,
                           password |-> FALSE, grants |-> {}])
          \/ Exists(n) /\ UNCHANGED users
    /\ Goes(c, Idle)
    /\ ReadWorks
    /\ UNCHANGED <<tokens, session, named>>

Logout(b) ==
    /\ Free(b) /\ LoggedIn(b)
    /\ session' = [session EXCEPT ![b] = NoSession]
    /\ Goes(b, Idle)
    /\ ReadWorks
    /\ UNCHANGED <<users, tokens, named>>

\* A worker starts and finds no admin (_seed_initial_admin, INSERT OR IGNORE).
SeedInitialAdmin ==
    /\ \A n \in Names : ~rows[n].admin
    /\ ~Exists(AdminUser)
    /\ Insert(AdminUser,
              [id |-> 0, admin |-> TRUE, password |-> TRUE, grants |-> {}])
    /\ UNCHANGED <<tokens, session, req, failures, named>>

-----------------------------------------------------------------------------
Step ==
    \/ \E b \in Browsers :
        \/ \E need \in Needs : Arrives(b, need)
        \/ ReadMapping(b) \/ ReadFlag(b) \/ ReadGrants(b)
        \/ \E n \in UsedBy[b] \cap Names :
            LocalLogin(b, n) \/ \E group \in BOOLEAN : OidcReads(b, n, group)
        \/ AdminLogin(b) \/ OidcSyncs(b) \/ GetMe(b) \/ TokenGetMe(b)
        \/ \E t \in UsedBy[b] \cap Tokens : TokenAsksMe(b, t)
        \/ BuildSession(b) \/ SendsProfile(b) \/ Logout(b)
    \/ \E t \in Tokens :
        \/ \E need \in Needs : BearerArrives(t, need)
        \/ TokenSendsProfile(t) \/ TokenProfile(t)
    \/ \E c \in Callers :
        \/ \E n \in Managed :
            DeleteReads(c, n) \/ \E e \in Edit : EditReads(c, n, e)
        \/ \E t \in Tokens : Revoke(c, t) \/ \E e \in Edit : Mint(c, t, e)
        \/ EditSaves(c) \/ DeleteDrops(c) \/ ProfileInserts(c) \/ Answers(c)
    \/ SeedInitialAdmin

Next == Step /\ Watch

Spec == Init /\ [][Next]_vars

-----------------------------------------------------------------------------
(* Properties. *)

\* Types; a user's delegations never outlive its row, and ids are not reused.
TypeOK ==
    /\ rows \in [Names -> Row]
    /\ created \in [Names -> 0..MaxIds]
    /\ \A n \in Names : /\ rows[n].id \in {0, created[n]}
                        /\ rows[n].id = 0 => rows[n] = NoRow
    /\ tokens \in [Tokens -> Token]
    /\ session \in [Browsers -> Session]
    /\ req \in [Callers -> Request]
    /\ failures \in 0..MaxFailures
    /\ named \subseteq Names
    /\ entitled \in [Callers -> BOOLEAN] /\ lacking \in [Callers -> BOOLEAN]
    /\ unread \in [Callers -> BOOLEAN] /\ edited \in [Callers -> BOOLEAN]

\* However edits, deletions and revocations fall between the reads of a request,
\* what it is allowed to do the tables allowed at some moment since it arrived.
\* The session's word is taken only for a user without a row or a read that
\* failed, and then somebody did once make that name an admin.
AdmittedWasEntitled ==
    \A c \in Callers : At(c, "allowed") =>
        \/ entitled[c]
        \/ c \in Browsers /\ unread[c] /\ User(c) \in named

\* A request is refused only if the tables did not allow it at some moment
\* since it arrived, or its user's row was rewritten under it, or could not be
\* read: the three reads of a check together refuse nobody whose access stood.
DeniedHadReason ==
    \A c \in Callers : At(c, "denied") => lacking[c] \/ unread[c] \/ edited[c]

\* No login, refresh, profile change or restart makes an admin: every admin flag
\* in a row or in a session goes back to an admin's edit, the IdP, the lists, or
\* an admin's gift of admin access to a token of that name.  A row or session
\* that a token left behind keeps the flag when the token is revoked.
AdminFlagHasSource ==
    /\ \A n \in Names : rows[n].admin => n \in named
    /\ \A b \in Browsers : session[b].admin => User(b) \in named
=============================================================================
