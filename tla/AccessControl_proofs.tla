------------------------- MODULE AccessControl_proofs -------------------------
(***************************************************************************)
(* Theorems about AccessControl, for any users, browsers, tokens, scopes   *)
(* and bounds.                                                             *)
(***************************************************************************)
EXTENDS AccessControl, TLAPS

\* Names that can still be created; a row about to be deleted is not the last.
Room ==
    /\ \A n \in Names : Exists(n) \/ created[n] < MaxIds
    /\ \A c \in Callers : At(c, "drop") => req[c].id \in 1 .. MaxIds - 1

\* The flag a session or row is about to get, or a token has, is given only to
\* who was named an admin.
Building ==
    /\ Listed \subseteq named
    /\ \A t \in Tokens : tokens[t].admin => TokenName[t] \in named
    /\ \A c \in Callers :
          /\ req[c].at \in {"build", "profile", "insert"} /\ req[c].admin =>
                req[c].name \in named
          /\ At(c, "sync") => req[c].name \in named

\* Only a browser with a session has its rights checked.
HasSession ==
    \A b \in Browsers : Watched(b) =>
        session[b] \in [name : Names, admin : BOOLEAN]

\* What a check under way has found out: its user is on no list, and after the
\* second read no admin.
Checking ==
    \A c \in Callers :
        /\ req[c].at \in {"mapping", "flag", "grants"} =>
              c \in Browsers /\ User(c) \notin Listed
        /\ At(c, "grants") => ~StarIn(User(c)) \/ unread[c] \/ edited[c]

IInv ==
    /\ TypeOK
    /\ Room
    /\ Building
    /\ HasSession
    /\ Checking
    /\ AdminFlagHasSource
    /\ AdmittedWasEntitled
    /\ DeniedHadReason

\* The parts of TypeOK.
RowsTyped ==
    /\ rows \in [Names -> Row]
    /\ created \in [Names -> 0..MaxIds]
    /\ \A n \in Names : /\ rows[n].id \in {0, created[n]}
                        /\ rows[n].id = 0 => rows[n] = NoRow
TokensTyped == tokens \in [Tokens -> Token]
SessionsTyped == session \in [Browsers -> Session]
RequestsTyped == req \in [Callers -> Request]
CountsTyped == failures \in 0..MaxFailures /\ named \subseteq Names
HistoryTyped ==
    /\ entitled \in [Callers -> BOOLEAN] /\ lacking \in [Callers -> BOOLEAN]
    /\ unread \in [Callers -> BOOLEAN] /\ edited \in [Callers -> BOOLEAN]

-----------------------------------------------------------------------------
USE AccessAssumption

-----------------------------------------------------------------------------
(* Requests and rows. *)

\* What a request holds at each of its steps.
LEMMA RequestFields ==
    ASSUME TypeOK, NEW c \in Callers
    PROVE  /\ Watched(c) => req[c].need \in Needs
           /\ At(c, "save") => /\ req[c].name \in Names
                               /\ req[c].id \in 0..MaxIds
                               /\ req[c].edit \in Edit
           /\ At(c, "drop") => req[c].name \in Names /\ req[c].id \in 0..MaxIds
           /\ At(c, "sync") => req[c].name \in Names /\ req[c].found \in BOOLEAN
           /\ At(c, "me") => req[c].name \in Names
           /\ req[c].at \in {"build", "profile", "insert"} =>
                 req[c].name \in Names /\ req[c].admin \in BOOLEAN
<1>1. req[c] \in Request
  BY DEF TypeOK
<1> QED
  BY <1>1 DEF Request, Idle, At, Watched

\* What a request may become.
LEMMA RequestShapes ==
    /\ Idle \in Request
    /\ \A at \in {"mapping", "flag", "grants", "allowed", "denied"},
          need \in Needs :
          [at |-> at, need |-> need] \in Request
    /\ \A n \in Names, admin \in BOOLEAN,
          at \in {"build", "profile", "insert"} :
          [at |-> at, name |-> n, admin |-> admin] \in Request
    /\ \A n \in Names : [at |-> "me", name |-> n] \in Request
    /\ \A n \in Names, found \in BOOLEAN :
          [at |-> "sync", name |-> n, found |-> found] \in Request
    /\ \A n \in Names, id \in 0..MaxIds :
          [at |-> "drop", name |-> n, id |-> id] \in Request
    /\ \A n \in Names, id \in 0..MaxIds, e \in Edit :
          [at |-> "save", name |-> n, id |-> id, edit |-> e] \in Request
  BY DEF Request

\* A row as its four fields.
LEMMA RowShape ==
    ASSUME NEW id \in 0..MaxIds, NEW admin \in BOOLEAN, NEW password \in BOOLEAN,
           NEW grants \in SUBSET Scopes
    PROVE  [id |-> id, admin |-> admin, password |-> password,
            grants |-> grants] \in Row
  BY DEF Row

\* What a row holds.
LEMMA RowFields ==
    ASSUME TypeOK, NEW n \in Names
    PROVE  /\ rows[n].id \in 0..MaxIds
           /\ rows[n].admin \in BOOLEAN
           /\ rows[n].password \in BOOLEAN
           /\ rows[n].grants \in SUBSET Scopes
<1>1. rows[n] \in Row
  BY DEF TypeOK
<1> QED
  BY <1>1 DEF Row

\* A name that is created, where there is room for it.
LEMMA InsertTyped ==
    ASSUME TypeOK, Room, NEW n \in Names, ~Exists(n),
           NEW admin \in BOOLEAN, NEW password \in BOOLEAN,
           NEW grants \in SUBSET Scopes,
           created' = [created EXCEPT ![n] = created[n] + 1],
           rows' = [rows EXCEPT ![n] =
                       [id |-> created[n] + 1, admin |-> admin,
                        password |-> password, grants |-> grants]]
    PROVE  /\ RowsTyped'
           /\ \A m \in Names : rows'[m].id # 0 \/ created'[m] < MaxIds
<1>1. created[n] + 1 \in 0..MaxIds
  BY DEF TypeOK, Room
<1>2. [id |-> created[n] + 1, admin |-> admin, password |-> password,
       grants |-> grants] \in Row
  BY <1>1, RowShape
<1> QED
  BY <1>1, <1>2 DEF TypeOK, RowsTyped, Room, Exists

\* What a step leaves of the findings of a request it does not move.
LEMMA OthersWatched ==
    ASSUME IInv, Watch, named \subseteq named',
           NEW c \in Callers, req'[c] = req[c],
           c \in Browsers /\ Watched(c) => session'[c] = session[c]
    PROVE  /\ At(c, "allowed") =>
                 \/ entitled'[c]
                 \/ c \in Browsers /\ unread'[c] /\ session'[c].name \in named'
           /\ At(c, "denied") => lacking'[c] \/ unread'[c] \/ edited'[c]
           /\ req[c].at \in {"mapping", "flag", "grants"} =>
                 c \in Browsers /\ session'[c].name \notin Listed
           /\ At(c, "grants") =>
                 \/ ~(/\ rows'[session'[c].name].id # 0
                      /\ rows'[session'[c].name].admin)
                 \/ unread'[c] \/ edited'[c]
  BY DEF Watch, Watched, Rowless, Exists, User, At, StarIn, Checking,
         AdmittedWasEntitled, DeniedHadReason, IInv

\* A step of a request that is not being checked finds out nothing.
LEMMA Unchecked ==
    ASSUME IInv, Watch, named \subseteq named', NEW c \in Callers,
           req'[c].at \in {"idle", "save", "drop", "sync", "build", "me",
                           "profile", "insert"},
           \A d \in Callers \ {c} :
              req'[d] = req[d] /\ (d \in Browsers => session'[d] = session[d])
    PROVE  Checking' /\ AdmittedWasEntitled' /\ DeniedHadReason'
  BY OthersWatched
  DEF Checking, AdmittedWasEntitled, DeniedHadReason, At, User, StarIn, Exists

\* What Watch writes has its type.
LEMMA WatchTyped == ASSUME Watch PROVE HistoryTyped'
  BY Zenon DEF Watch, HistoryTyped

-----------------------------------------------------------------------------
(* Every step keeps the invariant. *)

\* A request arrives.
LEMMA ArrivesKeeps ==
    ASSUME IInv, NEW b \in Browsers, NEW need \in Needs, Arrives(b, need),
           Watch
    PROVE  IInv'
<1>1. RowsTyped' /\ TokensTyped' /\ SessionsTyped' /\ CountsTyped'
  BY DEF users, Callers, NoRow, NoSession, Idle, Row, Session, Token,
         Delegations, Edit, Request, Exists, At, Free, User, Goes, Watched,
         ReadWorks, OnlyReads, LoggedIn, Arrives, TypeOK, Room, HasSession,
         IInv, RowsTyped, TokensTyped, SessionsTyped, CountsTyped
<1>2. RequestsTyped'
  BY DEF users, Callers, NoRow, NoSession, Idle, Row, Session, Token,
         Delegations, Edit, Request, Exists, At, Free, User, Goes, Watched,
         ReadWorks, OnlyReads, LoggedIn, Arrives, TypeOK, Room, HasSession,
         IInv, RequestsTyped
<1>3. Room' /\ Building' /\ HasSession' /\ AdminFlagHasSource'
  BY DEF users, Callers, NoRow, NoSession, Idle, Row, Session, Token,
         Delegations, Edit, Request, Exists, At, Free, User, Goes, Watched,
         ReadWorks, OnlyReads, LoggedIn, Arrives, TypeOK, AdminFlagHasSource,
         Room, Building, HasSession, IInv
<1>4. Checking'
  BY DEF users, Callers, Exists, At, Free, User, Goes, StarIn, GrantsOf, Watched,
         Entitled, Rowless, Watch, ReadWorks, OnlyReads, LoggedIn, Arrives,
         TypeOK, Checking, IInv
<1>5. AdmittedWasEntitled'
<2>1. /\ named \subseteq named' /\ session' = session
      /\ \A d \in Callers \ {b} : req'[d] = req[d]
  BY DEF Arrives, OnlyReads, Goes, IInv, TypeOK
<2>2. At(b, "allowed")' => Entitled(b)'
  BY DEF Arrives, Entitled, User, At, Free, Exists, StarIn, GrantsOf, Callers,
         OnlyReads, users, Goes, IInv, TypeOK
<2>3. At(b, "allowed")' /\ Entitled(b)' => entitled'[b]
  BY DEF Watch, Watched, At, Callers
<2> QED
  BY <2>1, <2>2, <2>3, OthersWatched DEF AdmittedWasEntitled, At, User,
         Callers
<1>6. DeniedHadReason'
  BY DEF users, Callers, Exists, At, Free, User, Goes, StarIn, GrantsOf, Watched,
         Entitled, Rowless, Watch, ReadWorks, OnlyReads, LoggedIn, Arrives,
         TypeOK, DeniedHadReason, HasSession, Checking, IInv
<1> QED
  BY <1>1, <1>2, <1>3, <1>4, <1>5, <1>6, WatchTyped
  DEF IInv, TypeOK, RowsTyped, TokensTyped, SessionsTyped, CountsTyped,
      RequestsTyped, HistoryTyped

\* The first read of a check.
LEMMA ReadMappingKeeps ==
    ASSUME IInv, NEW b \in Browsers, ReadMapping(b), Watch
    PROVE  IInv'
<1>1. RowsTyped' /\ TokensTyped' /\ SessionsTyped' /\ CountsTyped'
  BY DEF users, Callers, NoRow, NoSession, Idle, Row, Session, Token,
         Delegations, Edit, Request, Exists, At, User, Goes, StarIn, Watched,
         ReadFails, ReadWorks, OnlyReads, ReadMapping, TypeOK, Room,
         HasSession, IInv, RowsTyped, TokensTyped, SessionsTyped, CountsTyped
<1>2. RequestsTyped'
<2>0. req[b].need \in Needs
  BY RequestFields DEF ReadMapping, Watched, At, Callers, IInv
<2>1. \E r \in Request : req' = [req EXCEPT ![b] = r]
  BY <2>0, RequestShapes DEF ReadMapping, Goes
<2> QED
  BY <2>1 DEF RequestsTyped, IInv, TypeOK, Callers
<1>3. Room' /\ Building' /\ HasSession' /\ AdminFlagHasSource'
<2>1. HasSession'
  <3>1. /\ session' = session
        /\ \A d \in Browsers \ {b} : req'[d] = req[d]
        /\ Watched(b)
    BY DEF ReadMapping, Watched, At, OnlyReads, Goes, Callers, IInv, TypeOK
  <3> QED
    BY <3>1 DEF HasSession, Watched, At, ReadMapping, Goes, IInv, TypeOK,
           Callers
<2>2. Room'
  BY DEF users, Callers, Exists, At, User, Goes, StarIn, ReadFails, ReadWorks,
         OnlyReads, ReadMapping, TypeOK, Room, IInv
<2>3. Building'
  BY DEF users, Callers, Exists, At, User, Goes, StarIn, ReadFails, ReadWorks,
         OnlyReads, ReadMapping, TypeOK, AdminFlagHasSource, Building, IInv
<2>4. AdminFlagHasSource'
  BY DEF users, Callers, Exists, At, User, Goes, StarIn, Watched, ReadFails,
         ReadWorks, OnlyReads, ReadMapping, TypeOK, AdminFlagHasSource,
         Building, HasSession, IInv
<2> QED
  BY <2>1, <2>2, <2>3, <2>4
<1>4. Checking'
  BY DEF users, Callers, NoRow, NoSession, Idle, Row, Session, Token,
         Delegations, Edit, Request, Exists, At, User, Goes, StarIn, GrantsOf,
         Watched, Entitled, Rowless, Watch, ReadFails, ReadWorks, OnlyReads,
         ReadMapping, TypeOK, Checking, IInv
<1>5. AdmittedWasEntitled'
<2>1. /\ named \subseteq named' /\ session' = session
      /\ \A d \in Callers \ {b} : req'[d] = req[d]
  BY DEF ReadMapping, OnlyReads, Goes, IInv, TypeOK
<2>2. At(b, "allowed")' => Entitled(b)'
  BY DEF ReadMapping, Entitled, User, At, Exists, StarIn, GrantsOf, Callers,
         OnlyReads, users, Goes, IInv, TypeOK
<2>3. At(b, "allowed")' /\ Entitled(b)' => entitled'[b]
  BY DEF Watch, Watched, At, Callers
<2> QED
  BY <2>1, <2>2, <2>3, OthersWatched DEF AdmittedWasEntitled, At, User,
         Callers
<1>6. DeniedHadReason'
<2>1. /\ named \subseteq named' /\ session' = session
      /\ \A d \in Callers \ {b} : req'[d] = req[d]
  BY DEF ReadMapping, OnlyReads, Goes, IInv, TypeOK
<2>2. req'[b].at \in {"allowed", "flag"}
  BY DEF ReadMapping, Goes, Idle, Callers, IInv, TypeOK
<2> QED
  BY <2>1, <2>2, OthersWatched DEF DeniedHadReason, At
<1> QED
  BY <1>1, <1>2, <1>3, <1>4, <1>5, <1>6, WatchTyped
  DEF IInv, TypeOK, RowsTyped, TokensTyped, SessionsTyped, CountsTyped,
      RequestsTyped, HistoryTyped

\* The second read of a check.
LEMMA ReadFlagKeeps ==
    ASSUME IInv, NEW b \in Browsers, ReadFlag(b), Watch
    PROVE  IInv'
<1>1. RowsTyped' /\ TokensTyped' /\ SessionsTyped' /\ CountsTyped'
  BY DEF users, Callers, NoRow, NoSession, Idle, Row, Session, Token,
         Delegations, Edit, Request, Exists, At, User, Goes, Watched,
         ReadFails, ReadWorks, OnlyReads, FlagOf, AfterFlag, ReadFlag, TypeOK,
         Room, HasSession, IInv, RowsTyped, TokensTyped, SessionsTyped,
         CountsTyped
<1>2. RequestsTyped'
<2>0. req[b].need \in Needs
  BY RequestFields DEF ReadFlag, Watched, At, Callers, IInv
<2>1. \E r \in Request : req' = [req EXCEPT ![b] = r]
  BY <2>0, RequestShapes DEF ReadFlag, AfterFlag, Goes
<2> QED
  BY <2>1 DEF RequestsTyped, IInv, TypeOK, Callers
<1>3. Room' /\ Building' /\ HasSession' /\ AdminFlagHasSource'
<2>1. Room'
  BY DEF users, Callers, Exists, At, User, Goes, ReadFails, ReadWorks,
         OnlyReads, FlagOf, AfterFlag, ReadFlag, TypeOK, Room, IInv
<2>2. Building'
  BY DEF users, Callers, Exists, At, User, Goes, ReadFails, ReadWorks,
         OnlyReads, FlagOf, AfterFlag, ReadFlag, TypeOK, AdminFlagHasSource,
         Building, IInv
<2>3. HasSession'
  BY DEF users, Callers, Exists, At, User, Goes, Watched, ReadFails,
         ReadWorks, OnlyReads, FlagOf, AfterFlag, ReadFlag, TypeOK,
         HasSession, IInv
<2>4. AdminFlagHasSource'
  BY DEF users, Callers, Exists, At, User, Goes, Watched, ReadFails,
         ReadWorks, OnlyReads, FlagOf, AfterFlag, ReadFlag, TypeOK,
         AdminFlagHasSource, Building, HasSession, IInv
<2> QED
  BY <2>1, <2>2, <2>3, <2>4
<1>4. Checking'
<2>1. /\ named \subseteq named' /\ session' = session
      /\ \A d \in Callers \ {b} : req'[d] = req[d]
  BY DEF ReadFlag, OnlyReads, Goes, IInv, TypeOK
<2>2. /\ User(b)' = User(b) /\ User(b) \notin Listed
      /\ StarIn(User(b))' = StarIn(User(b))
  BY DEF ReadFlag, Checking, User, At, Exists, StarIn, GrantsOf, Callers,
         OnlyReads, users, Goes, IInv, TypeOK
<2>3. At(b, "grants")' => ~StarIn(User(b)) \/ unread'[b]
  <3>1. req'[b] # req[b]
    BY DEF ReadFlag, AfterFlag, User, At, Exists, StarIn, GrantsOf, Callers,
           OnlyReads, users, Goes, IInv, TypeOK
  <3>2. At(b, "grants")' /\ failures' # failures => unread'[b]
    BY <3>1 DEF Watch, Watched, At, Callers
  <3>3. At(b, "grants")' => ~StarIn(User(b)) \/ failures' # failures
    BY DEF ReadFlag, AfterFlag, FlagOf, ReadFails, User, At, Exists, StarIn,
           GrantsOf, Callers, OnlyReads, users, Goes, IInv, TypeOK
  <3> QED
    BY <3>2, <3>3
<2>4. req'[b].at \in {"allowed", "denied", "grants"}
  BY DEF ReadFlag, AfterFlag, User, At, Exists, StarIn, GrantsOf, Callers,
         OnlyReads, users, Goes, IInv, TypeOK
<2> QED
  BY <2>1, <2>2, <2>3, <2>4, OthersWatched DEF Checking, At, User, StarIn,
         Exists
<1>5. AdmittedWasEntitled'
<2>1. /\ named \subseteq named' /\ session' = session
      /\ \A d \in Callers \ {b} : req'[d] = req[d]
  BY DEF ReadFlag, OnlyReads, Goes, IInv, TypeOK
<2>2. At(b, "allowed")' => \/ Entitled(b)'
                               \/ /\ Rowless(b)' \/ failures' # failures
                                  /\ req'[b] # req[b]
                                  /\ User(b)' \in named'
  <3>1. req'[b] # req[b]
    BY DEF ReadFlag, AfterFlag, User, At, Exists, StarIn, GrantsOf, Callers,
           OnlyReads, users, Goes, IInv, TypeOK
  <3>2. session[b].admin => User(b) \in named
    BY DEF AdminFlagHasSource, IInv
  <3>3. At(b, "allowed")' => \/ Exists(User(b)) /\ rows[User(b)].admin
                             \/ session[b].admin /\ ~Exists(User(b))
                             \/ session[b].admin /\ failures' # failures
    BY DEF ReadFlag, AfterFlag, FlagOf, ReadFails, At, Goes, Callers, IInv,
           TypeOK
  <3>4. UNCHANGED <<rows, session, named>>
    BY DEF ReadFlag, OnlyReads, users
  <3> QED
    BY <3>1, <3>2, <3>3, <3>4 DEF Entitled, Rowless, StarIn, Exists, User
<2>3. /\ At(b, "allowed")' /\ Entitled(b)' => entitled'[b]
      /\ At(b, "allowed")' /\ Rowless(b)' => unread'[b]
      /\ At(b, "allowed")' /\ failures' # failures /\ req'[b] # req[b] =>
            unread'[b]
  BY DEF Watch, Watched, At, Callers
<2> QED
  BY <2>1, <2>2, <2>3, OthersWatched DEF AdmittedWasEntitled, At, User,
         Callers
<1>6. DeniedHadReason'
<2>1. /\ named \subseteq named' /\ session' = session
      /\ \A d \in Callers \ {b} : req'[d] = req[d]
  BY DEF ReadFlag, OnlyReads, Goes, IInv, TypeOK
<2>3. /\ At(b, "denied")' /\ ~Entitled(b)' => lacking'[b]
      /\ At(b, "denied")' /\ failures' # failures /\ req'[b] # req[b] =>
            unread'[b]
      /\ At(b, "denied")' /\ Watched(b) =>
            (unread[b] => unread'[b]) /\ (edited[b] => edited'[b])
  BY DEF Watch, Watched, At, Callers
<2>2. At(b, "denied")' => \/ ~Entitled(b)'
                              \/ (failures' # failures /\ req'[b] # req[b])
  <3>1. User(b) \notin Listed
    BY DEF ReadFlag, At, Callers, Checking, IInv
  <3>2. req'[b] # req[b] /\ (failures' # failures \/ ReadWorks)
    BY DEF ReadFlag, AfterFlag, ReadFails, User, At, Exists, StarIn, GrantsOf,
           Callers, OnlyReads, users, Goes, IInv, TypeOK
  <3>3. ReadWorks /\ At(b, "denied")' => ~StarIn(User(b)) /\ req[b].need = {}
    BY DEF ReadFlag, AfterFlag, FlagOf, ReadFails, ReadWorks, User, At,
           Exists, StarIn, GrantsOf, Callers, OnlyReads, users, Goes, IInv,
           TypeOK
  <3>4. Entitled(b)' <=> \/ User(b) \in Listed \/ StarIn(User(b))
                         \/ GrantsOf(User(b)) \cap req[b].need # {}
    BY DEF ReadFlag, Entitled, User, At, Exists, StarIn, GrantsOf, Callers,
           OnlyReads, users, Goes, IInv, TypeOK
  <3> QED
    BY <3>1, <3>2, <3>3, <3>4
<2> QED
  BY <2>1, <2>2, <2>3, OthersWatched DEF DeniedHadReason, At, Callers
<1> QED
  BY <1>1, <1>2, <1>3, <1>4, <1>5, <1>6, WatchTyped
  DEF IInv, TypeOK, RowsTyped, TokensTyped, SessionsTyped, CountsTyped,
      RequestsTyped, HistoryTyped

\* The third read of a check.
LEMMA ReadGrantsKeeps ==
    ASSUME IInv, NEW b \in Browsers, ReadGrants(b), Watch
    PROVE  IInv'
<1>1. RowsTyped' /\ TokensTyped' /\ SessionsTyped' /\ CountsTyped'
  BY DEF users, Callers, NoRow, NoSession, Idle, Row, Session, Token,
         Delegations, Edit, Request, Exists, At, User, Goes, GrantsOf,
         Watched, ReadFails, ReadWorks, OnlyReads, ReadGrants, TypeOK, Room,
         HasSession, IInv, RowsTyped, TokensTyped, SessionsTyped, CountsTyped
<1>2. RequestsTyped'
<2>0. req[b].need \in Needs
  BY RequestFields DEF ReadGrants, Watched, At, Callers, IInv
<2>1. \E r \in Request : req' = [req EXCEPT ![b] = r]
  BY <2>0, RequestShapes DEF ReadGrants, Goes
<2> QED
  BY <2>1 DEF RequestsTyped, IInv, TypeOK, Callers
<1>3. Room' /\ Building' /\ HasSession' /\ AdminFlagHasSource'
<2>1. HasSession'
  <3>1. /\ session' = session
        /\ \A d \in Browsers \ {b} : req'[d] = req[d]
        /\ Watched(b)
    BY DEF ReadGrants, Watched, At, OnlyReads, Goes, Callers, IInv, TypeOK
  <3> QED
    BY <3>1 DEF HasSession, Watched, At, ReadGrants, Goes, IInv, TypeOK,
           Callers
<2>2. Room'
  BY DEF users, Callers, Exists, At, User, Goes, GrantsOf, ReadFails,
         ReadWorks, OnlyReads, ReadGrants, TypeOK, Room, IInv
<2>3. Building'
  BY DEF users, Callers, Exists, At, User, Goes, GrantsOf, ReadFails,
         ReadWorks, OnlyReads, ReadGrants, TypeOK, AdminFlagHasSource,
         Building, IInv
<2>4. AdminFlagHasSource'
  BY DEF users, Callers, Exists, At, User, Goes, GrantsOf, Watched, ReadFails,
         ReadWorks, OnlyReads, ReadGrants, TypeOK, AdminFlagHasSource,
         Building, HasSession, IInv
<2> QED
  BY <2>1, <2>2, <2>3, <2>4
<1>4. Checking'
  BY DEF users, Callers, Exists, At, User, Goes, StarIn, GrantsOf, Watched,
         Entitled, Rowless, Watch, ReadFails, ReadWorks, OnlyReads,
         ReadGrants, TypeOK, Checking, IInv
<1>5. AdmittedWasEntitled'
<2>1. /\ named \subseteq named' /\ session' = session
      /\ \A d \in Callers \ {b} : req'[d] = req[d]
  BY DEF ReadGrants, OnlyReads, Goes, IInv, TypeOK
<2>2. At(b, "allowed")' => Entitled(b)'
  BY DEF ReadGrants, Entitled, User, At, Exists, StarIn, GrantsOf, Callers,
         OnlyReads, users, Goes, IInv, TypeOK
<2>3. At(b, "allowed")' /\ Entitled(b)' => entitled'[b]
  BY DEF Watch, Watched, At, Callers
<2> QED
  BY <2>1, <2>2, <2>3, OthersWatched DEF AdmittedWasEntitled, At, User,
         Callers
<1>6. DeniedHadReason'
<2>1. /\ named \subseteq named' /\ session' = session
      /\ \A d \in Callers \ {b} : req'[d] = req[d]
  BY DEF ReadGrants, OnlyReads, Goes, IInv, TypeOK
<2>3. /\ At(b, "denied")' /\ ~Entitled(b)' => lacking'[b]
      /\ At(b, "denied")' /\ failures' # failures /\ req'[b] # req[b] =>
            unread'[b]
      /\ At(b, "denied")' /\ Watched(b) =>
            (unread[b] => unread'[b]) /\ (edited[b] => edited'[b])
  BY DEF Watch, Watched, At, Callers
<2>2. At(b, "denied")' => \/ ~Entitled(b)'
                              \/ (failures' # failures /\ req'[b] # req[b])
                              \/ unread[b]
                              \/ edited[b]
  <3>1. /\ User(b) \notin Listed
        /\ ~StarIn(User(b)) \/ unread[b] \/ edited[b]
    BY DEF ReadGrants, At, Callers, Checking, IInv
  <3>2. req'[b] # req[b] /\ (failures' # failures \/ ReadWorks)
    BY DEF ReadGrants, ReadFails, User, At, Exists, StarIn, GrantsOf, Callers,
           OnlyReads, users, Goes, IInv, TypeOK
  <3>3. ReadWorks /\ At(b, "denied")' => GrantsOf(User(b)) \cap req[b].need = {}
    BY DEF ReadGrants, ReadFails, ReadWorks, At, Callers, Goes, IInv, TypeOK
  <3>4. Entitled(b)' <=> \/ User(b) \in Listed \/ StarIn(User(b))
                         \/ GrantsOf(User(b)) \cap req[b].need # {}
    BY DEF ReadGrants, Entitled, User, At, Exists, StarIn, GrantsOf, Callers,
           OnlyReads, users, Goes, IInv, TypeOK
  <3> QED
    BY <3>1, <3>2, <3>3, <3>4
<2>4. Watched(b)
  BY DEF ReadGrants, Watched, At
<2> QED
  BY <2>1, <2>2, <2>3, <2>4, OthersWatched DEF DeniedHadReason, At, Callers
<1> QED
  BY <1>1, <1>2, <1>3, <1>4, <1>5, <1>6, WatchTyped
  DEF IInv, TypeOK, RowsTyped, TokensTyped, SessionsTyped, CountsTyped,
      RequestsTyped, HistoryTyped

\* A request with a token.
LEMMA BearerArrivesKeeps ==
    ASSUME IInv, NEW t \in Tokens, NEW need \in Needs, BearerArrives(t,
           need), Watch
    PROVE  IInv'
<1>1. RowsTyped' /\ TokensTyped' /\ SessionsTyped' /\ CountsTyped'
  BY DEF users, Callers, NoRow, NoSession, Idle, Row, Session, Token,
         Delegations, Edit, Request, Exists, At, Free, Goes, Watched, ReadWorks,
         OnlyReads, TokenAllows, Found, BearerArrives, TypeOK, Room,
         HasSession, IInv, RowsTyped, TokensTyped, SessionsTyped, CountsTyped
<1>2. RequestsTyped'
  BY DEF users, Callers, NoRow, NoSession, Idle, Row, Session, Token,
         Delegations, Edit, Request, Exists, At, Free, Goes, Watched, ReadWorks,
         OnlyReads, TokenAllows, Found, BearerArrives, TypeOK, Room,
         HasSession, IInv, RequestsTyped
<1>3. Room' /\ Building' /\ HasSession' /\ AdminFlagHasSource'
  BY DEF users, Callers, Exists, At, Free, User, Goes, Watched, ReadWorks,
         OnlyReads, TokenAllows, Found, BearerArrives, TypeOK,
         AdminFlagHasSource, Room, Building, HasSession, IInv
<1>4. Checking'
  BY DEF users, Callers, Exists, At, Free, User, Goes, StarIn, GrantsOf, Watched,
         Entitled, Rowless, Watch, ReadWorks, OnlyReads, TokenAllows, Found,
         BearerArrives, TypeOK, Checking, IInv
<1>5. AdmittedWasEntitled'
<2>1. /\ named \subseteq named' /\ session' = session
      /\ \A d \in Callers \ {t} : req'[d] = req[d]
  BY DEF BearerArrives, OnlyReads, Goes, IInv, TypeOK
<2>2. At(t, "allowed")' => Entitled(t)'
  BY DEF BearerArrives, Found, TokenAllows, Entitled, At, Free, Callers, Goes,
         OnlyReads,
         IInv, TypeOK, AccessAssumption
<2>3. At(t, "allowed")' /\ Entitled(t)' => entitled'[t]
  BY DEF Watch, Watched, At, Callers
<2> QED
  BY <2>1, <2>2, <2>3, OthersWatched DEF AdmittedWasEntitled, At, User,
         Callers
<1>6. DeniedHadReason'
<2>1. /\ named \subseteq named' /\ session' = session
      /\ \A d \in Callers \ {t} : req'[d] = req[d]
  BY DEF BearerArrives, OnlyReads, Goes, IInv, TypeOK
<2>2. At(t, "denied")' => ~Entitled(t)'
  BY DEF BearerArrives, Found, TokenAllows, Entitled, At, Free, Callers, Goes,
         OnlyReads,
         IInv, TypeOK, AccessAssumption
<2>3. At(t, "denied")' /\ ~Entitled(t)' => lacking'[t]
  BY DEF Watch, Watched, At, Callers
<2> QED
  BY <2>1, <2>2, <2>3, OthersWatched DEF DeniedHadReason, At, Callers
<1> QED
  BY <1>1, <1>2, <1>3, <1>4, <1>5, <1>6, WatchTyped
  DEF IInv, TypeOK, RowsTyped, TokensTyped, SessionsTyped, CountsTyped,
      RequestsTyped, HistoryTyped

\* A request is answered.
LEMMA AnswersKeeps ==
    ASSUME IInv, NEW c \in Callers, Answers(c), Watch
    PROVE  IInv'
<1>1. RowsTyped' /\ TokensTyped' /\ SessionsTyped' /\ CountsTyped'
  BY DEF users, Callers, NoRow, NoSession, Idle, Row, Session, Token,
         Delegations, Edit, Request, Exists, At, Goes, Watched, ReadWorks,
         OnlyReads, Answers, TypeOK, Room, HasSession, IInv, RowsTyped,
         TokensTyped, SessionsTyped, CountsTyped
<1>2. RequestsTyped'
  BY DEF users, Callers, NoRow, NoSession, Idle, Row, Session, Token,
         Delegations, Edit, Request, Exists, At, Goes, Watched, ReadWorks,
         OnlyReads, Answers, TypeOK, Room, HasSession, IInv, RequestsTyped
<1>3. Room' /\ Building' /\ HasSession' /\ AdminFlagHasSource'
  BY DEF users, Callers, Idle, Exists, At, User, Goes, Watched, ReadWorks,
         OnlyReads, Answers, TypeOK, AdminFlagHasSource, Room, Building,
         HasSession, IInv
<1>4. Checking' /\ AdmittedWasEntitled' /\ DeniedHadReason'
  BY Unchecked DEF Answers, OnlyReads, Goes, Idle, Callers, IInv, TypeOK
<1> QED
  BY <1>1, <1>2, <1>3, <1>4, WatchTyped
  DEF IInv, TypeOK, RowsTyped, TokensTyped, SessionsTyped, CountsTyped,
      RequestsTyped, HistoryTyped

\* An edit looks for its user.
LEMMA EditReadsKeeps ==
    ASSUME IInv, NEW c \in Callers, NEW n \in Managed, NEW e \in Edit,
           EditReads(c, n, e), Watch
    PROVE  IInv'
<1>1. RowsTyped' /\ TokensTyped' /\ SessionsTyped' /\ CountsTyped'
  BY DEF users, Callers, NoRow, NoSession, Idle, Row, Session, Token,
         Delegations, Edit, Request, Exists, At, Goes, Watched, ReadWorks,
         OnlyReads, Admitted, PasswordMissing, EditReads, TypeOK, Room,
         HasSession, IInv, RowsTyped, TokensTyped, SessionsTyped, CountsTyped
<1>2. RequestsTyped'
<2>1. rows[n].id \in 0..MaxIds /\ n \in Names
  BY RowFields DEF IInv
<2>2. \E r \in Request : req' = [req EXCEPT ![c] = r]
  BY <2>1, RequestShapes DEF EditReads, Goes
<2> QED
  BY <2>2 DEF RequestsTyped, IInv, TypeOK
<1>3. Room' /\ Building' /\ HasSession' /\ AdminFlagHasSource'
  BY DEF users, Callers, Exists, At, User, Goes, Watched, ReadWorks,
         OnlyReads, Admitted, PasswordMissing, EditReads, TypeOK,
         AdminFlagHasSource, Room, Building, HasSession, IInv
<1>4. Checking' /\ AdmittedWasEntitled' /\ DeniedHadReason'
  BY Unchecked DEF EditReads, OnlyReads, Goes, Idle, Callers, IInv, TypeOK
<1> QED
  BY <1>1, <1>2, <1>3, <1>4, WatchTyped
  DEF IInv, TypeOK, RowsTyped, TokensTyped, SessionsTyped, CountsTyped,
      RequestsTyped, HistoryTyped

\* An edit is saved, if its user is still the same.
LEMMA EditSavesKeeps ==
    ASSUME IInv, NEW c \in Callers, EditSaves(c), Watch
    PROVE  IInv'
<1>1. RowsTyped' /\ TokensTyped' /\ SessionsTyped' /\ CountsTyped'
<2>1. RowsTyped'
  <3> DEFINE n == req[c].name
             e == req[c].edit
  <3>0. n \in Names /\ e \in Edit
    BY RequestFields DEF EditSaves, At, IInv
  <3>1. /\ e.admin \in BOOLEAN /\ e.password \in BOOLEAN
        /\ e.grants \in SUBSET Scopes
        /\ rows[n].password \in BOOLEAN
    BY <3>0, RowFields DEF Edit, Delegations, IInv
  <3>2. (rows[n].password \/ e.password) \in BOOLEAN
    BY <3>1
  <3>3. CASE users' = users
    BY <3>3 DEF users, RowsTyped, IInv, TypeOK
  <3>4. CASE req[c].id = 0 /\ ~Exists(n)
    <4>1. /\ created' = [created EXCEPT ![n] = created[n] + 1]
          /\ rows' = [rows EXCEPT ![n] =
                         [id |-> created[n] + 1, admin |-> e.admin,
                          password |-> rows[n].password \/ e.password,
                          grants |-> e.grants]]
      BY <3>4 DEF EditSaves, StillThere, Insert, Edited, WithId, Exists
    <4>2. PICK p \in BOOLEAN :
             rows' = [rows EXCEPT ![n] =
                         [id |-> created[n] + 1, admin |-> e.admin,
                          password |-> p, grants |-> e.grants]]
      BY <3>2, <4>1, Zenon
    <4>3. /\ TypeOK /\ Room /\ n \in Names /\ ~Exists(n)
          /\ e.admin \in BOOLEAN /\ e.grants \in SUBSET Scopes
      BY <3>0, <3>1, <3>4 DEF IInv
    <4>4. created' = [created EXCEPT ![n] = created[n] + 1]
      BY <4>1
    <4> HIDE DEF n, e
    <4> QED
      BY <4>2, <4>3, <4>4, InsertTyped
  <3>5. CASE StillThere(n, req[c].id) /\ rows' = [rows EXCEPT ![n] = Edited(n, e)]
             /\ UNCHANGED created
    <4>1. Edited(n, e) \in Row /\ Edited(n, e).id = rows[n].id
      BY <3>0, <3>1, RowFields, RowShape DEF Edited, IInv
    <4> QED
      BY <3>0, <3>5, <4>1 DEF StillThere, RowsTyped, IInv, TypeOK
  <3> QED
    BY <3>3, <3>4, <3>5 DEF EditSaves, users, StillThere, Exists
<2>2. TokensTyped'
  BY DEF users, Callers, Idle, Exists, At, Goes, Watched, ReadWorks, WithId,
         Insert, Edited, StillThere, EditSaves, TypeOK, Room, HasSession,
         IInv, TokensTyped
<2>3. SessionsTyped'
  BY DEF users, Callers, Idle, Exists, At, Goes, Watched, ReadWorks, WithId,
         Insert, Edited, StillThere, EditSaves, TypeOK, Room, HasSession,
         IInv, SessionsTyped
<2>4. CountsTyped'
  <3>1. req[c].name \in Names
    BY RequestFields DEF EditSaves, At, IInv
  <3> QED
    BY <3>1 DEF EditSaves, ReadWorks, CountsTyped, IInv, TypeOK
<2> QED
  BY <2>1, <2>2, <2>3, <2>4
<1>2. RequestsTyped'
  BY DEF users, Callers, NoRow, NoSession, Idle, Row, Session, Token,
         Delegations, Edit, Request, Exists, At, Goes, Watched, ReadWorks,
         WithId, Insert, Edited, StillThere, EditSaves, TypeOK, Room,
         HasSession, IInv, RequestsTyped
<1>3. Room' /\ Building' /\ HasSession' /\ AdminFlagHasSource'
<2>1. Room'
  <3>1. \A d \in Callers : At(d, "drop")' => At(d, "drop") /\ req'[d] = req[d]
    BY DEF EditSaves, Goes, Idle, At, IInv, TypeOK
  <3>2. \A x \in Names : \/ rows'[x] = rows[x] /\ created'[x] = created[x]
                         \/ rows'[x].id # 0
    <4> DEFINE n == req[c].name
    <4>1. n \in Names
      BY RequestFields DEF EditSaves, At, IInv
    <4>2. rows[n].id \in Nat /\ created[n] \in Nat
      BY <4>1, RowFields DEF IInv, TypeOK
    <4>3. \A x \in Names \ {n} : rows'[x] = rows[x] /\ created'[x] = created[x]
      BY DEF EditSaves, Insert, users, IInv, TypeOK
    <4>4. \/ UNCHANGED users
          \/ rows'[n].id = created[n] + 1
          \/ rows'[n].id = rows[n].id /\ rows[n].id # 0
      BY <4>1 DEF EditSaves, Insert, WithId, Edited, StillThere, IInv, TypeOK
    <4> QED
      BY <4>1, <4>2, <4>3, <4>4 DEF users
  <3> QED
    BY <3>1, <3>2 DEF Room, Exists, IInv
<2>2. Building'
  BY DEF users, Callers, Idle, Exists, At, User, Goes, ReadWorks, WithId,
         Insert, Edited, StillThere, EditSaves, TypeOK, AdminFlagHasSource,
         Building, IInv
<2>3. HasSession'
  BY DEF users, Callers, Idle, Exists, At, Goes, Watched, ReadWorks, WithId,
         Insert, Edited, StillThere, EditSaves, TypeOK, HasSession, IInv
<2>4. AdminFlagHasSource'
  BY DEF users, Callers, Idle, Exists, At, User, Goes, Watched, ReadWorks,
         WithId, Insert, Edited, StillThere, EditSaves, TypeOK,
         AdminFlagHasSource, Building, HasSession, IInv
<2> QED
  BY <2>1, <2>2, <2>3, <2>4
<1>4. Checking' /\ AdmittedWasEntitled' /\ DeniedHadReason'
  BY Unchecked DEF EditSaves, Goes, Idle, Callers, IInv, TypeOK
<1> QED
  BY <1>1, <1>2, <1>3, <1>4, WatchTyped
  DEF IInv, TypeOK, RowsTyped, TokensTyped, SessionsTyped, CountsTyped,
      RequestsTyped, HistoryTyped

\* A deletion looks for its user.
LEMMA DeleteReadsKeeps ==
    ASSUME IInv, NEW c \in Callers, NEW n \in Managed, DeleteReads(c, n),
           Watch
    PROVE  IInv'
<1>1. RowsTyped' /\ TokensTyped' /\ SessionsTyped' /\ CountsTyped'
  BY DEF users, Callers, NoRow, NoSession, Idle, Row, Session, Token,
         Delegations, Edit, Request, Exists, At, User, Goes, Watched,
         ReadWorks, OnlyReads, Admitted, DeleteReads, TypeOK, Room,
         HasSession, IInv, RowsTyped, TokensTyped, SessionsTyped, CountsTyped
<1>2. RequestsTyped'
<2>1. \E r \in Request : req' = [req EXCEPT ![c] = r]
  BY RequestShapes, RowFields DEF DeleteReads, Goes, IInv
<2> QED
  BY <2>1 DEF RequestsTyped, IInv, TypeOK, Callers
<1>3. Room' /\ Building' /\ HasSession' /\ AdminFlagHasSource'
  BY DEF users, Callers, Exists, At, User, Goes, Watched, ReadWorks,
         OnlyReads, Admitted, DeleteReads, TypeOK, AdminFlagHasSource, Room,
         Building, HasSession, IInv
<1>4. Checking' /\ AdmittedWasEntitled' /\ DeniedHadReason'
  BY Unchecked DEF DeleteReads, OnlyReads, Goes, Idle, Callers, IInv, TypeOK
<1> QED
  BY <1>1, <1>2, <1>3, <1>4, WatchTyped
  DEF IInv, TypeOK, RowsTyped, TokensTyped, SessionsTyped, CountsTyped,
      RequestsTyped, HistoryTyped

\* A user is deleted.
LEMMA DeleteDropsKeeps ==
    ASSUME IInv, NEW c \in Callers, DeleteDrops(c), Watch
    PROVE  IInv'
<1>1. RowsTyped' /\ TokensTyped' /\ SessionsTyped' /\ CountsTyped'
<2>1. RowsTyped'
  <3>1. NoRow \in Row
    BY DEF NoRow, Row
  <3> QED
    BY <3>1 DEF DeleteDrops, NoRow, RowsTyped, IInv, TypeOK
<2>2. TokensTyped' /\ SessionsTyped' /\ CountsTyped'
  BY DEF Callers, Idle, Exists, At, Goes, Watched, ReadWorks, DeleteDrops,
         TypeOK, Room, HasSession, IInv, TokensTyped, SessionsTyped,
         CountsTyped
<2> QED
  BY <2>1, <2>2
<1>2. RequestsTyped'
  BY DEF Callers, NoRow, NoSession, Idle, Row, Session, Token, Delegations,
         Edit, Request, Exists, At, Goes, Watched, ReadWorks, DeleteDrops,
         TypeOK, Room, HasSession, IInv, RequestsTyped
<1>3. Room' /\ Building' /\ HasSession' /\ AdminFlagHasSource'
  BY DEF Callers, NoRow, NoSession, Idle, Row, Session, Token, Delegations,
         Edit, Request, Exists, At, User, Goes, Watched, ReadWorks,
         DeleteDrops, TypeOK, AdminFlagHasSource, Room, Building, HasSession,
         IInv
<1>4. Checking' /\ AdmittedWasEntitled' /\ DeniedHadReason'
  BY Unchecked DEF DeleteDrops, Goes, Idle, Callers, IInv, TypeOK
<1> QED
  BY <1>1, <1>2, <1>3, <1>4, WatchTyped
  DEF IInv, TypeOK, RowsTyped, TokensTyped, SessionsTyped, CountsTyped,
      RequestsTyped, HistoryTyped

\* A token is made.
LEMMA MintKeeps ==
    ASSUME IInv, NEW c \in Callers, NEW t \in Tokens, NEW e \in Edit,
           Mint(c, t, e), Watch
    PROVE  IInv'
<1>1. RowsTyped' /\ TokensTyped' /\ SessionsTyped' /\ CountsTyped'
  BY DEF users, Callers, NoRow, NoSession, NoToken, Idle, Row, Session, Token,
         Delegations, Edit, Request, Exists, At, Goes, Watched, ReadWorks,
         Admitted, BrowserAdmin, Minted, Mint, TypeOK, Room, HasSession, IInv,
         RowsTyped, TokensTyped, SessionsTyped, CountsTyped
<1>2. RequestsTyped'
  BY DEF users, Callers, NoRow, NoSession, NoToken, Idle, Row, Session, Token,
         Delegations, Edit, Request, Exists, At, Goes, Watched, ReadWorks,
         Admitted, BrowserAdmin, Minted, Mint, TypeOK, Room, HasSession, IInv,
         RequestsTyped
<1>3. Room' /\ Building' /\ HasSession' /\ AdminFlagHasSource'
  BY DEF users, Callers, Idle, Exists, At, User, Goes, Watched, ReadWorks,
         Admitted, BrowserAdmin, Minted, Mint, TypeOK, AdminFlagHasSource,
         Room, Building, HasSession, IInv
<1>4. Checking' /\ AdmittedWasEntitled' /\ DeniedHadReason'
  BY Unchecked DEF Mint, Goes, Idle, Callers, IInv, TypeOK
<1> QED
  BY <1>1, <1>2, <1>3, <1>4, WatchTyped
  DEF IInv, TypeOK, RowsTyped, TokensTyped, SessionsTyped, CountsTyped,
      RequestsTyped, HistoryTyped

\* A token is revoked.
LEMMA RevokeKeeps ==
    ASSUME IInv, NEW c \in Callers, NEW t \in Tokens, Revoke(c, t), Watch
    PROVE  IInv'
<1>1. RowsTyped' /\ TokensTyped' /\ SessionsTyped' /\ CountsTyped'
  BY DEF users, Callers, NoRow, NoSession, Idle, Row, Session, Token,
         Delegations, Edit, Request, Exists, At, Goes, Watched, ReadWorks,
         Admitted, BrowserAdmin, Revoked, Revoke, TypeOK, Room, HasSession,
         IInv, RowsTyped, TokensTyped, SessionsTyped, CountsTyped
<1>2. RequestsTyped'
  BY DEF users, Callers, NoRow, NoSession, Idle, Row, Session, Token,
         Delegations, Edit, Request, Exists, At, Goes, Watched, ReadWorks,
         Admitted, BrowserAdmin, Revoked, Revoke, TypeOK, Room, HasSession,
         IInv, RequestsTyped
<1>3. Room' /\ Building' /\ HasSession' /\ AdminFlagHasSource'
  BY DEF users, Callers, Idle, Exists, At, User, Goes, Watched, ReadWorks,
         Admitted, BrowserAdmin, Revoked, Revoke, TypeOK, AdminFlagHasSource,
         Room, Building, HasSession, IInv
<1>4. Checking' /\ AdmittedWasEntitled' /\ DeniedHadReason'
  BY Unchecked DEF Revoke, Goes, Idle, Callers, IInv, TypeOK
<1> QED
  BY <1>1, <1>2, <1>3, <1>4, WatchTyped
  DEF IInv, TypeOK, RowsTyped, TokensTyped, SessionsTyped, CountsTyped,
      RequestsTyped, HistoryTyped

\* A user logs in with a password.
LEMMA LocalLoginKeeps ==
    ASSUME IInv, NEW b \in Browsers, NEW n \in Names, LocalLogin(b, n),
           Watch
    PROVE  IInv'
<1>1. RowsTyped' /\ TokensTyped' /\ SessionsTyped' /\ CountsTyped'
  BY DEF users, Callers, NoRow, NoSession, Idle, Row, Session, Token,
         Delegations, Edit, Request, Exists, At, Free, Goes, Watched, ReadWorks,
         OnlyReads, LocalLogin, TypeOK, Room, HasSession, IInv, RowsTyped,
         TokensTyped, SessionsTyped, CountsTyped
<1>2. RequestsTyped'
<2>1. \E r \in Request : req' = [req EXCEPT ![b] = r]
  BY RequestShapes, RowFields DEF LocalLogin, Goes, IInv
<2> QED
  BY <2>1 DEF RequestsTyped, IInv, TypeOK, Callers
<1>3. Room' /\ Building' /\ HasSession' /\ AdminFlagHasSource'
  BY DEF users, Callers, Exists, At, Free, User, Goes, Watched, ReadWorks,
         OnlyReads, LocalLogin, TypeOK, AdminFlagHasSource, Room, Building,
         HasSession, IInv
<1>4. Checking' /\ AdmittedWasEntitled' /\ DeniedHadReason'
  BY Unchecked DEF LocalLogin, OnlyReads, Goes, Idle, Callers, IInv, TypeOK
<1> QED
  BY <1>1, <1>2, <1>3, <1>4, WatchTyped
  DEF IInv, TypeOK, RowsTyped, TokensTyped, SessionsTyped, CountsTyped,
      RequestsTyped, HistoryTyped

\* ADMIN_USER logs in.
LEMMA AdminLoginKeeps ==
    ASSUME IInv, NEW b \in Browsers, AdminLogin(b), Watch
    PROVE  IInv'
<1>1. RowsTyped' /\ TokensTyped' /\ SessionsTyped' /\ CountsTyped'
  BY DEF users, Callers, NoRow, NoSession, Idle, Row, Session, Token,
         Delegations, Edit, Request, Exists, At, Free, Goes, Watched, ReadWorks,
         OnlyReads, AdminLogin, TypeOK, Room, HasSession, IInv, RowsTyped,
         TokensTyped, SessionsTyped, CountsTyped
<1>2. RequestsTyped'
<2>1. \E r \in Request : req' = [req EXCEPT ![b] = r]
  BY RequestShapes DEF AdminLogin, Goes
<2> QED
  BY <2>1 DEF RequestsTyped, IInv, TypeOK, Callers
<1>3. Room' /\ Building' /\ HasSession' /\ AdminFlagHasSource'
  BY DEF users, Callers, Exists, At, Free, User, Goes, Watched, ReadWorks,
         OnlyReads, AdminLogin, TypeOK, AdminFlagHasSource, Room, Building,
         HasSession, IInv
<1>4. Checking' /\ AdmittedWasEntitled' /\ DeniedHadReason'
  BY Unchecked DEF AdminLogin, OnlyReads, Goes, Idle, Callers, IInv, TypeOK
<1> QED
  BY <1>1, <1>2, <1>3, <1>4, WatchTyped
  DEF IInv, TypeOK, RowsTyped, TokensTyped, SessionsTyped, CountsTyped,
      RequestsTyped, HistoryTyped

\* The IdP vouches for a user.
LEMMA OidcReadsKeeps ==
    ASSUME IInv, NEW b \in Browsers, NEW n \in Names, NEW group \in BOOLEAN,
           OidcReads(b, n, group), Watch
    PROVE  IInv'
<1>1. RowsTyped' /\ TokensTyped' /\ SessionsTyped' /\ CountsTyped'
  BY DEF users, Callers, NoRow, NoSession, Idle, Row, Session, Token,
         Delegations, Edit, Request, Exists, At, Free, Goes, Watched, ReadWorks,
         OidcReads, TypeOK, Room, HasSession, IInv, RowsTyped, TokensTyped,
         SessionsTyped, CountsTyped
<1>2. RequestsTyped'
<2>1. \E r \in Request : req' = [req EXCEPT ![b] = r]
  BY RequestShapes, RowFields DEF OidcReads, Exists, Goes, IInv
<2> QED
  BY <2>1 DEF RequestsTyped, IInv, TypeOK, Callers
<1>3. Room' /\ Building' /\ HasSession' /\ AdminFlagHasSource'
  BY DEF users, Callers, Exists, At, Free, User, Goes, Watched, ReadWorks,
         OidcReads, TypeOK, AdminFlagHasSource, Room, Building, HasSession,
         IInv
<1>4. Checking' /\ AdmittedWasEntitled' /\ DeniedHadReason'
  BY Unchecked DEF OidcReads, Goes, Idle, Callers, IInv, TypeOK
<1> QED
  BY <1>1, <1>2, <1>3, <1>4, WatchTyped
  DEF IInv, TypeOK, RowsTyped, TokensTyped, SessionsTyped, CountsTyped,
      RequestsTyped, HistoryTyped

\* An admin of the IdP's becomes one here.
LEMMA OidcSyncsKeeps ==
    ASSUME IInv, NEW b \in Browsers, OidcSyncs(b), Watch
    PROVE  IInv'
<1>1. RowsTyped' /\ TokensTyped' /\ SessionsTyped' /\ CountsTyped'
<2>1. RowsTyped'
  <3>0. req[b].name \in Names
    BY RequestFields DEF OidcSyncs, At, Callers, IInv
  <3>1. CASE req[b].found
    <4>1. Promoted(req[b].name).id = rows[req[b].name].id
          /\ Promoted(req[b].name) \in Row
      BY <3>0, RowFields, RowShape DEF Promoted, IInv
    <4> QED
      BY <3>0, <3>1, <4>1 DEF OidcSyncs, Exists, RowsTyped, IInv, TypeOK
  <3>2. CASE ~req[b].found /\ Exists(req[b].name)
    BY <3>2 DEF OidcSyncs, users, RowsTyped, IInv, TypeOK
  <3>3. CASE ~req[b].found /\ ~Exists(req[b].name)
    <4>1. /\ created' = [created EXCEPT ![req[b].name] = created[req[b].name] + 1]
          /\ rows' = [rows EXCEPT ![req[b].name] =
                         [id |-> created[req[b].name] + 1, admin |-> TRUE,
                          password |-> FALSE, grants |-> {}]]
      BY <3>3 DEF OidcSyncs, OidcUser, Insert, WithId
    <4> QED
      BY <3>0, <3>3, <4>1, InsertTyped DEF IInv
  <3> QED
    BY <3>1, <3>2, <3>3
<2>2. TokensTyped' /\ SessionsTyped' /\ CountsTyped'
  BY DEF users, Callers, Idle, Exists, At, Goes, Watched, ReadWorks, WithId,
         Insert, OidcUser, Promoted, OidcSyncs, TypeOK, Room, HasSession,
         IInv, TokensTyped, SessionsTyped, CountsTyped
<2> QED
  BY <2>1, <2>2
<1>2. RequestsTyped'
<2>0. req[b].name \in Names
  BY RequestFields DEF OidcSyncs, At, Callers, IInv
<2>1. \E r \in Request : req' = [req EXCEPT ![b] = r]
  BY <2>0, RequestShapes DEF OidcSyncs, Goes
<2> QED
  BY <2>1 DEF RequestsTyped, IInv, TypeOK, Callers
<1>3. Room' /\ Building' /\ HasSession' /\ AdminFlagHasSource'
<2>1. Room'
  <3>1. req[b].name \in Names
    BY RequestFields DEF OidcSyncs, At, Callers, IInv
  <3>2. created[req[b].name] \in Nat /\ rows[req[b].name].id \in Nat
    BY <3>1, RowFields DEF IInv, TypeOK
  <3>3. \A d \in Callers : At(d, "drop")' => At(d, "drop") /\ req'[d] = req[d]
    BY DEF OidcSyncs, Goes, Idle, At, Callers, IInv, TypeOK
  <3>4. \A x \in Names \ {req[b].name} :
           rows'[x] = rows[x] /\ created'[x] = created[x]
    BY DEF OidcSyncs, Insert, users, IInv, TypeOK
  <3>5. \/ UNCHANGED users
        \/ rows' = rows /\ UNCHANGED created
        \/ rows'[req[b].name].id = created[req[b].name] + 1
        \/ /\ rows'[req[b].name].id = rows[req[b].name].id
           /\ rows[req[b].name].id # 0
    BY <3>1 DEF OidcSyncs, Insert, WithId, Promoted, Exists, IInv, TypeOK
  <3> QED
    BY <3>1, <3>2, <3>3, <3>4, <3>5 DEF Room, Exists, users, IInv
<2>2. Building'
  BY DEF users, Callers, Idle, Exists, At, User, Goes, ReadWorks, WithId,
         Insert, OidcUser, Promoted, OidcSyncs, TypeOK, AdminFlagHasSource,
         Building, IInv
<2>3. HasSession'
  BY DEF users, Callers, Idle, Exists, At, Goes, Watched, ReadWorks, WithId,
         Insert, OidcUser, Promoted, OidcSyncs, TypeOK, HasSession, IInv
<2>4. AdminFlagHasSource'
  BY DEF users, Callers, Idle, Exists, At, User, Goes, Watched, ReadWorks,
         WithId, Insert, OidcUser, Promoted, OidcSyncs, TypeOK,
         AdminFlagHasSource, Building, HasSession, IInv
<2> QED
  BY <2>1, <2>2, <2>3, <2>4
<1>4. Checking' /\ AdmittedWasEntitled' /\ DeniedHadReason'
  BY Unchecked DEF OidcSyncs, Goes, Idle, Callers, IInv, TypeOK
<1> QED
  BY <1>1, <1>2, <1>3, <1>4, WatchTyped
  DEF IInv, TypeOK, RowsTyped, TokensTyped, SessionsTyped, CountsTyped,
      RequestsTyped, HistoryTyped

\* The flag of a session to be refreshed.
LEMMA MeReadsKeeps ==
    ASSUME IInv, NEW b \in Browsers, NEW n \in Names, ~Watched(b), MeReads(b, n),
           Watch
    PROVE  IInv'
<1>1. RowsTyped' /\ TokensTyped' /\ SessionsTyped' /\ CountsTyped'
  BY DEF users, ReadFails, ReadWorks, OnlyReads, MeReads, TypeOK,
         IInv, RowsTyped, TokensTyped, SessionsTyped, CountsTyped
<1>2. RequestsTyped'
<2>1. \E r \in Request : req' = [req EXCEPT ![b] = r]
  BY RequestShapes DEF MeReads, Goes
<2> QED
  BY <2>1 DEF RequestsTyped, IInv, TypeOK, Callers
<1>3. Room' /\ Building' /\ HasSession' /\ AdminFlagHasSource'
  BY DEF users, Callers, Exists, At, User, Goes, StarIn, Watched,
         ReadFails, ReadWorks, OnlyReads, MeReads, TypeOK,
         AdminFlagHasSource, Room, Building, HasSession, IInv
<1>4. Checking' /\ AdmittedWasEntitled' /\ DeniedHadReason'
  BY Unchecked DEF MeReads, OnlyReads, Goes, Callers, IInv, TypeOK
<1> QED
  BY <1>1, <1>2, <1>3, <1>4, WatchTyped
  DEF IInv, TypeOK, RowsTyped, TokensTyped, SessionsTyped, CountsTyped,
      RequestsTyped, HistoryTyped

\* A session is refreshed.
LEMMA GetMeKeeps ==
    ASSUME IInv, NEW b \in Browsers, GetMe(b) \/ TokenGetMe(b), Watch
    PROVE  IInv'
<1>1. CASE GetMe(b)
  <2>1. User(b) \in Names
    BY <1>1 DEF GetMe, LoggedIn, User, Session, IInv, TypeOK
  <2> QED
    BY <1>1, <2>1, MeReadsKeeps DEF GetMe, Free, At, Watched
<1>2. CASE TokenGetMe(b)
  <2>1. req[b].name \in Names
    BY <1>2, RequestFields DEF TokenGetMe, Callers, IInv
  <2> QED
    BY <1>2, <2>1, MeReadsKeeps DEF TokenGetMe, At, Watched
<1> QED
  BY <1>1, <1>2

\* A token is looked up, for its user or for the user's profile.
LEMMA TokenAsksKeeps ==
    ASSUME IInv, NEW c \in Callers, NEW t \in Tokens,
           \/ c \in Browsers /\ TokenAsksMe(c, t)
           \/ c = t /\ TokenSendsProfile(t),
           Watch
    PROVE  IInv'
<1>1. RowsTyped' /\ TokensTyped' /\ SessionsTyped' /\ CountsTyped'
  BY DEF users, ReadWorks, OnlyReads, TokenAsksMe, TokenSendsProfile, TypeOK,
         IInv, RowsTyped, TokensTyped, SessionsTyped, CountsTyped
<1>2. RequestsTyped'
<2>1. TokenName[t] \in Names /\ tokens[t].admin \in BOOLEAN
  BY DEF IInv, TypeOK, Token
<2>2. \E r \in Request : req' = [req EXCEPT ![c] = r]
  BY <2>1, RequestShapes DEF TokenAsksMe, TokenSendsProfile, Goes
<2> QED
  BY <2>2 DEF RequestsTyped, IInv, TypeOK, Callers
<1>3. Room' /\ Building' /\ HasSession' /\ AdminFlagHasSource'
<2>1. /\ UNCHANGED <<users, tokens, session, named>>
      /\ \A d \in Callers \ {c} : req'[d] = req[d]
      /\ \/ req'[c] = [at |-> "me", name |-> TokenName[t]]
         \/ req'[c] = [at |-> "profile", name |-> TokenName[t],
                       admin |-> tokens[t].admin]
  BY DEF TokenAsksMe, TokenSendsProfile, OnlyReads, Goes, IInv, TypeOK
<2>2. /\ req'[c].at \in {"me", "profile"}
      /\ At(c, "profile")' =>
            req'[c].name = TokenName[t] /\ req'[c].admin = tokens[t].admin
  BY <2>1 DEF At
<2>3. Building'
  BY <2>1, <2>2 DEF Building, At, IInv
<2>4. Room' /\ HasSession' /\ AdminFlagHasSource'
  BY <2>1, <2>2 DEF Room, HasSession, AdminFlagHasSource, Exists, User, At,
                    Watched, Callers, users, IInv
<2> QED
  BY <2>3, <2>4
<1>4. Checking' /\ AdmittedWasEntitled' /\ DeniedHadReason'
  BY Unchecked
  DEF TokenAsksMe, TokenSendsProfile, OnlyReads, Goes, Callers, IInv, TypeOK
<1> QED
  BY <1>1, <1>2, <1>3, <1>4, WatchTyped
  DEF IInv, TypeOK, RowsTyped, TokensTyped, SessionsTyped, CountsTyped,
      RequestsTyped, HistoryTyped

\* A session is built.
LEMMA BuildSessionKeeps ==
    ASSUME IInv, NEW b \in Browsers, BuildSession(b), Watch
    PROVE  IInv'
<1>1. RowsTyped' /\ TokensTyped' /\ SessionsTyped' /\ CountsTyped'
<2>1. SessionsTyped'
  <3>1. req[b].name \in Names /\ req[b].admin \in BOOLEAN
    BY RequestFields DEF BuildSession, At, Callers, IInv
  <3>2. rows[req[b].name].admin \in BOOLEAN
    BY <3>1, RowFields DEF IInv
  <3>3. \E s \in Session : session' = [session EXCEPT ![b] = s]
    BY <3>1, <3>2 DEF BuildSession, SessionFlag, StarIn, Exists, Session
  <3> QED
    BY <3>3 DEF SessionsTyped, IInv, TypeOK
<2>2. RowsTyped' /\ TokensTyped' /\ CountsTyped'
  BY DEF users, Callers, NoRow, NoSession, Idle, Row, Session, Token,
         Delegations, Edit, Request, Exists, At, Goes, StarIn, Watched,
         ReadFails, ReadWorks, SessionFlag, BuildSession, TypeOK, Room,
         HasSession, IInv, RowsTyped, TokensTyped, CountsTyped
<2> QED
  BY <2>1, <2>2
<1>2. RequestsTyped'
  BY DEF users, Callers, NoRow, NoSession, Idle, Row, Session, Token,
         Delegations, Edit, Request, Exists, At, Goes, StarIn, Watched,
         ReadFails, ReadWorks, SessionFlag, BuildSession, TypeOK, Room,
         HasSession, IInv, RequestsTyped
<1>3. Room' /\ Building' /\ HasSession' /\ AdminFlagHasSource'
<2>1. AdminFlagHasSource'
  <3>1. /\ UNCHANGED <<rows, named>>
        /\ session \in [Browsers -> Session]
        /\ \A d \in Browsers \ {b} : session'[d] = session[d]
    BY DEF BuildSession, users, IInv, TypeOK
  <3>2. req[b].name \in Names /\ req[b].admin \in BOOLEAN
    BY RequestFields DEF BuildSession, At, Callers, IInv
  <3>3. StarIn(req[b].name) \in BOOLEAN
    BY <3>2, RowFields DEF StarIn, Exists, IInv
  <3>4. \/ session'[b] =
              [name |-> req[b].name,
               admin |-> SessionFlag(req[b].name, req[b].admin,
                                     StarIn(req[b].name))]
        \/ session'[b] =
              [name |-> req[b].name,
               admin |-> SessionFlag(req[b].name, req[b].admin, FALSE)]
    <4>1. \E mapped \in {StarIn(req[b].name), FALSE} :
              session' = [session EXCEPT ![b] =
                  [name |-> req[b].name,
                   admin |-> SessionFlag(req[b].name, req[b].admin, mapped)]]
      BY Zenon DEF BuildSession
    <4> QED
      BY <3>1, <4>1
  <3>5. session'[b].name = req[b].name
    BY <3>4
  <3>6. session'[b].admin =>
            req[b].admin \/ req[b].name \in Listed \/ StarIn(req[b].name)
    BY <3>2, <3>3, <3>4 DEF SessionFlag
  <3>7. session'[b].admin => session'[b].name \in named
    BY <3>2, <3>5, <3>6
    DEF BuildSession, Building, AdminFlagHasSource, StarIn, At, Callers, IInv
  <3> QED
    BY <3>1, <3>7 DEF AdminFlagHasSource, User, IInv
<2>2. Room'
  BY DEF users, Callers, NoRow, NoSession, Idle, Row, Session, Token,
         Delegations, Edit, Request, Exists, At, Goes, StarIn, ReadFails,
         ReadWorks, SessionFlag, BuildSession, TypeOK, Room, IInv
<2>3. Building'
  BY DEF users, Callers, Idle, Exists, At, User, Goes, StarIn, ReadFails,
         ReadWorks, SessionFlag, BuildSession, TypeOK, AdminFlagHasSource,
         Building, IInv
<2>4. HasSession'
  BY DEF users, Callers, Idle, Exists, At, Goes, StarIn, Watched, ReadFails,
         ReadWorks, SessionFlag, BuildSession, TypeOK, HasSession, IInv
<2> QED
  BY <2>1, <2>2, <2>3, <2>4
<1>4. Checking'
<2>1. \A d \in Callers \ {b} :
          /\ req'[d] = req[d]
          /\ d \in Browsers => session'[d] = session[d]
  BY DEF BuildSession, Goes, IInv, TypeOK
<2>2. req'[b].at = "idle" /\ named' = named
  BY DEF BuildSession, Goes, Idle, Callers, IInv, TypeOK
<2> QED
  BY <2>1, <2>2, OthersWatched DEF Checking, At, User, StarIn, Exists
<1>5. AdmittedWasEntitled'
  BY DEF users, Callers, Idle, Exists, At, User, Goes, StarIn, GrantsOf,
         Watched, Entitled, Rowless, Watch, ReadFails, ReadWorks, SessionFlag,
         BuildSession, TypeOK, AdmittedWasEntitled, AdminFlagHasSource,
         HasSession, IInv
<1>6. DeniedHadReason'
  BY DEF users, Callers, Idle, Exists, At, User, Goes, StarIn, GrantsOf,
         Watched, Entitled, Rowless, Watch, ReadFails, ReadWorks, SessionFlag,
         BuildSession, TypeOK, DeniedHadReason, HasSession, Checking, IInv
<1> QED
  BY <1>1, <1>2, <1>3, <1>4, <1>5, <1>6, WatchTyped
  DEF IInv, TypeOK, RowsTyped, TokensTyped, SessionsTyped, CountsTyped,
      RequestsTyped, HistoryTyped

\* The SELECT for a profile.
LEMMA ProfileReadsKeeps ==
    ASSUME IInv, NEW c \in Callers, NEW n \in Names, NEW admin \in BOOLEAN,
           admin => n \in named, ProfileReads(c, n, admin), Watch
    PROVE  IInv'
<1>1. RowsTyped' /\ TokensTyped' /\ SessionsTyped' /\ CountsTyped'
  BY DEF users, ReadWorks, OnlyReads, ProfileReads, TypeOK,
         IInv, RowsTyped, TokensTyped, SessionsTyped, CountsTyped
<1>2. RequestsTyped'
<2>1. \E r \in Request : req' = [req EXCEPT ![c] = r]
  BY RequestShapes DEF ProfileReads, Goes
<2> QED
  BY <2>1 DEF RequestsTyped, IInv, TypeOK, Callers
<1>3. Room' /\ Building' /\ HasSession' /\ AdminFlagHasSource'
  BY DEF users, Callers, Idle, Exists, At, User, Goes, Watched,
         ReadWorks, OnlyReads, ProfileReads, TypeOK,
         AdminFlagHasSource, Room, Building, HasSession, IInv
<1>4. Checking' /\ AdmittedWasEntitled' /\ DeniedHadReason'
  BY Unchecked DEF ProfileReads, OnlyReads, Goes, Idle, Callers, IInv, TypeOK
<1> QED
  BY <1>1, <1>2, <1>3, <1>4, WatchTyped
  DEF IInv, TypeOK, RowsTyped, TokensTyped, SessionsTyped, CountsTyped,
      RequestsTyped, HistoryTyped

\* A profile, of a session's user or of a token's.
LEMMA ProfilesKeep ==
    ASSUME IInv, Watch,
           \/ \E b \in Browsers : SendsProfile(b)
           \/ \E t \in Tokens : TokenProfile(t)
    PROVE  IInv'
<1>1. ASSUME NEW b \in Browsers, SendsProfile(b) PROVE IInv'
  <2>1. User(b) \in Names /\ session[b].admin \in BOOLEAN
    BY <1>1 DEF SendsProfile, LoggedIn, User, Session, IInv, TypeOK
  <2>2. session[b].admin => User(b) \in named
    BY DEF AdminFlagHasSource, IInv
  <2> QED
    BY <1>1, <2>1, <2>2, ProfileReadsKeeps DEF SendsProfile, Callers
<1>2. ASSUME NEW t \in Tokens, TokenProfile(t) PROVE IInv'
  <2>1. req[t].name \in Names /\ req[t].admin \in BOOLEAN
    BY <1>2, RequestFields DEF TokenProfile, At, Callers, IInv
  <2>2. req[t].admin => req[t].name \in named
    BY <1>2 DEF TokenProfile, At, Callers, Building, IInv
  <2> QED
    BY <1>2, <2>1, <2>2, ProfileReadsKeeps DEF TokenProfile, Callers
<1> QED
  BY <1>1, <1>2

\* The row for a profile.
LEMMA ProfileInsertsKeeps ==
    ASSUME IInv, NEW c \in Callers, ProfileInserts(c), Watch
    PROVE  IInv'
<1>1. RowsTyped' /\ TokensTyped' /\ SessionsTyped' /\ CountsTyped'
<2>1. RowsTyped'
  <3>1. req[c].name \in Names /\ req[c].admin \in BOOLEAN
    BY RequestFields DEF ProfileInserts, At, IInv
  <3>2. CASE Exists(req[c].name)
    BY <3>2 DEF ProfileInserts, users, RowsTyped, IInv, TypeOK
  <3>3. CASE ~Exists(req[c].name)
    <4>1. /\ created' = [created EXCEPT ![req[c].name] = created[req[c].name] + 1]
          /\ rows' = [rows EXCEPT ![req[c].name] =
                         [id |-> created[req[c].name] + 1, admin |-> req[c].admin,
                          password |-> FALSE, grants |-> {}]]
      BY <3>3 DEF ProfileInserts, Insert, WithId
    <4> QED
      BY <3>1, <3>3, <4>1, InsertTyped DEF IInv
  <3> QED
    BY <3>2, <3>3
<2>2. TokensTyped' /\ SessionsTyped' /\ CountsTyped'
  BY DEF users, Callers, Idle, Exists, At, User, Goes, Watched, ReadWorks,
         WithId, Insert, ProfileInserts, TypeOK, Room, HasSession, IInv,
         TokensTyped, SessionsTyped, CountsTyped
<2> QED
  BY <2>1, <2>2
<1>2. RequestsTyped'
  BY DEF users, Callers, NoRow, NoSession, Idle, Row, Session, Token,
         Delegations, Edit, Request, Exists, At, User, Goes, Watched,
         ReadWorks, WithId, Insert, ProfileInserts, TypeOK, Room, HasSession,
         IInv, RequestsTyped
<1>3. Room' /\ Building' /\ HasSession' /\ AdminFlagHasSource'
<2>1. Room'
  BY RequestFields, RowFields, InsertTyped DEF users, Callers, Idle, Exists,
         At, User, Goes, ReadWorks, WithId, Insert, ProfileInserts, TypeOK,
         Room, IInv
<2>2. Building'
  BY DEF users, Callers, Idle, Exists, At, User, Goes, ReadWorks, WithId,
         Insert, ProfileInserts, TypeOK, AdminFlagHasSource, Building, IInv
<2>3. HasSession'
  BY DEF users, Callers, Idle, Exists, At, User, Goes, Watched, ReadWorks,
         WithId, Insert, ProfileInserts, TypeOK, HasSession, IInv
<2>4. AdminFlagHasSource'
  BY DEF users, Callers, Idle, Exists, At, User, Goes, Watched, ReadWorks,
         WithId, Insert, ProfileInserts, TypeOK, AdminFlagHasSource, Building,
         HasSession, IInv
<2> QED
  BY <2>1, <2>2, <2>3, <2>4
<1>4. Checking' /\ AdmittedWasEntitled' /\ DeniedHadReason'
  BY Unchecked DEF ProfileInserts, Goes, Idle, Callers, IInv, TypeOK
<1> QED
  BY <1>1, <1>2, <1>3, <1>4, WatchTyped
  DEF IInv, TypeOK, RowsTyped, TokensTyped, SessionsTyped, CountsTyped,
      RequestsTyped, HistoryTyped

\* A session ends.
LEMMA LogoutKeeps ==
    ASSUME IInv, NEW b \in Browsers, Logout(b), Watch
    PROVE  IInv'
<1>1. RowsTyped' /\ TokensTyped' /\ SessionsTyped' /\ CountsTyped'
  BY DEF users, Callers, NoRow, NoSession, Idle, Row, Session, Token,
         Delegations, Edit, Request, Exists, At, Free, Goes, Watched, ReadWorks,
         LoggedIn, Logout, TypeOK, Room, HasSession, IInv, RowsTyped,
         TokensTyped, SessionsTyped, CountsTyped
<1>2. RequestsTyped'
  BY DEF users, Callers, NoRow, NoSession, Idle, Row, Session, Token,
         Delegations, Edit, Request, Exists, At, Free, Goes, Watched, ReadWorks,
         LoggedIn, Logout, TypeOK, Room, HasSession, IInv, RequestsTyped
<1>3. Room' /\ Building' /\ HasSession' /\ AdminFlagHasSource'
  BY DEF users, Callers, NoRow, NoSession, Idle, Row, Session, Token,
         Delegations, Edit, Request, Exists, At, Free, User, Goes, Watched,
         ReadWorks, LoggedIn, Logout, TypeOK, AdminFlagHasSource, Room,
         Building, HasSession, IInv
<1>4. Checking' /\ AdmittedWasEntitled' /\ DeniedHadReason'
  BY Unchecked DEF Logout, Goes, Idle, Callers, IInv, TypeOK
<1> QED
  BY <1>1, <1>2, <1>3, <1>4, WatchTyped
  DEF IInv, TypeOK, RowsTyped, TokensTyped, SessionsTyped, CountsTyped,
      RequestsTyped, HistoryTyped

\* The first admin.
LEMMA SeedInitialAdminKeeps ==
    ASSUME IInv, SeedInitialAdmin, Watch
    PROVE  IInv'
<1>1. RowsTyped' /\ TokensTyped' /\ SessionsTyped' /\ CountsTyped'
<2>1. RowsTyped'
  <3>1. /\ created' = [created EXCEPT ![AdminUser] = created[AdminUser] + 1]
        /\ rows' = [rows EXCEPT ![AdminUser] =
                       [id |-> created[AdminUser] + 1, admin |-> TRUE,
                        password |-> TRUE, grants |-> {}]]
    BY DEF SeedInitialAdmin, Insert, WithId
  <3> QED
    BY <3>1, InsertTyped DEF SeedInitialAdmin, IInv
<2>2. TokensTyped' /\ SessionsTyped' /\ CountsTyped'
  BY DEF Callers, Exists, At, Watched, WithId, Insert, SeedInitialAdmin,
         TypeOK, Room, HasSession, IInv, TokensTyped, SessionsTyped,
         CountsTyped
<2> QED
  BY <2>1, <2>2
<1>2. RequestsTyped'
  BY DEF Callers, NoRow, NoSession, Idle, Row, Session, Token, Delegations,
         Edit, Request, Exists, At, Watched, WithId, Insert, SeedInitialAdmin,
         TypeOK, Room, HasSession, IInv, RequestsTyped
<1>3. Room' /\ Building' /\ HasSession' /\ AdminFlagHasSource'
  BY DEF Callers, Exists, At, User, Watched, WithId, Insert, SeedInitialAdmin,
         TypeOK, AdminFlagHasSource, Room, Building, HasSession, IInv
<1>4. Checking'
  BY DEF Callers, Exists, At, User, StarIn, GrantsOf, Watched, Entitled,
         Rowless, Watch, WithId, Insert, SeedInitialAdmin, TypeOK, Checking,
         IInv
<1>5. AdmittedWasEntitled'
  BY DEF Callers, Exists, At, User, StarIn, GrantsOf, Watched, Entitled,
         Rowless, Watch, WithId, Insert, SeedInitialAdmin, TypeOK,
         AdmittedWasEntitled, AdminFlagHasSource, HasSession, IInv
<1>6. DeniedHadReason'
  BY DEF Callers, Exists, At, User, StarIn, GrantsOf, Watched, Entitled,
         Rowless, Watch, WithId, Insert, SeedInitialAdmin, TypeOK,
         DeniedHadReason, HasSession, Checking, IInv
<1> QED
  BY <1>1, <1>2, <1>3, <1>4, <1>5, <1>6, WatchTyped
  DEF IInv, TypeOK, RowsTyped, TokensTyped, SessionsTyped, CountsTyped,
      RequestsTyped, HistoryTyped

\* Nothing moves.
LEMMA StutterKeeps == ASSUME IInv, UNCHANGED vars PROVE IInv'
<1>1. TypeOK' /\ Room' /\ Building' /\ HasSession'
  BY DEF vars, users, watched, IInv, TypeOK, Room, Building, HasSession,
         Exists,
         At, Watched
<1>2. Checking' /\ AdminFlagHasSource' /\ AdmittedWasEntitled' /\ DeniedHadReason'
  BY DEF vars, users, watched, IInv, Checking, AdminFlagHasSource, Exists, At,
         AdmittedWasEntitled, DeniedHadReason, User, StarIn
<1> QED
  BY <1>1, <1>2 DEF IInv

\* The tables at first, with what was migrated.
LEMMA InitIInv == Init => IInv
<1> SUFFICES ASSUME Init PROVE IInv
  OBVIOUS
<1>1. NoRow \in Row /\ \A n \in DOMAIN Legacy : Migrated(n) \in Row
  BY DEF NoRow, Row, Migrated
<1>2. RowsTyped
  BY <1>1 DEF Init, RowsTyped, NoRow, Migrated
<1>3. TokensTyped /\ SessionsTyped /\ RequestsTyped /\ CountsTyped
  BY DEF Init, TokensTyped, SessionsTyped, RequestsTyped, CountsTyped,
         NoToken,
         Token, NoSession, Session, Idle, Request
<1>4. HistoryTyped
  BY DEF Init, HistoryTyped
<1>5. Room /\ Building /\ HasSession /\ Checking
  BY DEF Init, Room, Building, HasSession, Checking, Exists, Migrated, Idle,
         NoToken, At, Watched, Callers
<1>6. AdminFlagHasSource /\ AdmittedWasEntitled /\ DeniedHadReason
  BY DEF Init, AdminFlagHasSource, AdmittedWasEntitled, DeniedHadReason,
         Migrated, NoRow, NoSession, Idle, At
<1> QED
  BY <1>2, <1>3, <1>4, <1>5, <1>6
  DEF IInv, TypeOK, RowsTyped, TokensTyped, SessionsTyped, CountsTyped,
      RequestsTyped, HistoryTyped

\* One step, whatever it is.
LEMMA NextKeeps == ASSUME IInv, [Next]_vars PROVE IInv'
<1>1. CASE UNCHANGED vars
  BY <1>1, StutterKeeps
<1>2. ASSUME Step, Watch PROVE IInv'
  <2>1. ASSUME NEW b \in Browsers, NEW need \in Needs, Arrives(b, need)
        PROVE  IInv'
    BY <1>2, <2>1, ArrivesKeeps
  <2>2. ASSUME NEW b \in Browsers,
               ReadMapping(b) \/ ReadFlag(b) \/ ReadGrants(b)
        PROVE  IInv'
    BY <1>2, <2>2, ReadMappingKeeps, ReadFlagKeeps, ReadGrantsKeeps
  <2>3. ASSUME NEW b \in Browsers, NEW n \in UsedBy[b] \cap Names,
               LocalLogin(b, n) \/ \E group \in BOOLEAN : OidcReads(b, n, group)
        PROVE  IInv'
    <3>1. n \in Names
      OBVIOUS
    <3> QED
      BY <1>2, <2>3, <3>1, LocalLoginKeeps, OidcReadsKeeps
  <2>4. ASSUME NEW b \in Browsers,
               \/ AdminLogin(b) \/ OidcSyncs(b) \/ GetMe(b) \/ TokenGetMe(b)
               \/ \E t \in UsedBy[b] \cap Tokens : TokenAsksMe(b, t)
        PROVE  IInv'
    BY <1>2, <2>4, AdminLoginKeeps, OidcSyncsKeeps, GetMeKeeps, TokenAsksKeeps
    DEF Callers
  <2>5. ASSUME NEW b \in Browsers,
               BuildSession(b) \/ SendsProfile(b) \/ Logout(b)
        PROVE  IInv'
    BY <1>2, <2>5, BuildSessionKeeps, ProfilesKeep, LogoutKeeps
  <2>6. ASSUME NEW t \in Tokens,
               \/ \E need \in Needs : BearerArrives(t, need)
               \/ TokenSendsProfile(t) \/ TokenProfile(t)
        PROVE  IInv'
    BY <1>2, <2>6, BearerArrivesKeeps, TokenAsksKeeps, ProfilesKeep DEF Callers
  <2>7. ASSUME NEW c \in Callers, NEW n \in Managed,
               DeleteReads(c, n) \/ \E e \in Edit : EditReads(c, n, e)
        PROVE  IInv'
    BY <1>2, <2>7, DeleteReadsKeeps, EditReadsKeeps
  <2>8. ASSUME NEW c \in Callers, NEW t \in Tokens,
               Revoke(c, t) \/ \E e \in Edit : Mint(c, t, e)
        PROVE  IInv'
    BY <1>2, <2>8, RevokeKeeps, MintKeeps
  <2>9. ASSUME NEW c \in Callers,
               \/ EditSaves(c) \/ DeleteDrops(c)
               \/ ProfileInserts(c) \/ Answers(c)
        PROVE  IInv'
    BY <1>2, <2>9, EditSavesKeeps, DeleteDropsKeeps, ProfileInsertsKeeps,
       AnswersKeeps
  <2>10. CASE SeedInitialAdmin
    BY <1>2, <2>10, SeedInitialAdminKeeps
  <2> QED
    BY <1>2, <2>1, <2>2, <2>3, <2>4, <2>5, <2>6, <2>7, <2>8, <2>9, <2>10
    DEF Step
<1> QED
  BY <1>1, <1>2 DEF Next

-----------------------------------------------------------------------------
(* The theorems. *)

\* IInv holds always.
THEOREM Invariance == Spec => []IInv
<1> QED
  BY InitIInv, NextKeeps, PTL DEF Spec

\* The variables keep their types, a deleted user leaves no grants behind and
\* its id is not given to another (AUTOINCREMENT, models/db_init.py:45).
THEOREM TypeCorrectness == Spec => []TypeOK
<1>1. IInv => TypeOK
  BY DEF IInv
<1> QED
  BY <1>1, Invariance, PTL

\* Whatever an admin edits, deletes or revokes between the reads of a request's
\* check (utils/auth_helpers.py:106-157), what the request may then do the
\* tables allowed at some moment since it arrived.
THEOREM AdmittedWasEntitledHolds == Spec => []AdmittedWasEntitled
<1>1. IInv => AdmittedWasEntitled
  BY DEF IInv
<1> QED
  BY <1>1, Invariance, PTL

\* No request is refused whose access stood all the time it was checked.
THEOREM DeniedHadReasonHolds == Spec => []DeniedHadReason
<1>1. IInv => DeniedHadReason
  BY DEF IInv
<1> QED
  BY <1>1, Invariance, PTL

\* Every admin flag, in a row or in a session, goes back to an admin's edit,
\* the IdP, the lists of the settings, or an admin's gift of admin access to a
\* token of that name.
THEOREM AdminFlagHasSourceHolds == Spec => []AdminFlagHasSource
<1>1. IInv => AdminFlagHasSource
  BY DEF IInv
<1> QED
  BY <1>1, Invariance, PTL

===============================================================================
