------------------------- MODULE PasswordReset_proofs -------------------------
(***************************************************************************)
(* Proofs about PasswordReset for any workers, mailboxes and tokens:       *)
(* types, the bound on password changes per token (with one worker: single *)
(* use), and what keeps a token alive or ends it.                          *)
(*                                                                         *)
(* ChangesBounded is not inductive.  What makes it so: the changes a token *)
(* made and the workers that still hold it never exceed the workers, and   *)
(* while the row is unused no worker has got past the UPDATE, so a token   *)
(* that can still be selected has changed nothing yet.                     *)
(***************************************************************************)
EXTENDS PasswordReset, FiniteSetTheorems, TLAPS

AnyStep(w) == RequestStep(w) \/ ConfirmStep(w) \/ AdminStep(w) \/ Abort(w)

-----------------------------------------------------------------------------
(* Types *)

(* What a worker's record holds at each step. *)
LEMMA RequestTypes ==
    ASSUME TypeOK, NEW w \in Workers
    PROVE  /\ At(w, "mint") => req[w] \in [at : {"mint"}, mailbox : Mailboxes]
           /\ At(w, "mail") =>
                req[w] \in [at : {"mail"}, mailbox : Mailboxes, token : Tokens]
           /\ Confirming(w) =>
                req[w] \in [at : {"mark", "check", "patch"}, mailbox : Mailboxes,
                            token : Tokens, scope : Scopes, open : BOOLEAN]
           /\ At(w, "forget") \/ At(w, "provision") =>
                req[w] \in [at : {"forget", "provision"}, mailbox : Mailboxes]
  BY DEF TypeOK, Requests, Idle, At, Confirming

(* The rows a request leaves behind. *)
LEMMA RowsWithNewType ==
    ASSUME TypeOK, NEW t \in Tokens, NEW m \in Mailboxes, minted[t] = None
    PROVE  /\ RowsWithNew(t, m) \in [Tokens -> Row \cup {None}]
           /\ \A u \in Tokens :
                RowsWithNew(t, m)[u] # None =>
                   RowsWithNew(t, m)[u].mailbox = [minted EXCEPT ![t] = m][u]
  BY DEF TypeOK, RowsWithNew, Row

(* Every step keeps the types. *)
LEMMA TypeStep ==
    ASSUME TypeOK, [Next]_vars
    PROVE  TypeOK'
<1> USE DEF TypeOK, history
<1>1. ASSUME NEW w \in Workers, RequestStep(w)
      PROVE  TypeOK'
  <2>1. ASSUME NEW m \in Mailboxes, NEW scope \in Scopes, RequestReset(w, m, scope)
        PROVE  TypeOK'
    BY <2>1 DEF RequestReset, Start, Requests
  <2>2. CASE CreateResetToken(w)
    <3>1. PICK t \in Tokens :
             /\ minted[t] = None
             /\ rows' = RowsWithNew(t, req[w].mailbox)
             /\ age'    = [age EXCEPT ![t] = 0]
             /\ minted' = [minted EXCEPT ![t] = req[w].mailbox]
             /\ closed' = closed \cup RowsOf(req[w].mailbox)
             /\ late'   = IF recovery[req[w].mailbox] THEN late ELSE late \cup {t}
             /\ req' = [req EXCEPT ![w] =
                  [at |-> "mail", mailbox |-> req[w].mailbox, token |-> t]]
      BY <2>2 DEF CreateResetToken
    <3>2. req[w].mailbox \in Mailboxes
      BY <2>2, RequestTypes DEF CreateResetToken
    <3>3. req' \in [Workers -> Requests]
      BY <3>1, <3>2 DEF Requests
    <3>4. /\ rows' \in [Tokens -> Row \cup {None}]
          /\ \A u \in Tokens : rows'[u] # None => rows'[u].mailbox = minted'[u]
      BY <3>1, <3>2, RowsWithNewType
    <3>5. age' \in [Tokens -> 0..TTL+1]
      BY <3>1, ParameterAssumption
    <3> QED
      BY <2>2, <3>1, <3>2, <3>3, <3>4, <3>5 DEF CreateResetToken, RowsOf
  <2>3. CASE SendMail(w)
    BY <2>3, RequestTypes DEF SendMail, Done, Requests
  <2> QED BY <1>1, <2>1, <2>2, <2>3 DEF RequestStep
<1>2. ASSUME NEW w \in Workers, ConfirmStep(w)
      PROVE  TypeOK'
  <2>1. ASSUME NEW t \in Tokens, NEW scope \in Scopes, SelectToken(w, t, scope)
        PROVE  TypeOK'
    <3>1. rows[t].mailbox \in Mailboxes
      BY <2>1 DEF SelectToken, Live, Row
    <3> QED BY <2>1, <3>1, ParameterAssumption DEF SelectToken, Start, Requests
  <2>2. CASE MarkUsed(w)
    <3>1. req[w].token \in Tokens
      BY <2>2, RequestTypes DEF MarkUsed, Confirming
    <3>2. req' \in [Workers -> Requests]
      BY <2>2, RequestTypes DEF MarkUsed, Requests, Confirming
    <3>3. /\ rows' \in [Tokens -> Row \cup {None}]
          /\ \A u \in Tokens : rows'[u] # None => rows'[u].mailbox = minted[u]
      BY <2>2, <3>1 DEF MarkUsed, Used, Row
    <3> QED BY <2>2, <3>1, <3>2, <3>3 DEF MarkUsed
  <2>3. CASE ChangePassword(w)
    <3>1. req[w].token \in Tokens
      BY <2>3, RequestTypes DEF ChangePassword, Confirming
    <3>2. changes' \in [Tokens -> Nat]
      BY <2>3, <3>1 DEF ChangePassword
    <3>3. req' \in [Workers -> Requests]
      BY <2>3 DEF ChangePassword, Done, Requests
    <3> QED BY <2>3, <3>2, <3>3 DEF ChangePassword
  <2>4. CASE CheckPortal(w)
    <3>1. req' \in [Workers -> Requests]
      BY <2>4, RequestTypes DEF CheckPortal, Done, Requests, Confirming
    <3> QED BY <2>4, <3>1 DEF CheckPortal
  <2> QED BY <1>2, <2>1, <2>2, <2>3, <2>4 DEF ConfirmStep
<1>3. ASSUME NEW m \in Mailboxes, Forget(m)
      PROVE  /\ recovery' \in [Mailboxes -> BOOLEAN]
             /\ rows' \in [Tokens -> Row \cup {None}]
             /\ \A u \in Tokens : rows'[u] # None => rows'[u].mailbox = minted'[u]
             /\ closed' \subseteq Tokens
             /\ minted' = minted /\ changes' = changes /\ late' = late
  BY <1>3 DEF Forget, RowsWithout, RowsOf
<1>4. ASSUME NEW w \in Workers, AdminStep(w)
      PROVE  TypeOK'
  <2>1. ASSUME NEW m \in Mailboxes, SetRecoveryEmail(w, m)
        PROVE  TypeOK'
    BY <2>1 DEF SetRecoveryEmail
  <2>2. ASSUME NEW m \in Mailboxes, RemoveRecoveryEmail(w, m)
        PROVE  TypeOK'
    BY <1>3, <2>2 DEF RemoveRecoveryEmail
  <2>3. ASSUME NEW m \in Mailboxes, DeleteMailbox(w, m)
        PROVE  TypeOK'
    BY <2>3 DEF DeleteMailbox, Start, Requests
  <2>4. ASSUME NEW m \in Mailboxes, ProvisionMailbox(w, m)
        PROVE  TypeOK'
    BY <2>4 DEF ProvisionMailbox, Start, Requests
  <2>5. CASE DeleteRecoveryAfterMxDelete(w)
    <3>1. req[w].mailbox \in Mailboxes
      BY <2>5, RequestTypes DEF DeleteRecoveryAfterMxDelete
    <3>2. req' \in [Workers -> Requests]
      BY <2>5 DEF DeleteRecoveryAfterMxDelete, Done, Requests
    <3> QED BY <1>3, <2>5, <3>1, <3>2 DEF DeleteRecoveryAfterMxDelete
  <2>6. CASE ProvisionRecovery(w)
    BY <2>6 DEF ProvisionRecovery, Done, Requests
  <2> QED BY <1>4, <2>1, <2>2, <2>3, <2>4, <2>5, <2>6 DEF AdminStep
<1>5. ASSUME NEW w \in Workers, Abort(w)
      PROVE  TypeOK'
  BY <1>5 DEF Abort, Done, Requests
<1>6. ASSUME NEW d \in Domains, SwitchPortal(d)
      PROVE  TypeOK'
  <2>1. req' \in [Workers -> Requests]
    <3>1. ASSUME NEW w \in Workers PROVE req'[w] \in Requests
      <4>1. CASE Confirming(w)
        <5>1. req'[w] \in {req[w], [req[w] EXCEPT !.open = TRUE]}
          BY <1>6 DEF SwitchPortal
        <5> QED BY <4>1, <5>1, RequestTypes DEF Requests
      <4>2. CASE ~Confirming(w)
        BY <1>6, <4>2 DEF SwitchPortal
      <4> QED BY <4>1, <4>2
    <3> QED BY <1>6, <3>1 DEF SwitchPortal
  <2> QED BY <1>6, <2>1 DEF SwitchPortal
<1>8. CASE Tick
  <2>1. age' \in [Tokens -> 0..TTL+1]
    BY <1>8, ParameterAssumption DEF Tick, Aged, Expired
  <2> QED BY <1>8, <2>1 DEF Tick
<1>9. CASE UNCHANGED vars
  BY <1>9 DEF vars
<1> QED
  BY <1>1, <1>2, <1>4, <1>5, <1>6, <1>8, <1>9 DEF Next

-----------------------------------------------------------------------------
(* How often a token can change a password *)

Unused(t)   == rows[t] # None /\ ~rows[t].used
InFlight(t) ==
    {w \in Workers : req[w].at \in {"mark", "check", "patch"} /\ req[w].token = t}
Patching(t) ==
    {w \in Workers : req[w].at \in {"check", "patch"} /\ req[w].token = t}

TokenOK(t) ==
    /\ minted[t] = None => changes[t] = 0 /\ InFlight(t) = {}
    /\ Unused(t) => changes[t] = 0 /\ Patching(t) = {}
    /\ changes[t] + Cardinality(InFlight(t)) <= Cardinality(Workers)

IInv == TypeOK /\ \A t \in Tokens : TokenOK(t)

(* The sets of workers that hold a token are finite, no larger than Workers. *)
LEMMA HoldersFinite ==
    ASSUME NEW S \in SUBSET Workers
    PROVE  /\ IsFiniteSet(S)
           /\ Cardinality(S) \in Nat
           /\ Cardinality(Workers) \in Nat
           /\ Cardinality(S) <= Cardinality(Workers)
  BY ParameterAssumption, FS_Subset, FS_CardinalityType

(* A step by which nobody takes hold of t and t changes nothing. *)
LEMMA QuietStep ==
    ASSUME IInv, TypeOK', NEW t \in Tokens,
           changes'[t] = changes[t],
           InFlight(t)' \subseteq InFlight(t),
           Patching(t)' \subseteq Patching(t),
           minted'[t] = None => minted[t] = None,
           Unused(t)' => Unused(t)
    PROVE  TokenOK(t)'
<1>1. InFlight(t) \in SUBSET Workers
  BY DEF InFlight
<1>2. /\ IsFiniteSet(InFlight(t)) /\ Cardinality(InFlight(t)) \in Nat
      /\ Cardinality(Workers) \in Nat
  BY <1>1, HoldersFinite
<1>3. /\ Cardinality(InFlight(t)') \in Nat
      /\ Cardinality(InFlight(t)') <= Cardinality(InFlight(t))
  BY <1>2, FS_Subset, FS_CardinalityType
<1>4. changes[t] \in Nat
  BY DEF IInv, TypeOK
<1> QED
  BY <1>2, <1>3, <1>4 DEF IInv, TokenOK

(* Every step keeps TokenOK. *)
LEMMA TokenStep ==
    ASSUME IInv, [Next]_vars, NEW t \in Tokens
    PROVE  TokenOK(t)'
<1>0. TypeOK /\ TypeOK' /\ TokenOK(t)
  BY TypeStep DEF IInv
<1> DEFINE Quiet == /\ changes'[t] = changes[t]
                    /\ InFlight(t)' \subseteq InFlight(t)
                    /\ Patching(t)' \subseteq Patching(t)
                    /\ minted'[t] = None => minted[t] = None
                    /\ Unused(t)' => Unused(t)
<1>1. ASSUME Quiet PROVE TokenOK(t)'
  BY <1>0, <1>1, QuietStep
<1>2. ASSUME NEW w \in Workers, RequestStep(w)
      PROVE  TokenOK(t)'
  <2>1. ASSUME NEW m \in Mailboxes, NEW scope \in Scopes, RequestReset(w, m, scope)
        PROVE  Quiet
    BY <1>0, <2>1
       DEF RequestReset, Start, InFlight, Patching, Unused, TypeOK, history
  <2>2. CASE CreateResetToken(w)
    <3>1. PICK u \in Tokens :
             /\ minted[u] = None
             /\ rows' = RowsWithNew(u, req[w].mailbox)
             /\ minted' = [minted EXCEPT ![u] = req[w].mailbox]
             /\ req' = [req EXCEPT ![w] =
                  [at |-> "mail", mailbox |-> req[w].mailbox, token |-> u]]
             /\ changes' = changes
      BY <2>2 DEF CreateResetToken
    <3>2. /\ InFlight(t)' \subseteq InFlight(t)
          /\ Patching(t)' \subseteq Patching(t)
          /\ minted'[t] = None => minted[t] = None
      BY <1>0, <2>2, <3>1, RequestTypes, ParameterAssumption
         DEF InFlight, Patching, TypeOK, At, CreateResetToken
    <3>3. CASE u # t
      <4>1. Unused(t)' => Unused(t)
        BY <3>1, <3>3 DEF Unused, RowsWithNew
      <4> QED BY <1>1, <3>1, <3>2, <4>1
    <3>4. CASE u = t
      <4>1. /\ changes'[t] = 0 /\ InFlight(t)' = {} /\ Patching(t)' = {}
        BY <1>0, <3>1, <3>2, <3>4 DEF TokenOK, InFlight, Patching
      <4>2. Cardinality(InFlight(t)') = 0 /\ Cardinality(Workers) \in Nat
        BY <4>1, FS_EmptySet, FS_CardinalityType, ParameterAssumption
      <4> QED BY <4>1, <4>2 DEF TokenOK
    <3> QED BY <3>3, <3>4
  <2>3. CASE SendMail(w)
    <3>1. Quiet
      BY <1>0, <2>3
         DEF SendMail, Done, Idle, InFlight, Patching, Unused, TypeOK, history
    <3> QED BY <1>1, <3>1
  <2> QED BY <1>1, <1>2, <2>1, <2>2, <2>3 DEF RequestStep
<1>3. ASSUME NEW w \in Workers, ConfirmStep(w)
      PROVE  TokenOK(t)'
  <2>1. ASSUME NEW u \in Tokens, NEW scope \in Scopes, SelectToken(w, u, scope)
        PROVE  TokenOK(t)'
    <3>1. /\ changes' = changes /\ rows' = rows /\ minted' = minted
          /\ Patching(t)' \subseteq Patching(t)
      BY <1>0, <2>1 DEF SelectToken, Start, Patching, TypeOK, history
    <3>2. CASE u # t
      <4>1. InFlight(t)' \subseteq InFlight(t)
        BY <1>0, <2>1, <3>2 DEF SelectToken, Start, InFlight, TypeOK
      <4> QED BY <1>1, <3>1, <4>1 DEF Unused
    <3>3. CASE u = t
      <4>1. Unused(t) /\ minted[t] # None
        BY <1>0, <2>1, <3>3, ParameterAssumption DEF SelectToken, Live, Unused, TypeOK, Row
      <4>2. changes[t] = 0 /\ Patching(t)' = {}
        BY <1>0, <3>1, <4>1 DEF TokenOK
      <4>3. /\ Cardinality(InFlight(t)') \in Nat /\ Cardinality(Workers) \in Nat
            /\ Cardinality(InFlight(t)') <= Cardinality(Workers)
        <5>1. InFlight(t)' \in SUBSET Workers
          BY DEF InFlight
        <5> QED BY <5>1, HoldersFinite
      <4> QED BY <3>1, <4>1, <4>2, <4>3 DEF TokenOK
    <3> QED BY <3>2, <3>3
  <2>2. CASE MarkUsed(w)
    <3>1. /\ changes' = changes /\ minted' = minted
          /\ rows' = Used(req[w].token)
          /\ req' = [req EXCEPT ![w].at = "check"]
          /\ req[w].at = "mark" /\ req[w].token \in Tokens
      BY <1>0, <2>2, RequestTypes DEF MarkUsed, At, Confirming
    <3>2. InFlight(t)' \subseteq InFlight(t)
      BY <1>0, <2>2, <3>1, RequestTypes DEF InFlight, TypeOK, MarkUsed, Confirming
    <3>3. CASE req[w].token # t
      <4>1. Patching(t)' \subseteq Patching(t)
        BY <1>0, <2>2, <3>1, <3>3, RequestTypes
           DEF Patching, TypeOK, MarkUsed, Confirming
      <4>2. Unused(t)' => Unused(t)
        BY <1>0, <3>1, <3>3 DEF Unused, Used, TypeOK
      <4> QED BY <1>1, <3>1, <3>2, <4>1, <4>2
    <3>4. CASE req[w].token = t
      <4>1. ~Unused(t)'
        <5>1. CASE rows[t] = None
          BY <3>1, <3>4, <5>1 DEF Unused, Used
        <5>2. CASE rows[t] # None
          <6>1. rows[t] \in Row
            BY <1>0, <5>2 DEF TypeOK
          <6>2. rows'[t].used = TRUE
            BY <1>0, <3>1, <3>4, <5>2, <6>1 DEF Used, TypeOK, Row
          <6> QED BY <6>2 DEF Unused
        <5> QED BY <5>1, <5>2
      <4>2. w \in InFlight(t)
        BY <3>1, <3>4 DEF InFlight
      <4>3. minted'[t] # None
        BY <1>0, <3>1, <4>2 DEF TokenOK
      <4>4. /\ Cardinality(InFlight(t)') \in Nat /\ Cardinality(InFlight(t)) \in Nat
            /\ Cardinality(Workers) \in Nat
            /\ Cardinality(InFlight(t)') <= Cardinality(InFlight(t))
        <5>1. InFlight(t) \in SUBSET Workers
          BY DEF InFlight
        <5>2. IsFiniteSet(InFlight(t))
          BY <5>1, HoldersFinite
        <5> QED BY <3>2, <5>1, <5>2, HoldersFinite, FS_Subset, FS_CardinalityType
      <4>5. changes'[t] = changes[t] /\ changes[t] \in Nat
        BY <1>0, <3>1 DEF TypeOK
      <4> QED BY <1>0, <4>1, <4>3, <4>4, <4>5 DEF TokenOK
    <3> QED BY <3>3, <3>4
  <2>3. CASE ChangePassword(w)
    <3> DEFINE u == req[w].token
    <3>1. /\ minted' = minted /\ rows' = rows
          /\ changes' \in {changes, [changes EXCEPT ![u] = @ + 1]}
          /\ req' = [req EXCEPT ![w] = Idle]
          /\ req[w].at = "patch" /\ u \in Tokens
      BY <1>0, <2>3, RequestTypes DEF ChangePassword, Done, At, Confirming
    <3>2. /\ InFlight(t)' \subseteq InFlight(t) \ {w}
          /\ Patching(t)' \subseteq Patching(t)
      BY <1>0, <3>1 DEF InFlight, Patching, TypeOK, Idle
    <3>3. CASE u # t
      <4>1. changes'[t] = changes[t]
        BY <1>0, <3>1, <3>3 DEF TypeOK
      <4> QED BY <1>1, <3>1, <3>2, <4>1 DEF Unused
    <3>4. CASE u = t
      <4>1. w \in InFlight(t) /\ w \in Patching(t)
        BY <3>1, <3>4 DEF InFlight, Patching
      <4>2. minted'[t] # None /\ ~Unused(t)'
        BY <1>0, <3>1, <4>1 DEF TokenOK, Unused
      <4>3. /\ Cardinality(InFlight(t)') \in Nat /\ Cardinality(InFlight(t)) \in Nat
            /\ Cardinality(Workers) \in Nat
            /\ Cardinality(InFlight(t)') <= Cardinality(InFlight(t)) - 1
        <5>1. InFlight(t) \in SUBSET Workers
          BY DEF InFlight
        <5>2. IsFiniteSet(InFlight(t)) /\ Cardinality(InFlight(t)) \in Nat
              /\ Cardinality(Workers) \in Nat
          BY <5>1, HoldersFinite
        <5>3. /\ IsFiniteSet(InFlight(t) \ {w})
              /\ Cardinality(InFlight(t) \ {w}) = Cardinality(InFlight(t)) - 1
          BY <4>1, <5>2, FS_RemoveElement
        <5>4. /\ Cardinality(InFlight(t)') <= Cardinality(InFlight(t) \ {w})
              /\ Cardinality(InFlight(t)') \in Nat
          BY <3>2, <5>3, FS_Subset, FS_CardinalityType
        <5> QED BY <5>2, <5>3, <5>4
      <4>4. changes[t] \in Nat /\ changes'[t] \in {changes[t], changes[t] + 1}
        BY <1>0, <3>1, <3>4 DEF TypeOK
      <4> QED BY <1>0, <4>2, <4>3, <4>4 DEF TokenOK
    <3> QED BY <3>3, <3>4
  <2>4. CASE CheckPortal(w)
    <3>1. /\ req'[w] \in {Idle, [req[w] EXCEPT !.at = "patch"]}
          /\ req[w].at = "check"
          /\ \A v \in Workers : v # w => req'[v] = req[v]
      BY <1>0, <2>4 DEF CheckPortal, Done, At, TypeOK
    <3>2. req'[w] = Idle \/ req'[w].token = req[w].token
      BY <1>0, <2>4, <3>1, RequestTypes DEF CheckPortal, Confirming
    <3>3. InFlight(t)' \subseteq InFlight(t) /\ Patching(t)' \subseteq Patching(t)
      BY <3>1, <3>2 DEF InFlight, Patching, Idle
    <3>4. Quiet
      BY <2>4, <3>3 DEF CheckPortal, Unused, history
    <3> QED BY <1>1, <3>4
  <2> QED BY <1>3, <2>1, <2>2, <2>3, <2>4 DEF ConfirmStep
<1>4. ASSUME NEW m \in Mailboxes, Forget(m)
      PROVE  changes' = changes /\ minted' = minted /\ (Unused(t)' => Unused(t))
  BY <1>4 DEF Forget, RowsWithout, Unused
<1>5. ASSUME req' = req
      PROVE  InFlight(t)' = InFlight(t) /\ Patching(t)' = Patching(t)
  BY <1>5 DEF InFlight, Patching
<1>6. ASSUME NEW w \in Workers, AdminStep(w)
      PROVE  TokenOK(t)'
  <2>1. ASSUME NEW m \in Mailboxes, SetRecoveryEmail(w, m)
        PROVE  Quiet
    BY <1>5, <2>1 DEF SetRecoveryEmail, Unused, history
  <2>2. ASSUME NEW m \in Mailboxes, RemoveRecoveryEmail(w, m)
        PROVE  Quiet
    BY <1>4, <1>5, <2>2 DEF RemoveRecoveryEmail
  <2>3. ASSUME NEW m \in Mailboxes, DeleteMailbox(w, m)
        PROVE  Quiet
    BY <1>0, <2>3
       DEF DeleteMailbox, Start, InFlight, Patching, Unused, TypeOK, history
  <2>4. ASSUME NEW m \in Mailboxes, ProvisionMailbox(w, m)
        PROVE  Quiet
    BY <1>0, <2>4
       DEF ProvisionMailbox, Start, InFlight, Patching, Unused, TypeOK, history
  <2>5. CASE DeleteRecoveryAfterMxDelete(w)
    <3>1. req[w].mailbox \in Mailboxes
      BY <1>0, <2>5, RequestTypes DEF DeleteRecoveryAfterMxDelete
    <3>2. InFlight(t)' \subseteq InFlight(t) /\ Patching(t)' \subseteq Patching(t)
      BY <1>0, <2>5 DEF DeleteRecoveryAfterMxDelete, Done, Idle, InFlight, Patching, TypeOK
    <3>3. Quiet
      BY <1>4, <2>5, <3>1, <3>2 DEF DeleteRecoveryAfterMxDelete
    <3> QED BY <1>1, <3>3
  <2>6. CASE ProvisionRecovery(w)
    <3>1. Quiet
      BY <1>0, <2>6
         DEF ProvisionRecovery, Done, Idle, InFlight, Patching, Unused, TypeOK, history
    <3> QED BY <1>1, <3>1
  <2> QED BY <1>1, <1>6, <2>1, <2>2, <2>3, <2>4, <2>5, <2>6 DEF AdminStep
<1>7. ASSUME NEW w \in Workers, Abort(w)
      PROVE  Quiet
  BY <1>0, <1>7 DEF Abort, Done, Idle, InFlight, Patching, Unused, TypeOK, history
<1>8. ASSUME NEW d \in Domains, SwitchPortal(d)
      PROVE  Quiet
  <2>1. ASSUME NEW w \in Workers
        PROVE  /\ Confirming(w) => req'[w].at = req[w].at /\ req'[w].token = req[w].token
               /\ ~Confirming(w) => req'[w] = req[w]
    BY <1>0, <1>8, <2>1, RequestTypes DEF SwitchPortal
  <2>2. InFlight(t)' = InFlight(t) /\ Patching(t)' = Patching(t)
    BY <2>1 DEF InFlight, Patching, Confirming, At
  <2> QED BY <1>8, <2>2 DEF SwitchPortal, Unused, history
<1>10. CASE Tick
  BY <1>1, <1>5, <1>10 DEF Tick, Unused, history
<1>11. CASE UNCHANGED vars
  BY <1>1, <1>5, <1>11 DEF vars, Unused
<1> QED
  BY <1>1, <1>2, <1>3, <1>6, <1>7, <1>8, <1>10, <1>11 DEF Next

-----------------------------------------------------------------------------
(* What keeps a token alive or ends it *)

\* A mailbox has one row, used or not.
OneRow == \A t, u \in Tokens :
             rows[t] # None /\ rows[u] # None /\ rows[t].mailbox = rows[u].mailbox
               => t = u

LifeInv == TypeOK /\ OneRow /\ TokenKept /\ RevokedWithRecovery

\* Everything these invariants speak of.
tables == <<rows, age, minted, closed, late, recovery>>

SetsRecovery == /\ UNCHANGED <<rows, age, minted, closed, late>>
                /\ \E m \in Mailboxes : recovery' = [recovery EXCEPT ![m] = TRUE]

(* A step does one of six things to the tables. *)
LEMMA TableSteps ==
    ASSUME TypeOK, [Next]_vars
    PROVE  \/ UNCHANGED tables
           \/ SetsRecovery
           \/ \E w \in Workers : CreateResetToken(w)
           \/ \E w \in Workers : MarkUsed(w)
           \/ \E m \in Mailboxes : Forget(m) /\ UNCHANGED age
           \/ Tick
<1> USE DEF tables, history
<1>1. ASSUME NEW w \in Workers, RequestStep(w), ~CreateResetToken(w)
      PROVE  UNCHANGED tables
  BY <1>1 DEF RequestStep, RequestReset, SendMail
<1>2. ASSUME NEW w \in Workers, ConfirmStep(w), ~MarkUsed(w)
      PROVE  UNCHANGED tables
  BY <1>2 DEF ConfirmStep, SelectToken, CheckPortal, ChangePassword
<1>3. ASSUME NEW w \in Workers, AdminStep(w)
      PROVE  \/ UNCHANGED tables
             \/ SetsRecovery
             \/ \E m \in Mailboxes : Forget(m) /\ UNCHANGED age
  <2>1. ASSUME NEW m \in Mailboxes, SetRecoveryEmail(w, m)
        PROVE  SetsRecovery
    BY <2>1 DEF SetRecoveryEmail, SetsRecovery
  <2>2. ASSUME NEW m \in Mailboxes, RemoveRecoveryEmail(w, m)
        PROVE  Forget(m) /\ UNCHANGED age
    BY <2>2 DEF RemoveRecoveryEmail
  <2>3. ASSUME NEW m \in Mailboxes, DeleteMailbox(w, m) \/ ProvisionMailbox(w, m)
        PROVE  UNCHANGED tables
    BY <2>3 DEF DeleteMailbox, ProvisionMailbox
  <2>4. ASSUME DeleteRecoveryAfterMxDelete(w)
        PROVE  \E m \in Mailboxes : Forget(m) /\ UNCHANGED age
    BY <2>4, RequestTypes DEF DeleteRecoveryAfterMxDelete
  <2>5. ASSUME ProvisionRecovery(w)
        PROVE  SetsRecovery
    BY <2>5, RequestTypes DEF ProvisionRecovery, SetsRecovery
  <2> QED BY <1>3, <2>1, <2>2, <2>3, <2>4, <2>5 DEF AdminStep
<1>4. ASSUME NEW w \in Workers, Abort(w)
      PROVE  UNCHANGED tables
  BY <1>4 DEF Abort
<1>5. ASSUME \/ \E d \in Domains : SwitchPortal(d)
             \/ UNCHANGED vars
      PROVE  UNCHANGED tables
  BY <1>5 DEF SwitchPortal, vars
<1> QED
  BY <1>1, <1>2, <1>3, <1>4, <1>5 DEF Next

(* Every step keeps the three invariants. *)
LEMMA LifeStep ==
    ASSUME LifeInv, [Next]_vars
    PROVE  LifeInv'
<1>0. TypeOK /\ TypeOK' /\ OneRow /\ TokenKept /\ RevokedWithRecovery
  BY TypeStep DEF LifeInv
<1>1. CASE UNCHANGED tables
  BY <1>0, <1>1
     DEF tables, LifeInv, OneRow, TokenKept, RevokedWithRecovery, Live, Expired
<1>2. CASE SetsRecovery
  BY <1>0, <1>2
     DEF SetsRecovery, LifeInv, OneRow, TokenKept, RevokedWithRecovery, Live,
         Expired, TypeOK
<1>3. ASSUME NEW w \in Workers, CreateResetToken(w)
      PROVE  LifeInv'
  <2> DEFINE m == req[w].mailbox
  <2>1. PICK n \in Tokens :
           /\ minted[n] = None
           /\ rows' = RowsWithNew(n, m)
           /\ age'    = [age EXCEPT ![n] = 0]
           /\ minted' = [minted EXCEPT ![n] = m]
           /\ closed' = closed \cup RowsOf(m)
           /\ late'   = IF recovery[m] THEN late ELSE late \cup {n}
           /\ recovery' = recovery
    BY <1>3 DEF CreateResetToken
  <2>2. m \in Mailboxes
    BY <1>0, <1>3, RequestTypes DEF CreateResetToken
  <2>3. /\ rows'[n] # None /\ rows'[n].mailbox = m /\ ~rows'[n].used
        /\ age'[n] = 0 /\ n \in Tokens
    <3>1. [mailbox |-> m, used |-> FALSE] \in [mailbox : Mailboxes, used : BOOLEAN]
      BY <2>2
    <3>2. [mailbox |-> m, used |-> FALSE] # None
      BY <3>1, ParameterAssumption
    <3>3. rows'[n] = [mailbox |-> m, used |-> FALSE]
      BY <2>1 DEF RowsWithNew
    <3> QED BY <1>0, <2>1, <3>2, <3>3 DEF TypeOK
  <2>4. \A u \in Tokens \ {n} :
           /\ rows'[u] \in {None, rows[u]}
           /\ rows'[u] # None => rows[u].mailbox # m
           /\ age'[u] = age[u] /\ minted'[u] = minted[u]
    BY <1>0, <2>1, <2>2 DEF RowsWithNew, RowsOf, TypeOK
  <2>5. OneRow'
    BY <1>0, <2>3, <2>4 DEF OneRow
  <2>6. TokenKept'
    <3> SUFFICES ASSUME NEW t \in Tokens, minted'[t] # None, ~Expired(t)',
                        t \notin closed'
                 PROVE  Live(t)'
      BY DEF TokenKept
    <3>1. CASE t = n
      BY <2>3, <3>1, ParameterAssumption DEF Live, Expired
    <3>2. CASE t # n
      <4>1. Live(t) /\ t \notin RowsOf(m)
        BY <1>0, <2>1, <2>4, <3>2 DEF TokenKept, Expired
      <4>2. rows'[t] = rows[t]
        BY <2>1, <3>2, <4>1 DEF RowsWithNew, Purged, Live
      <4> QED BY <2>4, <3>2, <4>1, <4>2 DEF Live, Expired
    <3> QED BY <3>1, <3>2
  <2>7. RevokedWithRecovery'
    BY <1>0, <2>1, <2>3, <2>4 DEF RevokedWithRecovery, Live, Expired
  <2> QED BY <1>0, <2>5, <2>6, <2>7 DEF LifeInv
<1>4. ASSUME NEW w \in Workers, MarkUsed(w)
      PROVE  LifeInv'
  <2> DEFINE u == req[w].token
  <2>1. /\ u \in Tokens
        /\ rows' = Used(u) /\ closed' = closed \cup {u}
        /\ UNCHANGED <<age, minted, late, recovery>>
    BY <1>0, <1>4, RequestTypes DEF MarkUsed, Confirming
  <2>2. \A t \in Tokens :
           /\ (rows'[t] = None) <=> (rows[t] = None)
           /\ rows[t] # None => rows'[t].mailbox = rows[t].mailbox
           /\ rows[t] # None => (~rows'[t].used => ~rows[t].used)
           /\ t # u => rows'[t] = rows[t]
    <3>1. CASE rows[u] = None
      BY <2>1, <3>1 DEF Used
    <3>2. CASE rows[u] # None
      <4>1. rows[u] \in Row
        BY <1>0, <2>1, <3>2 DEF TypeOK
      <4>2. [rows[u] EXCEPT !.used = TRUE] \in Row
        BY <4>1 DEF Row
      <4>3. [rows[u] EXCEPT !.used = TRUE] # None
        BY <4>2, ParameterAssumption DEF Row
      <4>4. rows' = [rows EXCEPT ![u] = [rows[u] EXCEPT !.used = TRUE]]
        BY <2>1, <3>2 DEF Used
      <4> QED BY <1>0, <2>1, <3>2, <4>1, <4>3, <4>4 DEF TypeOK, Row
    <3> QED BY <3>1, <3>2
  <2>3. OneRow'
    BY <1>0, <2>2 DEF OneRow
  <2>4. TokenKept'
    BY <1>0, <2>1, <2>2 DEF TokenKept, Live, Expired
  <2>5. RevokedWithRecovery'
    BY <1>0, <2>1, <2>2 DEF RevokedWithRecovery, Live, Expired
  <2> QED BY <1>0, <2>3, <2>4, <2>5 DEF LifeInv
<1>5. ASSUME NEW m \in Mailboxes, Forget(m), UNCHANGED age
      PROVE  LifeInv'
  <2>1. \A t \in Tokens :
           /\ rows'[t] \in {None, rows[t]}
           /\ t \in RowsOf(m) => t \in closed'
           /\ t \notin RowsOf(m) => rows'[t] = rows[t]
           /\ rows'[t] # None => rows[t].mailbox # m
    BY <1>0, <1>5 DEF Forget, RowsWithout, RowsOf, TypeOK
  <2>2. OneRow'
    BY <1>0, <2>1 DEF OneRow
  <2>3. TokenKept'
    BY <1>0, <1>5, <2>1 DEF TokenKept, Live, Expired, Forget
  <2>4. RevokedWithRecovery'
    BY <1>0, <1>5, <2>1 DEF RevokedWithRecovery, Live, Expired, Forget, TypeOK, Row
  <2> QED BY <1>0, <2>2, <2>3, <2>4 DEF LifeInv
<1>6. CASE Tick
  <2>1. /\ UNCHANGED <<rows, minted, closed, late, recovery>>
        /\ \A t \in Tokens : Expired(t) => Expired(t)'
    BY <1>0, <1>6, ParameterAssumption DEF Tick, Aged, Expired, TypeOK, history
  <2>2. OneRow'
    BY <1>0, <2>1 DEF OneRow
  <2>3. TokenKept'
    BY <1>0, <2>1 DEF TokenKept, Live
  <2>4. RevokedWithRecovery'
    BY <1>0, <2>1 DEF RevokedWithRecovery, Live
  <2> QED BY <1>0, <2>2, <2>3, <2>4 DEF LifeInv
<1> QED
  BY <1>0, <1>1, <1>2, <1>3, <1>4, <1>5, <1>6, TableSteps

-----------------------------------------------------------------------------
(* Which host a confirm may go on through *)

\* What the check lets through, in terms of the request's own history.
Admitted(w) == IF req[w].scope = MainHost THEN req[w].open
               ELSE DomainOf[req[w].mailbox] = req[w].scope

\* A confirm that never saw the domain without a portal still finds one, so
\* the check stops it; what it has let through stays let through.
PortalInv ==
    \A w \in Workers :
        /\ Confirming(w) /\ req[w].scope = MainHost =>
              req[w].open \/ portal[DomainOf[req[w].mailbox]]
        /\ At(w, "patch") => Admitted(w)

(* Every step keeps PortalInv. *)
LEMMA PortalStep ==
    ASSUME TypeOK, PortalInv, [Next]_vars
    PROVE  PortalInv'
<1> DEFINE Part(w) ==
      /\ Confirming(w) /\ req[w].scope = MainHost =>
            req[w].open \/ portal[DomainOf[req[w].mailbox]]
      /\ At(w, "patch") => Admitted(w)
<1> SUFFICES ASSUME NEW v \in Workers
             PROVE  Part(v)'
  BY DEF PortalInv
<1>0. Part(v)
  BY DEF PortalInv
<1>1. ASSUME portal' = portal, req'[v] = req[v] \/ req'[v].at \notin {"mark", "check", "patch"}
      PROVE  Part(v)'
  BY <1>0, <1>1 DEF Confirming, At, Admitted
<1>2. ASSUME NEW w \in Workers, RequestStep(w)
      PROVE  Part(v)'
  BY <1>1, <1>2
     DEF RequestStep, RequestReset, CreateResetToken, SendMail, Start, Done, Idle, TypeOK
<1>3. ASSUME NEW w \in Workers, ConfirmStep(w)
      PROVE  Part(v)'
  <2>0. portal' = portal
    BY <1>3 DEF ConfirmStep, SelectToken, MarkUsed, CheckPortal, ChangePassword
  <2>1. ASSUME NEW t \in Tokens, NEW scope \in Scopes, SelectToken(w, t, scope)
        PROVE  Part(v)'
    <3>1. CASE v = w
      BY <2>0, <2>1, <3>1 DEF SelectToken, Start, Confirming, At, Admitted, TypeOK
    <3>2. CASE v # w
      BY <1>1, <2>0, <2>1, <3>2 DEF SelectToken, Start, TypeOK
    <3> QED BY <3>1, <3>2
  <2>2. CASE MarkUsed(w)
    <3>1. CASE v = w
      BY <1>0, <2>0, <2>2, <3>1, RequestTypes
         DEF MarkUsed, Confirming, At, Admitted, TypeOK
    <3>2. CASE v # w
      BY <1>1, <2>0, <2>2, <3>2 DEF MarkUsed, TypeOK
    <3> QED BY <3>1, <3>2
  <2>3. CASE CheckPortal(w)
    <3>1. CASE v = w /\ Allowed(req[w].mailbox, req[w].scope)
      <4>1. Admitted(w)
        BY <1>0, <2>3, <3>1 DEF Allowed, Admitted, CheckPortal, Confirming
      <4>2. req'[w] = [req[w] EXCEPT !.at = "patch"]
        BY <2>3, <3>1 DEF CheckPortal, TypeOK
      <4> QED
        BY <1>0, <2>0, <2>3, <3>1, <4>1, <4>2, RequestTypes
           DEF CheckPortal, Confirming, At, Admitted
    <3>2. CASE ~(v = w /\ Allowed(req[w].mailbox, req[w].scope))
      BY <1>1, <2>0, <2>3, <3>2 DEF CheckPortal, Done, Idle, TypeOK
    <3> QED BY <3>1, <3>2
  <2>4. CASE ChangePassword(w)
    BY <1>1, <2>0, <2>4 DEF ChangePassword, Done, Idle, TypeOK
  <2> QED BY <1>3, <2>1, <2>2, <2>3, <2>4 DEF ConfirmStep
<1>4. ASSUME NEW w \in Workers, AdminStep(w)
      PROVE  Part(v)'
  BY <1>1, <1>4
     DEF AdminStep, SetRecoveryEmail, RemoveRecoveryEmail, DeleteMailbox, ProvisionMailbox,
         DeleteRecoveryAfterMxDelete, ProvisionRecovery, Start, Done, Idle, TypeOK
<1>5. ASSUME NEW w \in Workers, Abort(w)
      PROVE  Part(v)'
  BY <1>1, <1>5 DEF Abort, Done, Idle, TypeOK
<1>6. ASSUME NEW d \in Domains, SwitchPortal(d)
      PROVE  Part(v)'
  <2>1. CASE Confirming(v)
    <3>1. /\ req[v].mailbox \in Mailboxes
          /\ req'[v] = [req[v] EXCEPT !.open = req'[v].open]
          /\ req[v].open => req'[v].open
      BY <1>6, <2>1, RequestTypes DEF SwitchPortal
    <3>2. /\ req'[v].at = req[v].at /\ req'[v].scope = req[v].scope
          /\ req'[v].mailbox = req[v].mailbox
      BY <2>1, <3>1, RequestTypes
    <3>3. req[v].scope = MainHost =>
             req'[v].open \/ portal'[DomainOf[req[v].mailbox]]
      BY <1>0, <1>6, <2>1, <3>1, RequestTypes, ParameterAssumption
         DEF SwitchPortal, TypeOK
    <3> QED BY <1>0, <2>1, <3>1, <3>2, <3>3 DEF Confirming, At, Admitted
  <2>2. CASE ~Confirming(v)
    <3>1. req'[v] = req[v]
      BY <1>6, <2>2 DEF SwitchPortal
    <3> QED BY <2>2, <3>1 DEF Confirming, At
  <2> QED BY <2>1, <2>2
<1>7. CASE Tick \/ UNCHANGED vars
  BY <1>0, <1>1, <1>7 DEF Tick, vars
<1> QED
  BY <1>2, <1>3, <1>4, <1>5, <1>6, <1>7 DEF Next

-----------------------------------------------------------------------------
(* The theorems *)

(* The two inductive invariants hold. *)
LEMMA Invariance == Spec => [](IInv /\ LifeInv)
<1>1. Init => IInv /\ LifeInv
  <2> SUFFICES ASSUME Init PROVE IInv /\ LifeInv
    OBVIOUS
  <2>1. TypeOK
    BY ParameterAssumption DEF Init, TypeOK, Requests
  <2>2. ASSUME NEW t \in Tokens
        PROVE  TokenOK(t)
    <3>1. InFlight(t) = {} /\ rows[t] = None /\ changes[t] = 0
      BY DEF Init, InFlight, Idle
    <3>2. Cardinality(InFlight(t)) = 0 /\ Cardinality(Workers) \in Nat
      BY <3>1, FS_EmptySet, FS_CardinalityType, ParameterAssumption
    <3> QED BY <3>1, <3>2 DEF TokenOK, Unused
  <2>3. OneRow /\ TokenKept /\ RevokedWithRecovery
    BY DEF Init, OneRow, TokenKept, RevokedWithRecovery, Live
  <2> QED BY <2>1, <2>2, <2>3 DEF IInv, LifeInv
<1>2. (IInv /\ LifeInv) /\ [Next]_vars => (IInv /\ LifeInv)'
  BY TypeStep, TokenStep, LifeStep DEF IInv
<1> QED
  BY <1>1, <1>2, PTL DEF Spec

(* The variables keep their types. *)
THEOREM TypeCorrectness == Spec => []TypeOK
<1>1. IInv => TypeOK
  BY DEF IInv
<1> QED
  BY <1>1, Invariance, PTL

(* A token changes a password at most once per worker (models/db_reset.py, *)
(* consume_reset_token: the SELECT and the UPDATE are not one transaction).*)
THEOREM ChangesBoundedHolds == Spec => []ChangesBounded
<1>1. IInv => ChangesBounded
  <2> SUFFICES ASSUME IInv, NEW t \in Tokens
               PROVE  changes[t] <= Cardinality(Workers)
    BY DEF ChangesBounded
  <2>1. InFlight(t) \in SUBSET Workers
    BY DEF InFlight
  <2>2. Cardinality(InFlight(t)) \in Nat /\ Cardinality(Workers) \in Nat
    BY <2>1, HoldersFinite
  <2>3. TokenOK(t) /\ changes[t] \in Nat
    BY DEF IInv, TypeOK
  <2> QED
    BY <2>2, <2>3 DEF TokenOK
<1> QED
  BY <1>1, Invariance, PTL

(* With one worker a token is single-use, as docs/password-reset.md:3 says.*)
THEOREM SingleUseWithOneWorker ==
    ASSUME Cardinality(Workers) = 1
    PROVE  Spec => []SingleUse
<1>1. ChangesBounded => SingleUse
  BY DEF ChangesBounded, SingleUse
<1> QED
  BY <1>1, ChangesBoundedHolds, PTL

(* A mailbox never has two tokens that work (create_reset_token).          *)
THEOREM OneLiveTokenHolds == Spec => []OneLiveToken
<1>1. LifeInv => OneLiveToken
  BY DEF LifeInv, OneRow, OneLiveToken, Live
<1> QED
  BY <1>1, Invariance, PTL

(* A token stops working only for a reason of its own (the purge and the   *)
(* deletes of models/db_reset.py spare every other token).                 *)
THEOREM TokenKeptHolds == Spec => []TokenKept
<1>1. LifeInv => TokenKept
  BY DEF LifeInv
<1> QED
  BY <1>1, Invariance, PTL

(* Losing the recovery address ends every token minted before              *)
(* (delete_recovery_email).                                                *)
THEOREM RevokedWithRecoveryHolds == Spec => []RevokedWithRecovery
<1>1. LifeInv => RevokedWithRecovery
  BY DEF LifeInv
<1> QED
  BY <1>1, Invariance, PTL

(* A password changes only through the right host                          *)
(* (routes/password_reset.py, _mailbox_allowed_for_portal).                *)
THEOREM PortalIsolationHolds == Spec => PortalIsolation
<1> DEFINE Isolated ==
      \A w \in Workers :
          LET m == req[w].mailbox
              scope == req[w].scope
          IN  changes' # changes /\ At(w, "patch") /\ req'[w] = Idle
                => IF scope = MainHost THEN req[w].open
                   ELSE DomainOf[m] = scope
<1>1. Init => PortalInv
  BY DEF Init, PortalInv, Admitted, Confirming, At, Idle
<1>2. ASSUME TypeOK, PortalInv, [Next]_vars
      PROVE  PortalInv' /\ [Isolated]_vars
  <2>1. CASE \E w \in Workers : ChangePassword(w)
    <3>1. PICK w \in Workers : ChangePassword(w)
      BY <2>1
    <3>2. \A v \in Workers : At(v, "patch") /\ req'[v] = Idle => v = w
      BY <1>2, <3>1 DEF ChangePassword, Done, At, Idle, TypeOK
    <3>3. Admitted(w) /\ At(w, "patch")
      BY <1>2, <3>1 DEF PortalInv, ChangePassword
    <3> QED BY <1>2, <3>2, <3>3, PortalStep DEF Admitted
  <2>2. CASE ~ \E w \in Workers : ChangePassword(w)
    <3>1. changes' = changes
      <4> USE <1>2, <2>2 DEF history
      <4>1. ASSUME NEW w \in Workers, AdminStep(w) PROVE changes' = changes
        BY <4>1 DEF AdminStep, SetRecoveryEmail, RemoveRecoveryEmail, DeleteMailbox,
                    ProvisionMailbox, DeleteRecoveryAfterMxDelete, ProvisionRecovery,
                    Forget
      <4>2. ASSUME NEW w \in Workers, RequestStep(w) PROVE changes' = changes
        BY <4>2 DEF RequestStep, RequestReset, CreateResetToken, SendMail
      <4>3. ASSUME NEW w \in Workers, ConfirmStep(w) PROVE changes' = changes
        BY <4>3 DEF ConfirmStep, SelectToken, MarkUsed, CheckPortal
      <4>4. ASSUME NEW w \in Workers, Abort(w) PROVE changes' = changes
        BY <4>4 DEF Abort
      <4>5. CASE (\E d \in Domains : SwitchPortal(d)) \/ Tick
                 \/ UNCHANGED vars
        BY <4>5 DEF SwitchPortal, Tick, vars
      <4> QED BY <4>1, <4>2, <4>3, <4>4, <4>5 DEF Next
    <3> QED BY <1>2, <3>1, PortalStep
  <2> QED BY <2>1, <2>2
<1> QED
  BY <1>1, <1>2, TypeCorrectness, PTL DEF Spec, PortalIsolation
=============================================================================
