-------------------------- MODULE RateLimits_proofs --------------------------
(***************************************************************************)
(* Proofs about RateLimits for any number of workers, clients, names and   *)
(* mailboxes and any windows and limits that keep ParameterAssumption:     *)
(* type correctness, FailureBound and HitBound.                            *)
(*                                                                         *)
(* Neither bound is inductive.  FailureBound needs the workers that have   *)
(* passed the check of a bucket and not yet registered (Pending): they and *)
(* the rows together stay below limit + workers.  Both need that the table *)
(* still holds every row of the history (no prune and no other limiter     *)
(* removes a row before its window is over).                               *)
(***************************************************************************)
EXTENDS RateLimits, FiniteSetTheorems, TLAPS

-----------------------------------------------------------------------------
(* The operators of SlidingWindow *)

(* A prune only removes rows. *)
LEMMA PruneShrinks ==
    ASSUME NEW rows, IsFiniteSet(rows), NEW window
    PROVE  /\ Prune(rows, window) \subseteq rows
           /\ IsFiniteSet(Prune(rows, window))
           /\ Cardinality(Prune(rows, window)) \in Nat
           /\ Cardinality(Prune(rows, window)) <= Cardinality(rows)
<1>1. Prune(rows, window) \in SUBSET rows
  BY DEF Prune
<1> QED
  BY <1>1, FS_Subset, FS_CardinalityType

(* The row an INSERT adds is a new one: among one slot more than there are *)
(* rows, some slot is free.                                                *)
LEMMA NewRowIsNew ==
    ASSUME NEW rows, IsFiniteSet(rows)
    PROVE  /\ NewRow(rows) \in Rows
           /\ NewRow(rows) \notin rows
           /\ NewRow(rows)[1] = 0
<1> DEFINE n == Cardinality(rows)
           slots == 0..n
<1>1. n \in Nat
  BY FS_CardinalityType
<1>2. \E slot \in slots : <<0, slot>> \notin rows
  <2> SUFFICES ASSUME \A slot \in slots : <<0, slot>> \in rows
               PROVE  FALSE
    OBVIOUS
  <2> DEFINE f == [slot \in slots |-> <<0, slot>>]
  <2>1. f \in Injection(slots, rows)
    BY DEF Injection, IsInjective
  <2>2. Cardinality(slots) <= n
    <3> HIDE DEF f, slots
    <3> QED BY <2>1, FS_Injection
  <2>3. Cardinality(slots) = n + 1
    BY <1>1, FS_Interval
  <2> QED
    BY <1>1, <2>2, <2>3
<1>3. PICK slot \in slots : NewRow(rows) = <<0, slot>> /\ <<0, slot>> \notin rows
  BY <1>2 DEF NewRow
<1> QED
  BY <1>1, <1>3, MaxAgeAssumption DEF Rows

(* Recording a row adds one. *)
LEMMA RecordGrows ==
    ASSUME NEW rows \in SUBSET Rows, IsFiniteSet(rows)
    PROVE  /\ Record(rows) \in SUBSET Rows
           /\ IsFiniteSet(Record(rows))
           /\ Cardinality(rows) \in Nat
           /\ Cardinality(Record(rows)) = Cardinality(rows) + 1
  BY NewRowIsNew, FS_AddElement, FS_CardinalityType DEF Record

(* Time passing adds no row. *)
LEMMA AllOlderShrinks ==
    ASSUME NEW rows \in SUBSET Rows, IsFiniteSet(rows)
    PROVE  /\ AllOlder(rows) \in SUBSET Rows
           /\ IsFiniteSet(AllOlder(rows))
           /\ Cardinality(AllOlder(rows)) \in Nat
           /\ Cardinality(AllOlder(rows)) <= Cardinality(rows)
<1>1. AllOlder(rows) \in SUBSET Rows
  BY MaxAgeAssumption DEF AllOlder, Older, Rows
<1> DEFINE f == [row \in rows |-> Older(row)]
<1>2. f \in Surjection(rows, AllOlder(rows))
  BY DEF Surjection, AllOlder
<1>3. IsFiniteSet(AllOlder(rows)) /\ Cardinality(AllOlder(rows)) <= Cardinality(rows)
  <2> HIDE DEF f
  <2> QED BY <1>2, FS_Surjection
<1> QED
  BY <1>1, <1>3, FS_CardinalityType

-----------------------------------------------------------------------------
(* The inductive invariant *)

\* The workers that passed the check of a login bucket and may still register
\* a failure in it.
PendingIp(c) ==
    {w \in Workers : req[w].at \in {"check_user", "verify"} /\ req[w].client = c}
PendingUser(n) ==
    {w \in Workers : req[w].at \in {"verify", "register_user"} /\ req[w].name = n}

\* rows of a login bucket, with the failures still to come
LoginBucketOK(key, limit, pending) ==
    /\ failed[key] \subseteq Prune(table[key], LoginWindow)
    /\ Cardinality(table[key]) + Cardinality(pending)
         <= limit - 1 + Cardinality(Workers)

IpBucketsOK   == \A c \in Clients :
                    LoginBucketOK(IpKey(c), LoginIpLimit, PendingIp(c))
UserBucketsOK == \A n \in Names \ {NoName} :
                    LoginBucketOK(UserKey(n), LoginUserLimit, PendingUser(n))
HitBucketsOK  == \A key \in MailboxKeys \cup ConfirmKeys :
                    /\ admitted[key] \subseteq Prune(table[key], ResetWindow)
                    /\ Cardinality(table[key]) <= HitLimit(key)

FiniteTable == \A key \in Keys : IsFiniteSet(table[key])

TypeInv == TypeOK /\ FiniteTable
IInv    == TypeInv /\ IpBucketsOK /\ UserBucketsOK /\ HitBucketsOK

-----------------------------------------------------------------------------
(* Type correctness *)

(* What a worker's record holds at each step of the login handler. *)
LEMMA RequestTypes ==
    ASSUME TypeOK, NEW w \in Workers
    PROVE  /\ req[w].at \in {"check_user", "register_user", "clear_user"}
                => req[w] \in NamedLogins
           /\ req[w].at = "verify" => req[w] \in Verifying
           /\ req[w].at = "hit_mailbox" => req[w] \in Resetting
  BY DEF TypeOK, Requests, Idle, NamedLogins, Verifying, Resetting

(* Every step keeps the types, and the table finite. *)
LEMMA TypeStep ==
    ASSUME TypeInv, [Next]_vars
    PROVE  TypeInv'
<1> USE DEF TypeInv, TypeOK, FiniteTable
<1>1. \A key \in Keys : /\ table[key] \in SUBSET Rows
                        /\ failed[key] \in SUBSET Rows
                        /\ admitted[key] \in SUBSET Rows
                        /\ IsFiniteSet(table[key])
  OBVIOUS
<1>2. ASSUME NEW key \in Keys, NEW window
      PROVE  LET rows == Prune(table[key], window)
             IN  /\ rows \in SUBSET Rows
                 /\ IsFiniteSet(rows)
                 /\ NewRow(rows) \in Rows
                 /\ Record(rows) \in SUBSET Rows
                 /\ IsFiniteSet(Record(rows))
  BY <1>1, PruneShrinks, NewRowIsNew, RecordGrows
<1>3. CASE Tick
  <2>1. \A key \in Keys : /\ AllOlder(table[key]) \in SUBSET Rows
                          /\ IsFiniteSet(AllOlder(table[key]))
    BY <1>1, AllOlderShrinks
  <2>2. ASSUME NEW rows \in SUBSET Rows, NEW window
        PROVE  Prune(AllOlder(rows), window) \in SUBSET Rows
    BY MaxAgeAssumption DEF Prune, AllOlder, Older, Rows
  <2> QED BY <1>1, <1>3, <2>1, <2>2 DEF Tick
<1>4. ASSUME NEW w \in Workers, LoginStep(w)
      PROVE  TypeInv'
  <2>1. ASSUME NEW c \in Clients, NEW n \in Names, LoginCheckIp(w, c, n)
        PROVE  TypeInv'
    <3>1. IpKey(c) \in Keys
      BY DEF Keys, LoginKeys, IpKeys
    <3>2. req' \in [Workers -> Requests]
      BY <2>1 DEF LoginCheckIp, Requests, NamedLogins, Verifying
    <3> QED BY <1>2, <2>1, <3>1, <3>2 DEF LoginCheckIp, IsBlocked
  <2>2. CASE LoginCheckUser(w)
    <3>1. req[w] \in NamedLogins
      BY <2>2, RequestTypes DEF LoginCheckUser
    <3>2. UserKey(req[w].name) \in Keys
      BY <3>1 DEF NamedLogins, Keys, LoginKeys, UserKeys
    <3>3. req' \in [Workers -> Requests]
      BY <2>2, <3>1 DEF LoginCheckUser, Go, Done, Requests, NamedLogins, Verifying
    <3> QED BY <1>2, <2>2, <3>2, <3>3 DEF LoginCheckUser, IsBlocked
  <2>3. CASE LoginSucceeds(w)
    <3>1. req[w] \in Verifying
      BY <2>3, RequestTypes DEF LoginSucceeds
    <3>2. req' \in [Workers -> Requests]
      BY <2>3, <3>1 DEF LoginSucceeds, StepOrDone, Go, Done, Requests, NamedLogins, Verifying
    <3>3. IsFiniteSet({})
      BY FS_EmptySet
    <3> QED BY <1>1, <2>3, <3>2, <3>3 DEF LoginSucceeds
  <2>4. CASE LoginClearUser(w)
    <3>1. req' \in [Workers -> Requests]
      BY <2>4 DEF LoginClearUser, Done, Requests
    <3>2. IsFiniteSet({})
      BY FS_EmptySet
    <3> QED BY <1>1, <2>4, <3>1, <3>2 DEF LoginClearUser
  <2>5. CASE LoginFails(w)
    <3>1. req[w] \in Verifying
      BY <2>5, RequestTypes DEF LoginFails
    <3>2. req' \in [Workers -> Requests]
      BY <2>5, <3>1 DEF LoginFails, StepOrDone, Go, Done, Requests, NamedLogins, Verifying
    <3>3. IpKey(req[w].client) \in Keys
      BY <3>1 DEF Verifying, Keys, LoginKeys, IpKeys
    <3> QED BY <1>1, <1>2, <2>5, <3>2, <3>3 DEF LoginFails, CountFailure, Register
  <2>6. CASE LoginRegisterUser(w)
    <3>1. req[w] \in NamedLogins
      BY <2>6, RequestTypes DEF LoginRegisterUser
    <3>2. req' \in [Workers -> Requests]
      BY <2>6 DEF LoginRegisterUser, Done, Requests
    <3>3. UserKey(req[w].name) \in Keys
      BY <3>1 DEF NamedLogins, Keys, LoginKeys, UserKeys
    <3> QED BY <1>1, <1>2, <2>6, <3>2, <3>3 DEF LoginRegisterUser, CountFailure, Register
  <2> QED BY <1>4, <2>1, <2>2, <2>3, <2>4, <2>5, <2>6 DEF LoginStep
<1>5. ASSUME NEW key \in Keys, NEW answer, TakeHit(key, answer)
      PROVE  /\ table' \in [Keys -> SUBSET Rows]
             /\ \A k \in Keys : IsFiniteSet(table'[k])
             /\ admitted' \in [Keys -> SUBSET Rows]
             /\ failed' \in [Keys -> SUBSET Rows]
  BY <1>1, <1>2, <1>5 DEF TakeHit, Hit
<1>6. ASSUME NEW w \in Workers, ResetStep(w)
      PROVE  TypeInv'
  <2>1. ASSUME NEW c \in Clients, NEW m \in Mailboxes, ResetHitIp(w, c, m)
        PROVE  TypeInv'
    <3>1. IpKey(c) \in Keys
      BY DEF Keys, LoginKeys, IpKeys
    <3>2. req' \in [Workers -> Requests]
      BY <2>1 DEF ResetHitIp, Requests, Resetting
    <3> QED BY <1>5, <2>1, <3>1, <3>2 DEF ResetHitIp
  <2>2. CASE ResetHitMailbox(w)
    <3>1. MailboxKey(req[w].mailbox) \in Keys
      BY <2>2, RequestTypes DEF ResetHitMailbox, Resetting, Keys, MailboxKeys
    <3>2. req' \in [Workers -> Requests]
      BY <2>2 DEF ResetHitMailbox, Done, Requests
    <3> QED BY <1>5, <2>2, <3>1, <3>2 DEF ResetHitMailbox
  <2>3. ASSUME NEW c \in Clients, ConfirmHit(w, c)
        PROVE  TypeInv'
    <3>1. ConfirmKey(c) \in Keys
      BY DEF Keys, ConfirmKeys
    <3> QED BY <1>5, <2>3, <3>1 DEF ConfirmHit
  <2> QED BY <1>6, <2>1, <2>2, <2>3 DEF ResetStep
<1>7. ASSUME NEW w \in Workers, Abort(w)
      PROVE  TypeInv'
  BY <1>7 DEF Abort, Done, Requests
<1>8. CASE UNCHANGED vars
  BY <1>8 DEF vars
<1> QED
  BY <1>3, <1>4, <1>6, <1>7, <1>8 DEF Next

-----------------------------------------------------------------------------
(* The history stays in the table *)

(* A prune by a window at least as long leaves the history in the rows. *)
LEMMA PruneKeeps ==
    ASSUME NEW rows, NEW hist, NEW window \in Nat, NEW longer \in Nat,
           window <= longer, rows \in SUBSET Rows,
           hist \subseteq Prune(rows, window)
    PROVE  hist \subseteq Prune(Prune(rows, longer), window)
  BY MaxAgeAssumption DEF Prune, Rows

(* So does the INSERT of a row, with or without that row in the history. *)
LEMMA RecordKeeps ==
    ASSUME NEW rows \in SUBSET Rows, IsFiniteSet(rows), NEW hist,
           NEW window \in Nat, hist \subseteq Prune(rows, window)
    PROVE  /\ hist \subseteq Prune(Record(rows), window)
           /\ hist \cup {NewRow(rows)} \subseteq Prune(Record(rows), window)
  BY NewRowIsNew DEF Prune, Record

(* And so does the passing of time. *)
LEMMA AllOlderKeeps ==
    ASSUME NEW rows, NEW hist, NEW window \in Nat,
           hist \subseteq Prune(rows, window)
    PROVE  Prune(AllOlder(hist), window) \subseteq Prune(AllOlder(rows), window)
  BY DEF Prune, AllOlder

-----------------------------------------------------------------------------
(* Every step keeps the bound of an ip bucket. *)
LEMMA IpStep ==
    ASSUME IInv, [Next]_vars
    PROVE  IpBucketsOK'
<1> SUFFICES ASSUME NEW c \in Clients
             PROVE  LoginBucketOK(IpKey(c), LoginIpLimit, PendingIp(c))'
  BY DEF IpBucketsOK
<1> DEFINE key == IpKey(c)
           P   == PendingIp(c)
           ROK == /\ failed[key] \subseteq Prune(table[key], LoginWindow)
                  /\ Cardinality(table[key]) + Cardinality(P)
                       <= LoginIpLimit - 1 + Cardinality(Workers)
<1> SUFFICES ROK'
  BY DEF LoginBucketOK
<1>0. /\ TypeInv /\ TypeOK /\ key \in Keys
      /\ table[key] \in SUBSET Rows /\ IsFiniteSet(table[key])
      /\ ROK
  BY DEF IInv, TypeInv, TypeOK, FiniteTable, IpBucketsOK, LoginBucketOK,
         Keys, LoginKeys, IpKeys
<1>1. /\ TypeInv'
      /\ table'[key] \in SUBSET Rows /\ IsFiniteSet(table'[key])
      /\ Cardinality(table[key]) \in Nat /\ Cardinality(table'[key]) \in Nat
  <2>1. TypeInv'
    BY <1>0, TypeStep
  <2> QED
    BY <1>0, <2>1, FS_CardinalityType DEF TypeInv, TypeOK, FiniteTable
<1>2. /\ P \in SUBSET Workers /\ P' \in SUBSET Workers
      /\ IsFiniteSet(P) /\ IsFiniteSet(P')
      /\ Cardinality(P) \in Nat /\ Cardinality(P') \in Nat
      /\ Cardinality(Workers) \in Nat
      /\ Cardinality(P') <= Cardinality(Workers)
  BY ParameterAssumption, FS_Subset, FS_CardinalityType DEF PendingIp
<1>3. \A w \in Workers : Cardinality(Workers \ {w}) = Cardinality(Workers) - 1
  BY ParameterAssumption, FS_RemoveElement
<1>4. ASSUME failed'[key] \subseteq Prune(table'[key], LoginWindow),
             Cardinality(table'[key]) <= Cardinality(table[key]),
             P' \subseteq P
      PROVE  ROK'
  <2>1. Cardinality(P') <= Cardinality(P)
    BY <1>2, <1>4, FS_Subset
  <2> QED BY <1>0, <1>1, <1>2, <1>4, <2>1, ParameterAssumption
<1>5. ASSUME table'[key] = table[key], failed'[key] = failed[key], P' \subseteq P
      PROVE  ROK'
  BY <1>0, <1>1, <1>4, <1>5
<1>6. LET pruned == Prune(table[key], LoginWindow)
      IN  /\ failed[key] \subseteq Prune(pruned, LoginWindow)
          /\ pruned \in SUBSET Rows /\ IsFiniteSet(pruned)
          /\ Cardinality(pruned) \in Nat
          /\ Cardinality(pruned) <= Cardinality(table[key])
  BY <1>0, PruneShrinks, PruneKeeps, ParameterAssumption
<1>7. CASE Tick
  <2>1. table'[key] = AllOlder(table[key])
        /\ failed'[key] = Prune(AllOlder(failed[key]), LoginWindow)
    BY <1>0, <1>7 DEF Tick
  <2>2. P' = P
    BY <1>7 DEF Tick, PendingIp
  <2> QED
    BY <1>0, <1>4, <2>1, <2>2, AllOlderShrinks, AllOlderKeeps, ParameterAssumption
<1>8. ASSUME NEW w \in Workers, LoginStep(w)
      PROVE  ROK'
  <2>1. ASSUME NEW d \in Clients, NEW n \in Names, LoginCheckIp(w, d, n)
        PROVE  ROK'
    <3>1. CASE d # c
      BY <1>0, <1>5, <2>1, <3>1 DEF LoginCheckIp, IpKey, PendingIp, TypeOK, Idle
    <3>2. CASE d = c
      <4>1. /\ table'[key] = Prune(table[key], LoginWindow)
            /\ failed'[key] = failed[key]
        BY <1>0, <2>1, <3>2 DEF LoginCheckIp, IsBlocked, TypeOK
      <4>2. CASE Reached(table[key], LoginWindow, LoginIpLimit)
        <5>1. P' \subseteq P
          BY <2>1, <3>2, <4>2 DEF LoginCheckIp, IsBlocked, PendingIp, TypeOK, Idle
        <5> QED BY <1>4, <1>6, <4>1, <5>1
      <4>3. CASE ~Reached(table[key], LoginWindow, LoginIpLimit)
        <5>1. Cardinality(table'[key]) <= LoginIpLimit - 1
          BY <1>1, <4>1, <4>3, ParameterAssumption DEF Reached
        <5> QED BY <1>1, <1>2, <1>6, <4>1, <5>1, ParameterAssumption
      <4> QED BY <4>2, <4>3
    <3> QED BY <3>1, <3>2
  <2>2. CASE LoginCheckUser(w)
    <3>1. req[w] \in NamedLogins
      BY <1>0, <2>2, RequestTypes DEF LoginCheckUser
    <3>2. P' \subseteq P
      BY <1>0, <2>2, <3>1
         DEF LoginCheckUser, PendingIp, TypeOK, NamedLogins, Idle, Go, Done
    <3> QED
      BY <1>0, <1>5, <2>2, <3>2 DEF LoginCheckUser, IpKey, UserKey, TypeOK
  <2>3. CASE LoginSucceeds(w)
    <3>1. P' \subseteq P
      BY <1>0, <2>3, RequestTypes
         DEF LoginSucceeds, StepOrDone, Go, Done, PendingIp, TypeOK, Idle, Verifying
    <3>2. CASE req[w].client = c
      <4>1. table'[key] = {} /\ failed'[key] = {}
        BY <1>0, <2>3, <3>2 DEF LoginSucceeds, TypeOK
      <4> QED BY <1>1, <1>4, <3>1, <4>1, FS_EmptySet
    <3>3. CASE req[w].client # c
      <4>1. table'[key] = table[key] /\ failed'[key] = failed[key]
        BY <1>0, <2>3, <3>3 DEF LoginSucceeds, TypeOK, IpKey
      <4> QED BY <1>5, <3>1, <4>1
    <3> QED BY <3>2, <3>3
  <2>4. CASE LoginClearUser(w)
    BY <1>0, <1>5, <2>4 DEF LoginClearUser, IpKey, UserKey, PendingIp, TypeOK, Idle, Done
  <2>5. CASE LoginFails(w)
    <3>1. w \notin P' /\ P' \subseteq P
      BY <1>0, <2>5, RequestTypes
         DEF LoginFails, StepOrDone, Go, Done, PendingIp, TypeOK, Idle, Verifying
    <3>2. CASE req[w].client = c
      <4>1. /\ table'[key] = Record(Prune(table[key], LoginWindow))
            /\ failed'[key] = failed[key] \cup {NewRow(Prune(table[key], LoginWindow))}
        BY <1>0, <2>5, <3>2 DEF LoginFails, CountFailure, Register, TypeOK
      <4>2. failed'[key] \subseteq Prune(table'[key], LoginWindow)
        BY <1>6, <4>1, RecordKeeps, ParameterAssumption
      <4>3. Cardinality(table'[key]) <= Cardinality(table[key]) + 1
        BY <1>1, <1>6, <4>1, RecordGrows
      <4>4. Cardinality(P') <= Cardinality(P) - 1
        <5>1. w \in P
          BY <2>5, <3>2 DEF LoginFails, PendingIp
        <5>2. P' \in SUBSET (P \ {w})
          BY <3>1
        <5>3. IsFiniteSet(P \ {w}) /\ Cardinality(P \ {w}) = Cardinality(P) - 1
          BY <1>2, <5>1, FS_RemoveElement
        <5>4. Cardinality(P') <= Cardinality(P \ {w})
          BY <5>2, <5>3, FS_Subset
        <5> QED BY <5>3, <5>4
      <4> QED BY <1>0, <1>1, <1>2, <4>2, <4>3, <4>4, ParameterAssumption
    <3>3. CASE req[w].client # c
      <4>1. table'[key] = table[key] /\ failed'[key] = failed[key]
        BY <1>0, <2>5, <3>3 DEF LoginFails, CountFailure, TypeOK, IpKey
      <4> QED BY <1>5, <3>1, <4>1
    <3> QED BY <3>2, <3>3
  <2>6. CASE LoginRegisterUser(w)
    BY <1>0, <1>5, <2>6
       DEF LoginRegisterUser, CountFailure, IpKey, UserKey, PendingIp, TypeOK, Idle, Done
  <2> QED BY <1>8, <2>1, <2>2, <2>3, <2>4, <2>5, <2>6 DEF LoginStep
<1>9. ASSUME NEW w \in Workers, ResetStep(w)
      PROVE  ROK'
  <2>1. ASSUME NEW d \in Clients, NEW m \in Mailboxes, ResetHitIp(w, d, m)
        PROVE  ROK'
    <3>1. P' \subseteq P /\ w \notin P'
      BY <1>0, <2>1 DEF ResetHitIp, PendingIp, TypeOK, Idle
    <3>2. CASE d = c /\ ~Reached(table[key], ResetWindow, ResetIpLimit)
      <4> DEFINE pruned == Prune(table[key], ResetWindow)
      <4>1. /\ table'[key] = Record(pruned)
            /\ failed'[key] = failed[key]
        BY <1>0, <2>1, <3>2 DEF ResetHitIp, TakeHit, Hit, HitLimit, IpKey, TypeOK
      <4>2. /\ pruned \in SUBSET Rows /\ IsFiniteSet(pruned)
            /\ Cardinality(pruned) \in Nat
            /\ failed[key] \subseteq Prune(pruned, LoginWindow)
        BY <1>0, PruneShrinks, PruneKeeps, ParameterAssumption
      <4>3. failed'[key] \subseteq Prune(table'[key], LoginWindow)
        BY <4>1, <4>2, RecordKeeps, ParameterAssumption
      <4>4. Cardinality(table'[key]) <= ResetIpLimit
        BY <3>2, <4>1, <4>2, RecordGrows, ParameterAssumption DEF Reached
      <4>5. Cardinality(P') <= Cardinality(Workers) - 1
        <5>1. P' \in SUBSET (Workers \ {w})
          BY <1>2, <3>1
        <5>2. IsFiniteSet(Workers \ {w})
          BY ParameterAssumption, FS_RemoveElement
        <5>3. Cardinality(P') <= Cardinality(Workers \ {w})
          BY <5>1, <5>2, FS_Subset
        <5> QED BY <1>3, <5>3
      <4> QED BY <1>1, <1>2, <4>3, <4>4, <4>5, ParameterAssumption
    <3>3. CASE d # c \/ Reached(table[key], ResetWindow, ResetIpLimit)
      <4>1. table'[key] = table[key] /\ failed'[key] = failed[key]
        BY <1>0, <2>1, <3>3 DEF ResetHitIp, TakeHit, Hit, HitLimit, IpKey, TypeOK
      <4> QED BY <1>5, <3>1, <4>1
    <3> QED BY <3>2, <3>3
  <2>2. CASE ResetHitMailbox(w)
    BY <1>0, <1>5, <2>2
       DEF ResetHitMailbox, TakeHit, Done, IpKey, MailboxKey, PendingIp, TypeOK, Idle
  <2>3. ASSUME NEW d \in Clients, ConfirmHit(w, d)
        PROVE  ROK'
    BY <1>0, <1>5, <2>3 DEF ConfirmHit, TakeHit, IpKey, ConfirmKey, PendingIp, TypeOK
  <2> QED BY <1>9, <2>1, <2>2, <2>3 DEF ResetStep
<1>10. ASSUME NEW w \in Workers, Abort(w)
       PROVE  ROK'
  BY <1>0, <1>5, <1>10 DEF Abort, Done, PendingIp, TypeOK, Idle
<1>11. CASE UNCHANGED vars
  BY <1>5, <1>11 DEF vars, PendingIp
<1> QED
  BY <1>7, <1>8, <1>9, <1>10, <1>11 DEF Next

-----------------------------------------------------------------------------
(* Every step keeps the bound of a user bucket. *)
LEMMA UserStep ==
    ASSUME IInv, [Next]_vars
    PROVE  UserBucketsOK'
<1> SUFFICES ASSUME NEW n \in Names \ {NoName}
             PROVE  LoginBucketOK(UserKey(n), LoginUserLimit, PendingUser(n))'
  BY DEF UserBucketsOK
<1> DEFINE key == UserKey(n)
           P   == PendingUser(n)
           ROK == /\ failed[key] \subseteq Prune(table[key], LoginWindow)
                  /\ Cardinality(table[key]) + Cardinality(P)
                       <= LoginUserLimit - 1 + Cardinality(Workers)
<1> SUFFICES ROK'
  BY DEF LoginBucketOK
<1>0. /\ TypeInv /\ TypeOK /\ key \in Keys
      /\ table[key] \in SUBSET Rows /\ IsFiniteSet(table[key])
      /\ ROK
  BY DEF IInv, TypeInv, TypeOK, FiniteTable, UserBucketsOK, LoginBucketOK,
         Keys, LoginKeys, UserKeys
<1>1. /\ TypeInv'
      /\ table'[key] \in SUBSET Rows /\ IsFiniteSet(table'[key])
      /\ Cardinality(table[key]) \in Nat /\ Cardinality(table'[key]) \in Nat
  <2>1. TypeInv'
    BY <1>0, TypeStep
  <2> QED
    BY <1>0, <2>1, FS_CardinalityType DEF TypeInv, TypeOK, FiniteTable
<1>2. /\ P \in SUBSET Workers /\ P' \in SUBSET Workers
      /\ IsFiniteSet(P) /\ IsFiniteSet(P')
      /\ Cardinality(P) \in Nat /\ Cardinality(P') \in Nat
      /\ Cardinality(Workers) \in Nat
      /\ Cardinality(P') <= Cardinality(Workers)
  BY ParameterAssumption, FS_Subset, FS_CardinalityType DEF PendingUser
<1>4. ASSUME failed'[key] \subseteq Prune(table'[key], LoginWindow),
             Cardinality(table'[key]) <= Cardinality(table[key]),
             P' \subseteq P
      PROVE  ROK'
  <2>1. Cardinality(P') <= Cardinality(P)
    BY <1>2, <1>4, FS_Subset
  <2> QED BY <1>0, <1>1, <1>2, <1>4, <2>1, ParameterAssumption
<1>5. ASSUME table'[key] = table[key], failed'[key] = failed[key], P' \subseteq P
      PROVE  ROK'
  BY <1>0, <1>1, <1>4, <1>5
<1>6. LET pruned == Prune(table[key], LoginWindow)
      IN  /\ failed[key] \subseteq Prune(pruned, LoginWindow)
          /\ pruned \in SUBSET Rows /\ IsFiniteSet(pruned)
          /\ Cardinality(pruned) \in Nat
          /\ Cardinality(pruned) <= Cardinality(table[key])
  BY <1>0, PruneShrinks, PruneKeeps, ParameterAssumption
<1>7. CASE Tick
  <2>1. table'[key] = AllOlder(table[key])
        /\ failed'[key] = Prune(AllOlder(failed[key]), LoginWindow)
    BY <1>0, <1>7 DEF Tick
  <2>2. P' = P
    BY <1>7 DEF Tick, PendingUser
  <2> QED
    BY <1>0, <1>4, <2>1, <2>2, AllOlderShrinks, AllOlderKeeps, ParameterAssumption
<1>8. ASSUME NEW w \in Workers, LoginStep(w)
      PROVE  ROK'
  <2>1. ASSUME NEW d \in Clients, NEW m \in Names, LoginCheckIp(w, d, m)
        PROVE  ROK'
    <3>1. P' \subseteq P
      BY <1>0, <2>1 DEF LoginCheckIp, PendingUser, TypeOK, Idle
    <3> QED
      BY <1>0, <1>5, <2>1, <3>1 DEF LoginCheckIp, IpKey, UserKey, TypeOK
  <2>2. CASE LoginCheckUser(w)
    <3>1. req[w] \in NamedLogins
      BY <1>0, <2>2, RequestTypes DEF LoginCheckUser
    <3>2. CASE req[w].name # n
      <4>1. P' \subseteq P
        BY <1>0, <2>2, <3>1, <3>2
           DEF LoginCheckUser, PendingUser, TypeOK, NamedLogins, Idle, Go, Done
      <4> QED
        BY <1>0, <1>5, <2>2, <3>2, <4>1 DEF LoginCheckUser, UserKey, TypeOK
    <3>3. CASE req[w].name = n
      <4>1. /\ table'[key] = Prune(table[key], LoginWindow)
            /\ failed'[key] = failed[key]
        BY <1>0, <2>2, <3>3 DEF LoginCheckUser, IsBlocked, TypeOK
      <4>2. CASE Reached(table[key], LoginWindow, LoginUserLimit)
        <5>1. P' \subseteq P
          BY <1>0, <2>2, <3>3, <4>2
             DEF LoginCheckUser, IsBlocked, PendingUser, TypeOK, Idle, Done
        <5> QED BY <1>4, <1>6, <4>1, <5>1
      <4>3. CASE ~Reached(table[key], LoginWindow, LoginUserLimit)
        <5>1. Cardinality(table'[key]) <= LoginUserLimit - 1
          BY <1>1, <4>1, <4>3, ParameterAssumption DEF Reached
        <5> QED BY <1>1, <1>2, <1>6, <4>1, <5>1, ParameterAssumption
      <4> QED BY <4>2, <4>3
    <3> QED BY <3>2, <3>3
  <2>3. CASE LoginSucceeds(w)
    <3>1. P' \subseteq P
      BY <1>0, <2>3, RequestTypes
         DEF LoginSucceeds, StepOrDone, Go, Done, PendingUser, TypeOK, Idle, Verifying
    <3> QED
      BY <1>0, <1>5, <2>3, <3>1 DEF LoginSucceeds, IpKey, UserKey, TypeOK
  <2>4. CASE LoginClearUser(w)
    <3>1. P' \subseteq P
      BY <1>0, <2>4 DEF LoginClearUser, PendingUser, TypeOK, Idle, Done
    <3>2. CASE req[w].name = n
      <4>1. table'[key] = {} /\ failed'[key] = {}
        BY <1>0, <2>4, <3>2 DEF LoginClearUser, TypeOK
      <4> QED BY <1>1, <1>4, <3>1, <4>1, FS_EmptySet
    <3>3. CASE req[w].name # n
      BY <1>0, <1>5, <2>4, <3>1, <3>3 DEF LoginClearUser, TypeOK, UserKey
    <3> QED BY <3>2, <3>3
  <2>5. CASE LoginFails(w)
    <3>1. P' \subseteq P
      BY <1>0, <2>5, RequestTypes
         DEF LoginFails, StepOrDone, Go, Done, PendingUser, TypeOK, Idle, Verifying
    <3> QED
      BY <1>0, <1>5, <2>5, <3>1 DEF LoginFails, CountFailure, IpKey, UserKey, TypeOK
  <2>6. CASE LoginRegisterUser(w)
    <3>1. w \notin P' /\ P' \subseteq P
      BY <1>0, <2>6 DEF LoginRegisterUser, Done, PendingUser, TypeOK, Idle
    <3>2. CASE req[w].name = n
      <4>1. /\ table'[key] = Record(Prune(table[key], LoginWindow))
            /\ failed'[key] = failed[key] \cup {NewRow(Prune(table[key], LoginWindow))}
        BY <1>0, <2>6, <3>2 DEF LoginRegisterUser, CountFailure, Register, TypeOK
      <4>2. failed'[key] \subseteq Prune(table'[key], LoginWindow)
        BY <1>6, <4>1, RecordKeeps, ParameterAssumption
      <4>3. Cardinality(table'[key]) <= Cardinality(table[key]) + 1
        BY <1>1, <1>6, <4>1, RecordGrows
      <4>4. Cardinality(P') <= Cardinality(P) - 1
        <5>1. w \in P
          BY <2>6, <3>2 DEF LoginRegisterUser, PendingUser
        <5>2. P' \in SUBSET (P \ {w})
          BY <3>1
        <5>3. IsFiniteSet(P \ {w}) /\ Cardinality(P \ {w}) = Cardinality(P) - 1
          BY <1>2, <5>1, FS_RemoveElement
        <5>4. Cardinality(P') <= Cardinality(P \ {w})
          BY <5>2, <5>3, FS_Subset
        <5> QED BY <5>3, <5>4
      <4> QED BY <1>0, <1>1, <1>2, <4>2, <4>3, <4>4, ParameterAssumption
    <3>3. CASE req[w].name # n
      BY <1>0, <1>5, <2>6, <3>1, <3>3
         DEF LoginRegisterUser, CountFailure, TypeOK, UserKey
    <3> QED BY <3>2, <3>3
  <2> QED BY <1>8, <2>1, <2>2, <2>3, <2>4, <2>5, <2>6 DEF LoginStep
<1>9. ASSUME NEW w \in Workers, ResetStep(w)
      PROVE  ROK'
  <2>1. ASSUME NEW d \in Clients, NEW m \in Mailboxes, ResetHitIp(w, d, m)
        PROVE  ROK'
    <3>1. P' \subseteq P
      BY <1>0, <2>1 DEF ResetHitIp, PendingUser, TypeOK, Idle
    <3> QED
      BY <1>0, <1>5, <2>1, <3>1 DEF ResetHitIp, TakeHit, IpKey, UserKey, TypeOK
  <2>2. CASE ResetHitMailbox(w)
    BY <1>0, <1>5, <2>2
       DEF ResetHitMailbox, TakeHit, Done, UserKey, MailboxKey, PendingUser, TypeOK, Idle
  <2>3. ASSUME NEW d \in Clients, ConfirmHit(w, d)
        PROVE  ROK'
    BY <1>0, <1>5, <2>3 DEF ConfirmHit, TakeHit, UserKey, ConfirmKey, PendingUser, TypeOK
  <2> QED BY <1>9, <2>1, <2>2, <2>3 DEF ResetStep
<1>10. ASSUME NEW w \in Workers, Abort(w)
       PROVE  ROK'
  BY <1>0, <1>5, <1>10 DEF Abort, Done, PendingUser, TypeOK, Idle
<1>11. CASE UNCHANGED vars
  BY <1>5, <1>11 DEF vars, PendingUser
<1> QED
  BY <1>7, <1>8, <1>9, <1>10, <1>11 DEF Next

-----------------------------------------------------------------------------
(* Every step keeps the buckets only the reset handlers use. *)
LEMMA HitStep ==
    ASSUME IInv, [Next]_vars
    PROVE  HitBucketsOK'
<1> SUFFICES ASSUME NEW key \in MailboxKeys \cup ConfirmKeys
             PROVE  /\ admitted'[key] \subseteq Prune(table'[key], ResetWindow)
                    /\ Cardinality(table'[key]) <= HitLimit(key)
  BY DEF HitBucketsOK
<1>0. /\ TypeInv /\ TypeOK /\ key \in Keys
      /\ table[key] \in SUBSET Rows /\ IsFiniteSet(table[key])
      /\ Cardinality(table[key]) \in Nat
      /\ admitted[key] \subseteq Prune(table[key], ResetWindow)
      /\ Cardinality(table[key]) <= HitLimit(key)
      /\ HitLimit(key) \in Nat \ {0}
  BY FS_CardinalityType, ParameterAssumption
     DEF IInv, TypeInv, TypeOK, FiniteTable, HitBucketsOK, Keys, HitLimit
<1>1. \A c \in Clients, n \in Names : key # IpKey(c) /\ key # UserKey(n)
  BY DEF MailboxKeys, ConfirmKeys, MailboxKey, ConfirmKey, IpKey, UserKey
<1>2. CASE Tick
  <2>1. table'[key] = AllOlder(table[key])
        /\ admitted'[key] = Prune(AllOlder(admitted[key]), ResetWindow)
    BY <1>0, <1>2 DEF Tick
  <2> QED BY <1>0, <2>1, AllOlderShrinks, AllOlderKeeps, ParameterAssumption
<1>3. ASSUME table'[key] = table[key], admitted'[key] = admitted[key]
      PROVE  /\ admitted'[key] \subseteq Prune(table'[key], ResetWindow)
             /\ Cardinality(table'[key]) <= HitLimit(key)
  BY <1>0, <1>3
<1>4. ASSUME NEW w \in Workers, LoginStep(w)
      PROVE  table'[key] = table[key] /\ admitted'[key] = admitted[key]
  <2>1. ASSUME NEW c \in Clients, NEW n \in Names, LoginCheckIp(w, c, n)
        PROVE  table'[key] = table[key] /\ admitted'[key] = admitted[key]
    BY <1>0, <1>1, <2>1 DEF LoginCheckIp, TypeOK
  <2>2. CASE LoginCheckUser(w)
    BY <1>0, <1>1, <2>2, RequestTypes DEF LoginCheckUser, NamedLogins, TypeOK
  <2>3. CASE LoginSucceeds(w)
    BY <1>0, <1>1, <2>3, RequestTypes DEF LoginSucceeds, Verifying, TypeOK
  <2>4. CASE LoginClearUser(w)
    BY <1>0, <1>1, <2>4, RequestTypes DEF LoginClearUser, NamedLogins, TypeOK
  <2>5. CASE LoginFails(w)
    BY <1>0, <1>1, <2>5, RequestTypes DEF LoginFails, CountFailure, Verifying, TypeOK
  <2>6. CASE LoginRegisterUser(w)
    BY <1>0, <1>1, <2>6, RequestTypes
       DEF LoginRegisterUser, CountFailure, NamedLogins, TypeOK
  <2> QED BY <1>4, <2>1, <2>2, <2>3, <2>4, <2>5, <2>6 DEF LoginStep
<1>5. ASSUME NEW k \in Keys, NEW answer, TakeHit(k, answer)
      PROVE  /\ admitted'[key] \subseteq Prune(table'[key], ResetWindow)
             /\ Cardinality(table'[key]) <= HitLimit(key)
  <2>1. CASE k # key \/ Reached(table[key], ResetWindow, HitLimit(key))
    BY <1>0, <1>3, <1>5, <2>1 DEF TakeHit, Hit, TypeOK
  <2>2. CASE k = key /\ ~Reached(table[key], ResetWindow, HitLimit(key))
    <3> DEFINE pruned == Prune(table[key], ResetWindow)
    <3>1. /\ table'[key] = Record(pruned)
          /\ admitted'[key] = admitted[key] \cup {NewRow(pruned)}
      BY <1>0, <1>5, <2>2 DEF TakeHit, Hit, TypeOK
    <3>2. /\ pruned \in SUBSET Rows /\ IsFiniteSet(pruned)
          /\ Cardinality(pruned) \in Nat
          /\ admitted[key] \subseteq Prune(pruned, ResetWindow)
      BY <1>0, PruneShrinks, PruneKeeps, ParameterAssumption
    <3>3. Cardinality(pruned) < HitLimit(key)
      BY <1>0, <2>2, <3>2 DEF Reached
    <3>4. admitted'[key] \subseteq Prune(table'[key], ResetWindow)
      BY <3>1, <3>2, RecordKeeps, ParameterAssumption
    <3> QED BY <1>0, <3>1, <3>2, <3>3, <3>4, RecordGrows
  <2> QED BY <2>1, <2>2
<1>6. ASSUME NEW w \in Workers, ResetStep(w)
      PROVE  \E k \in Keys, answer \in BOOLEAN : TakeHit(k, answer)
  <2>1. ASSUME NEW c \in Clients, NEW m \in Mailboxes, ResetHitIp(w, c, m)
        PROVE  \E k \in Keys, answer \in BOOLEAN : TakeHit(k, answer)
    <3>1. IpKey(c) \in Keys
      BY DEF Keys, LoginKeys, IpKeys
    <3> QED BY <2>1, <3>1 DEF ResetHitIp
  <2>2. CASE ResetHitMailbox(w)
    <3>1. MailboxKey(req[w].mailbox) \in Keys
      BY <1>0, <2>2, RequestTypes DEF ResetHitMailbox, Resetting, Keys, MailboxKeys
    <3> QED BY <2>2, <3>1 DEF ResetHitMailbox
  <2>3. ASSUME NEW c \in Clients, ConfirmHit(w, c)
        PROVE  \E k \in Keys, answer \in BOOLEAN : TakeHit(k, answer)
    <3>1. ConfirmKey(c) \in Keys
      BY DEF Keys, ConfirmKeys
    <3> QED BY <2>3, <3>1 DEF ConfirmHit
  <2> QED BY <1>6, <2>1, <2>2, <2>3 DEF ResetStep
<1>7. ASSUME NEW w \in Workers, Abort(w)
      PROVE  table'[key] = table[key] /\ admitted'[key] = admitted[key]
  BY <1>7 DEF Abort
<1>8. CASE UNCHANGED vars
  BY <1>3, <1>8 DEF vars
<1> QED
  BY <1>2, <1>3, <1>4, <1>5, <1>6, <1>7, <1>8 DEF Next

-----------------------------------------------------------------------------
(* The theorems *)

(* The inductive invariant holds. *)
LEMMA Invariance == Spec => []IInv
<1>1. Init => IInv
  <2> SUFFICES ASSUME Init PROVE IInv
    OBVIOUS
  <2>1. \A key \in Keys : table[key] = {} /\ failed[key] = {} /\ admitted[key] = {}
    BY DEF Init
  <2>2. TypeInv
    BY <2>1, FS_EmptySet DEF Init, TypeInv, TypeOK, FiniteTable, Requests
  <2>3. ASSUME NEW key \in Keys, NEW P, P = {}, NEW limit \in Nat \ {0}
        PROVE  LoginBucketOK(key, limit, P)
    <3>1. Cardinality(Workers) \in Nat
      BY ParameterAssumption, FS_CardinalityType
    <3>2. failed[key] = {} /\ Cardinality(table[key]) = 0 /\ Cardinality(P) = 0
      BY <2>1, <2>3, FS_EmptySet
    <3>3. failed[key] \subseteq Prune(table[key], LoginWindow)
      BY <3>2
    <3>4. 0 + 0 <= limit - 1 + Cardinality(Workers)
      BY <3>1
    <3> QED
      BY <3>2, <3>3, <3>4 DEF LoginBucketOK
  <2>4. IpBucketsOK
    <3>1. \A c \in Clients : PendingIp(c) = {}
      BY DEF Init, Idle, PendingIp
    <3>2. \A c \in Clients : IpKey(c) \in Keys
      BY DEF Keys, LoginKeys, IpKeys
    <3> QED BY <2>3, <3>1, <3>2, ParameterAssumption DEF IpBucketsOK
  <2>5. UserBucketsOK
    <3>1. \A n \in Names : PendingUser(n) = {}
      BY DEF Init, Idle, PendingUser
    <3>2. \A n \in Names \ {NoName} : UserKey(n) \in Keys
      BY DEF Keys, LoginKeys, UserKeys
    <3> QED BY <2>3, <3>1, <3>2, ParameterAssumption DEF UserBucketsOK
  <2>6. HitBucketsOK
    BY <2>1, FS_EmptySet, ParameterAssumption DEF HitBucketsOK, HitLimit, Keys
  <2> QED BY <2>2, <2>4, <2>5, <2>6 DEF IInv
<1>2. IInv /\ [Next]_vars => IInv'
  BY TypeStep, IpStep, UserStep, HitStep DEF IInv
<1> QED
  BY <1>1, <1>2, PTL DEF Spec

(* The variables keep their types (the handlers and utils/rate_limit.py). *)
THEOREM TypeCorrectness == Spec => []TypeOK
<1>1. IInv => TypeOK
  BY DEF IInv, TypeInv
<1> QED
  BY <1>1, Invariance, PTL

(* For any number of workers the login handler overshoots its limits by at *)
(* most one failure per worker beyond the first (routes/auth_local.py).    *)
THEOREM FailureBoundHolds == Spec => []FailureBound
<1>1. IInv => FailureBound
  <2> SUFFICES ASSUME IInv, NEW key \in LoginKeys
               PROVE  Cardinality(failed[key])
                        <= LoginLimit(key) - 1 + Cardinality(Workers)
    BY DEF FailureBound
  <2>1. ASSUME NEW limit \in Nat, NEW P \in SUBSET Workers,
               LoginBucketOK(key, limit, P)
        PROVE  Cardinality(failed[key]) <= limit - 1 + Cardinality(Workers)
    <3>1. IsFiniteSet(table[key]) /\ failed[key] \in SUBSET table[key]
      BY <2>1 DEF IInv, TypeInv, FiniteTable, Keys, LoginBucketOK, Prune
    <3>2. /\ Cardinality(failed[key]) \in Nat /\ Cardinality(table[key]) \in Nat
          /\ Cardinality(failed[key]) <= Cardinality(table[key])
      BY <3>1, FS_Subset, FS_CardinalityType
    <3>3. Cardinality(P) \in Nat /\ Cardinality(Workers) \in Nat
      BY ParameterAssumption, FS_Subset, FS_CardinalityType
    <3> QED BY <2>1, <3>2, <3>3 DEF LoginBucketOK
  <2>2. CASE key \in IpKeys
    <3>1. PICK c \in Clients : key = IpKey(c)
      BY <2>2 DEF IpKeys
    <3>2. LoginBucketOK(key, LoginIpLimit, PendingIp(c))
      BY <3>1 DEF IInv, IpBucketsOK
    <3>3. LoginLimit(key) = LoginIpLimit /\ PendingIp(c) \in SUBSET Workers
      BY <3>1 DEF LoginLimit, IpKey, PendingIp
    <3> QED BY <2>1, <3>2, <3>3, ParameterAssumption
  <2>3. CASE key \in UserKeys
    <3>1. PICK n \in Names \ {NoName} : key = UserKey(n)
      BY <2>3 DEF UserKeys
    <3>2. LoginBucketOK(key, LoginUserLimit, PendingUser(n))
      BY <3>1 DEF IInv, UserBucketsOK
    <3>3. LoginLimit(key) = LoginUserLimit /\ PendingUser(n) \in SUBSET Workers
      BY <3>1 DEF LoginLimit, UserKey, PendingUser
    <3> QED BY <2>1, <3>2, <3>3, ParameterAssumption
  <2> QED BY <2>2, <2>3 DEF LoginKeys
<1> QED
  BY <1>1, Invariance, PTL

(* The mailbox and confirm buckets never admit more than their limit in a  *)
(* window, whatever the interleaving (routes/password_reset.py).           *)
THEOREM HitBoundHolds == Spec => []HitBound
<1>1. IInv => HitBound
  <2> SUFFICES ASSUME IInv, NEW key \in MailboxKeys \cup ConfirmKeys
               PROVE  Cardinality(admitted[key]) <= HitLimit(key)
    BY DEF HitBound
  <2>1. /\ IsFiniteSet(table[key]) /\ admitted[key] \in SUBSET table[key]
        /\ Cardinality(table[key]) <= HitLimit(key) /\ HitLimit(key) \in Nat
    BY ParameterAssumption
       DEF IInv, TypeInv, FiniteTable, Keys, HitBucketsOK, Prune, HitLimit
  <2> QED BY <2>1, FS_Subset, FS_CardinalityType
<1> QED
  BY <1>1, Invariance, PTL
=============================================================================
