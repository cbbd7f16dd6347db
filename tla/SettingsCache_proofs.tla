------------------------- MODULE SettingsCache_proofs -------------------------
(***************************************************************************)
(* Proofs about SettingsCache, for any workers of any number of threads:   *)
(* its types, that a save is applied in the worker that handled it but for *)
(* the keys that were being read meanwhile, and that the caches implement  *)
(* the abstract store.                                                     *)
(***************************************************************************)
EXTENDS SettingsCache, TLAPS

-----------------------------------------------------------------------------
(* Types *)

LEMMA MissingIsNoVersion == Missing \notin 0..MaxSaves
  BY CacheAssumption

LEMMA NothingType == Nothing \in Versions
  BY CacheAssumption DEF Nothing, Versions

LEMMA ClearedType ==
    ASSUME TypeOK, NEW w \in Workers
    PROVE  Cleared(w) \in [Workers -> [Keys -> (0..MaxSaves) \cup {Missing}]]
  BY DEF TypeOK, Cleared

\* An answer is a version or the default, and the versions reached stay ones.
LEMMA ReturnsType ==
    ASSUME TypeOK, NEW w \in Workers, NEW k \in Keys, NEW v \in 0..MaxSaves,
           Returns(w, k, v)
    PROVE  /\ reached' \in [Workers -> Versions]
           /\ answer' \in [by : Workers, key : Keys,
                            as : (0..MaxSaves) \cup {Default}]
  <1>5. reached' \in [Workers -> Versions]
    BY DEF Returns, Higher, TypeOK, Versions
  <1>6. answer' = [by |-> w, key |-> k, as |-> v]
    BY DEF Returns, Answered
  <1> QED
    BY <1>5, <1>6

LEMMA BecomeType ==
    ASSUME TypeOK, NEW t \in Threads, NEW job \in Jobs, Become(t, job)
    PROVE  thread' \in [Threads -> Jobs]
  BY DEF TypeOK, Become

\* The fields of a job at each of its steps.
LEMMA JobForm ==
    ASSUME TypeOK, NEW t \in Threads
    PROVE  /\ Mine(t) \in Workers
           /\ At(t, "select") => thread[t].key \in Keys
           /\ At(t, "fill") =>
                 thread[t].key \in Keys /\ thread[t].value \in 0..MaxSaves
           /\ At(t, "save") =>
                 /\ thread[t] \in [at : {"save"}, to : Versions, clears : 1..3]
                 /\ thread[t].to \in Versions /\ thread[t].clears \in 1..3
  <1>1. thread[t] \in Jobs
    BY DEF TypeOK
  <1>2. Mine(t) \in Workers
    BY CacheAssumption DEF Mine
  <1> QED
    BY <1>1, <1>2 DEF Jobs, At, Idle

\* What is in flight are keys.
LEMMA FlightType ==
    ASSUME TypeOK, NEW w, NEW threads \in SUBSET Threads
    PROVE  InFlight(w, threads) \in SUBSET Keys
  BY JobForm DEF InFlight

LEMMA ClearType ==
    ASSUME TypeOK, NEW w \in Workers, ClearCache(w)
    PROVE  /\ cache' \in [Workers -> [Keys -> (0..MaxSaves) \cup {Missing}]]
           /\ exposed' \in [Workers -> SUBSET Keys]
  <1>1. InFlight(w, Threads) \in SUBSET Keys
    BY FlightType
  <1> QED
    BY <1>1, ClearedType DEF ClearCache, TypeOK

LEMMA TypeInit == Init => TypeOK
  BY NothingType DEF Init, TypeOK, Jobs

LEMMA TypeStep == TypeOK /\ [Next]_vars => TypeOK'
  <1> SUFFICES ASSUME TypeOK, [Next]_vars
               PROVE  TypeOK'
    OBVIOUS
  <1> USE JobForm
  <1>0. Idle \in Jobs
    BY DEF Jobs
  <1>1. ASSUME NEW t \in Threads, NEW k \in Keys, ReadHit(t, k)
        PROVE  TypeOK'
    <2>1. cache[Mine(t)][k] \in 0..MaxSaves
      BY <1>1 DEF ReadHit, TypeOK
    <2>2. Returns(Mine(t), k, cache[Mine(t)][k])
      BY <1>1 DEF ReadHit
    <2> QED
      BY <1>1, <2>1, <2>2, ReturnsType DEF ReadHit, TypeOK
  <1>2. ASSUME NEW t \in Threads, NEW k \in Keys, ReadMiss(t, k)
        PROVE  TypeOK'
    <2>1. [at |-> "select", key |-> k] \in Jobs
      BY DEF Jobs
    <2>2. thread' \in [Threads -> Jobs]
      BY <1>2, <2>1, BecomeType DEF ReadMiss
    <2> QED
      BY <1>2, <2>2 DEF ReadMiss, TypeOK, history
  <1>3. ASSUME NEW t \in Threads, Select(t)
        PROVE  TypeOK'
    <2>1. thread[t].key \in Keys
      BY <1>3 DEF Select
    <2>2. stored[thread[t].key] \in 0..MaxSaves
      BY <2>1 DEF TypeOK, Versions
    <2>3. [at |-> "fill", key |-> thread[t].key, value |-> stored[thread[t].key]]
             \in Jobs
      BY <2>1, <2>2 DEF Jobs
    <2>4. thread' \in [Threads -> Jobs]
      BY <1>3, <2>3, BecomeType DEF Select
    <2> QED
      BY <1>3, <2>4 DEF Select, TypeOK, history
  <1>4. ASSUME NEW t \in Threads, SelectFails(t)
        PROVE  TypeOK'
    <2>1. thread' \in [Threads -> Jobs]
      BY <1>0, <1>4, BecomeType DEF SelectFails
    <2>2. answer' \in [by : Workers, key : Keys,
                       as : (0..MaxSaves) \cup {Default}]
      BY <1>4 DEF SelectFails, Answered
    <2> QED
      BY <1>4, <2>1, <2>2 DEF SelectFails, TypeOK
  <1>5. ASSUME NEW t \in Threads, Fill(t)
        PROVE  TypeOK'
    <2>1. thread[t].key \in Keys /\ thread[t].value \in 0..MaxSaves
      BY <1>5 DEF Fill
    <2>2. thread' \in [Threads -> Jobs]
      BY <1>0, <1>5, BecomeType DEF Fill
    <2>3. Returns(Mine(t), thread[t].key, thread[t].value)
      BY <1>5 DEF Fill
    <2>4. cache' \in [Workers -> [Keys -> (0..MaxSaves) \cup {Missing}]]
      BY <1>5, <2>1 DEF Fill, TypeOK
    <2>5. exposed' \in [Workers -> SUBSET Keys]
      BY <1>5, <2>1 DEF Fill, TypeOK
    <2>6. stored' = stored
      BY <1>5 DEF Fill
    <2> QED
      BY <2>1, <2>2, <2>3, <2>4, <2>5, <2>6, ReturnsType DEF TypeOK
  <1>6. ASSUME NEW t \in Threads, NEW saved \in Batches, Commit(t, saved)
        PROVE  TypeOK'
    <2> DEFINE to == [k \in Keys |-> IF k \in saved THEN stored[k] + 1 ELSE stored[k]]
               new == [k \in Keys |-> IF k \in saved THEN to[k] ELSE 0]
    <2>1. \A k \in Keys : stored[k] \in 0..MaxSaves
      BY DEF TypeOK, Versions
    <2>2. \A k \in saved : stored[k] < MaxSaves
      BY <1>6 DEF Commit
    <2>3. to \in Versions
      BY <2>1, <2>2, CacheAssumption DEF Versions
    <2>4. new \in Versions
      BY <2>3, CacheAssumption DEF Versions
    <2>5. PICK n \in Clears(saved) :
             Become(t, [at |-> "save", clears |-> n, to |-> new])
      BY <1>6 DEF Commit
    <2>6. n \in 1..3
      BY DEF Clears
    <2>7. [at |-> "save", clears |-> n, to |-> new] \in Jobs
      BY <2>4, <2>6 DEF Jobs
    <2>8. thread' \in [Threads -> Jobs]
      BY <2>5, <2>7, BecomeType
    <2>9. stored' = to
      BY <1>6 DEF Commit
    <2> QED
      BY <1>6, <2>3, <2>8, <2>9 DEF Commit, TypeOK, history
  <1>7. ASSUME NEW t \in Threads, Clear(t)
        PROVE  TypeOK'
    <2>1. thread[t] \in [at : {"save"}, to : Versions, clears : 1..3]
          /\ thread[t].clears > 1
      BY <1>7 DEF Clear
    <2>2. [thread[t] EXCEPT !.clears = @ - 1]
             \in [at : {"save"}, to : Versions, clears : 1..3]
      BY <2>1
    <2>3. [thread[t] EXCEPT !.clears = @ - 1] \in Jobs
      BY <2>2 DEF Jobs
    <2>4. thread' \in [Threads -> Jobs]
      BY <1>7, <2>3, BecomeType DEF Clear
    <2> QED
      BY <1>7, <2>4, ClearType DEF Clear, TypeOK
  <1>8. ASSUME NEW t \in Threads, Answer(t)
        PROVE  TypeOK'
    <2>1. thread[t].to \in Versions
      BY <1>8 DEF Answer
    <2>2. thread' \in [Threads -> Jobs]
      BY <1>0, <1>8, BecomeType DEF Answer
    <2> DEFINE new == [k \in Keys |-> Higher(reached[Mine(t)][k], thread[t].to[k])]
    <2>3. new \in Versions
      BY <2>1 DEF TypeOK, Versions, Higher
    <2>4. reached' = [reached EXCEPT ![Mine(t)] = new]
      BY <1>8 DEF Answer
    <2>5. reached' \in [Workers -> Versions]
      BY <2>3, <2>4 DEF TypeOK
    <2> QED
      BY <1>8, <2>2, <2>5, ClearType DEF Answer, TypeOK
  <1>9. ASSUME NEW t \in Threads, SaveFails(t)
        PROVE  TypeOK'
    <2>1. thread' \in [Threads -> Jobs]
      BY <1>0, <1>9, BecomeType DEF SaveFails
    <2> QED
      BY <1>9, <2>1 DEF SaveFails, TypeOK, history
  <1>10. ASSUME NEW w \in Workers, Restart(w)
         PROVE  TypeOK'
    BY <1>0, <1>10, ClearedType DEF Restart, TypeOK
  <1>11. CASE UNCHANGED vars
    BY <1>11 DEF vars, history, TypeOK
  <1> QED
    BY <1>1, <1>2, <1>3, <1>4, <1>5, <1>6, <1>7, <1>8, <1>9, <1>10, <1>11
       DEF Next, Steps

\* In any number of workers and threads the variables keep their types.
THEOREM TypeCorrectness == Spec => []TypeOK
  BY TypeInit, TypeStep, PTL DEF Spec

-----------------------------------------------------------------------------
(* What the caches hold *)

\* Nobody has, is about to have or is about to answer a version that was not
\* saved.
OnlySaved ==
    /\ \A w \in Workers, k \in Keys :
          /\ reached[w][k] <= stored[k]
          /\ cache[w][k] # Missing => cache[w][k] <= stored[k]
    /\ \A t \in Threads : At(t, "fill") => thread[t].value <= stored[thread[t].key]
    /\ \A t \in Threads : At(t, "save") =>
          \A k \in Keys : thread[t].to[k] <= stored[k]

\* What a thread is about to cache is no older than what its worker has reached
\* and what the cache holds, unless the worker's cache was cleared or filled
\* since the thread read it.
FillsForward ==
    \A t \in Threads : At(t, "fill") /\ thread[t].key \notin exposed[Mine(t)] =>
        /\ reached[Mine(t)][thread[t].key] <= thread[t].value
        /\ cache[Mine(t)][thread[t].key] # Missing =>
              cache[Mine(t)][thread[t].key] <= thread[t].value

IInv == TypeOK /\ OnlySaved /\ FillsForward /\ SavedIsApplied

LEMMA InvInit == Init => IInv
  <1> SUFFICES ASSUME Init
               PROVE  IInv
    OBVIOUS
  <1>1. TypeOK
    BY TypeInit
  <1>2. \A t \in Threads : thread[t].at = "idle"
    BY DEF Init, Idle
  <1>3. OnlySaved
    BY <1>2 DEF Init, OnlySaved, Nothing, At
  <1>4. FillsForward /\ SavedIsApplied
    BY <1>2 DEF Init, FillsForward, SavedIsApplied, At
  <1> QED
    BY <1>1, <1>3, <1>4 DEF IInv

\* The numbers the inequalities are about.
LEMMA Numbers ==
    ASSUME TypeOK
    PROVE  /\ \A k \in Keys : stored[k] \in Nat
           /\ \A w \in Workers, k \in Keys :
                 /\ reached[w][k] \in Nat
                 /\ cache[w][k] # Missing => cache[w][k] \in Nat
           /\ \A t \in Threads : At(t, "fill") => thread[t].value \in Nat
           /\ \A t \in Threads : At(t, "save") =>
                 \A k \in Keys : thread[t].to[k] \in Nat
  <1>1. 0..MaxSaves \subseteq Nat
    BY CacheAssumption
  <1>2. \A t \in Threads : At(t, "fill") => thread[t].value \in Nat
    BY <1>1, JobForm
  <1>3. \A t \in Threads : At(t, "save") => \A k \in Keys : thread[t].to[k] \in Nat
    BY <1>1, JobForm DEF Versions
  <1> QED
    BY <1>1, <1>2, <1>3 DEF TypeOK, Versions

\* A thread that goes on while the others keep their jobs.
LEMMA OthersKeep ==
    ASSUME TypeOK, NEW t \in Threads, NEW job, Become(t, job)
    PROVE  /\ thread'[t] = job
           /\ \A u \in Threads : u # t => thread'[u] = thread[u]
  BY DEF TypeOK, Become

\* What an answered read does to the versions reached.
LEMMA ReturnsReach ==
    ASSUME TypeOK, NEW w \in Workers, NEW k \in Keys, NEW v \in Nat,
           Returns(w, k, v)
    PROVE  /\ reached'[w][k] = Higher(reached[w][k], v)
           /\ \A x \in Workers, j \in Keys : x # w \/ j # k
                 => reached'[x][j] = reached[x][j]
  BY DEF TypeOK, Versions, Returns

\* A clear empties the worker's cache, and exposes what its threads hold.
LEMMA ClearFacts ==
    ASSUME TypeOK, NEW w \in Workers, ClearCache(w)
    PROVE  /\ \A k \in Keys : cache'[w][k] = Missing
           /\ \A x \in Workers : x # w =>
                 cache'[x] = cache[x] /\ exposed'[x] = exposed[x]
           /\ \A t \in Threads : Mine(t) = w /\ At(t, "fill") =>
                 thread[t].key \in exposed'[w]
  BY DEF TypeOK, ClearCache, Cleared, InFlight

\* Steps that change the jobs only, of threads that do not hold a value after
\* them, or save.
LEMMA JobsKeep ==
    ASSUME IInv, UNCHANGED <<stored, cache, reached, exposed>>,
           \A u \in Threads : thread'[u].at \in {"fill", "save"}
                                 => thread'[u] = thread[u]
    PROVE  OnlySaved' /\ FillsForward' /\ SavedIsApplied'
  <1>1. \A u \in Threads : At(u, "fill")' => At(u, "fill") /\ thread'[u] = thread[u]
    BY DEF At
  <1>2. \A u \in Threads : At(u, "save")' => At(u, "save") /\ thread'[u] = thread[u]
    BY DEF At
  <1>3. OnlySaved'
    BY <1>1, <1>2 DEF IInv, OnlySaved
  <1>4. FillsForward'
    BY <1>1 DEF IInv, FillsForward, Mine
  <1> QED
    BY <1>3, <1>4 DEF IInv, SavedIsApplied

LEMMA ReadHitStep ==
    ASSUME IInv, NEW t \in Threads, NEW k \in Keys, ReadHit(t, k)
    PROVE  OnlySaved' /\ FillsForward' /\ SavedIsApplied'
  <1> DEFINE w == Mine(t)
             v == cache[w][k]
  <1>0. TypeOK
    BY DEF IInv
  <1> USE <1>0, Numbers, JobForm
  <1>1. /\ UNCHANGED <<stored, cache, thread, exposed>> /\ v # Missing
        /\ Returns(w, k, v)
    BY DEF ReadHit
  <1>2. v \in Nat /\ reached[w][k] \in Nat
    BY <1>1
  <1>3. /\ reached'[w][k] = Higher(reached[w][k], v)
        /\ \A x \in Workers, j \in Keys : x # w \/ j # k
              => reached'[x][j] = reached[x][j]
    BY <1>1, <1>2, ReturnsReach
  <1>4. reached'[w][k] = reached[w][k] \/ reached'[w][k] = v
    BY <1>3 DEF Higher
  <1>5. OnlySaved'
    BY <1>1, <1>3, <1>4 DEF IInv, OnlySaved, At
  <1>6. FillsForward'
    <2> SUFFICES ASSUME NEW u \in Threads, At(u, "fill"),
                        thread[u].key \notin exposed[Mine(u)]
                 PROVE  reached'[Mine(u)][thread[u].key] <= thread[u].value
      BY <1>1 DEF IInv, FillsForward, At, Mine
    <2>1. /\ reached[Mine(u)][thread[u].key] <= thread[u].value
          /\ cache[Mine(u)][thread[u].key] # Missing =>
                cache[Mine(u)][thread[u].key] <= thread[u].value
      BY DEF IInv, FillsForward
    <2> QED
      BY <1>1, <1>3, <1>4, <2>1
  <1>7. SavedIsApplied'
    BY <1>1, <1>2, <1>3, <1>4 DEF IInv, SavedIsApplied
  <1> QED
    BY <1>5, <1>6, <1>7

LEMMA SelectStep ==
    ASSUME IInv, NEW t \in Threads, Select(t)
    PROVE  OnlySaved' /\ FillsForward' /\ SavedIsApplied'
  <1> DEFINE k == thread[t].key
  <1>0. TypeOK
    BY DEF IInv
  <1> USE <1>0, Numbers, JobForm
  <1>1. /\ UNCHANGED <<stored, cache, reached, exposed>> /\ k \in Keys
        /\ thread'[t] = [at |-> "fill", key |-> k, value |-> stored[k]]
        /\ \A u \in Threads : u # t => thread'[u] = thread[u]
    BY OthersKeep DEF Select, history
  <1>2. /\ thread'[t].at = "fill" /\ thread'[t].key = k
        /\ thread'[t].value = stored[k]
    BY <1>1
  <1>3. stored[k] <= stored[k]
    BY <1>1
  <1>4. OnlySaved'
    BY <1>1, <1>2, <1>3 DEF IInv, OnlySaved, At
  <1>5. FillsForward'
    BY <1>1, <1>2 DEF IInv, OnlySaved, FillsForward, At, Mine
  <1>6. SavedIsApplied'
    BY <1>1 DEF IInv, SavedIsApplied
  <1> QED
    BY <1>4, <1>5, <1>6

LEMMA FillStep ==
    ASSUME IInv, NEW t \in Threads, Fill(t)
    PROVE  OnlySaved' /\ FillsForward' /\ SavedIsApplied'
  <1> DEFINE w == Mine(t)
             k == thread[t].key
             v == thread[t].value
  <1>0. TypeOK
    BY DEF IInv
  <1> USE <1>0, Numbers, JobForm
  <1>1. /\ UNCHANGED stored /\ At(t, "fill") /\ Returns(w, k, v)
        /\ cache' = [cache EXCEPT ![w] = [@ EXCEPT ![k] = v]]
        /\ exposed' = [exposed EXCEPT
                          ![w] = @ \cup ({k} \cap InFlight(w, Threads \ {t}))]
        /\ thread'[t].at = "idle"
        /\ \A u \in Threads : u # t => thread'[u] = thread[u]
    BY OthersKeep DEF Fill, Idle
  <1>2. k \in Keys /\ v \in Nat /\ w \in Workers /\ reached[w][k] \in Nat
    BY <1>1
  <1>3. /\ reached'[w][k] = Higher(reached[w][k], v)
        /\ \A x \in Workers, j \in Keys : x # w \/ j # k
              => reached'[x][j] = reached[x][j]
    BY <1>1, <1>2, ReturnsReach
  <1>4. /\ cache'[w][k] = v
        /\ \A x \in Workers, j \in Keys : x # w \/ j # k
              => cache'[x][j] = cache[x][j]
    BY <1>1, <1>2 DEF TypeOK
  <1>5. reached'[w][k] = reached[w][k] \/ reached'[w][k] = v
    BY <1>3 DEF Higher
  <1>6. \A x \in Workers : exposed[x] \subseteq exposed'[x]
    BY <1>1 DEF TypeOK
  <1>7. \A u \in Threads : At(u, "fill")' =>
           u # t /\ At(u, "fill") /\ thread'[u] = thread[u]
    BY <1>1 DEF At
  <1>8. \A u \in Threads : At(u, "save")' =>
           u # t /\ At(u, "save") /\ thread'[u] = thread[u]
    BY <1>1 DEF At
  <1>9. OnlySaved'
    BY <1>1, <1>2, <1>3, <1>4, <1>5, <1>7, <1>8 DEF IInv, OnlySaved
  <1>10. FillsForward'
    <2> SUFFICES ASSUME NEW u \in Threads, At(u, "fill")',
                        thread'[u].key \notin exposed'[Mine(u)]
                 PROVE  /\ reached'[Mine(u)][thread[u].key] <= thread[u].value
                        /\ cache'[Mine(u)][thread[u].key] # Missing =>
                              cache'[Mine(u)][thread[u].key] <= thread[u].value
      BY <1>7 DEF FillsForward, Mine
    <2>1. u # t /\ At(u, "fill") /\ thread'[u] = thread[u]
      BY <1>7
    <2>2. Mine(u) \in Workers /\ thread[u].key \in Keys
      BY <2>1
    <2>3. ~(Mine(u) = w /\ thread[u].key = k)
      <3> SUFFICES ASSUME Mine(u) = w, thread[u].key = k
                   PROVE  FALSE
        OBVIOUS
      <3>1. k \in InFlight(w, Threads \ {t})
        BY <2>1 DEF InFlight
      <3>2. k \in exposed'[w]
        BY <1>1, <1>2, <3>1 DEF TypeOK
      <3> QED
        BY <2>1, <3>2
    <2>4. thread[u].key \notin exposed[Mine(u)]
      BY <1>6, <2>1, <2>2
    <2> QED
      BY <1>3, <1>4, <2>1, <2>2, <2>3, <2>4 DEF IInv, FillsForward
  <1>11. SavedIsApplied'
    <2> SUFFICES ASSUME NEW x \in Workers, NEW j \in Keys,
                        cache'[x][j] # Missing, cache'[x][j] < reached'[x][j],
                        j \notin exposed'[x]
                 PROVE  FALSE
      BY DEF SavedIsApplied
    <2>1. j \notin exposed[x]
      BY <1>6
    <2>2. CASE x = w /\ j = k
      <3>1. reached[w][k] <= v
        BY <1>1, <2>1, <2>2 DEF IInv, FillsForward
      <3> QED
        BY <1>2, <1>4, <1>5, <2>2, <3>1
    <2>3. CASE x # w \/ j # k
      BY <1>3, <1>4, <2>1, <2>3 DEF IInv, SavedIsApplied
    <2> QED
      BY <2>2, <2>3
  <1> QED
    BY <1>9, <1>10, <1>11

LEMMA CommitStep ==
    ASSUME IInv, NEW t \in Threads, NEW saved \in Batches, Commit(t, saved)
    PROVE  OnlySaved' /\ FillsForward' /\ SavedIsApplied'
  <1> DEFINE to == [k \in Keys |-> IF k \in saved THEN stored[k] + 1 ELSE stored[k]]
             new == [k \in Keys |-> IF k \in saved THEN to[k] ELSE 0]
  <1>0. TypeOK
    BY DEF IInv
  <1> USE <1>0, Numbers, JobForm
  <1>1. PICK n \in Clears(saved) :
           Become(t, [at |-> "save", clears |-> n, to |-> new])
    BY DEF Commit
  <1>2. /\ thread'[t] = [at |-> "save", clears |-> n, to |-> new]
        /\ \A u \in Threads : u # t => thread'[u] = thread[u]
    BY <1>1, OthersKeep
  <1>3. /\ UNCHANGED <<cache, reached, exposed>> /\ stored' = to
    BY DEF Commit, history
  <1>4. \A k \in Keys : stored[k] <= stored'[k] /\ stored'[k] \in Nat
    BY <1>3
  <1>5. \A k \in Keys : new[k] \in Nat /\ new[k] <= stored'[k]
    BY <1>3, <1>4
  <1>6. \A u \in Threads : At(u, "fill")' =>
           u # t /\ At(u, "fill") /\ thread'[u] = thread[u]
    BY <1>2 DEF At
  <1>7. \A w \in Workers, k \in Keys :
           /\ reached[w][k] <= stored'[k]
           /\ cache[w][k] # Missing => cache[w][k] <= stored'[k]
    <2> SUFFICES ASSUME NEW w \in Workers, NEW k \in Keys
                 PROVE  /\ reached[w][k] <= stored'[k]
                        /\ cache[w][k] # Missing => cache[w][k] <= stored'[k]
      OBVIOUS
    <2>1. /\ reached[w][k] <= stored[k]
          /\ cache[w][k] # Missing => cache[w][k] <= stored[k]
      BY DEF IInv, OnlySaved
    <2> QED
      BY <1>4, <2>1
  <1>8. \A u \in Threads : At(u, "fill") => thread[u].value <= stored'[thread[u].key]
    <2> SUFFICES ASSUME NEW u \in Threads, At(u, "fill")
                 PROVE  thread[u].value <= stored'[thread[u].key]
      OBVIOUS
    <2>1. thread[u].key \in Keys /\ thread[u].value <= stored[thread[u].key]
      BY DEF IInv, OnlySaved
    <2> QED
      BY <1>4, <2>1
  <1>9. \A u \in Threads : At(u, "save")' =>
           \A k \in Keys : thread'[u].to[k] <= stored'[k]
    <2> SUFFICES ASSUME NEW u \in Threads, At(u, "save")', NEW k \in Keys
                 PROVE  thread'[u].to[k] <= stored'[k]
      OBVIOUS
    <2>1. CASE u = t
      <3>1. thread'[t].to = new
        BY <1>2
      <3> QED
        BY <1>5, <2>1, <3>1
    <2>2. CASE u # t
      <3>1. At(u, "save") /\ thread'[u] = thread[u]
        BY <1>2, <2>2 DEF At
      <3>2. thread[u].to[k] \in Nat /\ thread[u].to[k] <= stored[k]
        BY <3>1 DEF IInv, OnlySaved
      <3> QED
        BY <1>4, <3>1, <3>2
    <2> QED
      BY <2>1, <2>2
  <1>10. OnlySaved'
    BY <1>3, <1>6, <1>7, <1>8, <1>9 DEF OnlySaved
  <1>11. FillsForward' /\ SavedIsApplied'
    BY <1>3, <1>6 DEF IInv, FillsForward, SavedIsApplied, Mine
  <1> QED
    BY <1>10, <1>11

\* A clear, with or without an answer.
LEMMA ClearStep ==
    ASSUME IInv, NEW t \in Threads, Clear(t) \/ Answer(t)
    PROVE  OnlySaved' /\ FillsForward' /\ SavedIsApplied'
  <1> DEFINE w == Mine(t)
             to == thread[t].to
  <1>0. TypeOK
    BY DEF IInv
  <1> USE <1>0, Numbers, JobForm
  <1>1. /\ UNCHANGED stored /\ At(t, "save") /\ ClearCache(w) /\ w \in Workers
        /\ \A u \in Threads : u # t => thread'[u] = thread[u]
    BY OthersKeep DEF Clear, Answer
  <1>2. \/ thread'[t].at = "idle"
        \/ thread'[t].at = "save" /\ thread'[t].to = to
    <2>1. CASE Clear(t)
      <3>1. thread[t] \in [at : {"save"}, to : Versions, clears : 1..3]
        BY <1>1
      <3>2. thread'[t] = [thread[t] EXCEPT !.clears = @ - 1]
        BY <2>1, OthersKeep DEF Clear
      <3> QED
        BY <3>1, <3>2
    <2>2. CASE Answer(t)
      BY <2>2, OthersKeep DEF Answer, Idle
    <2> QED
      BY <2>1, <2>2
  <1>3. /\ \A k \in Keys : cache'[w][k] = Missing
        /\ \A x \in Workers : x # w =>
              cache'[x] = cache[x] /\ exposed'[x] = exposed[x]
        /\ \A u \in Threads : Mine(u) = w /\ At(u, "fill") =>
              thread[u].key \in exposed'[w]
    BY <1>1, ClearFacts
  <1>4. \A x \in Workers : x # w => reached'[x] = reached[x]
    BY DEF Clear, Answer, TypeOK
  <1>5. \A k \in Keys : reached'[w][k] <= stored[k]
    <2> SUFFICES ASSUME NEW k \in Keys
                 PROVE  reached'[w][k] <= stored[k]
      OBVIOUS
    <2>1. reached[w][k] <= stored[k] /\ to[k] <= stored[k]
      BY <1>1 DEF IInv, OnlySaved
    <2>2. \/ reached'[w][k] = reached[w][k]
          \/ reached'[w][k] = Higher(reached[w][k], to[k])
      BY <1>1 DEF Clear, Answer, TypeOK
    <2> QED
      BY <2>1, <2>2 DEF Higher
  <1>6. \A u \in Threads : At(u, "fill")' =>
           u # t /\ At(u, "fill") /\ thread'[u] = thread[u]
    BY <1>1, <1>2 DEF At
  <1>7. \A u \in Threads : At(u, "save")' =>
           At(u, "save") /\ thread'[u].to = thread[u].to
    BY <1>1, <1>2 DEF At
  <1>8. OnlySaved'
    BY <1>1, <1>3, <1>4, <1>5, <1>6, <1>7 DEF IInv, OnlySaved
  <1>9. FillsForward'
    <2> SUFFICES ASSUME NEW u \in Threads, At(u, "fill")',
                        thread'[u].key \notin exposed'[Mine(u)]
                 PROVE  /\ reached'[Mine(u)][thread[u].key] <= thread[u].value
                        /\ cache'[Mine(u)][thread[u].key] # Missing =>
                              cache'[Mine(u)][thread[u].key] <= thread[u].value
      BY <1>6 DEF FillsForward, Mine
    <2>1. At(u, "fill") /\ thread'[u] = thread[u]
      BY <1>6
    <2>2. Mine(u) # w /\ Mine(u) \in Workers
      BY <1>3, <2>1
    <2> QED
      BY <1>3, <1>4, <2>1, <2>2 DEF IInv, FillsForward
  <1>10. SavedIsApplied'
    BY <1>3, <1>4 DEF IInv, SavedIsApplied
  <1> QED
    BY <1>8, <1>9, <1>10

LEMMA RestartStep ==
    ASSUME IInv, NEW w \in Workers, Restart(w)
    PROVE  OnlySaved' /\ FillsForward' /\ SavedIsApplied'
  <1>0. TypeOK
    BY DEF IInv
  <1>1. /\ UNCHANGED <<stored, reached>>
        /\ \A k \in Keys : cache'[w][k] = Missing
        /\ \A x \in Workers : x # w =>
              cache'[x] = cache[x] /\ exposed'[x] = exposed[x]
        /\ \A u \in Threads :
              \/ thread'[u].at = "idle"
              \/ Mine(u) # w /\ thread'[u] = thread[u]
    <2>1. /\ UNCHANGED <<stored, reached>> /\ cache' = Cleared(w)
          /\ exposed' = [exposed EXCEPT ![w] = {}]
          /\ thread' = [u \in Threads |-> IF Mine(u) = w THEN Idle ELSE thread[u]]
      BY DEF Restart
    <2>2. \A u \in Threads : IF Mine(u) = w THEN thread'[u] = Idle
                                            ELSE thread'[u] = thread[u]
      BY <2>1
    <2> QED
      BY <1>0, <2>1, <2>2 DEF Cleared, Idle, TypeOK
  <1>2. \A u \in Threads : At(u, "fill")' =>
           Mine(u) # w /\ At(u, "fill") /\ thread'[u] = thread[u]
    BY <1>1 DEF At
  <1>3. \A u \in Threads : At(u, "save")' => At(u, "save") /\ thread'[u] = thread[u]
    BY <1>1 DEF At
  <1>4. OnlySaved'
    BY <1>0, <1>1, <1>2, <1>3 DEF IInv, OnlySaved
  <1>5. FillsForward'
    BY <1>0, <1>1, <1>2, JobForm DEF IInv, FillsForward, Mine
  <1>6. SavedIsApplied'
    BY <1>1 DEF IInv, SavedIsApplied
  <1> QED
    BY <1>4, <1>5, <1>6

LEMMA InvStep == IInv /\ [Next]_vars => IInv'
  <1> SUFFICES ASSUME IInv, [Next]_vars
               PROVE  OnlySaved' /\ FillsForward' /\ SavedIsApplied'
    BY TypeStep DEF IInv
  <1>0. TypeOK
    BY DEF IInv
  <1>1. ASSUME NEW t \in Threads, Steps(t)
        PROVE  OnlySaved' /\ FillsForward' /\ SavedIsApplied'
    <2>1. ASSUME NEW k \in Keys, ReadMiss(t, k)
          PROVE  OnlySaved' /\ FillsForward' /\ SavedIsApplied'
      <3>1. \A u \in Threads : thread'[u].at \in {"fill", "save"}
                                  => thread'[u] = thread[u]
        BY <1>0, <2>1, OthersKeep DEF ReadMiss
      <3> QED
        BY <2>1, <3>1, JobsKeep DEF ReadMiss, history
    <2>2. ASSUME SelectFails(t) \/ SaveFails(t)
          PROVE  OnlySaved' /\ FillsForward' /\ SavedIsApplied'
      <3>1. \A u \in Threads : thread'[u].at \in {"fill", "save"}
                                  => thread'[u] = thread[u]
        BY <1>0, <2>2, OthersKeep DEF SelectFails, SaveFails, Idle
      <3> QED
        BY <2>2, <3>1, JobsKeep DEF SelectFails, SaveFails, history
    <2> QED
      BY <1>1, <2>1, <2>2, ReadHitStep, SelectStep, FillStep, CommitStep, ClearStep
         DEF Steps
  <1>2. CASE UNCHANGED vars
    BY <1>2, JobsKeep DEF vars, history
  <1> QED
    BY <1>1, <1>2, RestartStep DEF Next

\* In workers of any number of threads, each cache is at or past every save its
\* worker has answered and every version it has returned, but for the keys that
\* were being read while the cache was cleared or filled.
THEOREM SavedIsAppliedHolds == Spec => []SavedIsApplied
  <1>1. Init => IInv
    BY InvInit
  <1>2. IInv /\ [Next]_vars => IInv'
    BY InvStep
  <1>3. IInv => SavedIsApplied
    BY DEF IInv
  <1> QED
    BY <1>1, <1>2, <1>3, PTL DEF Spec

-----------------------------------------------------------------------------
(* The abstract store *)

LEMMA StoreInit == Init => Store!Init
  BY DEF Init, Store!Init, Nothing, Store!Nothing, Promised, Reading, At, Idle

\* A key is not the mark of a thread that reads none.
LEMMA ReadingIsKey ==
    ASSUME TypeOK, NEW t \in Threads
    PROVE  /\ Reading[t] # Missing <=> At(t, "fill")
           /\ At(t, "fill") => Reading[t] = thread[t].key
  BY JobForm, CacheAssumption DEF Reading

\* What is in flight is what the store's threads read.
LEMMA FlightIsRead ==
    ASSUME TypeOK, NEW w \in Workers, NEW threads \in SUBSET Threads
    PROVE  InFlight(w, threads) = Store!BeingRead(w, threads)
  <1>1. \A t \in threads : /\ Reading[t] # Missing <=> At(t, "fill")
                           /\ At(t, "fill") => Reading[t] = thread[t].key
    BY ReadingIsKey
  <1> QED
    BY <1>1 DEF InFlight, Store!BeingRead, Mine

\* What a step of one thread does to the promises and the reads.
LEMMA PromiseOf ==
    ASSUME TypeOK, NEW t \in Threads, NEW job, Become(t, job)
    PROVE  /\ Promised' = [Promised EXCEPT ![t] =
                             IF job.at = "save" THEN job.to ELSE Nothing]
           /\ Reading' = [Reading EXCEPT ![t] =
                             IF job.at = "fill" THEN job.key ELSE Missing]
  <1>1. /\ thread'[t] = job
        /\ \A u \in Threads : u # t => thread'[u] = thread[u]
    BY OthersKeep
  <1> QED
    BY <1>1 DEF Promised, Reading, At, Nothing

\* A thread that neither saves nor reads, before and after a step.
LEMMA NoPromise ==
    ASSUME TypeOK, NEW t \in Threads, NEW job, Become(t, job),
           ~At(t, "save"), ~At(t, "fill"), job.at \notin {"save", "fill"}
    PROVE  Promised' = Promised /\ Reading' = Reading
  <1>1. Promised[t] = Nothing /\ Reading[t] = Missing
    BY DEF Promised, Reading
  <1>2. /\ Promised' = [Promised EXCEPT ![t] = Nothing]
        /\ Reading' = [Reading EXCEPT ![t] = Missing]
    BY PromiseOf
  <1> QED
    BY <1>1, <1>2 DEF Promised, Reading

\* A version that the worker may answer, in the terms of the store.
LEMMA AnswersVersion ==
    ASSUME TypeOK, NEW w \in Workers, NEW k \in Keys, NEW v \in Nat,
           Returns(w, k, v), v <= stored[k],
           reached[w][k] <= v \/ k \in exposed[w]
    PROVE  Store!Answers(w, k)
  <1>1. v \in 0..stored[k]
    BY Numbers
  <1>2. v >= reached[w][k] \/ k \in exposed[w]
    BY Numbers
  <1>3. Store!Higher(reached[w][k], v) = Higher(reached[w][k], v)
    BY DEF Store!Higher, Higher
  <1>4. /\ reached' = [reached EXCEPT
                         ![w] = [@ EXCEPT ![k] = Store!Higher(reached[w][k], v)]]
        /\ answer' = [by |-> w, key |-> k, as |-> v]
    BY <1>3 DEF Returns, Answered
  <1> QED
    BY <1>1, <1>2, <1>4 DEF Store!Answers

\* Every step of the caches is one of the store, or no step of it.
LEMMA StoreStep == IInv /\ [Next]_vars => [Store!Next]_Store!vars
  <1> DEFINE same == UNCHANGED <<stored, reached, Promised, Reading, exposed, answer>>
  <1> SUFFICES ASSUME IInv, [Next]_vars
               PROVE  Store!Next \/ same
    BY DEF Store!vars
  <1>0. TypeOK
    BY DEF IInv
  <1> USE <1>0, Numbers, JobForm
  <1>1. ASSUME NEW t \in Threads, NEW k \in Keys, ReadHit(t, k)
        PROVE  Store!Remembers(Mine(t), k)
    <2> DEFINE w == Mine(t)
               v == cache[w][k]
    <2>1. /\ UNCHANGED <<stored, cache, thread, exposed>> /\ v # Missing
          /\ Returns(w, k, v) /\ w \in Workers
      BY <1>1 DEF ReadHit
    <2>2. v \in Nat /\ v <= stored[k] /\ (reached[w][k] <= v \/ k \in exposed[w])
      BY <2>1 DEF IInv, OnlySaved, SavedIsApplied
    <2>3. Store!Answers(w, k)
      BY <2>1, <2>2, AnswersVersion
    <2>4. Promised' = Promised /\ Reading' = Reading
      BY <2>1 DEF Promised, Reading, At
    <2> QED
      BY <2>1, <2>3, <2>4 DEF Store!Remembers
  <1>2. ASSUME NEW t \in Threads, NEW k \in Keys, ReadMiss(t, k)
        PROVE  same
    <2>1. Promised' = Promised /\ Reading' = Reading
      BY <1>2, NoPromise DEF ReadMiss, At
    <2> QED
      BY <1>2, <2>1 DEF ReadMiss, history
  <1>3. ASSUME NEW t \in Threads, Select(t)
        PROVE  Store!StartRead(t, thread[t].key)
    <2>1. /\ Promised' = [Promised EXCEPT ![t] = Nothing]
          /\ Reading' = [Reading EXCEPT ![t] = thread[t].key]
      BY <1>3, PromiseOf DEF Select
    <2>2. Promised[t] = Nothing /\ Reading[t] = Missing
      BY <1>3 DEF Select, Promised, Reading, At
    <2>3. Promised' = Promised
      BY <2>1, <2>2 DEF Promised
    <2> QED
      BY <1>3, <2>1, <2>2, <2>3 DEF Select, history, Store!StartRead
  <1>4. ASSUME NEW t \in Threads, SelectFails(t)
        PROVE  Store!FallBack(Mine(t), thread[t].key)
    <2>1. Promised' = Promised /\ Reading' = Reading
      BY <1>4, NoPromise DEF SelectFails, At, Idle
    <2> QED
      BY <1>4, <2>1 DEF SelectFails, Answered, Store!FallBack
  <1>5. ASSUME NEW t \in Threads, Fill(t)
        PROVE  Store!EndRead(t)
    <2> DEFINE w == Mine(t)
               k == thread[t].key
               v == thread[t].value
    <2>1. /\ UNCHANGED stored /\ At(t, "fill") /\ Returns(w, k, v)
          /\ exposed' = [exposed EXCEPT
                            ![w] = @ \cup ({k} \cap InFlight(w, Threads \ {t}))]
          /\ Become(t, Idle)
      BY <1>5 DEF Fill
    <2>2. /\ k \in Keys /\ w \in Workers /\ v \in Nat /\ v <= stored[k]
          /\ reached[w][k] <= v \/ k \in exposed[w]
      BY <2>1 DEF IInv, OnlySaved, FillsForward
    <2>3. Store!Answers(w, k)
      BY <2>1, <2>2, AnswersVersion
    <2>4. Reading[t] = k /\ k # Missing
      BY <2>1, ReadingIsKey
    <2>5. /\ Promised' = [Promised EXCEPT ![t] = Nothing]
          /\ Reading' = [Reading EXCEPT ![t] = Missing]
      BY <2>1, PromiseOf DEF Idle
    <2>6. Promised[t] = Nothing
      BY <2>1 DEF Promised, At
    <2>7. Promised' = Promised
      BY <2>5, <2>6 DEF Promised
    <2>8. InFlight(w, Threads \ {t}) = Store!BeingRead(w, Threads \ {t})
      BY <2>2, FlightIsRead
    <2>9. w = WorkerOf[t]
      BY DEF Mine
    <2> QED
      BY <2>1, <2>3, <2>4, <2>5, <2>7, <2>8, <2>9 DEF Store!EndRead
  <1>6. ASSUME NEW t \in Threads, NEW saved \in Batches, Commit(t, saved)
        PROVE  Store!Save(t, saved)
    <2> DEFINE to == [k \in Keys |-> IF k \in saved THEN stored[k] + 1 ELSE stored[k]]
               new == [k \in Keys |-> IF k \in saved THEN to[k] ELSE 0]
    <2>1. PICK n \in Clears(saved) :
             Become(t, [at |-> "save", clears |-> n, to |-> new])
      BY <1>6 DEF Commit
    <2>2. /\ Promised' = [Promised EXCEPT ![t] = new]
          /\ Reading' = [Reading EXCEPT ![t] = Missing]
      BY <2>1, PromiseOf
    <2>3. new = [k \in Keys |-> IF k \in saved THEN stored[k] + 1 ELSE 0]
      OBVIOUS
    <2>4. Promised[t] = Store!Nothing /\ Reading[t] = Missing
      BY <1>6 DEF Commit, Promised, Reading, At, Nothing, Store!Nothing
    <2>5. Reading' = Reading
      BY <2>2, <2>4 DEF Reading
    <2>6. stored' = to /\ UNCHANGED <<reached, exposed, answer>>
      BY <1>6 DEF Commit, history
    <2> QED
      BY <2>2, <2>3, <2>4, <2>5, <2>6 DEF Store!Save
  <1>7. ASSUME NEW t \in Threads, Clear(t)
        PROVE  Store!Refresh(Mine(t))
    <2>1. thread[t] \in [at : {"save"}, to : Versions, clears : 1..3]
          /\ At(t, "save")
      BY <1>7 DEF Clear
    <2> DEFINE job == [thread[t] EXCEPT !.clears = @ - 1]
    <2>2. job.at = "save" /\ job.to = thread[t].to
      BY <2>1
    <2>3. /\ Promised' = [Promised EXCEPT ![t] = job.to]
          /\ Reading' = [Reading EXCEPT ![t] = Missing]
      BY <1>7, <2>2, PromiseOf DEF Clear
    <2>4. Promised[t] = thread[t].to /\ Reading[t] = Missing
      BY <2>1 DEF Promised, Reading, At
    <2>5. Promised' = Promised /\ Reading' = Reading
      BY <2>2, <2>3, <2>4 DEF Promised, Reading
    <2>6. InFlight(Mine(t), Threads) = Store!BeingRead(Mine(t), Threads)
      BY <2>1, FlightIsRead
    <2> QED
      BY <1>7, <2>5, <2>6 DEF Clear, ClearCache, Store!Refresh, Store!Refreshed
  <1>8. ASSUME NEW t \in Threads, Answer(t)
        PROVE  Store!Confirm(t)
    <2> DEFINE to == thread[t].to
               w == Mine(t)
    <2>1. /\ At(t, "save") /\ w \in Workers /\ ClearCache(w)
          /\ UNCHANGED <<stored, answer>>
      BY <1>8 DEF Answer
    <2>2. Promised[t] = to /\ Reading[t] = Missing
      BY <2>1 DEF Promised, Reading, At
    <2>3. /\ Promised' = [Promised EXCEPT ![t] = Store!Nothing]
          /\ Reading' = [Reading EXCEPT ![t] = Missing]
      BY <1>8, PromiseOf DEF Answer, Idle, Nothing, Store!Nothing
    <2>4. Reading' = Reading
      BY <2>2, <2>3 DEF Reading
    <2>5. reached' = [reached EXCEPT ![w] =
                        [k \in Keys |-> Higher(@[k], to[k])]]
      BY <1>8 DEF Answer
    <2>6. reached' = [reached EXCEPT ![w] =
                        [k \in Keys |-> Store!Higher(@[k], Promised[t][k])]]
      BY <2>2, <2>5 DEF Higher, Store!Higher
    <2>7. InFlight(w, Threads) = Store!BeingRead(w, Threads)
      BY <2>1, FlightIsRead
    <2>8. Store!Refreshed(w)
      BY <2>1, <2>7 DEF ClearCache, Store!Refreshed
    <2>9. w = WorkerOf[t]
      BY DEF Mine
    <2> QED
      BY <2>1, <2>3, <2>4, <2>6, <2>8, <2>9, Zenon DEF Store!Confirm
  <1>9. ASSUME NEW t \in Threads, SaveFails(t)
        PROVE  Store!Abandon(t)
    <2>1. /\ Promised' = [Promised EXCEPT ![t] = Store!Nothing]
          /\ Reading' = [Reading EXCEPT ![t] = Missing]
      BY <1>9, PromiseOf DEF SaveFails, Idle, Nothing, Store!Nothing
    <2>2. Reading[t] = Missing
      BY <1>9 DEF SaveFails, Reading, At
    <2>3. Reading' = Reading
      BY <2>1, <2>2 DEF Reading
    <2> QED
      BY <1>9, <2>1, <2>3 DEF SaveFails, history, Store!Abandon
  <1>10. ASSUME NEW w \in Workers, Restart(w)
         PROVE  Store!Restart(w)
    <2>1. thread' = [t \in Threads |-> IF Mine(t) = w THEN Idle ELSE thread[t]]
      BY <1>10 DEF Restart
    <2>2. /\ Promised' = [t \in Threads |->
                            IF Mine(t) = w THEN Nothing ELSE Promised[t]]
          /\ Reading' = [t \in Threads |->
                            IF Mine(t) = w THEN Missing ELSE Reading[t]]
      BY <2>1 DEF Promised, Reading, At, Idle
    <2> QED
      BY <1>10, <2>2 DEF Restart, Mine, Nothing, Store!Nothing, Store!Restart
  <1>11. CASE UNCHANGED vars
    BY <1>11 DEF vars, history, Promised, Reading, At
  <1>12. \A saved \in Batches : saved \in SUBSET Keys
    BY CacheAssumption DEF Batches
  <1>13. ASSUME NEW t \in Threads, Steps(t)
         PROVE  Store!Next \/ same
    <2>1. CASE \E k \in Keys : ReadHit(t, k) \/ ReadMiss(t, k)
      BY <2>1, <1>1, <1>2 DEF Store!Next
    <2>2. CASE Select(t)
      <3>1. thread[t].key \in Keys
        BY <2>2 DEF Select
      <3> QED
        BY <2>2, <3>1, <1>3 DEF Store!Next
    <2>3. CASE SelectFails(t)
      <3>1. thread[t].key \in Keys /\ Mine(t) \in Workers
        BY <2>3 DEF SelectFails
      <3> QED
        BY <2>3, <3>1, <1>4 DEF Store!Next
    <2>4. CASE Fill(t) \/ Answer(t) \/ SaveFails(t)
      BY <2>4, <1>5, <1>8, <1>9 DEF Store!Next
    <2>5. CASE \E saved \in Batches : Commit(t, saved)
      BY <2>5, <1>6, <1>12 DEF Store!Next
    <2>6. CASE Clear(t)
      BY <2>6, <1>7 DEF Store!Next
    <2> QED
      BY <1>13, <2>1, <2>2, <2>3, <2>4, <2>5, <2>6 DEF Steps
  <1>14. ASSUME NEW w \in Workers, Restart(w)
         PROVE  Store!Next
    BY <1>14, <1>10 DEF Store!Next
  <1> QED
    BY <1>11, <1>13, <1>14 DEF Next

\* The caches implement the abstract store: but for the keys that were being
\* read while the cache was cleared or filled, and for reads that fail, no
\* worker answers behind a version it has returned or a save it has answered.
THEOREM CachesImplementStore == Spec => StoreSpec
  <1>1. Init => IInv /\ Store!Init
    BY InvInit, StoreInit
  <1>2. IInv /\ [Next]_vars => IInv' /\ [Store!Next]_Store!vars
    BY InvStep, StoreStep
  <1> QED
    BY <1>1, <1>2, PTL DEF Spec, StoreSpec, Store!Spec
=============================================================================
