---------------------------- MODULE SettingsCache ----------------------------
(***************************************************************************)
(* The settings table and the workers' caches of it (models/db_settings.py,*)
(* the saves in routes/admin_settings.py and models/db_notifications.py).  *)
(* Each gunicorn worker has a dictionary that get_config_value fills, one  *)
(* key at a time, and that a save clears in its own worker only.           *)
(*                                                                         *)
(* A setting's value is the number of times it was saved; 0 stands for no  *)
(* row, which is cached too and read as the environment's default.  The    *)
(* threads of a worker, the one that serves requests, the monitors' and    *)
(* those that send notifications, share its cache without a lock.          *)
(***************************************************************************)
EXTENDS Naturals

CONSTANTS
    Workers,
    Threads,
    WorkerOf,    \* the worker each thread runs in
    Requests,    \* the threads that serve requests
    Keys,
    FormKeys,    \* SETTINGS_UI_KEYS: saved together; the others one by one
    Missing,     \* _MISSING: the key is not in the dictionary
    Default,     \* the answer of a read that failed: the environment's
    MaxSaves     \* bound on the saves of each key

ASSUME CacheAssumption ==
    /\ WorkerOf \in [Threads -> Workers]
    /\ FormKeys \subseteq Keys
    /\ Requests \subseteq Threads
    /\ Missing \notin Nat \cup Keys
    /\ Default \notin Nat
    /\ MaxSaves \in Nat

VARIABLES
    stored,     \* the settings table
    cache,      \* _settings_cache of each worker
    thread,     \* what each thread is doing
    \* history
    reached,    \* the highest version each worker returned or answered a save of
    exposed,    \* the keys whose cache entry may have been overtaken, by worker
    answer      \* the last answer of a read, of any worker

history == <<reached, exposed, answer>>
vars == <<stored, cache, thread, history>>

Versions == [Keys -> 0..MaxSaves]
Nothing  == [k \in Keys |-> 0]
Idle     == [at |-> "idle"]
Jobs ==
    {Idle}
    \cup [at : {"select"}, key : Keys]
    \cup [at : {"fill"}, key : Keys, value : 0..MaxSaves]
    \cup [at : {"save"}, to : Versions, clears : 1..3]

At(t, step) == thread[t].at = step
Mine(t) == WorkerOf[t]
Become(t, job) == thread' = [thread EXCEPT ![t] = job]
Higher(m, n) == IF m < n THEN n ELSE m

Answered(w, k, version) == answer' = [by |-> w, key |-> k, as |-> version]
Returns(w, k, version) ==
    /\ reached' = [reached EXCEPT
                      ![w] = [@ EXCEPT ![k] = Higher(reached[w][k], version)]]
    /\ Answered(w, k, version)

Init ==
    /\ stored = Nothing
    /\ cache = [w \in Workers |-> [k \in Keys |-> Missing]]
    /\ thread = [t \in Threads |-> Idle]
    /\ reached = [w \in Workers |-> Nothing]
    /\ exposed = [w \in Workers |-> {}]
    /\ answer = Missing

-----------------------------------------------------------------------------
(* get_config_value *)

ReadHit(t, k) ==
    /\ At(t, "idle")
    /\ cache[Mine(t)][k] # Missing
    /\ Returns(Mine(t), k, cache[Mine(t)][k])
    /\ UNCHANGED <<stored, cache, thread, exposed>>

ReadMiss(t, k) ==
    /\ At(t, "idle")
    /\ cache[Mine(t)][k] = Missing
    /\ Become(t, [at |-> "select", key |-> k])
    /\ UNCHANGED <<stored, cache, history>>

Select(t) ==
    /\ At(t, "select")
    /\ Become(t, [at |-> "fill", key |-> thread[t].key,
                  value |-> stored[thread[t].key]])
    /\ UNCHANGED <<stored, cache, history>>

\* The database cannot be read: the environment's default is returned, and
\* nothing is cached.
SelectFails(t) ==
    /\ At(t, "select")
    /\ Answered(Mine(t), thread[t].key, Default)
    /\ Become(t, Idle)
    /\ UNCHANGED <<stored, cache, reached, exposed>>

\* The keys of which a thread of w holds a value it has read and not cached yet.
InFlight(w, threads) ==
    {thread[t].key : t \in {u \in threads : Mine(u) = w /\ At(u, "fill")}}

\* Whatever the dictionary holds by now is overwritten.
Fill(t) ==
    LET w == Mine(t)
        k == thread[t].key
        value == thread[t].value
    IN  /\ At(t, "fill")
        /\ cache' = [cache EXCEPT ![w] = [@ EXCEPT ![k] = value]]
        /\ Returns(w, k, value)
        /\ exposed' = [exposed EXCEPT
                          ![w] = @ \cup ({k} \cap InFlight(w, Threads \ {t}))]
        /\ Become(t, Idle)
        /\ UNCHANGED stored

-----------------------------------------------------------------------------
(* Saves *)

\* The rows a save may write in its first transaction: those of the form, or
\* one of the records that models/db_notifications.py keeps.
Batches ==
    {saved \in SUBSET FormKeys : saved # {}} \cup {{k} : k \in Keys \ FormKeys}

\* How often the save will clear the cache: a form saves its legacy secrets
\* after its rows, and perhaps the password in between, each with a clear.
\* Mutant: a record saved without a clear.
ClearsForm(saved) == IF saved \subseteq FormKeys THEN {2, 3} ELSE {0}

Clears(saved) == IF saved \subseteq FormKeys THEN {2, 3} ELSE {1}

\* The monitors' threads save records only.
Commit(t, saved) ==
    LET to == [k \in Keys |-> IF k \in saved THEN stored[k] + 1 ELSE stored[k]]
    IN  /\ At(t, "idle")
        /\ saved \in Batches
        /\ saved \subseteq FormKeys => t \in Requests
        /\ \A k \in saved : stored[k] < MaxSaves
        /\ stored' = to
        /\ \E n \in Clears(saved) :
              Become(t, [at |-> "save", clears |-> n,
                         to |-> [k \in Keys |-> IF k \in saved THEN to[k] ELSE 0]])
        /\ UNCHANGED <<cache, history>>

\* Mutants of Cleared: the form's settings only; and the records only.
ClearedForm(w) ==
    [cache EXCEPT ![w] = [k \in Keys |-> IF k \in FormKeys THEN Missing ELSE @[k]]]
ClearedRecords(w) ==
    [cache EXCEPT ![w] = [k \in Keys |-> IF k \in FormKeys THEN @[k] ELSE Missing]]

Cleared(w) == [cache EXCEPT ![w] = [k \in Keys |-> Missing]]

ClearCache(w) ==
    /\ cache' = Cleared(w)
    /\ exposed' = [exposed EXCEPT ![w] = InFlight(w, Threads)]

\* All but the last invalidate_settings_cache of a save.
Clear(t) ==
    /\ At(t, "save")
    /\ thread[t].clears > 1
    /\ ClearCache(Mine(t))
    /\ Become(t, [thread[t] EXCEPT !.clears = @ - 1])
    /\ UNCHANGED <<stored, reached, answer>>

\* The last one, and the answer.
Answer(t) ==
    /\ At(t, "save")
    /\ thread[t].clears = 1
    /\ ClearCache(Mine(t))
    /\ reached' = [reached EXCEPT ![Mine(t)] =
                      [k \in Keys |-> Higher(@[k], thread[t].to[k])]]
    /\ Become(t, Idle)
    /\ UNCHANGED <<stored, answer>>

\* "Failed to save settings.": a later transaction of the form raises.
SaveFails(t) ==
    /\ At(t, "save")
    /\ \E k \in FormKeys : thread[t].to[k] # 0
    /\ Become(t, Idle)
    /\ UNCHANGED <<stored, cache, history>>

-----------------------------------------------------------------------------
\* gunicorn replaces the worker: a new process, with an empty dictionary.
Restart(w) ==
    /\ cache' = Cleared(w)
    /\ exposed' = [exposed EXCEPT ![w] = {}]
    /\ thread' = [t \in Threads |-> IF Mine(t) = w THEN Idle ELSE thread[t]]
    /\ UNCHANGED <<stored, reached, answer>>

Steps(t) ==
    \/ \E k \in Keys : ReadHit(t, k) \/ ReadMiss(t, k)
    \/ Select(t) \/ SelectFails(t) \/ Fill(t)
    \/ \E saved \in Batches : Commit(t, saved)
    \/ Clear(t) \/ Answer(t) \/ SaveFails(t)

Next ==
    \/ \E t \in Threads : Steps(t)
    \/ \E w \in Workers : Restart(w)

Spec == Init /\ [][Next]_vars

-----------------------------------------------------------------------------
(* Properties *)

\* The variables hold what the code can put there.
TypeOK ==
    /\ stored \in Versions
    /\ cache \in [Workers -> [Keys -> (0..MaxSaves) \cup {Missing}]]
    /\ thread \in [Threads -> Jobs]
    /\ reached \in [Workers -> Versions]
    /\ exposed \in [Workers -> SUBSET Keys]
    /\ answer \in {Missing} \cup [by : Workers, key : Keys,
                                  as : (0..MaxSaves) \cup {Default}]

\* "After saving, behaviour updates immediately in the worker that handled the
\* save": its cache then holds nothing older, nor goes back behind what it has
\* returned, except for a key that another of the worker's threads had read and
\* not cached yet at the clear, or when it was cached anew.
SavedIsApplied ==
    \A w \in Workers, k \in Keys :
        cache[w][k] # Missing /\ cache[w][k] < reached[w][k]
            => k \in exposed[w]

\* The save a thread has committed and not answered, and the key it is reading.
Promised == [t \in Threads |-> IF At(t, "save") THEN thread[t].to ELSE Nothing]
Reading  == [t \in Threads |-> IF At(t, "fill") THEN thread[t].key ELSE Missing]

\* Reads, fills, commits, clears, failed reads and saves and restarts together
\* behave as the abstract store: but for the keys it says, no worker answers
\* behind a version it has returned, or behind a save it has answered.
Store == INSTANCE SettingsStore WITH
    latest <- stored,
    floor <- reached,
    pending <- Promised,
    reads <- Reading,
    loose <- exposed,
    answer <- answer
StoreSpec == Store!Spec

=============================================================================
