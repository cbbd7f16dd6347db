---------------------------- MODULE SettingsStore ----------------------------
(***************************************************************************)
(* What a settings store promises its worker processes, whose threads read *)
(* and save at the same time: each process reads along the history of      *)
(* saves, never backwards, and reads its own saves once they are           *)
(* confirmed; it may lag behind the other processes' saves.  The promise   *)
(* is off for a key that was being read in the process while it was        *)
(* refreshed, until the next refresh, and for a read that fails.           *)
(***************************************************************************)
EXTENDS Naturals

CONSTANTS Workers, Threads, WorkerOf, Keys,
    Missing,    \* no read in progress; no answer yet
    Default     \* the answer of a read that failed

VARIABLES
    latest,     \* how often each key was saved: the version it has
    floor,      \* the version each worker has reached of each key
    pending,    \* the versions each thread committed and has not confirmed
    reads,      \* the key each thread is reading
    loose,      \* the keys each worker promises nothing of
    answer      \* the last answer of a read

vars == <<latest, floor, pending, reads, loose, answer>>

Nothing == [k \in Keys |-> 0]
Higher(m, n) == IF m < n THEN n ELSE m

Init ==
    /\ latest = Nothing
    /\ floor = [w \in Workers |-> Nothing]
    /\ pending = [t \in Threads |-> Nothing]
    /\ reads = [t \in Threads |-> Missing]
    /\ loose = [w \in Workers |-> {}]
    /\ answer = Missing

\* The keys that threads of w are reading.
BeingRead(w, threads) ==
    {reads[t] : t \in {u \in threads : WorkerOf[u] = w /\ reads[u] # Missing}}

Refreshed(w) == loose' = [loose EXCEPT ![w] = BeingRead(w, Threads)]

Save(t, saved) ==
    /\ pending[t] = Nothing
    /\ latest' = [k \in Keys |-> IF k \in saved THEN latest[k] + 1 ELSE latest[k]]
    /\ pending' = [pending EXCEPT ![t] =
                     [k \in Keys |-> IF k \in saved THEN latest[k] + 1 ELSE 0]]
    /\ UNCHANGED <<floor, reads, loose, answer>>

\* From here on the thread's worker is past the versions the thread saved.
Confirm(t) ==
    /\ floor' = [floor EXCEPT ![WorkerOf[t]] =
                   [k \in Keys |-> Higher(@[k], pending[t][k])]]
    /\ pending' = [pending EXCEPT ![t] = Nothing]
    /\ Refreshed(WorkerOf[t])
    /\ UNCHANGED <<latest, reads, answer>>

Refresh(w) == Refreshed(w) /\ UNCHANGED <<latest, floor, pending, reads, answer>>

\* The thread's save is answered with an error: it counts as saved, and
\* promises nothing.
Abandon(t) ==
    /\ pending' = [pending EXCEPT ![t] = Nothing]
    /\ UNCHANGED <<latest, floor, reads, loose, answer>>

\* The worker's threads leave their reads and saves without an answer.
Restart(w) ==
    /\ pending' = [t \in Threads |->
                      IF WorkerOf[t] = w THEN Nothing ELSE pending[t]]
    /\ reads' = [t \in Threads |-> IF WorkerOf[t] = w THEN Missing ELSE reads[t]]
    /\ loose' = [loose EXCEPT ![w] = {}]
    /\ UNCHANGED <<latest, floor, answer>>

Answers(w, k) ==
    \E version \in 0..latest[k] :
        /\ version >= floor[w][k] \/ k \in loose[w]
        /\ floor' = [floor EXCEPT
                        ![w] = [@ EXCEPT ![k] = Higher(floor[w][k], version)]]
        /\ answer' = [by |-> w, key |-> k, as |-> version]

Remembers(w, k) == Answers(w, k) /\ UNCHANGED <<latest, pending, reads, loose>>

StartRead(t, k) ==
    /\ reads[t] = Missing
    /\ reads' = [reads EXCEPT ![t] = k]
    /\ UNCHANGED <<latest, floor, pending, loose, answer>>

EndRead(t) ==
    /\ reads[t] # Missing
    /\ Answers(WorkerOf[t], reads[t])
    /\ reads' = [reads EXCEPT ![t] = Missing]
    /\ loose' = [loose EXCEPT ![WorkerOf[t]] =
                   @ \cup ({reads[t]} \cap BeingRead(WorkerOf[t], Threads \ {t}))]
    /\ UNCHANGED <<latest, pending>>

FallBack(w, k) ==
    /\ answer' = [by |-> w, key |-> k, as |-> Default]
    /\ UNCHANGED <<latest, floor, pending, reads, loose>>

Next ==
    \/ \E t \in Threads :
        \/ \E saved \in SUBSET Keys : Save(t, saved)
        \/ \E k \in Keys : StartRead(t, k)
        \/ EndRead(t) \/ Confirm(t) \/ Abandon(t)
    \/ \E w \in Workers :
        \/ \E k \in Keys : Remembers(w, k) \/ FallBack(w, k)
        \/ Refresh(w) \/ Restart(w)

Spec == Init /\ [][Next]_vars
=============================================================================
