--------------------------- MODULE SlidingWindow ---------------------------
(***************************************************************************)
(* The rows of rate_limit_events under one bucket key, and what each       *)
(* statement of utils/rate_limit.py does to them.                          *)
(*                                                                         *)
(* A row is a pair <<age, slot>>: age is `now - created_at` in ticks, slot *)
(* stands for the AUTOINCREMENT id and only tells rows of one age apart.   *)
(* Ages grow with the clock and stop at MaxAge, past every window, so the  *)
(* clock itself is not part of the state and time is unbounded.            *)
(***************************************************************************)
EXTENDS Naturals, FiniteSets

CONSTANT MaxAge    \* the bound on ages: one tick more than the longest window

ASSUME MaxAgeAssumption == MaxAge \in Nat

Rows == (0..MaxAge) \X Nat

\* Time passes: every row is one tick older.
Older(row) == <<IF row[1] < MaxAge THEN row[1] + 1 ELSE MaxAge, row[2]>>
AllOlder(rows) == {Older(row) : row \in rows}

\* DELETE ... WHERE created_at < now - window
Prune(rows, window) == {row \in rows : row[1] <= window}

\* The row INSERTed now: its slot is one that no row has yet.
NewRow(rows) ==
    <<0, CHOOSE slot \in 0..Cardinality(rows) : <<0, slot>> \notin rows>>

Record(rows) == rows \cup {NewRow(rows)}

\* Mutant of Reached: "count > limit".
ReachedLate(rows, window, limit) == Cardinality(Prune(rows, window)) > limit

\* SELECT COUNT(*) after the prune, compared with the limit.
Reached(rows, window, limit) == Cardinality(Prune(rows, window)) >= limit

\* Mutant of Hit: a window that is one tick short.
HitShortWindow(rows, window, limit) ==
    IF Reached(rows, window - 1, limit)
    THEN [admitted |-> FALSE, rows |-> rows]
    ELSE [admitted |-> TRUE,  rows |-> Record(Prune(rows, window - 1))]

\* hit: over the limit the transaction is not committed, so the prune is
\* rolled back with it.
Hit(rows, window, limit) ==
    IF Reached(rows, window, limit)
    THEN [admitted |-> FALSE, rows |-> rows]
    ELSE [admitted |-> TRUE,  rows |-> Record(Prune(rows, window))]

\* is_blocked commits its prune whatever it answers.
IsBlocked(rows, window, limit) ==
    [blocked |-> Reached(rows, window, limit), rows |-> Prune(rows, window)]

Register(rows, window) == Record(Prune(rows, window))
=============================================================================
