----------------------------- MODULE StaleReads -----------------------------
(***************************************************************************)
(* What the cached endpoints promise their callers: an answer is what the  *)
(* database held at most Stale ticks ago, whichever queries, caches and    *)
(* failures it came through; and that something does not exist is said     *)
(* only while it is so.                                                    *)
(***************************************************************************)
EXTENDS Integers, Sequences

CONSTANTS
    Keys,           \* what can be asked for
    Touched,        \* the sets of keys that change together
    Stale,          \* an answer is younger than this
    Oldest,         \* ages are counted up to here
    MaxWrites,      \* bound on the changes of a key
    None

VARIABLES
    rows,           \* rows[k]: its values, oldest first
    answer          \* what the last step answered, if it did, and how old that was

vars == <<rows, answer>>

Newest(k) == Len(rows[k])

Init ==
    /\ \E Existing \in SUBSET Keys :
         rows = [k \in Keys |-> <<[found |-> k \in Existing, age |-> 0]>>]
    /\ answer = None

\* Some keys get a new value, or none.
Change(ks) ==
    /\ \A k \in ks : Newest(k) <= MaxWrites
    /\ \E found \in [ks -> BOOLEAN] :
         rows' = [k \in Keys |-> IF k \in ks THEN Append(rows[k], [found |-> found[k], age |-> 0])
                                 ELSE rows[k]]
    /\ answer' = None

Read(k, v) ==
    /\ rows[k][v].age < Stale
    /\ ~rows[k][v].found => v = Newest(k)
    /\ answer' = [key |-> k, val |-> v, age |-> rows[k][v].age]
    /\ UNCHANGED rows

\* Every value but the newest gets older.
Tick ==
    /\ rows' = [k \in Keys |-> [v \in DOMAIN rows[k] |->
                  IF v = Newest(k) \/ rows[k][v].age = Oldest THEN rows[k][v]
                  ELSE [rows[k][v] EXCEPT !.age = @ + 1]]]
    /\ answer' = None

\* Whatever else happens.
Silent == answer' = None /\ UNCHANGED rows

Next ==
    \/ \E ks \in Touched : Change(ks)
    \/ \E k \in Keys : \E v \in DOMAIN rows[k] : Read(k, v)
    \/ Tick \/ Silent

Spec == Init /\ [][Next]_vars
=============================================================================
