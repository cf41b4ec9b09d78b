----------------------------- MODULE CacheAside -----------------------------
(***************************************************************************)
(* The three cache-aside endpoints (flight_tracker/server.py 227-254,      *)
(* cache/redis_cache.py, db/reader.py) against the writes of the           *)
(* persistence pool, which change the tables and leave Redis alone.        *)
(*                                                                         *)
(* A value is the number of the write that made it.  Time passes in ticks, *)
(* Ttl of which are the life of an entry.                                  *)
(***************************************************************************)
EXTENDS Integers, Sequences, FiniteSets

CONSTANTS
    Keys,           \* Redis keys: key_flight, key_airport, key_delays of something
    Lists,          \* those whose loader returns a list, perhaps an empty one
    Touched,        \* the sets of keys one transaction of write_events may change
    Requests,       \* requests in progress at a time
    Ttl,            \* ticks an entry lives
    Slow,           \* bound on the ticks between the query's answer and the SET
    MaxWrites,      \* bound on the transactions concerning a key
    None

ASSUME CacheAssumption ==
    /\ Lists \subseteq Keys
    /\ Touched \subseteq SUBSET Keys
    /\ Ttl \in Nat \ {0} /\ Slow \in Nat /\ MaxWrites \in Nat
    /\ None \notin [val : Nat, left : Nat] /\ None \notin [key : Keys, val : Nat, age : Nat]

VARIABLES
    rows,           \* rows[k]: what the query of k has returned, oldest first
    cache,          \* cache[k]: the entry in Redis and the ticks it has left
    req,            \* req[r]: the get_or_set() in progress
    answer          \* what the last step returned, if it did, and how old that was

vars == <<rows, cache, req, answer>>

Oldest == Ttl + Slow                    \* ages are counted up to here
Row == [found : BOOLEAN, age : 0..Oldest]
Idle == [at |-> "idle"]

Newest(k) == Len(rows[k])

TypeOK ==
    /\ rows \in [Keys -> Seq(Row)]
    /\ \A k \in Keys :
          /\ Newest(k) \in 1..(MaxWrites + 1)
          /\ cache[k] # None => cache[k] \in [val : 1..Newest(k), left : 1..Ttl]
    /\ DOMAIN cache = Keys /\ DOMAIN req = Requests
    /\ \A r \in Requests :
          \/ req[r] = Idle
          \/ req[r] \in [at : {"load"}, key : Keys]
          \/ \E k \in Keys :
                req[r] \in [at : {"fill"}, key : {k}, val : 1..Newest(k), spent : 0..Slow]
    /\ answer # None => answer \in [key : Keys, val : Nat \ {0}, age : 0..Oldest]

\* Nothing is stored yet: no row for a flight_id, an empty list for the rest.
Init ==
    /\ rows = [k \in Keys |-> <<[found |-> k \in Lists, age |-> 0]>>]
    /\ cache = [k \in Keys |-> None]
    /\ req = [r \in Requests |-> Idle]
    /\ answer = None

----------------------------------------------------------------------------
(* get_or_set().                                                           *)

Goto(r, q) == req' = [req EXCEPT ![r] = q]

Silent == answer' = None
Answer(k, v) == answer' = [key |-> k, val |-> v, age |-> rows[k][v].age]

\* Mutation of Hit: a hit renews the entry.
HitRenewing(r, k) ==
    /\ req[r].at = "idle" /\ cache[k] # None
    /\ Answer(k, cache[k].val)
    /\ cache' = [cache EXCEPT ![k].left = Ttl]
    /\ UNCHANGED <<rows, req>>

Hit(r, k) ==
    /\ req[r].at = "idle"
    /\ cache[k] # None
    /\ Answer(k, cache[k].val)
    /\ UNCHANGED <<rows, cache, req>>

Miss(r, k) ==
    /\ req[r].at = "idle"
    /\ cache[k] = None
    /\ Goto(r, [at |-> "load", key |-> k])
    /\ Silent /\ UNCHANGED <<rows, cache>>

Loaded(k) == [at |-> "fill", key |-> k, val |-> Newest(k), spent |-> 0]

\* Mutation of Load: that there is no row is cached too.
LoadCachingNone(r) ==
    /\ req[r].at = "load" /\ Goto(r, Loaded(req[r].key))
    /\ Silent /\ UNCHANGED <<rows, cache>>

\* loader(): None is returned at once, anything else goes to set_cached().
Load(r) ==
    /\ req[r].at = "load"
    /\ \E k \in {req[r].key} :
         IF rows[k][Newest(k)].found
           THEN Goto(r, Loaded(k)) /\ Silent
           ELSE Goto(r, Idle) /\ Answer(k, Newest(k))
    /\ UNCHANGED <<rows, cache>>

\* Mutation of Set: one tick too many.
SetLonger(k, v) == cache' = [cache EXCEPT ![k] = [val |-> v, left |-> Ttl + 1]]

\* SET with EX, whatever is there.
Set(k, v) == cache' = [cache EXCEPT ![k] = [val |-> v, left |-> Ttl]]

Fill(r) ==
    /\ req[r].at = "fill"
    /\ Set(req[r].key, req[r].val)
    /\ Answer(req[r].key, req[r].val)
    /\ Goto(r, Idle)
    /\ UNCHANGED rows

\* The query raised, or the SET did, with or without its effect.  (A GET that
\* raises leaves no trace.)
RequestFails(r) ==
    /\ req[r].at # "idle"
    /\ \/ UNCHANGED cache
       \/ req[r].at = "fill" /\ Set(req[r].key, req[r].val)
    /\ Goto(r, Idle)
    /\ Silent /\ UNCHANGED rows

----------------------------------------------------------------------------
(* Around it.                                                              *)

\* A transaction of write_events() commits.  A flight_id that had a row may
\* have none afterwards: the upsert writes flight_id too.
Write(ks) ==
    /\ \A k \in ks : Newest(k) <= MaxWrites
    /\ \E found \in BOOLEAN :
         rows' = [k \in Keys |->
                    IF k \in ks THEN Append(rows[k], [found |-> found \/ k \in Lists, age |-> 0])
                    ELSE rows[k]]
    /\ Silent /\ UNCHANGED <<cache, req>>

\* Redis is flushed, or drops some entries.
Evict(ks) ==
    /\ \E k \in ks : cache[k] # None
    /\ cache' = [k \in Keys |-> IF k \in ks THEN None ELSE cache[k]]
    /\ Silent /\ UNCHANGED <<rows, req>>

\* Entries, fills in progress and all but the newest value get older.
Tick ==
    /\ \A r \in Requests : req[r].at = "fill" => req[r].spent < Slow
    /\ rows' = [k \in Keys |-> [v \in DOMAIN rows[k] |->
                  IF v = Newest(k) \/ rows[k][v].age = Oldest THEN rows[k][v]
                  ELSE [rows[k][v] EXCEPT !.age = @ + 1]]]
    /\ cache' = [k \in Keys |->
                  IF cache[k] = None \/ cache[k].left = 1 THEN None
                  ELSE [cache[k] EXCEPT !.left = @ - 1]]
    /\ req' = [r \in Requests |->
                  IF req[r].at = "fill" THEN [req[r] EXCEPT !.spent = @ + 1] ELSE req[r]]
    /\ Silent

Proceed(r) == Load(r) \/ Fill(r) \/ RequestFails(r)

Next ==
    \/ \E r \in Requests : Proceed(r) \/ \E k \in Keys : Hit(r, k) \/ Miss(r, k)
    \/ \E ks \in Touched : Write(ks)
    \/ \E ks \in SUBSET Keys : Evict(ks)
    \/ Tick

Spec == Init /\ [][Next]_vars

\* Time passes, and every call to PostgreSQL and Redis returns or raises.
FairSpec == Spec /\ WF_vars(Tick) /\ \A r \in Requests : WF_vars(Proceed(r))

----------------------------------------------------------------------------
(* Properties.                                                             *)

\* The older the value of an entry, the less time it has left: a fill that
\* raced a write, or lost to a newer fill and overwrote it, still leaves an
\* entry that is gone Ttl after its SET.  This is what bounds staleness.
EntriesExpireInTime ==
    \A k \in Keys : cache[k] # None =>
        rows[k][cache[k].val].age + cache[k].left <= Ttl + Slow

\* Every answer was the database's at most Ttl and the length of a fill ago,
\* and 404 is answered only if there is no row at that moment, although the
\* last request found one or the next one will.
Promise == INSTANCE StaleReads WITH Stale <- Ttl + Slow
ContractHolds == Promise!Spec

\* No entry stays wrong: when the writes have come to an end, Redis soon
\* holds what PostgreSQL holds or nothing, although nothing is ever
\* invalidated and fills of old values may still be under way.
CacheCatchesUp ==
    \A k \in Keys : <>[](cache[k] # None => cache[k].val = Newest(k))
=============================================================================
