-------------------------- MODULE CacheAside_proofs --------------------------
(***************************************************************************)
(* Theorems about CacheAside, for any keys, requests and bounds.           *)
(***************************************************************************)
EXTENDS CacheAside, TLAPS

(***************************************************************************)
(* What bounds the age of an entry: a value has been in a request at least *)
(* as long as it is out of date, and the newest is not out of date.        *)
(***************************************************************************)

NewestIsFresh == \A k \in Keys : rows[k][Newest(k)].age = 0

FillsAreRecent ==
    \A r \in Requests : req[r].at = "fill" =>
        /\ rows[req[r].key][req[r].val].age <= req[r].spent
        /\ rows[req[r].key][req[r].val].found

CachedWasFound == \A k \in Keys : cache[k] # None => rows[k][cache[k].val].found

IInv ==
    /\ TypeOK /\ NewestIsFresh /\ FillsAreRecent
    /\ CachedWasFound /\ EntriesExpireInTime

----------------------------------------------------------------------------
(* What the types say of one key, one entry, one request.                  *)

LEMMA Bounds == Oldest \in Nat /\ Ttl \in Nat \ {0} /\ Slow \in Nat /\ MaxWrites \in Nat
  BY CacheAssumption DEF Oldest

LEMMA KeyTypes ==
    ASSUME TypeOK, NEW k \in Keys
    PROVE  /\ rows[k] \in Seq(Row)
           /\ Newest(k) \in 1..(MaxWrites + 1) /\ Newest(k) \in Nat
           /\ DOMAIN rows[k] = 1..Newest(k)
           /\ \A v \in 1..Newest(k) : rows[k][v] \in Row
<1>1. rows[k] \in Seq(Row) /\ Newest(k) \in 1..(MaxWrites + 1)
  BY DEF TypeOK
<1>2. Newest(k) \in Nat
  BY <1>1, Bounds
<1> QED
  BY <1>1, <1>2 DEF Newest

LEMMA FillTypes ==
    ASSUME TypeOK, NEW r \in Requests, req[r].at = "fill"
    PROVE  /\ req[r].key \in Keys /\ req[r].val \in 1..Newest(req[r].key)
           /\ req[r].spent \in 0..Slow
           /\ req[r] = [at |-> "fill", key |-> req[r].key, val |-> req[r].val,
                        spent |-> req[r].spent]
  BY CacheAssumption DEF TypeOK, Idle

LEMMA LoadTypes ==
    ASSUME TypeOK, NEW r \in Requests, req[r].at = "load"
    PROVE  req[r].key \in Keys /\ req[r] = [at |-> "load", key |-> req[r].key]
  BY CacheAssumption DEF TypeOK, Idle

LEMMA InitInv == Init => IInv
<1> SUFFICES ASSUME Init PROVE IInv
  OBVIOUS
<1>1. TypeOK
  BY CacheAssumption DEF Init, TypeOK, Row, Oldest, Newest, Idle
<1>2. NewestIsFresh
  BY DEF Init, NewestIsFresh, Newest
<1>3. FillsAreRecent
  BY DEF Init, FillsAreRecent, Idle
<1>4. CachedWasFound /\ EntriesExpireInTime
  BY DEF Init, CachedWasFound, EntriesExpireInTime
<1> QED
  BY <1>1, <1>2, <1>3, <1>4 DEF IInv

----------------------------------------------------------------------------
(* Every step keeps the invariant.                                         *)

\* The conjuncts of TypeOK about rows and about one entry, request, answer.
RowsTyped == rows \in [Keys -> Seq(Row)] /\ \A k \in Keys : Newest(k) \in 1..(MaxWrites + 1)
EntryTyped(k) == cache[k] # None => cache[k] \in [val : 1..Newest(k), left : 1..Ttl]
RequestTyped(r) ==
    \/ req[r] = Idle
    \/ req[r] \in [at : {"load"}, key : Keys]
    \/ \E k \in Keys :
          req[r] \in [at : {"fill"}, key : {k}, val : 1..Newest(k), spent : 0..Slow]
AnswerTyped == answer # None => answer \in [key : Keys, val : Nat \ {0}, age : 0..Oldest]

LEMMA TypeParts ==
    TypeOK <=> /\ RowsTyped /\ AnswerTyped
               /\ DOMAIN cache = Keys /\ DOMAIN req = Requests
               /\ \A k \in Keys : EntryTyped(k)
               /\ \A r \in Requests : RequestTyped(r)
  BY DEF TypeOK, RowsTyped, AnswerTyped, EntryTyped, RequestTyped

\* An answer from a row that is there is typed.
LEMMA AnswersAreTyped ==
    ASSUME TypeOK, NEW k \in Keys, NEW v \in 1..Newest(k), Answer(k, v)
    PROVE  AnswerTyped'
<1>1. rows[k][v].age \in 0..Oldest /\ v \in Nat \ {0}
  BY KeyTypes DEF Row
<1> QED
  BY <1>1, Bounds DEF Answer, AnswerTyped, Oldest

LEMMA SilenceIsTyped == ASSUME Silent PROVE AnswerTyped'
  BY DEF Silent, AnswerTyped

\* Only answer has changed.
LEMMA OnlyAnswer ==
    ASSUME IInv, AnswerTyped', UNCHANGED <<rows, cache, req>>
    PROVE  IInv'
  BY DEF IInv, TypeOK, AnswerTyped, NewestIsFresh, FillsAreRecent, CachedWasFound,
         EntriesExpireInTime, Newest, Row, Oldest

\* Only a request and the answer have changed: it is idle now, or loads.
LEMMA RequestEnds ==
    ASSUME IInv, NEW r \in Requests, NEW q, Goto(r, q),
           q = Idle \/ q \in [at : {"load"}, key : Keys],
           AnswerTyped', UNCHANGED <<rows, cache>>
    PROVE  IInv'
<1>1. q.at # "fill"
  BY DEF Idle
<1>2. /\ DOMAIN req' = Requests /\ req'[r] = q
      /\ \A s \in Requests : s # r => req'[s] = req[s]
  BY DEF Goto, IInv, TypeOK
<1>3. \A s \in Requests : RequestTyped(s)'
  BY <1>2, TypeParts DEF IInv, RequestTyped, Newest
<1>4. TypeOK'
  BY <1>2, <1>3, TypeParts DEF IInv, TypeOK, AnswerTyped, RequestTyped, Newest, Row, Oldest
<1>5. FillsAreRecent'
  BY <1>1, <1>2 DEF IInv, FillsAreRecent
<1>6. (NewestIsFresh /\ CachedWasFound /\ EntriesExpireInTime)'
  BY DEF IInv, NewestIsFresh, CachedWasFound, EntriesExpireInTime, Newest
<1> QED
  BY <1>4, <1>5, <1>6 DEF IInv

\* A request has the newest row, and that exists.
LEMMA LoadKeeps ==
    ASSUME IInv, NEW r \in Requests, Load(r)
    PROVE  IInv'
<1>0. TypeOK /\ req[r].at = "load"
  BY DEF IInv, Load
<1>k. PICK k \in Keys : k = req[r].key
  BY <1>0, LoadTypes
<1>1. Newest(k) \in Nat /\ Newest(k) \in 1..Newest(k)
  BY <1>0, KeyTypes, Bounds
<1>2. CASE ~rows[k][Newest(k)].found
  <2>1. Goto(r, Idle) /\ Answer(k, Newest(k)) /\ UNCHANGED <<rows, cache>>
    BY <1>k, <1>2 DEF Load
  <2> QED
    BY <1>0, <1>1, <2>1, AnswersAreTyped, RequestEnds
<1>3. CASE rows[k][Newest(k)].found
  <2>1. Goto(r, Loaded(k)) /\ Silent /\ UNCHANGED <<rows, cache>>
    BY <1>k, <1>3 DEF Load
  <2>2. /\ DOMAIN req' = Requests /\ req'[r] = Loaded(k)
        /\ \A s \in Requests : s # r => req'[s] = req[s]
    BY <2>1 DEF Goto, IInv, TypeOK
  <2>3. \A s \in Requests : RequestTyped(s)'
    <3>1. RequestTyped(r)'
      BY <1>1, <2>1, <2>2, Bounds DEF RequestTyped, Loaded, Newest
    <3>2. \A s \in Requests : s # r => RequestTyped(s)'
      BY <2>1, <2>2, TypeParts DEF IInv, RequestTyped, Newest
    <3> QED
      BY <3>1, <3>2
  <2>4. TypeOK'
    BY <2>1, <2>2, <2>3, SilenceIsTyped DEF IInv, TypeOK, AnswerTyped, RequestTyped, Newest, Row, Oldest
  <2>5. FillsAreRecent'
    BY <1>1, <1>3, <2>1, <2>2 DEF IInv, FillsAreRecent, NewestIsFresh, Loaded, Newest
  <2>6. (NewestIsFresh /\ CachedWasFound /\ EntriesExpireInTime)'
    BY <2>1 DEF IInv, NewestIsFresh, CachedWasFound, EntriesExpireInTime, Newest
  <2> QED
    BY <2>4, <2>5, <2>6 DEF IInv
<1> QED
  BY <1>2, <1>3

\* A request ends with a SET.
LEMMA SetKeeps ==
    ASSUME IInv, NEW r \in Requests, req[r].at = "fill",
           Set(req[r].key, req[r].val), Goto(r, Idle), AnswerTyped', UNCHANGED rows
    PROVE  IInv'
<1>0. TypeOK
  BY DEF IInv
<1>k. PICK k \in Keys : k = req[r].key
  BY <1>0, FillTypes
<1>v. PICK v \in 1..Newest(k) : v = req[r].val
  BY <1>0, <1>k, FillTypes
<1>1. req[r].spent \in 0..Slow /\ Set(k, v)
  BY <1>0, <1>k, <1>v, FillTypes
<1>2. /\ DOMAIN req' = Requests /\ req'[r] = Idle
      /\ \A s \in Requests : s # r => req'[s] = req[s]
  BY DEF Goto, IInv, TypeOK
<1>3. /\ DOMAIN cache' = Keys /\ cache'[k] = [val |-> v, left |-> Ttl]
      /\ \A l \in Keys : l # k => cache'[l] = cache[l]
  BY <1>1 DEF Set, IInv, TypeOK
<1>4. \A s \in Requests : RequestTyped(s)'
  BY <1>2, TypeParts DEF IInv, RequestTyped, Newest
<1>5. \A l \in Keys : EntryTyped(l)'
  <2>1. EntryTyped(k)'
    BY <1>1, <1>3, Bounds DEF EntryTyped, Newest
  <2>2. \A l \in Keys : l # k => EntryTyped(l)'
    BY <1>3, TypeParts DEF IInv, EntryTyped, Newest
  <2> QED
    BY <2>1, <2>2
<1>6. TypeOK'
  <2>1. RowsTyped'
    BY TypeParts DEF IInv, RowsTyped, Newest, Row, Oldest
  <2> QED
    BY <1>2, <1>3, <1>4, <1>5, <2>1 DEF TypeOK, RowsTyped, EntryTyped, RequestTyped, AnswerTyped, Newest, Row, Oldest
<1>7. FillsAreRecent'
  BY <1>2 DEF IInv, FillsAreRecent, Idle
<1>8. CachedWasFound'
  BY <1>k, <1>v, <1>3 DEF IInv, CachedWasFound, FillsAreRecent
<1>9. EntriesExpireInTime'
  <2>1. rows[k][v].age + Ttl <= Ttl + Slow
    <3>1. rows[k][v].age \in Nat /\ rows[k][v].age <= req[r].spent
      BY <1>0, <1>k, <1>v, KeyTypes DEF IInv, FillsAreRecent, Row
    <3> QED
      BY <1>1, <3>1, Bounds
  <2> QED
    BY <1>3, <2>1 DEF IInv, EntriesExpireInTime
<1>10. NewestIsFresh'
  BY DEF IInv, NewestIsFresh, Newest
<1> QED
  BY <1>6, <1>7, <1>8, <1>9, <1>10 DEF IInv

\* Entries go.
LEMMA EvictKeeps ==
    ASSUME IInv, NEW ks, Evict(ks)
    PROVE  IInv'
<1>1. /\ DOMAIN cache' = Keys /\ UNCHANGED <<rows, req>> /\ Silent
      /\ \A k \in Keys : cache'[k] \in {None, cache[k]}
  BY DEF Evict
<1>2. TypeOK'
  BY <1>1, SilenceIsTyped DEF IInv, TypeOK, AnswerTyped, Newest, Row, Oldest
<1>3. (NewestIsFresh /\ FillsAreRecent /\ CachedWasFound /\ EntriesExpireInTime)'
  BY <1>1 DEF IInv, NewestIsFresh, FillsAreRecent, CachedWasFound, EntriesExpireInTime, Newest
<1> QED
  BY <1>2, <1>3 DEF IInv

\* A transaction: the values that were there stay, under their numbers.
LEMMA WriteKeeps ==
    ASSUME IInv, NEW ks \in SUBSET Keys, Write(ks)
    PROVE  IInv'
<1>0. TypeOK /\ Silent /\ UNCHANGED <<cache, req>>
  BY DEF IInv, Write
<1>1. PICK found \in BOOLEAN :
        rows' = [k \in Keys |->
                   IF k \in ks THEN Append(rows[k], [found |-> found \/ k \in Lists, age |-> 0])
                   ELSE rows[k]]
  BY DEF Write
<1>2. \A k \in Keys : Newest(k) <= MaxWrites \/ k \notin ks
  BY DEF Write
<1>3. ASSUME NEW k \in Keys
      PROVE  /\ rows'[k] \in Seq(Row) /\ Newest(k)' \in 1..(MaxWrites + 1)
             /\ Newest(k) \in Nat /\ Newest(k)' \in Newest(k)..(MaxWrites + 1)
             /\ \A v \in 1..Newest(k) : rows'[k][v] = rows[k][v]
             /\ rows'[k][Newest(k)'].age = 0
  <2>0. /\ rows[k] \in Seq(Row) /\ Newest(k) \in 1..(MaxWrites + 1) /\ Newest(k) \in Nat
        /\ rows[k][Newest(k)].age = 0
    BY <1>0, KeyTypes DEF IInv, NewestIsFresh
  <2>1. CASE k \in ks
    <3>1. PICK row \in Row : row.age = 0 /\ rows'[k] = Append(rows[k], row)
      <4>1. [found |-> found \/ k \in Lists, age |-> 0] \in Row
        BY Bounds DEF Row
      <4> QED
        BY <1>1, <2>1, <4>1
    <3>2. /\ rows'[k] \in Seq(Row) /\ Newest(k)' = Newest(k) + 1
          /\ \A v \in 1..Newest(k) : rows'[k][v] = rows[k][v]
          /\ rows'[k][Newest(k) + 1] = row
      BY <2>0, <3>1 DEF Newest
    <3>3. /\ Newest(k)' \in 1..(MaxWrites + 1)
          /\ Newest(k)' \in Newest(k)..(MaxWrites + 1)
      <4>1. Newest(k) <= MaxWrites
        BY <1>2, <2>1
      <4> QED
        BY <2>0, <3>2, <4>1, Bounds
    <3>4. rows'[k][Newest(k)'].age = 0
      BY <3>1, <3>2
    <3> QED
      BY <2>0, <3>2, <3>3, <3>4
  <2>2. CASE k \notin ks
    <3>1. rows'[k] = rows[k] /\ Newest(k)' = Newest(k)
      BY <1>1, <2>2 DEF Newest
    <3> QED
      BY <2>0, <3>1, Bounds
  <2> QED
    BY <2>1, <2>2
<1>4. TypeOK'
  <2>1. RowsTyped'
    <3>1. DOMAIN rows' = Keys /\ rows' = [k \in Keys |-> rows'[k]]
      BY <1>1
    <3> QED
      BY <1>3, <3>1, Zenon DEF RowsTyped, Row, Oldest
  <2>2. \A k \in Keys : EntryTyped(k)'
    BY <1>0, <1>3, TypeParts, Bounds DEF EntryTyped
  <2>3. ASSUME NEW r \in Requests PROVE RequestTyped(r)'
    <3>1. CASE req[r].at = "fill"
      <4>1. PICK k \in Keys : k = req[r].key
        BY <1>0, <3>1, FillTypes
      <4>2. req[r].val \in 1..Newest(k) /\ req[r].spent \in 0..Slow
        BY <1>0, <3>1, <4>1, FillTypes
      <4>3. req[r].val \in 1..Newest(k)'
        BY <1>3, <4>2, Bounds
      <4>4. req[r] \in [at : {"fill"}, key : {k}, val : 1..Newest(k)', spent : 0..Slow]
        <5>1. req[r] = [at |-> "fill", key |-> k, val |-> req[r].val, spent |-> req[r].spent]
          BY <1>0, <3>1, <4>1, FillTypes
        <5>2. PICK v, n : v = req[r].val /\ n = req[r].spent
          OBVIOUS
        <5> QED
          BY <4>2, <4>3, <5>1, <5>2
      <4> QED
        BY <1>0, <4>4 DEF RequestTyped
    <3>2. CASE req[r].at # "fill"
      BY <1>0, <3>2, TypeParts DEF RequestTyped
    <3> QED
      BY <3>1, <3>2
  <2> QED
    BY <1>0, <2>1, <2>2, <2>3, SilenceIsTyped
       DEF TypeOK, RowsTyped, EntryTyped, RequestTyped, AnswerTyped, Row, Oldest
<1>5. NewestIsFresh'
  BY <1>3 DEF NewestIsFresh
<1>6. FillsAreRecent'
  BY <1>0, <1>3, FillTypes DEF IInv, FillsAreRecent
<1>7. (CachedWasFound /\ EntriesExpireInTime)'
  <2>1. \A k \in Keys : cache[k] # None => cache[k].val \in 1..Newest(k)
    BY <1>0, TypeParts DEF EntryTyped
  <2> QED
    BY <1>0, <1>3, <2>1 DEF IInv, CachedWasFound, EntriesExpireInTime
<1> QED
  BY <1>4, <1>5, <1>6, <1>7 DEF IInv

\* A tick: a value ages by one at most, an entry has one tick less, and a fill
\* has spent one more.
LEMMA TickKeeps ==
    ASSUME IInv, Tick
    PROVE  IInv'
<1>0. TypeOK /\ Silent
  BY DEF IInv, Tick
<1>1. ASSUME NEW k \in Keys
      PROVE  /\ rows'[k] \in Seq(Row) /\ Newest(k)' = Newest(k)
             /\ \A v \in 1..Newest(k) :
                  /\ rows[k][v] \in Row /\ rows'[k][v] \in Row
                  /\ rows'[k][v].found = rows[k][v].found
                  /\ rows'[k][v].age <= rows[k][v].age + 1
                  /\ v = Newest(k) => rows'[k][v] = rows[k][v]
  <2>0. /\ rows[k] \in Seq(Row) /\ Newest(k) \in Nat /\ DOMAIN rows[k] = 1..Newest(k)
        /\ \A v \in 1..Newest(k) : rows[k][v] \in Row
    BY <1>0, KeyTypes
  <2>1. rows'[k] = [v \in 1..Newest(k) |->
                      IF v = Newest(k) \/ rows[k][v].age = Oldest THEN rows[k][v]
                      ELSE [rows[k][v] EXCEPT !.age = @ + 1]]
    BY <2>0 DEF Tick
  <2>2. ASSUME NEW v \in 1..Newest(k)
        PROVE  /\ rows'[k][v] \in Row /\ rows'[k][v].found = rows[k][v].found
               /\ rows'[k][v].age <= rows[k][v].age + 1
               /\ v = Newest(k) => rows'[k][v] = rows[k][v]
    <3>1. PICK row \in Row : row = rows[k][v]
      BY <2>0
    <3>2. row.age \in 0..Oldest /\ row.found \in BOOLEAN
      BY DEF Row
    <3>3. rows'[k][v] = IF v = Newest(k) \/ row.age = Oldest THEN row
                        ELSE [row EXCEPT !.age = @ + 1]
      BY <2>1, <3>1
    <3>4. CASE v = Newest(k) \/ row.age = Oldest
      BY <3>1, <3>2, <3>3, <3>4, Bounds
    <3>5. CASE ~(v = Newest(k) \/ row.age = Oldest)
      <4>1. rows'[k][v] = [found |-> row.found, age |-> row.age + 1]
        BY <3>3, <3>5 DEF Row
      <4> QED
        BY <3>1, <3>2, <3>5, <4>1, Bounds DEF Row
    <3> QED
      BY <3>4, <3>5
  <2>3. rows'[k] \in Seq(Row) /\ Newest(k)' = Newest(k)
    <3>1. DOMAIN rows'[k] = 1..Newest(k) /\ rows'[k] \in [1..Newest(k) -> Row]
      BY <2>1, <2>2, Zenon
    <3> QED
      BY <2>0, <3>1 DEF Newest
  <2> QED
    BY <2>0, <2>2, <2>3
<1>2. /\ DOMAIN cache' = Keys
      /\ \A k \in Keys : cache'[k] # None =>
            /\ cache[k] # None /\ cache[k].left \in 2..Ttl
            /\ cache[k].val \in 1..Newest(k)
            /\ cache'[k] = [val |-> cache[k].val, left |-> cache[k].left - 1]
  BY <1>0, TypeParts, Bounds DEF Tick, EntryTyped
<1>3. /\ DOMAIN req' = Requests
      /\ \A r \in Requests :
            /\ req[r].at # "fill" => req'[r] = req[r]
            /\ req[r].at = "fill" =>
                 /\ req[r].spent + 1 \in 0..Slow
                 /\ req'[r] = [at |-> "fill", key |-> req[r].key, val |-> req[r].val,
                               spent |-> req[r].spent + 1]
  <2>1. DOMAIN req' = Requests
    BY DEF Tick
  <2>2. ASSUME NEW r \in Requests, req[r].at # "fill" PROVE req'[r] = req[r]
    BY <2>2 DEF Tick
  <2>3. ASSUME NEW r \in Requests, req[r].at = "fill"
        PROVE  /\ req[r].spent + 1 \in 0..Slow
               /\ req'[r] = [at |-> "fill", key |-> req[r].key, val |-> req[r].val,
                             spent |-> req[r].spent + 1]
    <3>1. req'[r] = [req[r] EXCEPT !.spent = @ + 1] /\ req[r].spent < Slow
      BY <2>3 DEF Tick
    <3>2. PICK k, v, n : req[r] = [at |-> "fill", key |-> k, val |-> v, spent |-> n]
      BY <1>0, <2>3, FillTypes
    <3>3. req'[r] = [at |-> "fill", key |-> k, val |-> v, spent |-> n + 1]
      BY <3>1, <3>2
    <3>4. req[r].spent + 1 \in 0..Slow
      <4>1. req[r].spent \in 0..Slow
        BY <1>0, <2>3, FillTypes
      <4> QED
        BY <3>1, <4>1, Bounds
    <3> QED
      BY <3>2, <3>3, <3>4
  <2> QED
    BY <2>1, <2>2, <2>3
<1>4. TypeOK'
  <2>1. RowsTyped'
    <3>1. rows' = [k \in Keys |-> rows'[k]]
      BY DEF Tick
    <3>2. \A k \in Keys : Newest(k)' \in 1..(MaxWrites + 1)
      BY <1>0, <1>1, KeyTypes
    <3>3. rows' \in [Keys -> Seq(Row)]
      BY <1>1, <3>1, Zenon
    <3> QED
      BY <3>2, <3>3 DEF RowsTyped, Row, Oldest
  <2>2. \A k \in Keys : EntryTyped(k)'
    BY <1>1, <1>2, Bounds DEF EntryTyped
  <2>3. ASSUME NEW r \in Requests PROVE RequestTyped(r)'
    <3>1. CASE req[r].at = "fill"
      <4>1. PICK k \in Keys : k = req[r].key
        BY <1>0, <3>1, FillTypes
      <4>2. req[r].val \in 1..Newest(k)'
        BY <1>0, <1>1, <3>1, <4>1, FillTypes
      <4>3. req'[r] \in [at : {"fill"}, key : {k}, val : 1..Newest(k)', spent : 0..Slow]
        BY <1>3, <3>1, <4>1, <4>2
      <4> QED
        BY <4>3 DEF RequestTyped
    <3>2. CASE req[r].at # "fill"
      BY <1>0, <1>3, <3>2, TypeParts DEF RequestTyped
    <3> QED
      BY <3>1, <3>2
  <2> QED
    BY <1>0, <1>2, <1>3, <2>1, <2>2, <2>3, SilenceIsTyped
       DEF TypeOK, RowsTyped, EntryTyped, RequestTyped, AnswerTyped, Row, Oldest
<1>5. NewestIsFresh'
  <2>1. \A k \in Keys : Newest(k) \in 1..Newest(k)
    BY <1>0, KeyTypes
  <2> QED
    BY <1>1, <2>1 DEF IInv, NewestIsFresh
<1>6. FillsAreRecent'
  <2> SUFFICES ASSUME NEW r \in Requests, req'[r].at = "fill"
               PROVE  /\ rows'[req'[r].key][req'[r].val].age <= req'[r].spent
                      /\ rows'[req'[r].key][req'[r].val].found
    BY DEF FillsAreRecent
  <2>1. req[r].at = "fill"
    BY <1>3
  <2>2. PICK k \in Keys : k = req[r].key
    BY <1>0, <2>1, FillTypes
  <2>3. PICK v \in 1..Newest(k) : v = req[r].val
    BY <1>0, <2>1, <2>2, FillTypes
  <2>4. rows[k][v].age <= req[r].spent /\ rows[k][v].found
    BY <2>1, <2>2, <2>3 DEF IInv, FillsAreRecent
  <2>5. rows'[k][v].age <= req[r].spent + 1 /\ rows'[k][v].found
    <3>1. /\ rows[k][v].age \in Nat /\ rows'[k][v].age \in Nat /\ req[r].spent \in Nat
          /\ rows'[k][v].age <= rows[k][v].age + 1 /\ rows'[k][v].found = rows[k][v].found
      <4>1. /\ rows[k][v].age \in Nat /\ rows'[k][v].age \in Nat
            /\ rows'[k][v].age <= rows[k][v].age + 1
            /\ rows'[k][v].found = rows[k][v].found
        BY <1>1 DEF Row
      <4>2. req[r].spent \in Nat
        <5>1. req[r].spent \in 0..Slow
          BY <1>0, <2>1, FillTypes
        <5> QED
          BY <5>1, Bounds
      <4> QED
        BY <4>1, <4>2
    <3> QED
      BY <2>4, <3>1
  <2> QED
    BY <1>3, <2>1, <2>2, <2>3, <2>5
<1>7. CachedWasFound'
  BY <1>1, <1>2 DEF IInv, CachedWasFound
<1>8. EntriesExpireInTime'
  <2> SUFFICES ASSUME NEW k \in Keys, cache'[k] # None
               PROVE  rows'[k][cache'[k].val].age + cache'[k].left <= Ttl + Slow
    BY DEF EntriesExpireInTime
  <2>1. PICK v \in 1..Newest(k) : v = cache[k].val
    BY <1>2
  <2>2. rows[k][v].age + cache[k].left <= Ttl + Slow
    BY <1>2, <2>1 DEF IInv, EntriesExpireInTime
  <2>3. /\ rows[k][v].age \in Nat /\ rows'[k][v].age \in Nat
        /\ rows'[k][v].age <= rows[k][v].age + 1
    BY <1>1 DEF Row
  <2>4. cache[k].left \in Nat /\ cache'[k].left = cache[k].left - 1 /\ cache'[k].val = v
    BY <1>2, <2>1, Bounds
  <2> QED
    BY <2>2, <2>3, <2>4, Bounds
<1> QED
  BY <1>4, <1>5, <1>6, <1>7, <1>8 DEF IInv

LEMMA NextInv == IInv /\ [Next]_vars => IInv'
<1> SUFFICES ASSUME IInv, [Next]_vars PROVE IInv'
  OBVIOUS
<1>0. TypeOK
  BY DEF IInv
<1>1. ASSUME NEW r \in Requests, NEW k \in Keys, Hit(r, k) PROVE IInv'
  <2>1. cache[k].val \in 1..Newest(k)
    BY <1>0, <1>1, TypeParts DEF Hit, EntryTyped
  <2>2. Answer(k, cache[k].val) /\ UNCHANGED <<rows, cache, req>>
    BY <1>1 DEF Hit
  <2> QED
    BY <1>0, <2>1, <2>2, AnswersAreTyped, OnlyAnswer
<1>2. ASSUME NEW r \in Requests, NEW k \in Keys, Miss(r, k) PROVE IInv'
  <2>1. Goto(r, [at |-> "load", key |-> k]) /\ Silent /\ UNCHANGED <<rows, cache>>
    BY <1>2 DEF Miss
  <2> QED
    BY <2>1, RequestEnds, SilenceIsTyped
<1>3. ASSUME NEW r \in Requests, Fill(r) PROVE IInv'
  <2>1. /\ req[r].at = "fill" /\ Set(req[r].key, req[r].val)
        /\ Answer(req[r].key, req[r].val) /\ Goto(r, Idle) /\ UNCHANGED rows
    BY <1>3 DEF Fill
  <2> QED
    BY <1>0, <2>1, FillTypes, AnswersAreTyped, SetKeeps
<1>4. ASSUME NEW r \in Requests, RequestFails(r) PROVE IInv'
  <2>1. Goto(r, Idle) /\ Silent /\ UNCHANGED rows
    BY <1>4 DEF RequestFails
  <2>2. CASE UNCHANGED cache
    BY <2>1, <2>2, RequestEnds, SilenceIsTyped
  <2>3. CASE req[r].at = "fill" /\ Set(req[r].key, req[r].val)
    BY <2>1, <2>3, SetKeeps, SilenceIsTyped
  <2> QED
    BY <1>4, <2>2, <2>3 DEF RequestFails
<1>5. ASSUME NEW ks \in Touched, Write(ks) PROVE IInv'
  BY <1>5, WriteKeeps, CacheAssumption
<1>6. CASE UNCHANGED vars
  <2>1. AnswerTyped'
    BY <1>0, <1>6, TypeParts DEF AnswerTyped, Oldest, vars
  <2> QED
    BY <1>6, <2>1, OnlyAnswer DEF vars
<1> QED
  BY <1>1, <1>2, <1>3, <1>4, <1>5, <1>6, LoadKeeps, EvictKeeps, TickKeeps DEF Next, Proceed

----------------------------------------------------------------------------
(* The theorems.                                                           *)

THEOREM InductiveInvariant == Spec => []IInv
  BY InitInv, NextInv, PTL DEF Spec

\* The tables, the entries in Redis, the calls of get_or_set() in progress and
\* what they return are of their types, whatever races or fails.
THEOREM TypeCorrect == Spec => []TypeOK
<1>1. IInv => TypeOK
  BY DEF IInv
<1> QED
  BY <1>1, InductiveInvariant, PTL

\* What set_cached() stores is gone before its value is Ttl + Slow out of date,
\* for any number of requests filling the same key over each other.
THEOREM StalenessIsBounded == Spec => []EntriesExpireInTime
<1>1. IInv => EntriesExpireInTime
  BY DEF IInv
<1> QED
  BY <1>1, InductiveInvariant, PTL

----------------------------------------------------------------------------
(* The refinement.                                                         *)

LEMMA InitRefines == Init => Promise!Init
<1> SUFFICES ASSUME Init PROVE Promise!Init
  OBVIOUS
<1>1. Lists \in SUBSET Keys
  BY CacheAssumption
<1> QED
  BY <1>1 DEF Init, Promise!Init

LEMMA SilenceRefines == ASSUME Silent, UNCHANGED rows PROVE Promise!Next
  BY DEF Silent, Promise!Next, Promise!Silent

\* An answer that is not too old, of what was found unless it is the newest.
LEMMA AnswerRefines ==
    ASSUME TypeOK, NEW k \in Keys, NEW v \in 1..Newest(k), Answer(k, v), UNCHANGED rows,
           rows[k][v].age < Ttl + Slow, rows[k][v].found \/ v = Newest(k)
    PROVE  Promise!Next
<1>1. v \in DOMAIN rows[k]
  BY KeyTypes
<1>2. Promise!Read(k, v)
  BY DEF Answer, Promise!Read, Promise!Newest, Newest
<1> QED
  BY <1>1, <1>2 DEF Promise!Next

LEMMA NextRefines == IInv /\ [Next]_vars => [Promise!Next]_<<rows, answer>>
<1> SUFFICES ASSUME IInv, Next PROVE Promise!Next
  BY DEF vars
<1>0. TypeOK
  BY DEF IInv
<1>1. ASSUME NEW r \in Requests, NEW k \in Keys, Hit(r, k) PROVE Promise!Next
  <2>1. cache[k] # None /\ Answer(k, cache[k].val) /\ UNCHANGED rows
    BY <1>1 DEF Hit
  <2>2. PICK v \in 1..Newest(k) : v = cache[k].val
    BY <1>0, <2>1, TypeParts DEF EntryTyped
  <2>3. rows[k][v].age < Ttl + Slow
    <3>1. rows[k][v].age \in Nat
      BY <1>0, KeyTypes DEF Row
    <3>2. cache[k].left \in 1..Ttl
      BY <1>0, <2>1, TypeParts DEF EntryTyped
    <3>3. rows[k][v].age + cache[k].left <= Ttl + Slow
      BY <2>1, <2>2 DEF IInv, EntriesExpireInTime
    <3> QED
      BY <3>1, <3>2, <3>3, Bounds
  <2>4. rows[k][v].found
    BY <2>1, <2>2 DEF IInv, CachedWasFound
  <2> QED
    BY <1>0, <2>1, <2>2, <2>3, <2>4, AnswerRefines
<1>2. ASSUME NEW r \in Requests, NEW k \in Keys, Miss(r, k) PROVE Promise!Next
  BY <1>2, SilenceRefines DEF Miss
<1>3. ASSUME NEW r \in Requests, Load(r) PROVE Promise!Next
  <2>1. PICK k \in Keys : k = req[r].key
    BY <1>0, <1>3, LoadTypes DEF Load
  <2>2. CASE rows[k][Newest(k)].found
    BY <1>3, <2>1, <2>2, SilenceRefines DEF Load
  <2>3. CASE ~rows[k][Newest(k)].found
    <3>1. Answer(k, Newest(k)) /\ UNCHANGED rows
      BY <1>3, <2>1, <2>3 DEF Load
    <3>2. PICK v \in 1..Newest(k) : v = Newest(k)
      BY <1>0, KeyTypes, Bounds
    <3>3. rows[k][v].age = 0 /\ 0 < Ttl + Slow
      BY <3>2, Bounds DEF IInv, NewestIsFresh
    <3> QED
      BY <1>0, <3>1, <3>2, <3>3, AnswerRefines
  <2> QED
    BY <2>2, <2>3
<1>4. ASSUME NEW r \in Requests, Fill(r) PROVE Promise!Next
  <2>1. req[r].at = "fill" /\ Answer(req[r].key, req[r].val) /\ UNCHANGED rows
    BY <1>4 DEF Fill
  <2>2. PICK k \in Keys : k = req[r].key
    BY <1>0, <2>1, FillTypes
  <2>3. PICK v \in 1..Newest(k) : v = req[r].val
    BY <1>0, <2>1, <2>2, FillTypes
  <2>4. rows[k][v].age <= req[r].spent /\ rows[k][v].found
    BY <2>1, <2>2, <2>3 DEF IInv, FillsAreRecent
  <2>5. rows[k][v].age < Ttl + Slow
    <3>1. rows[k][v].age \in Nat
      BY <1>0, KeyTypes DEF Row
    <3>2. req[r].spent \in 0..Slow
      BY <1>0, <2>1, FillTypes
    <3> QED
      BY <2>4, <3>1, <3>2, Bounds
  <2> QED
    BY <1>0, <2>1, <2>2, <2>3, <2>4, <2>5, AnswerRefines
<1>5. ASSUME NEW r \in Requests, RequestFails(r) PROVE Promise!Next
  BY <1>5, SilenceRefines DEF RequestFails
<1>6. ASSUME NEW ks \in Touched, Write(ks) PROVE Promise!Next
  <2>1. PICK found \in BOOLEAN :
          rows' = [k \in Keys |->
                     IF k \in ks THEN Append(rows[k], [found |-> found \/ k \in Lists, age |-> 0])
                     ELSE rows[k]]
    BY <1>6 DEF Write
  <2> DEFINE f == [k \in ks |-> found \/ k \in Lists]
  <2>2. f \in [ks -> BOOLEAN]
    OBVIOUS
  <2>3. rows' = [k \in Keys |->
                   IF k \in ks THEN Append(rows[k], [found |-> f[k], age |-> 0]) ELSE rows[k]]
    BY <2>1
  <2>4. (\A k \in ks : Len(rows[k]) <= MaxWrites) /\ answer' = None
    BY <1>6 DEF Write, Newest, Silent
  <2> HIDE DEF f
  <2>5. Promise!Change(ks)
    BY <2>2, <2>3, <2>4 DEF Promise!Change, Promise!Newest
  <2> QED
    BY <2>5 DEF Promise!Next
<1>7. ASSUME NEW ks \in SUBSET Keys, Evict(ks) PROVE Promise!Next
  BY <1>7, SilenceRefines DEF Evict
<1>8. CASE Tick
  <2>1. Promise!Tick
    BY <1>8 DEF Tick, Silent, Newest, Oldest, Promise!Tick, Promise!Newest
  <2> QED
    BY <2>1 DEF Promise!Next
<1> QED
  BY <1>1, <1>2, <1>3, <1>4, <1>5, <1>6, <1>7, <1>8 DEF Next, Proceed

\* What /flights, /airports and /delays answer keeps the promise of StaleReads:
\* never older than Ttl + Slow, and "not found" only while it is so, for any
\* number of requests and whatever fails.
THEOREM CacheKeepsPromise == Spec => ContractHolds
<1>1. UNCHANGED <<rows, answer>> <=> UNCHANGED Promise!vars
  BY DEF Promise!vars
<1> QED
  BY <1>1, InitRefines, NextRefines, InductiveInvariant, PTL
     DEF Spec, ContractHolds, Promise!Spec, Promise!vars
=============================================================================
