---------------------------- MODULE CacheProofs ----------------------------
(***************************************************************************)
(* Theorems about the generation-versioned caches, for any writes, scopes, *)
(* readers and faults.  PermCache: entries match the generations in their  *)
(* keys, reads are fresh, and the cache implements FreshRead.              *)
(* GatewayCache: only complete loads are stored, under complete keys.      *)
(***************************************************************************)
EXTENDS PermCache, GatewayCache, TLAPS, SequenceTheorems

\* The numbers that the increments returned, and the writers' progress.
WritersInv ==
    /\ \A w \in Writes : number[w] # 0 => w \in db /\ number[w] <= gen[ScopeOf[w]]
    /\ \A w \in Writes : wpc[w] = "open" => w \notin db
    /\ \A w \in Writes : wpc[w] = "committed" => w \in db
    /\ \A w \in Writes : wpc[w] # "done" => number[w] = 0

\* No key is ahead of the counters.
Behind(k) == \A s \in Scopes : k[s] <= gen[s]

EntriesInv ==
    \A e \in entries :
        /\ Behind(e.key)
        /\ \A i \in 1..Queries : Base(e.key) \subseteq e.val[i] /\ e.val[i] \subseteq db

\* A reader that will use its key started when that key was current.
KeysInv ==
    \A r \in Readers : rpc[r] \in {"get", "load", "store"} =>
        Behind(key[r]) /\ floor[r] = Base(key[r])

\* What a reader has seen, and how many of its queries it has made.
ValuesInv ==
    \A r \in Readers :
        /\ floor[r] \subseteq Announced
        /\ \A i \in 1..Len(value[r]) : floor[r] \subseteq value[r][i] /\ value[r][i] \subseteq db
        /\ rpc[r] \in {"idle", "get"} => value[r] = <<>>
        /\ rpc[r] \in {"load", "bypass"} => Len(value[r]) < Queries
        /\ rpc[r] \in {"store", "done"} => Len(value[r]) = Queries

Inv == TypeOK /\ WritersInv /\ EntriesInv /\ KeysInv /\ ValuesInv

-----------------------------------------------------------------------------
(* Lemmas.                                                                  *)

\* A finished load is a value that can be cached.
LEMMA FullLoadIsValue ==
    ASSUME NEW v \in Seq(SUBSET Writes), Len(v) = Queries
    PROVE  v \in Value
  BY QueriesAssumption DEF Value

\* A cached value is a sequence with one element per query.
LEMMA ValueIsSequence ==
    ASSUME NEW v \in Value
    PROVE  v \in Seq(SUBSET Writes) /\ Len(v) = Queries
  BY QueriesAssumption DEF Value

\* INCR gives the write a number that no key composed so far counts.
LEMMA IncrKeepsBase ==
    ASSUME TypeOK, NEW w \in Writes, number[w] = 0, Incr(w), NEW k \in Key, Behind(k)
    PROVE  Base(k)' = Base(k) /\ Behind(k)'
  <1>1. /\ number' = [number EXCEPT ![w] = gen[ScopeOf[w]] + 1]
        /\ gen' = [gen EXCEPT ![ScopeOf[w]] = @ + 1]
    BY DEF Incr
  <1>2. /\ ScopeOf \in [Writes -> Scopes] /\ gen \in [Scopes -> Nat]
        /\ number \in [Writes -> Nat] /\ k \in [Scopes -> Nat]
    BY ScopeAssumption DEF TypeOK, StoreTypeOK, Key
  <1>3. Behind(k)'
    BY <1>1, <1>2 DEF Behind
  <1>4. k[ScopeOf[w]] <= gen[ScopeOf[w]]
    BY <1>2 DEF Behind
  <1>5. ASSUME NEW x \in Writes
        PROVE  (number'[x] # 0 /\ number'[x] <= k[ScopeOf[x]])
                 <=> (number[x] # 0 /\ number[x] <= k[ScopeOf[x]])
    BY <1>1, <1>2, <1>4
  <1>6. QED
    BY <1>3, <1>5 DEF Base

\* The invariant holds initially.
LEMMA InvInit == Init => Inv
  <1> SUFFICES ASSUME Init PROVE Inv
    OBVIOUS
  <1> USE QueriesAssumption DEF Init, StoreInit
  <1>1. TypeOK
    BY DEF TypeOK, StoreTypeOK, Key
  <1>2. WritersInv
    BY DEF WritersInv
  <1>3. EntriesInv
    BY DEF EntriesInv
  <1>4. KeysInv
    BY DEF KeysInv
  <1>5. ValuesInv
    BY DEF ValuesInv, Announced
  <1>6. QED
    BY <1>1, <1>2, <1>3, <1>4, <1>5 DEF Inv

\* A table of cached values stays one under SET.
LEMMA WithEntryTyped ==
    ASSUME StoreTypeOK, NEW k \in Key, NEW v \in Value
    PROVE  WithEntry(k, v) \in SUBSET [key : Key, val : Value]
  BY DEF WithEntry, StoreTypeOK

\* A writer or an expiry keeps the types of the store, and the readers.
LEMMA StoreStepTyped ==
    ASSUME StoreTypeOK,
           \/ \E w \in Writes : Commit(w) \/ Bump(w) \/ BumpRaises(w)
           \/ \E e \in entries : Expire(e.key)
    PROVE  StoreTypeOK' /\ UNCHANGED <<rpc, value>>
  <1> USE ScopeAssumption, QueriesAssumption
  <1>1. ASSUME NEW w \in Writes, Commit(w)
        PROVE  StoreTypeOK' /\ UNCHANGED <<rpc, value>>
    BY <1>1 DEF Commit, readerVars, StoreTypeOK
  <1>2. ASSUME NEW w \in Writes, Bump(w) \/ BumpRaises(w)
        PROVE  StoreTypeOK' /\ UNCHANGED <<rpc, value>>
    <2>1. gen' \in Key /\ number' \in [Writes -> Nat]
      <3>1. gen[ScopeOf[w]] + 1 \in Nat
        BY DEF StoreTypeOK, Key
      <3>2. CASE Incr(w)
        BY <3>1, <3>2 DEF Incr, StoreTypeOK, Key
      <3>3. CASE UNCHANGED <<gen, number>>
        BY <3>3 DEF StoreTypeOK
      <3>4. QED
        BY <1>2, <3>2, <3>3 DEF Bump, BumpRaises
    <2>2. faults' \in 0..MaxFaults
      BY <1>2 DEF Bump, BumpRaises, Fault, StoreTypeOK
    <2>3. QED
      BY <1>2, <2>1, <2>2 DEF Bump, BumpRaises, readerVars, StoreTypeOK
  <1>3. ASSUME NEW e \in entries, Expire(e.key)
        PROVE  StoreTypeOK' /\ UNCHANGED <<rpc, value>>
    BY <1>3 DEF Expire, storeVars, readerVars, StoreTypeOK
  <1>4. QED
    BY <1>1, <1>2, <1>3

\* Type correctness is preserved by every step.
LEMMA TypeStep ==
    ASSUME Inv, [Next]_vars
    PROVE  TypeOK'
  <1> USE ScopeAssumption, QueriesAssumption DEF Inv
  <1>1. CASE UNCHANGED vars
    BY <1>1 DEF vars, TypeOK, StoreTypeOK
  <1>2. CASE \/ \E w \in Writes : Commit(w) \/ Bump(w) \/ BumpRaises(w)
             \/ \E e \in entries : Expire(e.key)
    BY <1>2, StoreStepTyped DEF TypeOK
  <1>3. ASSUME NEW r \in Readers, Read(r) \/ ReadFails(r)
        PROVE  TypeOK'
    <2>1. CASE ReadGenerations(r)
      BY <2>1 DEF ReadGenerations, Goto, Announced, storeVars, TypeOK, StoreTypeOK
    <2>2. CASE ReadGenerationsRaises(r)
      BY <2>2 DEF ReadGenerationsRaises, Fault, Goto, Announced, storeVars, TypeOK, StoreTypeOK
    <2>3. CASE Hit(r)
      <3>1. PICK e \in entries : e.key = key[r] /\ value' = [value EXCEPT ![r] = e.val]
        BY <2>3 DEF Hit
      <3>2. e.val \in Seq(SUBSET Writes)
        BY ValueIsSequence DEF TypeOK, StoreTypeOK
      <3>3. QED
        BY <2>3, <3>1, <3>2 DEF Hit, Goto, storeVars, TypeOK, StoreTypeOK
    <2>4. CASE Miss(r)
      BY <2>4 DEF Miss, Goto, storeVars, TypeOK, StoreTypeOK
    <2>5. CASE GetRaises(r)
      BY <2>5 DEF GetRaises, Fault, Goto, storeVars, TypeOK, StoreTypeOK
    <2>6. CASE Query(r)
      <3>1. value[r] \in Seq(SUBSET Writes) /\ db \in SUBSET Writes
        BY DEF TypeOK, StoreTypeOK
      <3>2. Append(value[r], db) \in Seq(SUBSET Writes)
        BY <3>1, AppendProperties
      <3>3. rpc'[r] \in {"load", "bypass", "store", "done"}
        BY <2>6 DEF Query, Goto, TypeOK
      <3>4. QED
        BY <2>6, <3>2, <3>3 DEF Query, Goto, storeVars, TypeOK, StoreTypeOK
    <2>7. CASE Store(r) \/ StoreRaises(r)
      <3>1. key[r] \in Key /\ value[r] \in Value
        BY <2>7, FullLoadIsValue DEF Store, StoreRaises, ValuesInv, TypeOK, StoreTypeOK
      <3>2. entries' \in SUBSET [key : Key, val : Value]
        BY <2>7, <3>1, WithEntryTyped DEF Store, StoreRaises, TypeOK, StoreTypeOK
      <3>3. faults' \in 0..MaxFaults
        BY <2>7 DEF Store, StoreRaises, Fault, TypeOK, StoreTypeOK
      <3>4. QED
        BY <2>7, <3>2, <3>3 DEF Store, StoreRaises, Goto, storeVars, TypeOK, StoreTypeOK
    <2>8. CASE Finish(r)
      BY <2>8 DEF Finish, Goto, storeVars, TypeOK, StoreTypeOK, Key
    <2>9. QED
      BY <1>3, <2>1, <2>2, <2>3, <2>4, <2>5, <2>6, <2>7, <2>8 DEF Read, ReadFails
  <1>4. QED
    BY <1>1, <1>2, <1>3 DEF Next

\* A step of a writer preserves the rest of the invariant.
LEMMA WriterStep ==
    ASSUME Inv, TypeOK', NEW w \in Writes, Commit(w) \/ Bump(w) \/ BumpRaises(w)
    PROVE  Inv'
  <1> USE ScopeAssumption, QueriesAssumption
  <1>1. /\ TypeOK /\ WritersInv /\ EntriesInv /\ KeysInv /\ ValuesInv
        /\ UNCHANGED <<entries, rpc, key, value, floor>>
    BY DEF Inv, Commit, Bump, BumpRaises, readerVars
  <1>2. \/ Commit(w)
        \/ /\ wpc[w] = "committed" /\ number[w] = 0 /\ db' = db
           /\ wpc' = [wpc EXCEPT ![w] = "done"]
           /\ Incr(w) \/ UNCHANGED <<gen, number>>
    BY <1>1 DEF Bump, BumpRaises, WritersInv
  <1>3. db \subseteq db'
    BY <1>2 DEF Commit
  <1>4. ASSUME NEW k \in Key, Behind(k)
        PROVE  Base(k)' = Base(k) /\ Behind(k)'
    <2>1. CASE Incr(w) /\ number[w] = 0
      BY <2>1, <1>1, <1>4, IncrKeepsBase
    <2>2. CASE UNCHANGED <<gen, number>>
      BY <2>2, <1>4 DEF Base, Behind
    <2>3. QED
      BY <1>2, <2>1, <2>2 DEF Commit
  <1>5. WritersInv'
    <2>1. CASE Commit(w)
      BY <2>1, <1>1 DEF Commit, WritersInv, TypeOK, StoreTypeOK
    <2>2. CASE wpc[w] = "committed" /\ db' = db /\ Incr(w)
               /\ wpc' = [wpc EXCEPT ![w] = "done"]
      BY <2>2, <1>1 DEF Incr, WritersInv, TypeOK, StoreTypeOK, Key
    <2>3. CASE wpc[w] = "committed" /\ db' = db /\ UNCHANGED <<gen, number>>
               /\ wpc' = [wpc EXCEPT ![w] = "done"]
      BY <2>3, <1>1 DEF WritersInv, TypeOK, StoreTypeOK
    <2>4. QED
      BY <1>2, <2>1, <2>2, <2>3
  <1>6. EntriesInv'
    <2>1. \A e \in entries : e.key \in Key
      BY <1>1 DEF TypeOK, StoreTypeOK
    <2>2. QED
      BY <1>1, <1>3, <1>4, <2>1 DEF EntriesInv
  <1>7. KeysInv'
    <2> SUFFICES ASSUME NEW r \in Readers, rpc[r] \in {"get", "load", "store"}
                 PROVE  Behind(key[r])' /\ floor[r] = Base(key[r])'
      BY <1>1 DEF KeysInv
    <2>1. key[r] \in Key /\ Behind(key[r]) /\ floor[r] = Base(key[r])
      BY <1>1 DEF KeysInv, TypeOK, StoreTypeOK
    <2>2. Base(key[r])' = {x \in Writes : number'[x] # 0 /\ number'[x] <= key[r][ScopeOf[x]]}
      BY <1>1 DEF Base
    <2>3. QED
      BY <1>1, <1>4, <2>1, <2>2 DEF Base, Behind
  <1>8. ValuesInv'
    <2>1. Announced \subseteq Announced'
      <3>1. CASE Incr(w)
        BY <3>1, <1>1 DEF Incr, Announced, TypeOK, StoreTypeOK, Key
      <3>2. CASE UNCHANGED <<gen, number>>
        BY <3>2 DEF Announced
      <3>3. QED
        BY <1>2, <3>1, <3>2 DEF Commit
    <2>2. QED
      BY <1>1, <1>3, <2>1 DEF ValuesInv
  <1>9. QED
    BY <1>5, <1>6, <1>7, <1>8 DEF Inv

\* The writers' state and the counters are not touched by a reader.
LEMMA ReaderLeavesStore ==
    ASSUME NEW r \in Readers, Read(r) \/ ReadFails(r)
    PROVE  UNCHANGED <<db, wpc, gen, number>>
  BY DEF Read, ReadFails, ReadGenerations, ReadGenerationsRaises, Hit, Miss, GetRaises,
         Query, Store, StoreRaises, Finish, storeVars

\* A step of a reader preserves the values it saw and the progress of its load.
LEMMA ReaderValues ==
    ASSUME Inv, TypeOK', NEW r \in Readers, Read(r) \/ ReadFails(r)
    PROVE  ValuesInv'
  <1> USE QueriesAssumption
  <1>1. TypeOK /\ WritersInv /\ EntriesInv /\ KeysInv /\ ValuesInv
    BY DEF Inv
  <1>2. UNCHANGED <<db, wpc, gen, number>> /\ Announced' = Announced
    BY ReaderLeavesStore DEF Announced
  <1>3. Announced \subseteq db
    BY <1>1 DEF Announced, WritersInv
  <1>4. CASE ReadGenerations(r)
    BY <1>4, <1>1, <1>2 DEF ReadGenerations, Goto, ValuesInv, TypeOK, StoreTypeOK
  <1>5. CASE ReadGenerationsRaises(r)
    BY <1>5, <1>1, <1>2 DEF ReadGenerationsRaises, Goto, ValuesInv, TypeOK, StoreTypeOK
  <1>6. CASE Hit(r)
    <2>1. PICK e \in entries : e.key = key[r] /\ value' = [value EXCEPT ![r] = e.val]
      BY <1>6 DEF Hit
    <2>2. e.val \in Value /\ Len(e.val) = Queries
      BY <1>1, ValueIsSequence DEF TypeOK, StoreTypeOK
    <2>3. floor[r] = Base(e.key)
      BY <1>1, <1>6, <2>1 DEF Hit, KeysInv
    <2>4. \A i \in 1..Queries : floor[r] \subseteq e.val[i] /\ e.val[i] \subseteq db
      BY <1>1, <2>3 DEF EntriesInv
    <2>5. QED
      BY <1>1, <1>2, <1>6, <2>1, <2>2, <2>4 DEF Hit, Goto, ValuesInv, TypeOK, StoreTypeOK
  <1>7. CASE Miss(r)
    BY <1>7, <1>1, <1>2 DEF Miss, Goto, ValuesInv, TypeOK, StoreTypeOK
  <1>8. CASE GetRaises(r)
    BY <1>8, <1>1, <1>2 DEF GetRaises, Goto, ValuesInv, TypeOK, StoreTypeOK
  <1>9. CASE Query(r)
    <2> DEFINE v == Append(value[r], db)
    <2>1. value[r] \in Seq(SUBSET Writes) /\ db \in SUBSET Writes
      BY <1>1 DEF TypeOK, StoreTypeOK
    <2>2. /\ Len(v) = Len(value[r]) + 1 /\ Len(value[r]) \in Nat
          /\ \A i \in 1..Len(value[r]) : v[i] = value[r][i]
          /\ v[Len(value[r]) + 1] = db
      BY <2>1, AppendProperties, LenProperties
    <2>3. \A i \in 1..Len(v) : floor[r] \subseteq v[i] /\ v[i] \subseteq db
      BY <1>1, <1>3, <2>2 DEF ValuesInv
    <2>4. value' = [value EXCEPT ![r] = v] /\ floor' = floor
      BY <1>9 DEF Query
    <2>5. Len(value[r]) < Queries
      BY <1>1, <1>9 DEF Query, ValuesInv
    <2>6. /\ rpc'[r] \in {"load", "bypass"} => Len(v) < Queries
          /\ rpc'[r] \in {"store", "done"} => Len(v) = Queries
          /\ rpc'[r] \in {"load", "bypass", "store", "done"}
          /\ \A x \in Readers \ {r} : rpc'[x] = rpc[x]
      BY <1>1, <1>9, <2>2, <2>5 DEF Query, Goto, TypeOK
    <2> HIDE DEF v
    <2>7. ASSUME NEW x \in Readers
          PROVE  value'[x] = IF x = r THEN v ELSE value[x]
      BY <1>1, <2>4 DEF TypeOK, StoreTypeOK
    <2>8. QED
      BY <1>1, <1>2, <2>3, <2>4, <2>6, <2>7 DEF ValuesInv
  <1>10. CASE Store(r) \/ StoreRaises(r)
    BY <1>10, <1>1, <1>2 DEF Store, StoreRaises, Goto, ValuesInv, TypeOK, StoreTypeOK
  <1>11. CASE Finish(r)
    BY <1>11, <1>1, <1>2 DEF Finish, Goto, ValuesInv, TypeOK, StoreTypeOK
  <1>12. QED
    BY <1>4, <1>5, <1>6, <1>7, <1>8, <1>9, <1>10, <1>11 DEF Read, ReadFails

\* A step of a reader preserves the match between entries and their keys, also
\* when an invalidation overtook its load.
LEMMA ReaderEntries ==
    ASSUME Inv, NEW r \in Readers, Read(r) \/ ReadFails(r)
    PROVE  EntriesInv'
  <1>1. TypeOK /\ EntriesInv /\ KeysInv /\ ValuesInv /\ UNCHANGED <<db, gen, number>>
    BY ReaderLeavesStore DEF Inv
  <1>2. CASE entries' = entries
    BY <1>1, <1>2 DEF EntriesInv, Behind, Base
  <1>3. CASE rpc[r] = "store" /\ entries' = WithEntry(key[r], value[r])
    <2>1. Behind(key[r]) /\ floor[r] = Base(key[r]) /\ Len(value[r]) = Queries
      BY <1>1, <1>3 DEF KeysInv, ValuesInv
    <2>2. \A i \in 1..Queries : Base(key[r]) \subseteq value[r][i] /\ value[r][i] \subseteq db
      BY <1>1, <2>1 DEF ValuesInv
    <2>3. \A e \in entries' : e \in entries \/ (e.key = key[r] /\ e.val = value[r])
      BY <1>3 DEF WithEntry
    <2>4. QED
      BY <1>1, <2>1, <2>2, <2>3 DEF EntriesInv, Behind, Base
  <1>4. QED
    BY <1>2, <1>3 DEF Read, ReadFails, ReadGenerations, ReadGenerationsRaises, Hit, Miss,
                      GetRaises, Query, Store, StoreRaises, Finish

\* A step of a reader preserves what its key and those of the others stand for.
LEMMA ReaderKeys ==
    ASSUME Inv, NEW r \in Readers, Read(r) \/ ReadFails(r)
    PROVE  KeysInv'
  <1> USE ScopeAssumption
  <1>1. TypeOK /\ WritersInv /\ KeysInv /\ UNCHANGED <<db, gen, number>>
    BY ReaderLeavesStore DEF Inv
  <1>2. CASE ReadGenerations(r)
    <2>1. Behind(gen) /\ Announced = Base(gen)
      BY <1>1 DEF Behind, Announced, Base, WritersInv, TypeOK, StoreTypeOK, Key
    <2>2. QED
      BY <1>1, <1>2, <2>1 DEF ReadGenerations, Goto, KeysInv, Behind, Base, TypeOK, StoreTypeOK
  <1>3. CASE Miss(r) \/ Query(r)
    <2>1. rpc'[r] \in {"get", "load", "store"} => rpc[r] \in {"get", "load", "store"}
      BY <1>1, <1>3 DEF Miss, Query, Goto, TypeOK
    <2>2. QED
      BY <1>1, <1>3, <2>1 DEF Miss, Query, Goto, KeysInv, Behind, Base, TypeOK
  <1>4. CASE ReadGenerationsRaises(r) \/ Hit(r) \/ GetRaises(r) \/ Store(r)
             \/ StoreRaises(r) \/ Finish(r)
    <2>1. /\ rpc'[r] \notin {"get", "load", "store"}
          /\ \A x \in Readers \ {r} : /\ rpc'[x] = rpc[x] /\ key'[x] = key[x]
                                      /\ floor'[x] = floor[x]
      BY <1>1, <1>4 DEF ReadGenerationsRaises, Hit, GetRaises, Store, StoreRaises, Finish,
                        Goto, TypeOK, StoreTypeOK
    <2>2. QED
      BY <1>1, <2>1 DEF KeysInv, Behind, Base
  <1>5. QED
    BY <1>2, <1>3, <1>4 DEF Read, ReadFails

\* Every step preserves the invariant.
LEMMA InvStep == Inv /\ [Next]_vars => Inv'
  <1> SUFFICES ASSUME Inv, [Next]_vars PROVE Inv'
    OBVIOUS
  <1>1. TypeOK'
    BY TypeStep
  <1>2. CASE UNCHANGED vars
    BY <1>2 DEF vars, Inv, TypeOK, StoreTypeOK, WritersInv, EntriesInv, KeysInv, ValuesInv,
                Behind, Base, Announced
  <1>3. ASSUME NEW w \in Writes, Commit(w) \/ Bump(w) \/ BumpRaises(w)
        PROVE  Inv'
    BY <1>1, <1>3, WriterStep
  <1>4. ASSUME NEW r \in Readers, Read(r) \/ ReadFails(r)
        PROVE  Inv'
    <2>1. WritersInv'
      BY <1>4, ReaderLeavesStore DEF Inv, WritersInv
    <2>2. QED
      BY <1>1, <1>4, <2>1, ReaderValues, ReaderEntries, ReaderKeys DEF Inv
  <1>5. ASSUME NEW e \in entries, Expire(e.key)
        PROVE  Inv'
    <2>1. /\ entries' \subseteq entries
          /\ UNCHANGED <<db, wpc, gen, number, rpc, key, value, floor, faults>>
      BY <1>5 DEF Expire, storeVars, readerVars
    <2>2. QED
      BY <1>1, <2>1 DEF Inv, WritersInv, EntriesInv, KeysInv, ValuesInv, Behind, Base, Announced
  <1>6. QED
    BY <1>2, <1>3, <1>4, <1>5 DEF Next

-----------------------------------------------------------------------------
(* Theorems.                                                                *)

\* The invariant holds in every reachable state.
LEMMA Invariance == Spec => []Inv
  BY InvInit, InvStep, PTL DEF Spec

\* Type correctness of load_snapshot, get_or_load and the invalidation hooks.
THEOREM TypeCorrect == Spec => []TypeOK
  <1>1. Inv => TypeOK
    BY DEF Inv
  <1>2. QED
    BY <1>1, Invariance, PTL

\* The value under a key reflects all writes that the generations in the key
\* count: a snapshot loaded before an INCR is never found under a later key.
THEOREM EntriesMatch == Spec => []EntriesMatchTheirKeys
  <1>1. Inv => EntriesMatchTheirKeys
    BY DEF Inv, EntriesInv, EntriesMatchTheirKeys
  <1>2. QED
    BY <1>1, Invariance, PTL

\* No read of load_snapshot misses a permission change whose INCR happened
\* before the read started, whatever fails.
THEOREM FreshReads == Spec => []ReadsAreFresh
  <1>1. Inv => ReadsAreFresh
    <2> SUFFICES ASSUME Inv, NEW r \in Readers, NEW i \in DOMAIN value[r]
                 PROVE  floor[r] \subseteq value[r][i]
      BY DEF ReadsAreFresh
    <2>1. value[r] \in Seq(SUBSET Writes)
      BY DEF Inv, TypeOK, StoreTypeOK
    <2>2. i \in 1..Len(value[r])
      BY <2>1, LenProperties
    <2>3. QED
      BY <2>2 DEF Inv, ValuesInv
  <1>2. QED
    BY <1>1, Invariance, PTL

-----------------------------------------------------------------------------
(* The permission cache implements FreshRead.                               *)

\* What a finished read returns.
Returned(r) == IF rpc[r] = "done" THEN value[r] ELSE <<>>

\* A step of a writer is a Commit or an Announce of FreshRead, or none.
LEMMA WriterRefines ==
    ASSUME Inv, NEW w \in Writes, Commit(w) \/ Bump(w) \/ BumpRaises(w)
    PROVE  [Fresh!Next]_(Fresh!vars)
  <1>1. TypeOK /\ WritersInv /\ UNCHANGED <<entries, rpc, key, value, floor>>
    BY DEF Inv, Commit, Bump, BumpRaises, readerVars
  <1>2. CASE Commit(w)
    <2>1. Fresh!Commit(w)
      BY <1>1, <1>2 DEF Commit, WritersInv, Fresh!Commit, Announced, ReaderState
    <2>2. QED
      BY <2>1 DEF Fresh!Next
  <1>3. CASE db' = db /\ wpc[w] = "committed" /\ Incr(w)
    <2>1. Announced' = Announced \cup {w}
      <3>1. gen[ScopeOf[w]] \in Nat
        BY <1>1, ScopeAssumption DEF TypeOK, StoreTypeOK, Key
      <3>2. \A x \in Writes : number'[x] # 0 <=> number[x] # 0 \/ x = w
        BY <1>1, <1>3, <3>1 DEF Incr, TypeOK, StoreTypeOK
      <3>3. QED
        BY <3>2 DEF Announced
    <2>2. Fresh!Announce(w)
      BY <1>1, <1>3, <2>1 DEF WritersInv, Fresh!Announce, ReaderState
    <2>3. QED
      BY <2>2 DEF Fresh!Next
  <1>4. CASE db' = db /\ UNCHANGED <<gen, number>>
    BY <1>1, <1>4 DEF Fresh!vars, Announced, ReaderState
  <1>5. QED
    BY <1>2, <1>3, <1>4 DEF Bump, BumpRaises

\* A step of a reader starts, returns or finishes a read of FreshRead, or none.
LEMMA ReaderRefines ==
    ASSUME Inv, Inv', NEW r \in Readers, Read(r) \/ ReadFails(r)
    PROVE  [Fresh!Next]_(Fresh!vars)
  <1> DEFINE state == [x \in Readers |-> ReaderState(x)]
             result == [x \in Readers |-> Returned(x)]
  <1>1. /\ TypeOK /\ TypeOK' /\ ValuesInv /\ ValuesInv'
        /\ UNCHANGED <<db, wpc, gen, number>> /\ Announced' = Announced
    BY ReaderLeavesStore DEF Inv, Announced
  <1>2. CASE ReadGenerations(r) \/ ReadGenerationsRaises(r)
    <2>1. state[r] = "idle" /\ state' = [state EXCEPT ![r] = "busy"] /\ result' = result
      BY <1>1, <1>2, ZenonT(30) DEF ReadGenerations, ReadGenerationsRaises, Goto, ReaderState, Returned,
                        TypeOK, StoreTypeOK
    <2>2. floor' = [floor EXCEPT ![r] = Announced]
      BY <1>2 DEF ReadGenerations, ReadGenerationsRaises
    <2>3. Fresh!Start(r)
      BY <1>1, <2>1, <2>2 DEF Fresh!Start, Returned
    <2>4. QED
      BY <2>3 DEF Fresh!Next
  <1>3. CASE Finish(r)
    <2>1. /\ state[r] = "done" /\ state' = [state EXCEPT ![r] = "idle"]
          /\ result' = [result EXCEPT ![r] = <<>>]
      BY <1>1, <1>3 DEF Finish, Goto, ReaderState, Returned, TypeOK, StoreTypeOK
    <2>2. Fresh!Finish(r)
      BY <1>1, <1>3, <2>1 DEF Finish, Fresh!Finish, Returned
    <2>3. QED
      BY <2>2 DEF Fresh!Next
  <1>4. ASSUME rpc[r] \in {"get", "load", "bypass", "store"}, rpc'[r] = "done",
               floor' = floor,
               \A x \in Readers \ {r} : rpc'[x] = rpc[x] /\ value'[x] = value[x]
        PROVE  [Fresh!Next]_(Fresh!vars)
    <2>1. state[r] = "busy" /\ state' = [state EXCEPT ![r] = "done"]
      BY <1>1, <1>4 DEF ReaderState, TypeOK
    <2>2. result' = [result EXCEPT ![r] = value'[r]]
      BY <1>1, <1>4 DEF Returned, TypeOK, StoreTypeOK
    <2>3. value'[r] \in Seq(SUBSET Writes) /\ Len(value'[r]) = Queries
      BY <1>1, <1>4 DEF ValuesInv, TypeOK, StoreTypeOK
    <2>4. \A i \in 1..Queries : floor[r] \subseteq value'[r][i] /\ value'[r][i] \subseteq db
      BY <1>1, <1>4, <2>3 DEF ValuesInv
    <2>5. value'[r] \in [1..Queries -> SUBSET db]
      BY <2>3, <2>4, LenProperties
    <2>6. Fresh!Return(r)
      BY <1>1, <1>4, <2>1, <2>2, <2>4, <2>5 DEF Fresh!Return, Returned
    <2>7. QED
      BY <2>6 DEF Fresh!Next
  <1>5. ASSUME rpc[r] \in {"get", "load", "bypass", "store"},
               rpc'[r] \in {"get", "load", "bypass", "store"}, floor' = floor,
               \A x \in Readers \ {r} : rpc'[x] = rpc[x] /\ value'[x] = value[x]
        PROVE  [Fresh!Next]_(Fresh!vars)
    <2>1. state' = state /\ result' = result
      BY <1>1, <1>5 DEF ReaderState, Returned, TypeOK
    <2>2. QED
      BY <1>1, <1>5, <2>1 DEF Fresh!vars, Returned
  <1>6. CASE Hit(r) \/ Miss(r) \/ GetRaises(r) \/ Query(r) \/ Store(r) \/ StoreRaises(r)
    <2>1. /\ rpc[r] \in {"get", "load", "bypass", "store"} /\ floor' = floor
          /\ rpc'[r] \in {"get", "load", "bypass", "store", "done"}
          /\ \A x \in Readers \ {r} : rpc'[x] = rpc[x] /\ value'[x] = value[x]
      BY <1>1, <1>6 DEF Hit, Miss, GetRaises, Query, Store, StoreRaises, Goto, TypeOK,
                        StoreTypeOK
    <2>2. QED
      BY <1>4, <1>5, <2>1
  <1>7. QED
    BY <1>2, <1>3, <1>6 DEF Read, ReadFails

\* Whatever the schedule and the failures of Redis, reads of permission
\* snapshots are reads of FreshRead: load_snapshot never grants what a change
\* announced before it took away.
THEOREM Refinement == Spec => ImplementsFreshRead
  <1>1. Init => Fresh!Init
    BY DEF Init, StoreInit, Fresh!Init, Announced, ReaderState
  <1>2. Inv /\ Inv' /\ [Next]_vars => [Fresh!Next]_(Fresh!vars)
    <2> SUFFICES ASSUME Inv, Inv', [Next]_vars
                 PROVE  [Fresh!Next]_(Fresh!vars)
      OBVIOUS
    <2>1. CASE UNCHANGED vars
      BY <2>1 DEF vars, Fresh!vars, Announced, ReaderState
    <2>2. ASSUME NEW e \in entries, Expire(e.key)
          PROVE  [Fresh!Next]_(Fresh!vars)
      BY <2>2 DEF Expire, storeVars, readerVars, Fresh!vars, Announced, ReaderState
    <2>3. QED
      BY <2>1, <2>2, WriterRefines, ReaderRefines DEF Next
  <1>3. QED
    BY <1>1, <1>2, Invariance, PTL DEF Spec, ImplementsFreshRead, Fresh!Spec

-----------------------------------------------------------------------------
(* The gateway's caches.                                                    *)

\* How far the load of each request has come: nothing is loaded before the GET
\* missed, and what is stored is the result of all queries.
LoadsInv ==
    \A r \in Readers :
        /\ rpc[r] \in {"idle", "keys", "get"} => value[r] = <<>>
        /\ rpc[r] = "load" => Len(value[r]) < Queries
        /\ rpc[r] \in {"rekeys", "store"} => Len(value[r]) = Queries

GatewayInv == GatewayTypeOK /\ LoadsInv

\* A generation read goes into the key, and the next one is in Order.
LEMMA TakeStep ==
    ASSUME GatewayInv, NEW r \in Readers, NEW g \in Nat, TakeGeneration(r, g),
           faults' \in 0..MaxFaults
    PROVE  GatewayInv'
  <1>1. /\ StoreTypeOK /\ next \in [Readers -> 1..Len(Order)]
        /\ Order \in Seq(Scopes) /\ Len(Order) \in Nat
        /\ rpc \in [Readers -> {"idle", "keys", "get", "load", "rekeys", "store", "done"}]
    BY OrderAssumption DEF GatewayInv, GatewayTypeOK
  <1>2. next[r] \in 1..Len(Order) /\ Order[next[r]] \in Scopes /\ 1 \in 1..Len(Order)
    BY <1>1
  <1>3. key' \in [Readers -> Key]
    <2>1. key[r] \in [Scopes -> Nat] /\ key \in [Readers -> Key]
      BY <1>1 DEF StoreTypeOK, Key
    <2>2. [key[r] EXCEPT ![Order[next[r]]] = g] \in Key
      BY <1>2, <2>1 DEF Key
    <2>3. key' = [key EXCEPT ![r] = [key[r] EXCEPT ![Order[next[r]]] = g]]
      BY <2>1 DEF TakeGeneration
    <2> QED BY <2>1, <2>2, <2>3
  <1>4. StoreTypeOK'
    BY <1>1, <1>3 DEF StoreTypeOK, TakeGeneration, storeVars
  <1>5. next' \in [Readers -> 1..Len(Order)]
    BY <1>1, <1>2 DEF TakeGeneration
  <1>6. /\ rpc[r] \in {"keys", "rekeys"} /\ value' = value
        /\ \/ rpc' = rpc
           \/ rpc' = [rpc EXCEPT ![r] = IF rpc[r] = "keys" THEN "get" ELSE "store"]
    BY DEF TakeGeneration, Move
  <1>7. /\ rpc' \in [Readers -> {"idle", "keys", "get", "load", "rekeys", "store", "done"}]
        /\ LoadsInv'
    BY <1>1, <1>6 DEF GatewayInv, LoadsInv
  <1> QED BY <1>4, <1>5, <1>7 DEF GatewayInv, GatewayTypeOK

\* The other steps of a request.
LEMMA RequestStep ==
    ASSUME GatewayInv, NEW r \in Readers, GatewayRead(r) \/ GatewayReadFails(r)
    PROVE  GatewayInv'
  <1> USE QueriesAssumption
  <1>1. /\ StoreTypeOK /\ next \in [Readers -> 1..Len(Order)] /\ LoadsInv
        /\ rpc \in [Readers -> {"idle", "keys", "get", "load", "rekeys", "store", "done"}]
    BY DEF GatewayInv, GatewayTypeOK
  <1>2. CASE ReadGeneration(r)
    <2>1. gen[Order[next[r]]] \in Nat
      <3>1. Order \in Seq(Scopes) /\ next[r] \in 1..Len(Order)
        BY <1>1, OrderAssumption
      <3>2. Order[next[r]] \in Scopes
        BY <3>1
      <3> QED BY <1>1, <3>2 DEF StoreTypeOK, Key
    <2> QED BY <1>1, <1>2, <2>1, TakeStep DEF ReadGeneration, StoreTypeOK
  <1>3. CASE ReadGenerationRaises(r)
    <2>1. faults' \in 0..MaxFaults
      BY <1>1, <1>3 DEF ReadGenerationRaises, Fault, StoreTypeOK
    <2> QED BY <1>3, <2>1, TakeStep DEF ReadGenerationRaises
  <1>4. CASE Lookup(r)
    BY <1>1, <1>4 DEF Lookup, Move, Announced, storeVars, GatewayInv, GatewayTypeOK, StoreTypeOK,
                      LoadsInv
  <1>5. CASE CacheHit(r)
    <2>1. PICK e \in entries : e.key = key[r] /\ value' = [value EXCEPT ![r] = e.val]
      BY <1>5 DEF CacheHit
    <2>2. e.val \in Seq(SUBSET Writes)
      BY <1>1, ValueIsSequence DEF StoreTypeOK
    <2>3. value' \in [Readers -> Seq(SUBSET Writes)]
      BY <1>1, <2>1, <2>2 DEF StoreTypeOK
    <2> QED BY <1>1, <1>5, <2>1, <2>3
            DEF CacheHit, Move, storeVars, GatewayInv, GatewayTypeOK, StoreTypeOK, LoadsInv
  <1>6. CASE CacheMiss(r) \/ GetFails(r)
    <2>1. faults' \in 0..MaxFaults
      BY <1>1, <1>6 DEF CacheMiss, GetFails, Fault, StoreTypeOK
    <2>2. value[r] = <<>>
      BY <1>1, <1>6 DEF CacheMiss, GetFails, LoadsInv
    <2>3. Len(value[r]) < Queries
      BY <2>2
    <2> QED BY <1>1, <1>6, <2>1, <2>3
            DEF CacheMiss, GetFails, Move, storeVars, GatewayInv, GatewayTypeOK, StoreTypeOK,
                LoadsInv
  <1>7. CASE RunQuery(r) \/ Refuse(r)
    <2>1. /\ value[r] \in Seq(SUBSET Writes) /\ db \in SUBSET Writes
          /\ rpc[r] = "load" /\ Len(value[r]) < Queries
      BY <1>1, <1>7 DEF StoreTypeOK, RunQuery, Refuse, LoadsInv
    <2>2. Append(value[r], db) \in Seq(SUBSET Writes) /\ Len(Append(value[r], db)) = Len(value[r]) + 1
      BY <2>1, AppendProperties
    <2>3. value' = [value EXCEPT ![r] = Append(value[r], db)]
      BY <1>1, <1>7 DEF RunQuery, Refuse, StoreTypeOK
    <2>4. PICK pc \in {"load", "rekeys", "done"} :
            /\ rpc' = [rpc EXCEPT ![r] = pc]
            /\ pc = "load" => Len(value[r]) + 1 < Queries
            /\ pc = "rekeys" => Len(value[r]) + 1 >= Queries
      BY <1>7, <2>1 DEF RunQuery, Refuse, Move
    <2>5. Len(value[r]) \in Nat
      BY <2>1
    <2>6. LoadsInv'
      BY <1>1, <2>1, <2>2, <2>3, <2>4, <2>5 DEF LoadsInv, StoreTypeOK
    <2>7. value' \in [Readers -> Seq(SUBSET Writes)]
      BY <1>1, <2>2, <2>3 DEF StoreTypeOK
    <2> QED BY <1>1, <1>7, <2>4, <2>6, <2>7
            DEF RunQuery, Refuse, storeVars, GatewayInv, GatewayTypeOK, StoreTypeOK
  <1>8. CASE SetCached(r) \/ SetCachedRaises(r)
    <2>1. key[r] \in Key /\ value[r] \in Value
      BY <1>1, <1>8, FullLoadIsValue DEF SetCached, SetCachedRaises, LoadsInv, StoreTypeOK
    <2>2. entries' \in SUBSET [key : Key, val : Value]
      BY <1>1, <1>8, <2>1, WithEntryTyped DEF SetCached, SetCachedRaises, StoreTypeOK
    <2>3. faults' \in 0..MaxFaults
      BY <1>1, <1>8 DEF SetCached, SetCachedRaises, Fault, StoreTypeOK
    <2> QED BY <1>1, <1>8, <2>2, <2>3
            DEF SetCached, SetCachedRaises, Move, storeVars, GatewayInv, GatewayTypeOK,
                StoreTypeOK, LoadsInv
  <1>9. CASE EndRequest(r)
    BY <1>1, <1>9 DEF EndRequest, Move, storeVars, GatewayInv, GatewayTypeOK, StoreTypeOK, Key,
                      LoadsInv
  <1> QED BY <1>2, <1>3, <1>4, <1>5, <1>6, <1>7, <1>8, <1>9 DEF GatewayRead, GatewayReadFails

\* Every reachable state of the gateway's caches is well typed: what
\* set_cached_resolution, set_cached_quota_config and set_cached_response store
\* is the result of every query of the load, also after generation reads that
\* raised, and the key has a generation of every scope.
THEOREM GatewayTypes == GatewaySpec => []GatewayTypeOK
<1>1. GatewayInit => GatewayInv
  <2> SUFFICES ASSUME GatewayInit PROVE GatewayInv
    OBVIOUS
  <2>1. StoreTypeOK
    BY QueriesAssumption DEF GatewayInit, StoreInit, StoreTypeOK, Key
  <2>2. 1 \in 1..Len(Order)
    BY OrderAssumption
  <2> QED BY <2>1, <2>2 DEF GatewayInit, StoreInit, GatewayInv, GatewayTypeOK, LoadsInv
<1>2. GatewayInv /\ [GatewayNext]_gatewayVars => GatewayInv'
  <2> SUFFICES ASSUME GatewayInv, [GatewayNext]_gatewayVars PROVE GatewayInv'
    OBVIOUS
  <2>1. CASE UNCHANGED gatewayVars
    BY <2>1 DEF gatewayVars, GatewayInv, GatewayTypeOK, StoreTypeOK, LoadsInv
  <2>2. CASE \/ \E w \in Writes : Write(w) /\ UNCHANGED next
             \/ \E e \in entries : Expire(e.key) /\ UNCHANGED next
    <3>1. StoreTypeOK' /\ UNCHANGED <<rpc, value>> /\ next' = next
      BY <2>2, StoreStepTyped DEF Write, GatewayInv, GatewayTypeOK
    <3> QED BY <3>1 DEF GatewayInv, GatewayTypeOK, LoadsInv
  <2>3. CASE \E r \in Readers : GatewayRead(r) \/ GatewayReadFails(r)
    BY <2>3, RequestStep
  <2> QED BY <2>1, <2>2, <2>3 DEF GatewayNext
<1>3. GatewayInv => GatewayTypeOK
  BY DEF GatewayInv
<1> QED BY <1>1, <1>2, <1>3, PTL DEF GatewaySpec

=============================================================================
