----------------------------- MODULE PermCache -----------------------------
(***************************************************************************)
(* The permission snapshots of the authentication hot path                 *)
(* (src/src/auth/perm_cache.py over src/src/core/cache.py).  A reader      *)
(* composes its key from the generations it read BEFORE it loads, and      *)
(* stores under that same key: a load that an invalidation overtook fills  *)
(* a key that nobody composes any more.                                    *)
(***************************************************************************)
EXTENDS GenerationStore

vars == <<db, wpc, gen, number, entries, rpc, key, value, floor, faults>>

TypeOK ==
    /\ StoreTypeOK
    /\ rpc \in [Readers -> {"idle", "get", "load", "bypass", "store", "done"}]

Init == StoreInit

Goto(r, state) == rpc' = [rpc EXCEPT ![r] = state]

\* _read_generations: one MGET of all counters.
ReadGenerations(r) ==
    /\ rpc[r] = "idle"
    /\ key' = [key EXCEPT ![r] = gen]
    /\ floor' = [floor EXCEPT ![r] = Announced]
    /\ Goto(r, "get")
    /\ UNCHANGED <<storeVars, entries, value, faults>>

\* Mutant of ReadGenerationsRaises: unreadable counters count as 0.
ReadGenerationsAsZero(r) ==
    /\ rpc[r] = "idle"
    /\ Fault
    /\ floor' = [floor EXCEPT ![r] = Announced]
    /\ Goto(r, "get")
    /\ UNCHANGED <<storeVars, entries, key, value>>

\* The MGET raises: load_snapshot goes to the database without the cache.
ReadGenerationsRaises(r) ==
    /\ rpc[r] = "idle"
    /\ Fault
    /\ floor' = [floor EXCEPT ![r] = Announced]
    /\ Goto(r, "bypass")
    /\ UNCHANGED <<storeVars, entries, key, value>>

\* get_or_load: a hit ends the read, a miss starts the loader.
Hit(r) ==
    /\ rpc[r] = "get"
    /\ \E e \in entries : e.key = key[r] /\ value' = [value EXCEPT ![r] = e.val]
    /\ Goto(r, "done")
    /\ UNCHANGED <<storeVars, entries, key, floor, faults>>

Miss(r) ==
    /\ rpc[r] = "get"
    /\ \A e \in entries : e.key # key[r]
    /\ Goto(r, "load")
    /\ UNCHANGED <<storeVars, entries, key, value, floor, faults>>

GetRaises(r) ==
    /\ rpc[r] = "get"
    /\ Fault
    /\ Goto(r, "bypass")
    /\ UNCHANGED <<storeVars, entries, key, value, floor>>

\* One query of the loader _load_permission_snapshot; after the last one the
\* value is stored, unless the cache is bypassed.
Query(r) ==
    /\ rpc[r] \in {"load", "bypass"}
    /\ value' = [value EXCEPT ![r] = Append(@, db)]
    /\ Goto(r, IF Len(value[r]) + 1 < Queries THEN rpc[r]
               ELSE IF rpc[r] = "load" THEN "store" ELSE "done")
    /\ UNCHANGED <<storeVars, entries, key, floor, faults>>

\* Mutant of Store: the generations are read again for the key.
StoreUnderCurrent(r) ==
    /\ rpc[r] = "store"
    /\ entries' = WithEntry(gen, value[r])
    /\ Goto(r, "done")
    /\ UNCHANGED <<storeVars, key, value, floor, faults>>

Store(r) ==
    /\ rpc[r] = "store"
    /\ entries' = WithEntry(key[r], value[r])
    /\ Goto(r, "done")
    /\ UNCHANGED <<storeVars, key, value, floor, faults>>

\* The SET raises, before or after it took effect; the value is returned.
StoreRaises(r) ==
    /\ rpc[r] = "store"
    /\ Fault
    /\ entries' \in {entries, WithEntry(key[r], value[r])}
    /\ Goto(r, "done")
    /\ UNCHANGED <<storeVars, key, value, floor>>

\* The request ends, and the reader serves another one.
Finish(r) ==
    /\ rpc[r] = "done"
    /\ value' = [value EXCEPT ![r] = <<>>]
    /\ floor' = [floor EXCEPT ![r] = {}]
    /\ key' = [key EXCEPT ![r] = [s \in Scopes |-> 0]]
    /\ Goto(r, "idle")
    /\ UNCHANGED <<storeVars, entries, faults>>

Read(r) ==
    \/ ReadGenerations(r)
    \/ Hit(r)
    \/ Miss(r)
    \/ Query(r)
    \/ Store(r)
    \/ Finish(r)

ReadFails(r) ==
    \/ ReadGenerationsRaises(r)
    \/ GetRaises(r)
    \/ StoreRaises(r)

Next ==
    \/ \E w \in Writes : Commit(w) \/ Bump(w) \/ BumpRaises(w)
    \/ \E r \in Readers : Read(r) \/ ReadFails(r)
    \/ \E e \in entries : Expire(e.key)

Spec == Init /\ [][Next]_vars

\* Requests under way go on, and every entry has a TTL.
FairSpec ==
    /\ Spec
    /\ \A r \in Readers : WF_vars(Read(r) /\ rpc[r] # "idle")
    /\ \A k \in ReachableKeys : WF_vars(Expire(k))

-----------------------------------------------------------------------------
(* Properties.                                                              *)

\* What a read owes: the writes announced up to the generations of a key.
Base(k) == {w \in Writes : number[w] # 0 /\ number[w] <= k[ScopeOf[w]]}

\* An entry under a key reflects every write that its generations count, for
\* each query of the loader: also entries that a slow reader stores late.
EntriesMatchTheirKeys ==
    \A e \in entries : \A i \in 1..Queries : Base(e.key) \subseteq e.val[i]

ReaderState(r) == IF rpc[r] \in {"idle", "done"} THEN rpc[r] ELSE "busy"

Fresh == INSTANCE FreshRead WITH
    committed <- db,
    announced <- Announced,
    state <- [r \in Readers |-> ReaderState(r)],
    result <- [r \in Readers |-> IF rpc[r] = "done" THEN value[r] ELSE <<>>]

\* The permission cache implements reads that never miss an announced write.
\* load_snapshot is a fresh read even while entries, counters and the database
\* change under it.
ImplementsFreshRead == Fresh!Spec

=============================================================================
