---------------------------- MODULE GatewayCache ----------------------------
(***************************************************************************)
(* The gateway's caches of model resolutions, quota rules and responses    *)
(* (src/src/gateway/cache.py, resolve_model and _get_active_quotas_cached  *)
(* of src/src/gateway/service.py, src/src/gateway/response_cache.py).      *)
(*                                                                         *)
(* They differ from the permission cache in two ways.  The generations are *)
(* read one at a time, and a read that raises counts as generation 0.  And *)
(* the function that stores a loaded value reads the generations AGAIN, so *)
(* the key of an entry may be younger than its value.                      *)
(***************************************************************************)
EXTENDS GenerationStore

CONSTANT Order  \* the scopes in the order their generations are read

ASSUME OrderAssumption ==
    /\ Order \in Seq(Scopes) /\ Order # <<>>
    /\ \A s \in Scopes : \E i \in 1..Len(Order) : Order[i] = s

VARIABLE
    next     \* next[r]: index in Order of the generation r reads next

gatewayVars ==
    <<db, wpc, gen, number, entries, rpc, key, value, floor, faults, next>>

GatewayTypeOK ==
    /\ StoreTypeOK
    /\ rpc \in [Readers -> {"idle", "keys", "get", "load", "rekeys", "store", "done"}]
    /\ next \in [Readers -> 1..Len(Order)]

GatewayInit ==
    /\ StoreInit
    /\ next = [r \in Readers |-> 1]

Move(r, state) == rpc' = [rpc EXCEPT ![r] = state]

\* A request calls get_cached_resolution, get_cached_quota_config or
\* get_cached_response.
Lookup(r) ==
    /\ rpc[r] = "idle"
    /\ floor' = [floor EXCEPT ![r] = Announced]
    /\ Move(r, "keys")
    /\ UNCHANGED <<storeVars, entries, key, value, faults, next>>

\* The generation g becomes part of the key; after the last one the key is used.
TakeGeneration(r, g) ==
    /\ rpc[r] \in {"keys", "rekeys"}
    /\ key' = [key EXCEPT ![r][Order[next[r]]] = g]
    /\ IF next[r] < Len(Order)
       THEN /\ next' = [next EXCEPT ![r] = @ + 1]
            /\ UNCHANGED rpc
       ELSE /\ next' = [next EXCEPT ![r] = 1]
            /\ Move(r, IF rpc[r] = "keys" THEN "get" ELSE "store")
    /\ UNCHANGED <<storeVars, entries, value, floor>>

ReadGeneration(r) ==
    /\ TakeGeneration(r, gen[Order[next[r]]])
    /\ UNCHANGED faults

\* get_generation swallows the error and returns 0.
ReadGenerationRaises(r) ==
    /\ Fault
    /\ TakeGeneration(r, 0)

CacheHit(r) ==
    /\ rpc[r] = "get"
    /\ \E e \in entries : e.key = key[r] /\ value' = [value EXCEPT ![r] = e.val]
    /\ Move(r, "done")
    /\ UNCHANGED <<storeVars, entries, key, floor, faults, next>>

CacheMiss(r) ==
    /\ rpc[r] = "get"
    /\ \A e \in entries : e.key # key[r]
    /\ Move(r, "load")
    /\ UNCHANGED <<storeVars, entries, key, value, floor, faults, next>>

\* The GET of the entry raises: a miss.
GetFails(r) ==
    /\ rpc[r] = "get"
    /\ Fault
    /\ Move(r, "load")
    /\ UNCHANGED <<storeVars, entries, key, value, floor, next>>

\* Mutant of RunQuery: the resolution is stored before the grants are queried.
RunQueryAllButLast(r) ==
    /\ rpc[r] = "load"
    /\ value' = [value EXCEPT ![r] = Append(@, db)]
    /\ Move(r, "rekeys")
    /\ UNCHANGED <<storeVars, entries, key, floor, faults, next>>

\* One query of the loader; after the last one the result is stored.
RunQuery(r) ==
    /\ rpc[r] = "load"
    /\ value' = [value EXCEPT ![r] = Append(@, db)]
    /\ Move(r, IF Len(value[r]) + 1 < Queries THEN "load" ELSE "rekeys")
    /\ UNCHANGED <<storeVars, entries, key, floor, faults, next>>

\* The query finds no model, no grant or no cacheable answer, or raises: the
\* result is not stored.
Refuse(r) ==
    /\ rpc[r] = "load"
    /\ value' = [value EXCEPT ![r] = Append(@, db)]
    /\ Move(r, "done")
    /\ UNCHANGED <<storeVars, entries, key, floor, faults, next>>

\* The SET of set_cached_resolution, under the generations read after the load.
SetCached(r) ==
    /\ rpc[r] = "store"
    /\ entries' = WithEntry(key[r], value[r])
    /\ Move(r, "done")
    /\ UNCHANGED <<storeVars, key, value, floor, faults, next>>

SetCachedRaises(r) ==
    /\ rpc[r] = "store"
    /\ Fault
    /\ entries' \in {entries, WithEntry(key[r], value[r])}
    /\ Move(r, "done")
    /\ UNCHANGED <<storeVars, key, value, floor, next>>

EndRequest(r) ==
    /\ rpc[r] = "done"
    /\ value' = [value EXCEPT ![r] = <<>>]
    /\ floor' = [floor EXCEPT ![r] = {}]
    /\ key' = [key EXCEPT ![r] = [s \in Scopes |-> 0]]
    /\ Move(r, "idle")
    /\ UNCHANGED <<storeVars, entries, faults, next>>

GatewayRead(r) ==
    \/ Lookup(r)
    \/ ReadGeneration(r)
    \/ CacheHit(r)
    \/ CacheMiss(r)
    \/ RunQuery(r)
    \/ Refuse(r)
    \/ SetCached(r)
    \/ EndRequest(r)

GatewayReadFails(r) ==
    \/ ReadGenerationRaises(r)
    \/ GetFails(r)
    \/ SetCachedRaises(r)

Write(w) == Commit(w) \/ Bump(w) \/ BumpRaises(w)

GatewayNext ==
    \/ \E w \in Writes : Write(w) /\ UNCHANGED next
    \/ \E r \in Readers : GatewayRead(r) \/ GatewayReadFails(r)
    \/ \E e \in entries : Expire(e.key) /\ UNCHANGED next

GatewaySpec == GatewayInit /\ [][GatewayNext]_gatewayVars

\* Requests under way go on, and every entry has a TTL.
GatewayFairSpec ==
    /\ GatewaySpec
    /\ \A r \in Readers : WF_gatewayVars(GatewayRead(r) /\ rpc[r] # "idle")
    /\ \A k \in ReachableKeys : WF_gatewayVars(Expire(k) /\ UNCHANGED next)

=============================================================================
