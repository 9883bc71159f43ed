-------------------------- MODULE GenerationStore --------------------------
(***************************************************************************)
(* The part that the generation-versioned caches share                     *)
(* (src/src/gateway/cache.py, src/src/auth/perm_cache.py,                  *)
(* src/src/core/cache.py, src/src/db/session.py).                          *)
(*                                                                         *)
(* An administrative write commits its transaction; its after-commit hook  *)
(* then increments the generation counter of the scope the write belongs   *)
(* to (all users, one user, one department, the catalog).  Cache entries   *)
(* live in Redis under keys that contain a generation of every scope.  A   *)
(* value is, per query of the loader, the set of writes the query saw.     *)
(***************************************************************************)
EXTENDS Naturals, Sequences, FiniteSets

CONSTANTS
    Writes,    \* administrative writes, each committed at most once
    Scopes,    \* the generation counters a key is built from
    ScopeOf,   \* ScopeOf[w]: the counter that write w increments
    Readers,   \* concurrent requests that read through the cache
    Queries,   \* number of database queries a loader makes
    MaxFaults  \* bound on failing Redis commands

ASSUME ScopeAssumption == ScopeOf \in [Writes -> Scopes]
ASSUME QueriesAssumption == Queries \in Nat \ {0} /\ MaxFaults \in Nat

VARIABLES
    db,       \* committed writes
    wpc,      \* wpc[w]: "open", "committed" or "done"
    gen,      \* gen[s]: the generation counter of scope s
    number,   \* history: the number that w's increment returned, 0 if none yet
    entries,  \* cached values, records [key, val]
    rpc,      \* rpc[r]: where reader r stands
    key,      \* key[r]: the generations r composed its key from
    value,    \* value[r]: what the queries of r have seen so far
    floor,    \* history: the writes announced when r started
    faults    \* failed commands so far

storeVars == <<db, wpc, gen, number>>
readerVars == <<rpc, key, value, floor>>

Key == [Scopes -> Nat]
Value == [1..Queries -> SUBSET Writes]

StoreTypeOK ==
    /\ db \in SUBSET Writes
    /\ wpc \in [Writes -> {"open", "committed", "done"}]
    /\ gen \in Key
    /\ number \in [Writes -> Nat]
    /\ entries \in SUBSET [key : Key, val : Value]
    /\ key \in [Readers -> Key]
    /\ value \in [Readers -> Seq(SUBSET Writes)]
    /\ floor \in [Readers -> SUBSET Writes]
    /\ faults \in 0..MaxFaults

StoreInit ==
    /\ db = {}
    /\ wpc = [w \in Writes |-> "open"]
    /\ gen = [s \in Scopes |-> 0]
    /\ number = [w \in Writes |-> 0]
    /\ entries = {}
    /\ rpc = [r \in Readers |-> "idle"]
    /\ key = [r \in Readers |-> [s \in Scopes |-> 0]]
    /\ value = [r \in Readers |-> <<>>]
    /\ floor = [r \in Readers |-> {}]
    /\ faults = 0

\* The writes whose increment took effect.
Announced == {w \in Writes : number[w] # 0}

\* A Redis command raises.
Fault ==
    /\ faults < MaxFaults
    /\ faults' = faults + 1

-----------------------------------------------------------------------------
(* The writer: commit_session and its after-commit hook.                    *)

Commit(w) ==
    /\ wpc[w] = "open"
    /\ db' = db \cup {w}
    /\ wpc' = [wpc EXCEPT ![w] = "committed"]
    /\ UNCHANGED <<gen, number, entries, readerVars, faults>>

\* INCR of the scope's counter.
Incr(w) ==
    /\ gen' = [gen EXCEPT ![ScopeOf[w]] = @ + 1]
    /\ number' = [number EXCEPT ![w] = gen[ScopeOf[w]] + 1]

\* Mutant of Bump: the increment runs before the commit.
BumpBeforeCommit(w) ==
    /\ wpc[w] = "open"
    /\ number[w] = 0
    /\ Incr(w)
    /\ UNCHANGED <<db, wpc, entries, readerVars, faults>>

Bump(w) ==
    /\ wpc[w] = "committed"
    /\ Incr(w)
    /\ wpc' = [wpc EXCEPT ![w] = "done"]
    /\ UNCHANGED <<db, entries, readerVars, faults>>

\* The increment raises, before or after it took effect, or the process dies
\* before the hook: the error is only logged.
BumpRaises(w) ==
    /\ wpc[w] = "committed"
    /\ Fault
    /\ Incr(w) \/ UNCHANGED <<gen, number>>
    /\ wpc' = [wpc EXCEPT ![w] = "done"]
    /\ UNCHANGED <<db, entries, readerVars>>

\* Mutant of Expire: entries are stored without a TTL.
ExpireNever(k) ==
    /\ k \notin {e.key : e \in entries}
    /\ UNCHANGED <<storeVars, entries, readerVars, faults>>

\* The TTL of the entry under k runs out.
Expire(k) ==
    /\ \E e \in entries : e.key = k
    /\ entries' = {e \in entries : e.key # k}
    /\ UNCHANGED <<storeVars, readerVars, faults>>

\* The state of the table of cached values after SET k v.
WithEntry(k, v) == {e \in entries : e.key # k} \cup {[key |-> k, val |-> v]}

\* The generations a counter can reach: every write increments one once.
ReachableKeys == [Scopes -> 0..Cardinality(Writes)]

-----------------------------------------------------------------------------
(* Properties of every reader protocol over the store.                      *)

\* A finished read reflects every write whose increment took effect before the
\* read started: "a rule change invalidates prior entries immediately".
ReadsAreFresh ==
    \A r \in Readers : rpc[r] = "done" =>
        \A i \in DOMAIN value[r] : floor[r] \subseteq value[r][i]

\* No cached value of an addressable or of an orphaned key lacks write w.
SeenByCache(w) == \A e \in entries : \A i \in 1..Queries : w \in e.val[i]

\* The TTL is the backstop of a failed increment: a committed write is in every
\* cached value from some time on, also when its increment never happened.
WritesBecomeVisible == \A w \in Writes : w \in db ~> []SeenByCache(w)

=============================================================================
