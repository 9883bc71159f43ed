----------------------------- MODULE FreshRead -----------------------------
(***************************************************************************)
(* What a cache with invalidation promises, without the cache.             *)
(*                                                                         *)
(* Administrators commit writes to the database and then announce them.  A *)
(* read starts, and some time later returns what the queries of its loader *)
(* saw; each of them saw every write that was announced before the read    *)
(* started, and none that is not committed.                                *)
(***************************************************************************)
EXTENDS Naturals

CONSTANTS Writes, Readers, Queries

VARIABLES
    committed,  \* writes in the database
    announced,  \* writes whose invalidation took effect
    state,      \* state[r]: "idle", "busy" or "done"
    floor,      \* floor[r]: the writes announced when r's read started
    result      \* result[r]: the writes each query of a finished read reflects

vars == <<committed, announced, state, floor, result>>

Init ==
    /\ committed = {}
    /\ announced = {}
    /\ state = [r \in Readers |-> "idle"]
    /\ floor = [r \in Readers |-> {}]
    /\ result = [r \in Readers |-> <<>>]

Commit(w) ==
    /\ w \notin committed
    /\ committed' = committed \cup {w}
    /\ UNCHANGED <<announced, state, floor, result>>

Announce(w) ==
    /\ w \in committed
    /\ announced' = announced \cup {w}
    /\ UNCHANGED <<committed, state, floor, result>>

Start(r) ==
    /\ state[r] = "idle"
    /\ state' = [state EXCEPT ![r] = "busy"]
    /\ floor' = [floor EXCEPT ![r] = announced]
    /\ UNCHANGED <<committed, announced, result>>

Return(r) ==
    /\ state[r] = "busy"
    /\ state' = [state EXCEPT ![r] = "done"]
    /\ \E seen \in [1..Queries -> SUBSET committed] :
          /\ \A i \in 1..Queries : floor[r] \subseteq seen[i]
          /\ result' = [result EXCEPT ![r] = seen]
    /\ UNCHANGED <<committed, announced, floor>>

Finish(r) ==
    /\ state[r] = "done"
    /\ state' = [state EXCEPT ![r] = "idle"]
    /\ floor' = [floor EXCEPT ![r] = {}]
    /\ result' = [result EXCEPT ![r] = <<>>]
    /\ UNCHANGED <<committed, announced>>

Next ==
    \/ \E w \in Writes : Commit(w) \/ Announce(w)
    \/ \E r \in Readers : Start(r) \/ Return(r) \/ Finish(r)

Spec == Init /\ [][Next]_vars

=============================================================================
