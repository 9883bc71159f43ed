----------------------------- MODULE AuthProofs -----------------------------
(***************************************************************************)
(* Proofs about the state of authentication, for any number of concurrent  *)
(* requests, attempts, sessions and faults.                                *)
(*                                                                         *)
(* Sessions: its types, that a login and its rotations hold one refresh    *)
(* token, and that a mass revocation ends the sessions it listed.          *)
(*                                                                         *)
(* LoginThrottle: its types, that counters get their TTL, and that the     *)
(* wrong passwords verified before a lock holds are bounded.               *)
(***************************************************************************)
EXTENDS Sessions, LoginThrottle, TLAPS, Integers, FiniteSetTheorems

\* A step of request r leaves the other requests where they are.
Moves(r) == \A q \in Requests \ {r} : req'[q] = req[q]

\* Between GETDEL of a refresh token and SET of its successor, request r holds
\* the right to go on with the family.
Held(r) ==
    CASE req[r].pc = "mark" -> {req[r].old}
      [] req[r].pc = "setAccess" /\ req[r].op = "refresh" -> {req[r].old}
      [] req[r].pc = "setRefresh" -> {req[r].new}
      [] OTHER -> {}

\* A set of sessions revoke_all_sessions is done with.
Ended(r, S) == S \cap access = {} /\ S \cap refresh \subseteq req[r].gone

Visiting == {"visit", "visitDel", "visitRefresh"}
Visited == {"delIndex", "dropUser", "commit"}

\* What request r works on was issued, and a session it is about to make
\* redeemable is in no index.
Known(r) ==
    /\ req[r].pc = "consume" => req[r].old \in issued /\ req[r].op = "refresh"
    /\ req[r].pc = "mark" => req[r].op = "refresh"
    /\ req[r].pc = "read" => req[r].op = "login"
    /\ req[r].pc \in {"setRefresh", "addIndex"} => req[r].new \in issued
    /\ req[r].pc = "setRefresh" => req[r].new \notin index
    /\ Held(r) \subseteq issued

\* Nobody can redeem a token of the family the request goes on with.
Safe(r) == \A s \in Held(r), t \in refresh : family[s] # family[t]

\* Its mass revocation is done with what it does not have before it.
Pass(r) ==
    /\ req[r].seen \subseteq issued
    /\ req[r].pc \notin Visiting \cup Visited => req[r].seen = {}
    /\ req[r].pc \in Visiting => req[r].todo \subseteq req[r].seen
    /\ req[r].pc \in {"visitDel", "visitRefresh"} => req[r].new \in req[r].seen
    /\ req[r].pc = "visit" => Ended(r, req[r].seen \ req[r].todo)
    /\ req[r].pc \in {"visitDel", "visitRefresh"} =>
          Ended(r, req[r].seen \ (req[r].todo \cup {req[r].new}))
    /\ req[r].pc = "visitDel" => req[r].found \/ req[r].new \in req[r].gone
    /\ req[r].pc = "visitRefresh" => req[r].new \notin access
    /\ req[r].pc \in Visited => Ended(r, req[r].seen)

\* What holds of request r by itself.
Own(r) == Known(r) /\ Safe(r) /\ Pass(r)

\* What holds between two requests.
Apart(r, q) ==
    /\ \A s \in Held(r), t \in Held(q) : family[s] # family[t]
    /\ req[r].pc = "setRefresh" =>
          /\ req[r].new \notin req[q].seen
          /\ req[q].pc = "addIndex" => req[r].new # req[q].new

SessionInv ==
    /\ refresh \subseteq issued
    /\ index \subseteq issued
    /\ \A s \in issued : family[s] \in issued
    /\ OneRefreshPerFamily
    /\ \A r \in Requests : Own(r)
    /\ \A r, q \in Requests : r # q => Apart(r, q)

-----------------------------------------------------------------------------
(* Lemmas.                                                                  *)

\* Where Finish and Go leave their request.
LEMMA FinishMoves ==
    ASSUME req \in [Requests -> RequestType], NEW r \in Requests, Finish(r)
    PROVE  /\ Moves(r)
           /\ req' \in [Requests -> RequestType]
           /\ req'[r] = Idle
<1>1. Idle \in RequestType
  BY DEF Idle, RequestType, Ops, Pcs
<1> QED BY <1>1 DEF Finish, Moves

LEMMA GoMoves ==
    ASSUME req \in [Requests -> RequestType], NEW r \in Requests, NEW pc \in Pcs, Go(r, pc)
    PROVE  /\ Moves(r)
           /\ req' \in [Requests -> RequestType]
           /\ req'[r].pc = pc
           /\ req'[r].op = req[r].op /\ req'[r].new = req[r].new /\ req'[r].old = req[r].old
           /\ req'[r].todo = req[r].todo /\ req'[r].seen = req[r].seen
           /\ req'[r].gone = req[r].gone /\ req'[r].found = req[r].found
  BY DEF Go, Moves, RequestType

\* An idle request has nothing to keep.
LEMMA IdleOwn ==
    ASSUME NEW r \in Requests, req'[r] = Idle
    PROVE  Own(r)' /\ Held(r)' = {} /\ req'[r].seen = {}
           /\ req'[r].pc \notin {"setRefresh", "addIndex"}
  BY DEF Own, Known, Safe, Pass, Held, Idle, Visiting, Visited

\* A step that issues nothing, stores nothing and takes no token keeps the
\* invariant, if its own request is in order.
LEMMA QuietStep ==
    ASSUME SessionInv, NEW r \in Requests, Moves(r),
           access' \subseteq access, refresh' \subseteq refresh, index' \subseteq index,
           UNCHANGED <<issued, family>>,
           Own(r)', Held(r)' \subseteq Held(r),
           req'[r].pc \notin {"setRefresh", "addIndex"},
           req'[r].seen \subseteq req[r].seen \cup index
    PROVE  SessionInv'
<1>1. ASSUME NEW q \in Requests, q # r PROVE req'[q] = req[q] /\ Held(q)' = Held(q)
  BY <1>1 DEF Moves, Held
<1>2. ASSUME NEW q \in Requests, q # r PROVE Own(q)'
  <2>1. Own(q) /\ req'[q] = req[q] /\ Held(q)' = Held(q)
    BY <1>1, <1>2 DEF SessionInv
  <2>2. \A S : Ended(q, S) => Ended(q, S)'
    BY <2>1 DEF Ended
  <2>3. \A s \in Held(q)', t \in refresh' : family'[s] # family'[t]
    BY <2>1 DEF Own, Known, Safe, Pass
  <2> QED BY <2>1, <2>2, <2>3 DEF Own, Known, Safe, Pass, Ended
<1>3. ASSUME NEW p \in Requests, NEW q \in Requests, p # q PROVE Apart(p, q)'
  <2>1. Apart(p, q) /\ Own(p)
    BY <1>3 DEF SessionInv
  <2>2. Held(p)' \subseteq Held(p) /\ Held(q)' \subseteq Held(q)
    BY <1>1
  <2>3. \A s \in Held(p)', t \in Held(q)' : family'[s] # family'[t]
    BY <2>1, <2>2 DEF Apart
  <2>4. ASSUME req'[p].pc = "setRefresh"
        PROVE  /\ req'[p].new \notin req'[q].seen
               /\ req'[q].pc = "addIndex" => req'[p].new # req'[q].new
    <3>1. p # r /\ req'[p] = req[p]
      BY <1>1, <2>4
    <3>2. req[p].new \notin index
      BY <2>1, <2>4, <3>1 DEF Own, Known, Safe, Pass
    <3>3. CASE q = r
      BY <2>1, <2>4, <3>1, <3>2, <3>3 DEF Apart
    <3>4. CASE q # r
      BY <1>1, <2>1, <2>4, <3>1, <3>4 DEF Apart
    <3> QED BY <3>3, <3>4
  <2> QED BY <2>3, <2>4 DEF Apart
<1>4. \A q \in Requests : Own(q)'
  BY <1>2
<1> QED BY <1>3, <1>4 DEF SessionInv, OneRefreshPerFamily

\* A request that ends.
LEMMA FinishStep ==
    ASSUME TypeOK, SessionInv, NEW r \in Requests, Finish(r),
           access' \subseteq access, refresh' \subseteq refresh, index' \subseteq index,
           UNCHANGED <<issued, family>>
    PROVE  SessionInv'
<1>1. Moves(r) /\ req'[r] = Idle
  BY FinishMoves DEF TypeOK
<1> QED BY <1>1, IdleOwn, QuietStep

\* Places where a request has nothing to answer for.
Plain == Pcs \ ({"read", "consume", "mark", "setAccess", "setRefresh", "addIndex"}
                  \cup Visiting \cup Visited)

\* A request that goes on to such a place with nothing seen.
LEMMA PlainStep ==
    ASSUME SessionInv, NEW r \in Requests, Moves(r),
           access' \subseteq access, refresh' \subseteq refresh, index' \subseteq index,
           UNCHANGED <<issued, family>>,
           req'[r].pc \in Plain, req'[r].seen = {}
    PROVE  SessionInv'
<1>1. Own(r)' /\ Held(r)' = {}
  BY DEF Own, Known, Safe, Pass, Held, Plain, Pcs, Visiting, Visited
<1>2. req'[r].pc \notin {"setRefresh", "addIndex"}
  BY DEF Plain
<1> QED BY <1>1, <1>2, QuietStep

-----------------------------------------------------------------------------
(* Types.                                                                   *)

\* Every step keeps the types; what a request writes to Redis was issued.
LEMMA TypeStep ==
    ASSUME TypeOK, SessionInv, [Next]_vars
    PROVE  TypeOK'
<1> USE DEF redisVars, dbVars, historyVars
<1>1. CASE UNCHANGED vars
  BY <1>1 DEF TypeOK, vars
<1>2. CASE ExpireRecord
  BY <1>2 DEF ExpireRecord, Expire, TypeOK
<1>3. ASSUME NEW r \in Requests, Arrive(r) PROVE TypeOK'
  <2>1. /\ UNCHANGED <<redisVars, dbVars, historyVars, faults>>
        /\ \E e \in RequestType : req' = [req EXCEPT ![r] = e]
    <3>1. \A op \in Ops, pc \in Pcs : [Idle EXCEPT !.op = op, !.pc = pc] \in RequestType
      BY DEF Idle, RequestType
    <3>2. \A op \in Ops, pc \in Pcs, s \in Session :
             [Idle EXCEPT !.op = op, !.pc = pc, !.old = s] \in RequestType
      BY DEF Idle, RequestType
    <3>3. \/ \E op \in Ops, pc \in Pcs : Start(r, op, pc)
          \/ \E op \in Ops, pc \in Pcs, s \in Session : StartWith(r, op, pc, s)
      BY <1>3
         DEF Arrive, Login, Refresh, Logout, ChangePassword, Authenticated, Kick, ListOnline,
             AdminUpdate, AdminEnable, Ops, Creating, Pcs, TypeOK
    <3>4. CASE \E op \in Ops, pc \in Pcs : Start(r, op, pc)
      BY <3>1, <3>4 DEF Start
    <3>5. CASE \E op \in Ops, pc \in Pcs, s \in Session : StartWith(r, op, pc, s)
      BY <3>2, <3>5 DEF StartWith
    <3> QED BY <3>3, <3>4, <3>5
  <2>4. req' \in [Requests -> RequestType]
    BY <2>1 DEF TypeOK
  <2> QED BY <2>1, <2>4 DEF TypeOK
<1>4. ASSUME NEW r \in Requests, Abort(r) PROVE TypeOK'
  <2>1. req' \in [Requests -> RequestType]
    BY <1>4, FinishMoves DEF Abort, TypeOK
  <2>2. faults' \in 0..MaxFaults
    BY <1>4, SessionBounds DEF Abort, TypeOK
  <2> QED BY <1>4, <2>1, <2>2 DEF Abort, TypeOK
<1>5. ASSUME NEW r \in Requests, Step(r) PROVE TypeOK'
  <2> USE DEF At
  <2>0. req \in [Requests -> RequestType] /\ req[r] \in RequestType
    BY DEF TypeOK
  <2>1. CASE VerifyPassword(r)
    BY <2>0, <2>1, FinishMoves, GoMoves DEF VerifyPassword, TypeOK, Pcs
  <2>2. CASE SetAccess(r)
    <3>1. PICK s \in Session \ issued :
              /\ issued' = issued \cup {s}
              /\ family' = [family EXCEPT ![s] =
                            IF req[r].op = "refresh" THEN family[req[r].old] ELSE s]
              /\ access' = access \cup {s}
              /\ req' = [req EXCEPT ![r].new = s, ![r].pc = "setRefresh"]
      BY <2>2 DEF SetAccess
    <3>2. req' \in [Requests -> RequestType]
      BY <2>0, <3>1 DEF RequestType, Pcs
    <3>3. req[r].op = "refresh" => req[r].old \in Session
      BY <2>2 DEF SetAccess, SessionInv, Own, Known, Safe, Pass, Held, TypeOK
    <3>4. family' \in [Session -> Session]
      BY <3>1, <3>3 DEF TypeOK
    <3> QED BY <2>2, <3>1, <3>2, <3>4 DEF SetAccess, TypeOK
  <2>3. CASE SetRefresh(r)
    <3>1. req[r].new \in Session
      BY <2>3 DEF SetRefresh, SessionInv, Own, Known, Safe, Pass, TypeOK
    <3> QED BY <2>0, <2>3, <3>1, GoMoves DEF SetRefresh, TypeOK, Pcs
  <2>4. CASE AddIndex(r)
    <3>1. req[r].new \in Session
      BY <2>4 DEF AddIndex, SessionInv, Own, Known, Safe, Pass, TypeOK
    <3> QED BY <2>0, <2>4, <3>1, GoMoves DEF AddIndex, TypeOK, Pcs
  <2>5. CASE ArmIndex(r)
    BY <2>0, <2>5, GoMoves DEF ArmIndex, TypeOK, Pcs
  <2>6. CASE AddOnline(r)
    <3>1. req' \in [Requests -> RequestType]
      BY <2>0, <2>6, FinishMoves DEF AddOnline, RequestType, Pcs, Ops
    <3> QED BY <2>6, <3>1 DEF AddOnline, TypeOK
  <2>7. CASE ConsumeRefresh(r)
    <3>1. CASE TakeRefresh(r)
      BY <2>0, <3>1, GoMoves DEF TakeRefresh, TypeOK, Pcs
    <3>2. CASE MarkUsed(r)
      <4>1. req[r].old \in Session
        BY <3>2 DEF MarkUsed, SessionInv, Own, Known, Safe, Pass, Held, TypeOK
      <4> QED BY <2>0, <3>2, <4>1, GoMoves DEF MarkUsed, TypeOK, Pcs
    <3>3. CASE CheckUsed(r)
      <4>1. req' \in [Requests -> RequestType]
        BY <2>0, <3>3, FinishMoves DEF CheckUsed, RequestType, Pcs
      <4> QED BY <3>3, <4>1 DEF CheckUsed, TypeOK
    <3> QED BY <2>7, <3>1, <3>2, <3>3 DEF ConsumeRefresh
  <2>8. CASE RevokeAccess(r)
    <3>1. CASE GetAccess(r)
      <4>1. (req[r].old \in access) \in BOOLEAN
        OBVIOUS
      <4>2. req' \in [Requests -> RequestType]
        BY <2>0, <3>1, <4>1 DEF GetAccess, RequestType, Pcs
      <4> QED BY <3>1, <4>2 DEF GetAccess, TypeOK
    <3>2. CASE DelAccess(r)
      <4>1. req' \in [Requests -> RequestType]
        BY <2>0, <3>2, FinishMoves DEF DelAccess, RequestType, Pcs
      <4> QED BY <3>2, <4>1 DEF DelAccess, TypeOK
    <3>3. CASE Unindex(r)
      BY <2>0, <3>3, GoMoves DEF Unindex, RemoveFromIndex, TypeOK, Pcs
    <3>4. CASE DelRefresh(r)
      BY <2>0, <3>4, FinishMoves DEF DelRefresh, TypeOK
    <3>5. CASE PruneUserIndex(r, "prune", "dropOnline", "delRefresh")
      BY <2>0, <3>5, GoMoves DEF PruneUserIndex, TypeOK, Pcs
    <3> QED BY <2>8, <3>1, <3>2, <3>3, <3>4, <3>5 DEF RevokeAccess
  <2>9. CASE RevokeAllSessions(r)
    <3>1. CASE ListMembers(r)
      <4>1. req' \in [Requests -> RequestType]
        BY <2>0, <3>1 DEF ListMembers, RequestType, Pcs, TypeOK
      <4> QED BY <3>1, <4>1 DEF ListMembers, TypeOK
    <3>2. CASE Visit(r)
      <4>1. CASE req[r].todo = {}
        <5>1. req' \in [Requests -> RequestType]
          BY <2>0, <3>2, <4>1 DEF Visit, RequestType, Pcs
        <5> QED BY <3>2, <5>1 DEF Visit, TypeOK
      <4>2. CASE req[r].todo # {}
        <5>1. PICK s \in req[r].todo :
              req' = [req EXCEPT ![r].todo = @ \ {s}, ![r].new = s,
                                 ![r].found = s \in access,
                                 ![r].gone = IF s \in access THEN @ ELSE @ \cup {s},
                                 ![r].pc = "visitDel"]
          BY <3>2, <4>2 DEF Visit
        <5>2. s \in Session /\ (s \in access) \in BOOLEAN
          BY <2>0 DEF RequestType
        <5>3. (IF s \in access THEN req[r].gone ELSE req[r].gone \cup {s}) \in SUBSET Session
          BY <2>0, <5>2 DEF RequestType
        <5> DEFINE e == [req[r] EXCEPT !.todo = @ \ {s}, !.new = s, !.found = s \in access,
                             !.gone = IF s \in access THEN @ ELSE @ \cup {s},
                             !.pc = "visitDel"]
        <5>5. e \in RequestType
          BY <2>0, <5>2, <5>3 DEF RequestType, Pcs
        <5>6. req' = [req EXCEPT ![r] = e]
          BY <2>0, <5>1 DEF RequestType
        <5>4. req' \in [Requests -> RequestType]
          <6> HIDE DEF e
          <6> QED BY <2>0, <5>5, <5>6
        <5> QED BY <3>2, <5>4 DEF Visit, TypeOK
      <4> QED BY <4>1, <4>2
    <3>3. CASE VisitDel(r)
      <4>1. (IF req[r].found THEN "visitRefresh" ELSE "visit") \in Pcs
        BY DEF Pcs
      <4>2. req' \in [Requests -> RequestType]
        BY <2>0, <3>3, <4>1 DEF VisitDel, RequestType
      <4> QED BY <3>3, <4>2 DEF VisitDel, TypeOK
    <3>4. CASE VisitRefresh(r)
      BY <2>0, <3>4, GoMoves DEF VisitRefresh, TypeOK, Pcs
    <3>5. CASE DelIndex(r)
      BY <2>0, <3>5, GoMoves DEF DelIndex, TypeOK, Pcs
    <3>6. CASE DropUser(r)
      BY <2>0, <3>6, GoMoves, FinishMoves DEF DropUser, TypeOK, Pcs
    <3> QED BY <2>9, <3>1, <3>2, <3>3, <3>4, <3>5, <3>6 DEF RevokeAllSessions
  <2>10. CASE ListUserSessions(r)
    <3>1. CASE req[r].pc = "smembers"
      <4>1. req' \in [Requests -> RequestType]
        BY <2>0, <2>10, <3>1 DEF ListUserSessions, RequestType, Pcs, TypeOK
      <4> QED BY <2>10, <3>1, <4>1 DEF ListUserSessions, TypeOK
    <3>2. CASE req[r].pc = "look"
      <4>1. CASE req[r].todo = {}
        <5>1. req' \in [Requests -> RequestType]
          BY <2>0, <2>10, <3>2, <4>1 DEF ListUserSessions, RequestType, Pcs
        <5> QED BY <2>10, <3>2, <5>1 DEF ListUserSessions, TypeOK
      <4>2. CASE req[r].todo # {}
        <5>1. PICK s \in req[r].todo :
                 req' = [req EXCEPT ![r].todo = @ \ {s}, ![r].old = s,
                                    ![r].found = @ \/ s \in access,
                                    ![r].pc = IF s \in access THEN "look" ELSE "srem"]
          BY <2>10, <3>2, <4>2 DEF ListUserSessions
        <5>2. s \in Session /\ (req[r].found \/ s \in access) \in BOOLEAN
          BY <2>0 DEF RequestType
        <5>3. (IF s \in access THEN "look" ELSE "srem") \in Pcs
          BY DEF Pcs
        <5>4. req' \in [Requests -> RequestType]
          BY <2>0, <5>1, <5>2, <5>3, ZenonT(30) DEF RequestType
        <5> QED BY <2>10, <3>2, <5>4 DEF ListUserSessions, TypeOK
      <4> QED BY <4>1, <4>2
    <3>3. CASE req[r].pc = "srem"
      BY <2>0, <2>10, <3>3, GoMoves DEF ListUserSessions, RemoveFromIndex, TypeOK, Pcs
    <3> QED BY <2>10, <3>1, <3>2, <3>3 DEF ListUserSessions
  <2>11. CASE ListAllSessions(r)
    <3>1. req' \in [Requests -> RequestType]
      BY <2>0, <2>11, FinishMoves, GoMoves DEF ListAllSessions, PruneUserIndex, Pcs
    <3>2. online' \in BOOLEAN
      BY <2>11 DEF ListAllSessions, PruneUserIndex, TypeOK
    <3> QED BY <2>11, <3>1, <3>2 DEF ListAllSessions, PruneUserIndex, TypeOK
  <2>12. CASE ResolveAccessToken(r)
    BY <2>0, <2>12, FinishMoves, GoMoves DEF ResolveAccessToken, TypeOK, Pcs
  <2>13. CASE LoadUser(r)
    <3>1. req' \in [Requests -> RequestType]
      <4>1. CASE Go(r, "get")
        BY <2>0, <4>1, GoMoves DEF Pcs
      <4>2. CASE req' = [req EXCEPT ![r].old = NoSession, ![r].pc = "flush"]
        BY <2>0, <4>2 DEF RequestType, Pcs
      <4>3. CASE Finish(r)
        BY <2>0, <4>3, FinishMoves
      <4> QED BY <2>13, <4>1, <4>2, <4>3 DEF LoadUser
    <3> QED BY <2>13, <3>1 DEF LoadUser, TypeOK
  <2>14. CASE Flush(r)
    BY <2>0, <2>14, GoMoves DEF Flush, TypeOK, Pcs
  <2>15. CASE Commit(r)
    BY <2>0, <2>15, FinishMoves DEF Commit, TypeOK, Statuses
  <2> QED BY <1>5, <2>1, <2>2, <2>3, <2>4, <2>5, <2>6, <2>7, <2>8, <2>9, <2>10, <2>11,
             <2>12, <2>13, <2>14, <2>15 DEF Step, CreateSession
<1> QED BY <1>1, <1>2, <1>3, <1>4, <1>5 DEF Next

-----------------------------------------------------------------------------
(* The invariant.                                                           *)

LEMMA InitInv == Init => TypeOK /\ SessionInv
<1> SUFFICES ASSUME Init PROVE TypeOK /\ SessionInv
  OBVIOUS
<1>1. Idle \in RequestType
  BY DEF Idle, RequestType, Ops, Pcs
<1>2. TypeOK
  <2>1. faults \in 0..MaxFaults
    BY SessionBounds DEF Init
  <2> QED BY <1>1, <2>1 DEF Init, TypeOK, Statuses
<1>3. ASSUME NEW r \in Requests PROVE Own(r) /\ Held(r) = {} /\ req[r].pc = "idle"
  <2>1. req[r] = Idle
    BY DEF Init
  <2> QED BY <2>1 DEF Own, Known, Safe, Pass, Held, Idle, Visiting, Visited
<1>4. \A r, q \in Requests : Apart(r, q)
  BY <1>3 DEF Apart
<1> QED BY <1>2, <1>3, <1>4 DEF SessionInv, OneRefreshPerFamily, Init

\* Records only expire.
LEMMA ExpireStep ==
    ASSUME SessionInv, ExpireRecord
    PROVE  SessionInv'
<1>1. /\ access' \subseteq access /\ refresh' \subseteq refresh /\ index' \subseteq index
      /\ UNCHANGED <<req, issued, family>>
  BY DEF ExpireRecord, Expire, historyVars
<1>2. \A q \in Requests : Held(q)' = Held(q)
  BY <1>1 DEF Held
<1>3. ASSUME NEW q \in Requests PROVE Own(q)'
  <2>1. Own(q)
    BY DEF SessionInv
  <2>2. \A s \in Held(q)', t \in refresh' : family'[s] # family'[t]
    BY <1>1, <1>2, <2>1 DEF Own, Known, Safe, Pass
  <2> QED BY <1>1, <1>2, <2>1, <2>2 DEF Own, Known, Safe, Pass, Ended
<1>4. ASSUME NEW p \in Requests, NEW q \in Requests, p # q PROVE Apart(p, q)'
  BY <1>1, <1>2, <1>4 DEF SessionInv, Apart
<1> QED BY <1>1, <1>3, <1>4 DEF SessionInv, OneRefreshPerFamily

\* The one that gets the record with GETDEL holds the family from now on.
LEMMA TakeStep ==
    ASSUME TypeOK, SessionInv, NEW r \in Requests, TakeRefresh(r)
    PROVE  SessionInv'
<1>0. /\ Own(r) /\ req[r].pc = "consume" /\ req[r].seen = {} /\ req[r].op = "refresh"
      /\ req[r].old \in issued
      /\ refresh' = refresh \ {req[r].old} /\ UNCHANGED <<access, index, issued, family>>
  BY DEF SessionInv, Own, Known, Safe, Pass, TakeRefresh, At, Visiting, Visited, historyVars
<1>1. CASE req[r].old \notin refresh
  <2>1. Moves(r) /\ req'[r].pc = "checkUsed" /\ req'[r].seen = {}
    BY <1>0, <1>1, GoMoves DEF TakeRefresh, TypeOK, Pcs
  <2> QED BY <1>0, <2>1, PlainStep DEF Plain, Pcs, Visiting, Visited
<1>2. CASE req[r].old \in refresh
  <2>1. /\ Moves(r) /\ req'[r].pc = "mark" /\ req'[r].seen = {}
        /\ req'[r].op = "refresh" /\ req'[r].old = req[r].old
    BY <1>0, <1>2, GoMoves DEF TakeRefresh, TypeOK, Pcs
  <2>2. Held(r)' = {req[r].old}
    BY <2>1 DEF Held
  <2>3. ASSUME NEW q \in Requests, q # r
        PROVE  req'[q] = req[q] /\ Held(q)' = Held(q) /\ Own(q)
    BY <2>1, <2>3 DEF Moves, Held, SessionInv
  <2>4. ASSUME NEW q \in Requests PROVE Own(q)'
    <3>1. CASE q = r
      <4>1. \A s \in Held(r)', t \in refresh' : family'[s] # family'[t]
        BY <1>0, <1>2, <2>2 DEF SessionInv, OneRefreshPerFamily
      <4> QED BY <1>0, <2>1, <2>2, <3>1, <4>1 DEF Own, Known, Safe, Pass, Visiting, Visited
    <3>2. CASE q # r
      <4>0. req'[q] = req[q] /\ Held(q)' = Held(q) /\ Known(q) /\ Safe(q) /\ Pass(q)
        BY <2>3, <3>2 DEF Own
      <4>1. Known(q)'
        BY <1>0, <4>0 DEF Known
      <4>2. Safe(q)'
        BY <1>0, <4>0 DEF Safe
      <4>3. Pass(q)'
        BY <1>0, <4>0 DEF Pass, Ended
      <4> QED BY <4>1, <4>2, <4>3 DEF Own
    <3> QED BY <3>1, <3>2
  <2>5. ASSUME NEW p \in Requests, NEW q \in Requests, p # q PROVE Apart(p, q)'
    <3>1. \A s \in Held(p)', t \in Held(q)' : family'[s] # family'[t]
      <4>1. CASE p # r /\ q # r
        BY <1>0, <2>3, <2>5, <4>1 DEF SessionInv, Apart
      <4>2. CASE p = r
        <5>1. Safe(q) /\ Held(q)' = Held(q)
          BY <2>3, <2>5, <4>2 DEF Own
        <5> QED BY <1>0, <1>2, <2>2, <4>2, <5>1 DEF Safe
      <4>3. CASE q = r
        <5>1. Safe(p) /\ Held(p)' = Held(p)
          BY <2>3, <2>5, <4>3 DEF Own
        <5> QED BY <1>0, <1>2, <2>2, <4>3, <5>1 DEF Safe
      <4> QED BY <4>1, <4>2, <4>3
    <3>2. ASSUME req'[p].pc = "setRefresh"
          PROVE  /\ req'[p].new \notin req'[q].seen
                 /\ req'[q].pc = "addIndex" => req'[p].new # req'[q].new
      BY <2>1, <2>3, <2>5, <3>2 DEF SessionInv, Apart
    <3> QED BY <3>1, <3>2 DEF Apart
  <2>6. OneRefreshPerFamily'
    BY <1>0 DEF SessionInv, OneRefreshPerFamily
  <2> QED BY <1>0, <2>4, <2>5, <2>6 DEF SessionInv
<1> QED BY <1>1, <1>2

\* A session is issued: nobody has heard of it, and its family is new or the
\* one its request holds.
LEMMA SetAccessStep ==
    ASSUME TypeOK, SessionInv, NEW r \in Requests, SetAccess(r)
    PROVE  SessionInv'
<1>1. PICK s \in Session \ issued :
          /\ issued' = issued \cup {s}
          /\ family' = [family EXCEPT ![s] =
                        IF req[r].op = "refresh" THEN family[req[r].old] ELSE s]
          /\ access' = access \cup {s}
          /\ req' = [req EXCEPT ![r].new = s, ![r].pc = "setRefresh"]
  BY DEF SetAccess
<1>2. /\ Own(r) /\ req[r].pc = "setAccess" /\ req[r].seen = {}
      /\ UNCHANGED <<refresh, index>>
  BY DEF SessionInv, Own, Known, Safe, Pass, SetAccess, At, Visiting, Visited
<1>3. /\ Moves(r) /\ req'[r].pc = "setRefresh" /\ req'[r].seen = {} /\ req'[r].new = s
      /\ Held(r)' = {s}
  BY <1>1, <1>2 DEF Moves, TypeOK, RequestType, Held
<1>4. \A t \in issued : family'[t] = family[t] /\ family[t] \in issued /\ t # s
  BY <1>1 DEF TypeOK, SessionInv
<1>5. \/ family'[s] = s
      \/ \E o \in Held(r) : o \in issued /\ family'[s] = family[o]
  BY <1>1, <1>2 DEF TypeOK, Own, Known, Safe, Pass, Held
<1>6. ASSUME NEW q \in Requests, q # r
      PROVE  /\ req'[q] = req[q] /\ Held(q)' = Held(q) /\ Own(q)
             /\ Held(q) \subseteq issued
  BY <1>3, <1>6 DEF Moves, Held, SessionInv, Own, Known, Safe, Pass
<1>7. refresh \subseteq issued /\ index \subseteq issued
  BY DEF SessionInv
<1>8. ASSUME NEW q \in Requests PROVE Own(q)'
  <2>1. CASE q = r
    <3>1. Known(r)'
      BY <1>1, <1>2, <1>3, <1>7 DEF Known
    <3>2. Safe(r)'
      <4>1. Safe(r)
        BY <1>2 DEF Own
      <4> QED BY <1>2, <1>3, <1>4, <1>5, <1>7, <4>1 DEF Safe
    <3>3. Pass(r)'
      BY <1>3 DEF Pass, Visiting, Visited
    <3> QED BY <2>1, <3>1, <3>2, <3>3 DEF Own
  <2>2. CASE q # r
    <3>0. /\ req'[q] = req[q] /\ Held(q)' = Held(q) /\ Held(q) \subseteq issued
          /\ Known(q) /\ Safe(q) /\ Pass(q)
      BY <1>6, <2>2 DEF Own
    <3>1. Known(q)'
      <4>1. issued \subseteq issued' /\ index' = index
        BY <1>1, <1>2
      <4>2. Held(q)' \subseteq issued'
        BY <3>0, <4>1
      <4>3. /\ req[q].pc = "consume" => req[q].old \in issued' /\ req[q].op = "refresh"
            /\ req[q].pc = "mark" => req[q].op = "refresh"
            /\ req[q].pc = "read" => req[q].op = "login"
            /\ req[q].pc \in {"setRefresh", "addIndex"} => req[q].new \in issued'
            /\ req[q].pc = "setRefresh" => req[q].new \notin index'
        BY <3>0, <4>1 DEF Known
      <4> QED BY <3>0, <4>2, <4>3 DEF Known
    <3>2. Safe(q)'
      BY <1>2, <1>4, <1>7, <3>0 DEF Safe
    <3>3. Pass(q)'
      <4>1. req[q].seen \subseteq issued
        BY <3>0 DEF Pass
      <4>2. ASSUME NEW S, S \subseteq issued, Ended(q, S) PROVE Ended(q, S)'
        BY <1>1, <1>2, <1>4, <3>0, <4>2 DEF Ended
      <4>3. req[q].pc \in {"visitDel", "visitRefresh"} => req[q].new \in issued
        BY <3>0, <4>1 DEF Pass
      <4>4. /\ req[q].pc = "visit" => Ended(q, req[q].seen \ req[q].todo)'
            /\ req[q].pc \in {"visitDel", "visitRefresh"} =>
                  Ended(q, req[q].seen \ (req[q].todo \cup {req[q].new}))'
            /\ req[q].pc \in Visited => Ended(q, req[q].seen)'
        <5>1. /\ req[q].seen \ req[q].todo \subseteq issued
              /\ req[q].seen \ (req[q].todo \cup {req[q].new}) \subseteq issued
          BY <4>1
        <5>2. /\ req[q].pc = "visit" => Ended(q, req[q].seen \ req[q].todo)
              /\ req[q].pc \in {"visitDel", "visitRefresh"} =>
                    Ended(q, req[q].seen \ (req[q].todo \cup {req[q].new}))
              /\ req[q].pc \in Visited => Ended(q, req[q].seen)
          BY <3>0 DEF Pass
        <5> QED BY <1>1, <1>2, <3>0, <4>1, <1>4, <5>1, <5>2 DEF Ended
      <4>5. /\ req[q].seen \subseteq issued'
            /\ req[q].pc = "visitRefresh" => req[q].new \notin access'
        BY <1>1, <1>4, <3>0, <4>1, <4>3 DEF Pass
      <4> QED BY <3>0, <4>4, <4>5 DEF Pass
    <3> QED BY <3>1, <3>2, <3>3 DEF Own
  <2> QED BY <2>1, <2>2
<1>9. ASSUME NEW p \in Requests, NEW q \in Requests, p # q PROVE Apart(p, q)'
  <2>0. Apart(p, q)
    BY <1>9 DEF SessionInv
  <2>1. \A u \in Held(p)', t \in Held(q)' : family'[u] # family'[t]
    <3>1. CASE p # r /\ q # r
      BY <1>4, <1>6, <2>0, <3>1 DEF Apart
    <3>2. CASE p = r
      BY <1>3, <1>4, <1>5, <1>6, <1>9, <2>0, <3>2 DEF Apart
    <3>3. CASE q = r
      BY <1>3, <1>4, <1>5, <1>6, <1>9, <2>0, <3>3 DEF Apart
    <3> QED BY <3>1, <3>2, <3>3
  <2>2. ASSUME req'[p].pc = "setRefresh"
        PROVE  /\ req'[p].new \notin req'[q].seen
               /\ req'[q].pc = "addIndex" => req'[p].new # req'[q].new
    <3>1. CASE p = r
      BY <1>3, <1>4, <1>6, <1>9, <3>1, ZenonT(30) DEF Own, Known, Safe, Pass
    <3>2. CASE p # r
      BY <1>3, <1>6, <1>9, <2>0, <2>2, <3>2 DEF Apart
    <3> QED BY <3>1, <3>2
  <2> QED BY <2>1, <2>2 DEF Apart
<1>10. OneRefreshPerFamily'
  BY <1>2, <1>4, <1>7 DEF SessionInv, OneRefreshPerFamily
<1>11. \A t \in issued' : family'[t] \in issued'
  BY <1>1, <1>4, <1>5
<1> QED BY <1>1, <1>2, <1>7, <1>8, <1>9, <1>10, <1>11 DEF SessionInv

\* The held family gets its refresh token, which nobody's revocation has seen.
LEMMA SetRefreshStep ==
    ASSUME TypeOK, SessionInv, NEW r \in Requests, SetRefresh(r)
    PROVE  SessionInv'
<1> DEFINE n == req[r].new
<1>1. /\ Own(r) /\ req[r].pc = "setRefresh" /\ req[r].seen = {}
      /\ Held(r) = {n} /\ n \in issued
      /\ refresh' = refresh \cup {n} /\ UNCHANGED <<access, index, issued, family>>
  BY DEF SessionInv, Own, Known, Safe, Pass, SetRefresh, At, Visiting, Visited, historyVars, Held
<1>2. /\ Moves(r) /\ req'[r].pc = "addIndex" /\ req'[r].seen = {} /\ req'[r].new = n
      /\ Held(r)' = {}
  <2>1. Moves(r) /\ req'[r].pc = "addIndex" /\ req'[r].seen = {} /\ req'[r].new = n
    BY <1>1, GoMoves DEF SetRefresh, TypeOK, Pcs
  <2> QED BY <2>1 DEF Held
<1> HIDE DEF n
<1>3. ASSUME NEW q \in Requests, q # r
      PROVE  /\ req'[q] = req[q] /\ Held(q)' = Held(q) /\ Own(q)
             /\ n \notin req[q].seen
             /\ \A s \in Held(q) : family[s] # family[n]
             /\ req[q].pc = "setRefresh" => req[q].new # n
  <2>1. Apart(r, q) /\ Apart(q, r) /\ Own(q)
    BY <1>3 DEF SessionInv
  <2>2. req'[q] = req[q] /\ Held(q)' = Held(q)
    BY <1>2, <1>3 DEF Moves, Held
  <2>3. n \notin req[q].seen
    BY <1>1, <2>1 DEF Apart, n
  <2>4. \A s \in Held(q) : family[s] # family[n]
    BY <1>1, <2>1 DEF Apart
  <2>5. req[q].pc = "setRefresh" => req[q].new # n
    BY <2>4 DEF Held
  <2> QED BY <2>1, <2>2, <2>3, <2>4, <2>5
<1>4. ASSUME NEW q \in Requests PROVE Own(q)'
  <2>1. CASE q = r
    BY <1>1, <1>2, <2>1 DEF Own, Known, Safe, Pass, Visiting, Visited
  <2>2. CASE q # r
    <3>0. /\ req'[q] = req[q] /\ Held(q)' = Held(q)
          /\ Known(q) /\ Safe(q) /\ Pass(q)
          /\ n \notin req[q].seen /\ \A s \in Held(q) : family[s] # family[n]
      BY <1>3, <2>2 DEF Own
    <3>1. Known(q)'
      BY <1>1, <3>0 DEF Known
    <3>2. Safe(q)'
      BY <1>1, <3>0 DEF Safe
    <3>3. Pass(q)'
      BY <1>1, <3>0 DEF Pass, Ended
    <3> QED BY <3>1, <3>2, <3>3 DEF Own
  <2> QED BY <2>1, <2>2
<1>5. ASSUME NEW p \in Requests, NEW q \in Requests, p # q PROVE Apart(p, q)'
  <2>1. Apart(p, q)
    BY <1>5 DEF SessionInv
  <2>2. \A s \in Held(p)', t \in Held(q)' : family'[s] # family'[t]
    BY <1>1, <1>2, <1>3, <2>1 DEF Apart
  <2>3. ASSUME req'[p].pc = "setRefresh"
        PROVE  /\ req'[p].new \notin req'[q].seen
               /\ req'[q].pc = "addIndex" => req'[p].new # req'[q].new
    <3>1. p # r
      BY <1>2, <2>3
    <3>2. CASE q = r
      BY <1>2, <1>3, <2>3, <3>1, <3>2
    <3>3. CASE q # r
      BY <1>3, <2>1, <2>3, <3>1, <3>3 DEF Apart
    <3> QED BY <3>2, <3>3
  <2> QED BY <2>2, <2>3 DEF Apart
<1>6. OneRefreshPerFamily'
  <2>1. \A t \in refresh : family[n] # family[t]
    BY <1>1 DEF Own, Known, Safe, Pass
  <2> QED BY <1>1, <2>1 DEF SessionInv, OneRefreshPerFamily
<1>7. refresh' \subseteq issued'
  BY <1>1 DEF SessionInv
<1> QED BY <1>1, <1>4, <1>5, <1>6, <1>7 DEF SessionInv

\* The index gets a session whose refresh token is already stored.
LEMMA AddIndexStep ==
    ASSUME TypeOK, SessionInv, NEW r \in Requests, AddIndex(r)
    PROVE  SessionInv'
<1> DEFINE n == req[r].new
<1>1. /\ Own(r) /\ req[r].pc = "addIndex" /\ req[r].seen = {} /\ n \in issued
      /\ index' = index \cup {n} /\ UNCHANGED <<access, refresh, issued, family>>
  BY DEF SessionInv, Own, Known, Safe, Pass, AddIndex, At, Visiting, Visited, historyVars
<1>2. Moves(r) /\ req'[r].pc = "armIndex" /\ req'[r].seen = {} /\ Held(r)' = {}
  <2>1. Moves(r) /\ req'[r].pc = "armIndex" /\ req'[r].seen = {}
    BY <1>1, GoMoves DEF AddIndex, TypeOK, Pcs
  <2> QED BY <2>1 DEF Held
<1>3. ASSUME NEW q \in Requests, q # r
      PROVE  /\ req'[q] = req[q] /\ Held(q)' = Held(q) /\ Own(q)
             /\ req[q].pc = "setRefresh" => req[q].new # n
  BY <1>1, <1>2, <1>3 DEF Moves, Held, SessionInv, Apart
<1> HIDE DEF n
<1>4. ASSUME NEW q \in Requests PROVE Own(q)'
  <2>1. CASE q = r
    BY <1>1, <1>2, <2>1 DEF Own, Known, Safe, Pass, Visiting, Visited
  <2>2. CASE q # r
    <3>0. /\ req'[q] = req[q] /\ Held(q)' = Held(q)
          /\ Known(q) /\ Safe(q) /\ Pass(q)
          /\ req[q].pc = "setRefresh" => req[q].new # n
      BY <1>3, <2>2 DEF Own
    <3>1. Known(q)'
      BY <1>1, <3>0 DEF Known
    <3>2. Safe(q)'
      BY <1>1, <3>0 DEF Safe
    <3>3. Pass(q)'
      BY <1>1, <3>0 DEF Pass, Ended
    <3> QED BY <3>1, <3>2, <3>3 DEF Own
  <2> QED BY <2>1, <2>2
<1>5. ASSUME NEW p \in Requests, NEW q \in Requests, p # q PROVE Apart(p, q)'
  <2>1. Apart(p, q)
    BY <1>5 DEF SessionInv
  <2>2. \A s \in Held(p)', t \in Held(q)' : family'[s] # family'[t]
    BY <1>1, <1>2, <1>3, <2>1 DEF Apart
  <2>3. ASSUME req'[p].pc = "setRefresh"
        PROVE  /\ req'[p].new \notin req'[q].seen
               /\ req'[q].pc = "addIndex" => req'[p].new # req'[q].new
    <3>1. p # r
      BY <1>2, <2>3
    <3>2. CASE q = r
      BY <1>2, <3>2
    <3>3. CASE q # r
      BY <1>3, <2>1, <2>3, <3>1, <3>3 DEF Apart
    <3> QED BY <3>2, <3>3
  <2> QED BY <2>2, <2>3 DEF Apart
<1> QED BY <1>1, <1>4, <1>5 DEF SessionInv, OneRefreshPerFamily

\* A step of a mass revocation.
LEMMA VisitStep ==
    ASSUME SessionInv, NEW r \in Requests, Moves(r),
           access' \subseteq access, refresh' \subseteq refresh, index' \subseteq index,
           UNCHANGED <<issued, family>>,
           req'[r].pc \in Visiting \cup Visited, Pass(r)',
           req'[r].seen \subseteq req[r].seen \cup index
    PROVE  SessionInv'
<1>1. Held(r)' = {}
  BY DEF Held, Visiting, Visited
<1>2. Known(r)' /\ Safe(r)' /\ req'[r].pc \notin {"setRefresh", "addIndex"}
  BY <1>1 DEF Known, Safe, Visiting, Visited
<1>3. Own(r)'
  BY <1>2 DEF Own
<1> QED BY <1>1, <1>2, <1>3, QuietStep

\* One step of one request.
LEMMA RequestStep ==
    ASSUME TypeOK, SessionInv, NEW r \in Requests, Step(r)
    PROVE  SessionInv'
<1> USE DEF At, redisVars, dbVars, historyVars
<1>0. /\ req \in [Requests -> RequestType] /\ req[r] \in RequestType
      /\ Known(r) /\ Safe(r) /\ Pass(r)
  BY DEF TypeOK, SessionInv, Own
<1>a. req[r].pc \notin Visiting \cup Visited => req[r].seen = {}
  BY <1>0 DEF Pass
<1>1. CASE VerifyPassword(r)
  <2>1. CASE Finish(r)
    BY <1>1, <2>1, FinishStep DEF VerifyPassword
  <2>2. CASE Go(r, "setAccess")
    <3>1. req[r].op = "login" /\ req[r].seen = {}
      BY <1>0, <1>1, <1>a DEF VerifyPassword, Known, Visiting, Visited
    <3>2. /\ Moves(r) /\ req'[r].pc = "setAccess" /\ req'[r].seen = {}
          /\ req'[r].op = "login"
      BY <1>0, <2>2, <3>1, GoMoves DEF Pcs
    <3>3. Held(r)' = {}
      BY <3>2 DEF Held
    <3>4. Own(r)'
      BY <3>2, <3>3 DEF Own, Known, Safe, Pass, Visiting, Visited
    <3> QED BY <1>1, <3>2, <3>3, <3>4, QuietStep DEF VerifyPassword
  <2> QED BY <1>1, <2>1, <2>2 DEF VerifyPassword
<1>2. CASE SetAccess(r) \/ SetRefresh(r) \/ AddIndex(r)
  BY <1>2, SetAccessStep, SetRefreshStep, AddIndexStep
<1>3. CASE ArmIndex(r)
  <2>1. Moves(r) /\ req'[r].pc = "addOnline" /\ req'[r].seen = {}
    BY <1>0, <1>3, <1>a, GoMoves DEF ArmIndex, Pcs, Visiting, Visited
  <2> QED BY <1>3, <2>1, PlainStep DEF ArmIndex, Plain, Pcs, Visiting, Visited
<1>4. CASE AddOnline(r)
  <2>1. CASE req[r].op = "refresh"
    <3>1. Moves(r) /\ req'[r].pc = "get" /\ req'[r].seen = {}
      BY <1>0, <1>4, <1>a, <2>1 DEF AddOnline, RequestType, Moves, Visiting, Visited
    <3> QED BY <1>4, <3>1, PlainStep DEF AddOnline, Plain, Pcs, Visiting, Visited
  <2>2. CASE req[r].op # "refresh"
    BY <1>4, <2>2, FinishStep DEF AddOnline
  <2> QED BY <2>1, <2>2
<1>5. CASE TakeRefresh(r)
  BY <1>5, TakeStep
<1>6. CASE MarkUsed(r)
  <2>1. req[r].pc = "mark" /\ req[r].op = "refresh" /\ req[r].seen = {}
    BY <1>0, <1>6, <1>a DEF MarkUsed, Known, Visiting, Visited
  <2>2. /\ Moves(r) /\ req'[r].pc = "setAccess" /\ req'[r].seen = {}
        /\ req'[r].op = "refresh" /\ req'[r].old = req[r].old
    BY <1>0, <1>6, <2>1, GoMoves DEF MarkUsed, Pcs
  <2>3. Held(r)' = Held(r)
    BY <2>1, <2>2 DEF Held
  <2>4. Known(r)'
    BY <1>0, <1>6, <2>2, <2>3 DEF MarkUsed, Known
  <2>5. Safe(r)' /\ Pass(r)'
    BY <1>0, <1>6, <2>2, <2>3 DEF MarkUsed, Safe, Pass, Visiting, Visited
  <2>6. Own(r)'
    BY <2>4, <2>5 DEF Own
  <2> QED BY <1>6, <2>2, <2>3, <2>6, QuietStep DEF MarkUsed
<1>7. CASE CheckUsed(r)
  <2>1. CASE req[r].old \in used
    <3>1. Moves(r) /\ req'[r].pc = "members" /\ req'[r].seen = {}
      BY <1>0, <1>7, <1>a, <2>1 DEF CheckUsed, RequestType, Moves, Visiting, Visited
    <3> QED BY <1>7, <3>1, PlainStep DEF CheckUsed, Plain, Pcs, Visiting, Visited
  <2>2. CASE req[r].old \notin used
    BY <1>7, <2>2, FinishStep DEF CheckUsed
  <2> QED BY <2>1, <2>2
<1>8. CASE RevokeAccess(r)
  <2>1. CASE GetAccess(r)
    <3>1. Moves(r) /\ req'[r].pc = "del" /\ req'[r].seen = {}
      BY <1>0, <1>a, <2>1 DEF GetAccess, RequestType, Moves, Visiting, Visited
    <3> QED BY <2>1, <3>1, PlainStep DEF GetAccess, Plain, Pcs, Visiting, Visited
  <2>2. CASE DelAccess(r)
    <3>1. CASE req[r].found
      <4>1. Moves(r) /\ req'[r].pc = "unindex" /\ req'[r].seen = {}
        BY <1>0, <1>a, <2>2, <3>1 DEF DelAccess, RequestType, Moves, Visiting, Visited
      <4> QED BY <2>2, <4>1, PlainStep DEF DelAccess, Plain, Pcs, Visiting, Visited
    <3>2. CASE ~req[r].found
      BY <2>2, <3>2, FinishStep DEF DelAccess
    <3> QED BY <3>1, <3>2
  <2>3. CASE Unindex(r)
    <3>1. Moves(r) /\ req'[r].pc = "prune" /\ req'[r].seen = {}
      BY <1>0, <1>a, <2>3, GoMoves DEF Unindex, Pcs, Visiting, Visited
    <3> QED BY <2>3, <3>1, PlainStep DEF Unindex, RemoveFromIndex, Plain, Pcs, Visiting, Visited
  <2>4. CASE DelRefresh(r)
    BY <2>4, FinishStep DEF DelRefresh
  <2>5. CASE PruneUserIndex(r, "prune", "dropOnline", "delRefresh")
    <3>1. Moves(r) /\ req'[r].pc \in {"dropOnline", "delRefresh"} /\ req'[r].seen = {}
      BY <1>0, <1>a, <2>5, GoMoves DEF PruneUserIndex, Pcs, Visiting, Visited
    <3> QED BY <2>5, <3>1, PlainStep DEF PruneUserIndex, Plain, Pcs, Visiting, Visited
  <2> QED BY <1>8, <2>1, <2>2, <2>3, <2>4, <2>5 DEF RevokeAccess
<1>9. CASE RevokeAllSessions(r)
  <2>1. CASE ListMembers(r)
    <3>1. /\ Moves(r) /\ req'[r].pc = "visit" /\ req'[r].seen = index
          /\ req'[r].todo = index
      BY <1>0, <2>1 DEF ListMembers, RequestType, Moves
    <3>2. Pass(r)'
      BY <2>1, <3>1 DEF ListMembers, SessionInv, Pass, Ended, Visiting, Visited
    <3> QED BY <2>1, <3>1, <3>2, VisitStep DEF ListMembers, Visiting
  <2>2. CASE Visit(r)
    <3>0. /\ req[r].pc = "visit" /\ Ended(r, req[r].seen \ req[r].todo)
          /\ req[r].todo \subseteq req[r].seen /\ req[r].seen \subseteq issued
          /\ UNCHANGED <<access, refresh, index, issued, family>>
      BY <1>0, <2>2 DEF Visit, Pass, Visiting
    <3>1. CASE req[r].todo = {}
      <4>1. /\ Moves(r) /\ req'[r].pc = "delIndex" /\ req'[r].seen = req[r].seen
            /\ req'[r].gone = req[r].gone
        BY <1>0, <2>2, <3>1 DEF Visit, RequestType, Moves
      <4>2. Pass(r)'
        BY <3>0, <3>1, <4>1 DEF Pass, Ended, Visiting, Visited
      <4> QED BY <3>0, <4>1, <4>2, VisitStep DEF Visited
    <3>2. CASE req[r].todo # {}
      <4>1. PICK s \in req[r].todo :
              req' = [req EXCEPT ![r].todo = @ \ {s}, ![r].new = s,
                                 ![r].found = s \in access,
                                 ![r].gone = IF s \in access THEN @ ELSE @ \cup {s},
                                 ![r].pc = "visitDel"]
        BY <2>2, <3>2 DEF Visit
      <4>2. /\ Moves(r) /\ req'[r].pc = "visitDel" /\ req'[r].seen = req[r].seen
            /\ req'[r].todo = req[r].todo \ {s} /\ req'[r].new = s
            /\ req'[r].gone = IF s \in access THEN req[r].gone ELSE req[r].gone \cup {s}
        BY <1>0, <4>1 DEF RequestType, Moves
      <4>3. req'[r].found = (s \in access)
        BY <1>0, <4>1 DEF RequestType
      <4>4. req'[r].found \/ s \in req'[r].gone
        BY <4>2, <4>3
      <4>5. /\ req'[r].seen \ (req'[r].todo \cup {req'[r].new}) = req[r].seen \ req[r].todo
            /\ req[r].gone \subseteq req'[r].gone
        BY <3>0, <4>2
      <4>6. Ended(r, req[r].seen \ (req[r].todo \cup {req[r].new}))'
        BY <3>0, <4>5 DEF Ended
      <4>7. Pass(r)'
        BY <3>0, <4>2, <4>4, <4>6 DEF Pass, Visiting, Visited, Ended
      <4> QED BY <3>0, <4>2, <4>7, VisitStep DEF Visiting
    <3> QED BY <3>1, <3>2
  <2>3. CASE VisitDel(r)
    <3>0. /\ req[r].pc = "visitDel"
          /\ Ended(r, req[r].seen \ (req[r].todo \cup {req[r].new}))
          /\ req[r].todo \subseteq req[r].seen /\ req[r].seen \subseteq issued
          /\ req[r].new \in req[r].seen
          /\ req[r].found \/ req[r].new \in req[r].gone
          /\ access' = access \ {req[r].new}
          /\ UNCHANGED <<refresh, index, issued, family>>
      BY <1>0, <2>3 DEF VisitDel, Pass, Visiting
    <3>1. /\ Moves(r) /\ req'[r].pc = (IF req[r].found THEN "visitRefresh" ELSE "visit")
          /\ req'[r].seen = req[r].seen /\ req'[r].todo = req[r].todo
          /\ req'[r].new = req[r].new /\ req'[r].gone = req[r].gone
      BY <1>0, <2>3 DEF VisitDel, RequestType, Moves
    <3>2. Pass(r)'
      <4>1. CASE req[r].found
        BY <3>0, <3>1, <4>1 DEF Pass, Ended, Visiting, Visited
      <4>2. CASE ~req[r].found
        BY <3>0, <3>1, <4>2 DEF Pass, Ended, Visiting, Visited
      <4> QED BY <4>1, <4>2
    <3>3. req'[r].pc \in Visiting
      BY <3>1 DEF Visiting
    <3> QED BY <3>0, <3>1, <3>2, <3>3, VisitStep
  <2>4. CASE VisitRefresh(r)
    <3>0. /\ req[r].pc = "visitRefresh"
          /\ Ended(r, req[r].seen \ (req[r].todo \cup {req[r].new}))
          /\ req[r].todo \subseteq req[r].seen /\ req[r].seen \subseteq issued
          /\ req[r].new \notin access
          /\ refresh' = refresh \ {req[r].new}
          /\ UNCHANGED <<access, index, issued, family>>
      BY <1>0, <2>4 DEF VisitRefresh, Pass, Visiting
    <3>1. /\ Moves(r) /\ req'[r].pc = "visit" /\ req'[r].seen = req[r].seen
          /\ req'[r].todo = req[r].todo /\ req'[r].gone = req[r].gone
      BY <1>0, <2>4, GoMoves DEF VisitRefresh, Pcs
    <3>2. Pass(r)'
      BY <3>0, <3>1 DEF Pass, Ended, Visiting, Visited
    <3> QED BY <3>0, <3>1, <3>2, VisitStep DEF Visiting
  <2>5. CASE DelIndex(r) \/ (DropUser(r) /\ req[r].op # "refresh")
    <3>0. /\ req[r].pc \in {"delIndex", "dropUser"} /\ Ended(r, req[r].seen)
          /\ req[r].seen \subseteq issued
          /\ index' \subseteq index /\ UNCHANGED <<access, refresh, issued, family>>
      BY <1>0, <2>5 DEF DelIndex, DropUser, Pass, Visited
    <3>1. /\ Moves(r) /\ req'[r].pc \in {"dropUser", "commit"} /\ req'[r].seen = req[r].seen
          /\ req'[r].gone = req[r].gone
      BY <1>0, <2>5, GoMoves DEF DelIndex, DropUser, Pcs
    <3>2. Pass(r)'
      BY <3>0, <3>1 DEF Pass, Ended, Visiting, Visited
    <3> QED BY <3>0, <3>1, <3>2, VisitStep DEF Visited
  <2>6. CASE DropUser(r) /\ req[r].op = "refresh"
    BY <2>6, FinishStep DEF DropUser
  <2> QED BY <1>9, <2>1, <2>2, <2>3, <2>4, <2>5, <2>6 DEF RevokeAllSessions
<1>10. CASE ListUserSessions(r)
  <2>1. CASE req[r].pc = "smembers"
    <3>1. Moves(r) /\ req'[r].pc = "look" /\ req'[r].seen = {}
      BY <1>0, <1>10, <1>a, <2>1 DEF ListUserSessions, RequestType, Moves, Visiting, Visited
    <3> QED BY <1>10, <2>1, <3>1, PlainStep DEF ListUserSessions, Plain, Pcs, Visiting, Visited
  <2>2. CASE req[r].pc = "look"
    <3>0. req[r].seen = {} /\ UNCHANGED <<access, refresh, index, issued, family>>
      BY <1>10, <1>a, <2>2 DEF ListUserSessions, Visiting, Visited
    <3>1. CASE req[r].todo = {}
      <4>1. Moves(r) /\ req'[r].pc = "prunelist" /\ req'[r].seen = {}
        BY <1>0, <1>10, <2>2, <3>0, <3>1 DEF ListUserSessions, RequestType, Moves
      <4> QED BY <3>0, <4>1, PlainStep DEF Plain, Pcs, Visiting, Visited
    <3>2. CASE req[r].todo # {}
      <4>1. PICK s \in req[r].todo :
                 req' = [req EXCEPT ![r].todo = @ \ {s}, ![r].old = s,
                                    ![r].found = @ \/ s \in access,
                                    ![r].pc = IF s \in access THEN "look" ELSE "srem"]
        BY <1>10, <2>2, <3>2 DEF ListUserSessions
      <4>2. Moves(r) /\ req'[r].pc \in {"look", "srem"} /\ req'[r].seen = {}
        BY <1>0, <3>0, <4>1 DEF RequestType, Moves
      <4> QED BY <3>0, <4>2, PlainStep DEF Plain, Pcs, Visiting, Visited
    <3> QED BY <3>1, <3>2
  <2>3. CASE req[r].pc = "srem"
    <3>1. Moves(r) /\ req'[r].pc = "look" /\ req'[r].seen = {}
      BY <1>0, <1>10, <1>a, <2>3, GoMoves DEF ListUserSessions, Pcs, Visiting, Visited
    <3> QED BY <1>10, <2>3, <3>1, PlainStep
            DEF ListUserSessions, RemoveFromIndex, Plain, Pcs, Visiting, Visited
  <2> QED BY <1>10, <2>1, <2>2, <2>3 DEF ListUserSessions
<1>11. CASE ListAllSessions(r)
  <2>0. UNCHANGED <<access, refresh, index, issued, family>>
    BY <1>11 DEF ListAllSessions, PruneUserIndex
  <2>1. CASE Finish(r)
    BY <2>0, <2>1, FinishStep
  <2>2. CASE ~Finish(r)
    <3>1. Moves(r) /\ req'[r].pc \in {"smembers", "dropList", "listed"} /\ req'[r].seen = {}
      BY <1>0, <1>11, <1>a, <2>2, GoMoves
         DEF ListAllSessions, PruneUserIndex, Pcs, Visiting, Visited
    <3> QED BY <2>0, <3>1, PlainStep DEF Plain, Pcs, Visiting, Visited
  <2> QED BY <2>1, <2>2
<1>12. CASE ResolveAccessToken(r)
  <2>1. CASE Finish(r)
    BY <1>12, <2>1, FinishStep DEF ResolveAccessToken
  <2>2. CASE ~Finish(r)
    <3>1. Moves(r) /\ req'[r].pc = "row" /\ req'[r].seen = {}
      BY <1>0, <1>12, <1>a, <2>2, GoMoves DEF ResolveAccessToken, Pcs, Visiting, Visited
    <3> QED BY <1>12, <3>1, PlainStep DEF ResolveAccessToken, Plain, Pcs, Visiting, Visited
  <2> QED BY <2>1, <2>2
<1>13. CASE LoadUser(r)
  <2>1. CASE Finish(r)
    BY <1>13, <2>1, FinishStep DEF LoadUser
  <2>2. CASE Go(r, "get")
    <3>1. Moves(r) /\ req'[r].pc = "get" /\ req'[r].seen = {}
      BY <1>0, <1>13, <1>a, <2>2, GoMoves DEF LoadUser, Pcs, Visiting, Visited
    <3> QED BY <1>13, <3>1, PlainStep DEF LoadUser, Plain, Pcs, Visiting, Visited
  <2>3. CASE req' = [req EXCEPT ![r].old = NoSession, ![r].pc = "flush"]
    <3>1. Moves(r) /\ req'[r].pc = "flush" /\ req'[r].seen = {}
      BY <1>0, <1>13, <1>a, <2>3 DEF LoadUser, RequestType, Moves, Visiting, Visited
    <3> QED BY <1>13, <3>1, PlainStep DEF LoadUser, Plain, Pcs, Visiting, Visited
  <2> QED BY <1>13, <2>1, <2>2, <2>3 DEF LoadUser
<1>14. CASE Flush(r)
  <2>0. UNCHANGED <<access, refresh, index, issued, family>> /\ req[r].seen = {}
    BY <1>14, <1>a DEF Flush, Visiting, Visited
  <2>1. CASE req[r].op = "enable"
    <3>1. Moves(r) /\ req'[r].pc = "commit" /\ req'[r].seen = {}
      BY <1>0, <1>14, <2>0, <2>1, GoMoves DEF Flush, Pcs
    <3>2. Pass(r)'
      BY <3>1 DEF Pass, Ended, Visiting, Visited
    <3> QED BY <2>0, <3>1, <3>2, VisitStep DEF Visited
  <2>2. CASE req[r].op # "enable"
    <3>1. Moves(r) /\ req'[r].pc = "members" /\ req'[r].seen = {}
      BY <1>0, <1>14, <2>0, <2>2, GoMoves DEF Flush, Pcs
    <3> QED BY <2>0, <3>1, PlainStep DEF Plain, Pcs, Visiting, Visited
  <2> QED BY <2>1, <2>2
<1>15. CASE Commit(r)
  BY <1>15, FinishStep DEF Commit
<1> QED BY <1>1, <1>2, <1>3, <1>4, <1>5, <1>6, <1>7, <1>8, <1>9, <1>10, <1>11, <1>12, <1>13,
           <1>14, <1>15 DEF Step, CreateSession, ConsumeRefresh

\* A request arrives: it has seen nothing and holds nothing.
LEMMA ArriveStep ==
    ASSUME TypeOK, SessionInv, NEW r \in Requests, Arrive(r)
    PROVE  SessionInv'
<1> USE DEF At, redisVars, dbVars, historyVars
<1>0. req \in [Requests -> RequestType]
  BY DEF TypeOK
<1>1. ASSUME NEW op, NEW pc, Start(r, op, pc)
      PROVE  /\ Moves(r) /\ req'[r].pc = pc /\ req'[r].op = op /\ req'[r].seen = {}
             /\ UNCHANGED <<access, refresh, index, issued, family>>
  BY <1>0, <1>1 DEF Start, Idle, Moves
<1>2. ASSUME NEW op, NEW pc, NEW s, StartWith(r, op, pc, s)
      PROVE  /\ Moves(r) /\ req'[r].pc = pc /\ req'[r].op = op /\ req'[r].seen = {}
             /\ req'[r].old = s
             /\ UNCHANGED <<access, refresh, index, issued, family>>
  BY <1>0, <1>2 DEF StartWith, Idle, Moves
<1>3. /\ Moves(r) /\ req'[r].seen = {}
      /\ UNCHANGED <<access, refresh, index, issued, family>>
      /\ \/ req'[r].pc = "read" /\ req'[r].op = "login"
         \/ req'[r].pc = "consume" /\ req'[r].op = "refresh" /\ req'[r].old \in issued
         \/ req'[r].pc \in {"gate", "get", "smembers", "listUsers", "flush"}
  BY <1>1, <1>2 DEF Arrive, Login, Refresh, Logout, ChangePassword, Authenticated, Kick,
                    ListOnline, AdminUpdate, AdminEnable
<1>4. Held(r)' = {} /\ req'[r].pc \notin {"setRefresh", "addIndex"}
  BY <1>3 DEF Held
<1>5. Own(r)'
  BY <1>3, <1>4 DEF Own, Known, Safe, Pass, Visiting, Visited
<1> QED BY <1>3, <1>4, <1>5, QuietStep

LEMMA InvStep ==
    ASSUME TypeOK, SessionInv, [Next]_vars
    PROVE  SessionInv'
<1>1. CASE UNCHANGED vars
  BY <1>1 DEF vars, redisVars, dbVars, historyVars, SessionInv, OneRefreshPerFamily, Own, Apart,
              Known, Safe, Pass, Held, Ended
<1>2. ASSUME NEW r \in Requests, Abort(r) PROVE SessionInv'
  BY <1>2, FinishStep DEF Abort, redisVars, historyVars
<1> QED BY <1>1, <1>2, ArriveStep, RequestStep, ExpireStep DEF Next

LEMMA Inductive == Spec => [](TypeOK /\ SessionInv)
<1>1. TypeOK /\ SessionInv /\ [Next]_vars => (TypeOK /\ SessionInv)'
  BY TypeStep, InvStep
<1> QED BY <1>1, InitInv, PTL DEF Spec

-----------------------------------------------------------------------------
(* The theorems.                                                            *)

\* The records, the indexes and the requests under way keep their types:
\* create_session and consume_refresh write only sessions that were issued.
THEOREM TypeCorrect == Spec => []TypeOK
  BY Inductive, PTL

\* However many rotations of one token run at once, with requests dying and
\* records expiring in between, a login and its rotations hold at most one
\* redeemable refresh token (consume_refresh).
THEOREM OneTokenPerLogin == Spec => []OneRefreshPerFamily
<1>1. SessionInv => OneRefreshPerFamily
  BY DEF SessionInv
<1> QED BY <1>1, Inductive, PTL

\* revoke_all_sessions ends every session it listed, whatever logs in, rotates
\* or logs out meanwhile, but for the refresh tokens of the sessions whose
\* access record had expired.
THEOREM ListedAreRevoked == Spec => []ListedSessionsEnd
<1>1. SessionInv => ListedSessionsEnd
  BY DEF SessionInv, Own, Pass, Ended, Visited, ListedSessionsEnd
<1> QED BY <1>1, Inductive, PTL

-----------------------------------------------------------------------------
(* The throttle of password logins.                                         *)

\* A step of attempt r leaves the others where they are.
AttemptMoves(r) == \A q \in Attempts \ {r} : attempt'[q] = attempt[q]

\* Attempts past the lock's gate whose password is still to be verified.
Gated == {r \in Attempts : attempt[r].pc \in {"ip", "verify"}}

\* Attempts whose wrong password is not counted yet, or is to set the lock.
Waiting ==
    {r \in Attempts : \/ attempt[r].pc \in {"audit", "incr", "setLock"}
                      \/ attempt[r].pc = "arm" /\ MaxFailures = 1}

\* What the counter says of the guesses: at most one short of the limit, since
\* whoever counts up to it sets the lock.
Short(n) == IF n < MaxFailures THEN n ELSE MaxFailures - 1

\* The inductive form of GuessesBounded: without a lock every guess is in the
\* counter, under way to it or to the lock, or lost with its attempt; with a lock
\* only attempts past its gate can guess.
GuessInv ==
    /\ ~locked => guesses <= Short(fails) + Cardinality(Waiting) + aborts
    /\ locked => guesses + Cardinality(Gated) <= Bound + aborts

-----------------------------------------------------------------------------
(* Lemmas.                                                                  *)

\* How the size of a set of attempts changes when one attempt moves.
LEMMA OneMoves ==
    ASSUME NEW S \in SUBSET Attempts, NEW T \in SUBSET Attempts, NEW r \in Attempts,
           T \ {r} = S \ {r}
    PROVE  /\ Cardinality(S) \in Nat /\ Cardinality(T) \in Nat
           /\ r \in S /\ r \notin T => Cardinality(T) = Cardinality(S) - 1
           /\ r \notin S /\ r \in T => Cardinality(T) = Cardinality(S) + 1
           /\ (r \in S <=> r \in T) => Cardinality(T) = Cardinality(S)
<1>1. IsFiniteSet(S) /\ IsFiniteSet(T)
  BY PolicyAssumption, FS_Subset
<1>2. Cardinality(S) \in Nat /\ Cardinality(T) \in Nat
  BY <1>1, FS_CardinalityType
<1>3. r \in S /\ r \notin T => T = S \ {r}
  OBVIOUS
<1>4. r \notin S /\ r \in T => T = S \cup {r}
  OBVIOUS
<1>5. (r \in S <=> r \in T) => T = S
  OBVIOUS
<1>6. r \in S /\ r \notin T => Cardinality(T) = Cardinality(S) - 1
  BY <1>1, <1>3, FS_RemoveElement
<1>7. r \notin S /\ r \in T => Cardinality(T) = Cardinality(S) + 1
  BY <1>1, <1>4, FS_AddElement
<1> QED BY <1>2, <1>5, <1>6, <1>7

\* Attempts that wait and attempts that are gated are different ones.
LEMMA WaitingAndGated ==
    /\ Cardinality(Waiting) + Cardinality(Gated) <= Cardinality(Attempts)
    /\ Cardinality(Waiting) \in Nat /\ Cardinality(Gated) \in Nat
    /\ Cardinality(Attempts) \in Nat
<1>1. Waiting \subseteq Attempts /\ Gated \subseteq Attempts
  BY DEF Waiting, Gated
<1>2. IsFiniteSet(Waiting) /\ IsFiniteSet(Gated)
  BY <1>1, PolicyAssumption, FS_Subset
<1>3. Waiting \cap Gated = {}
  BY DEF Waiting, Gated
<1>4. Cardinality(Waiting \cup Gated) = Cardinality(Waiting) + Cardinality(Gated)
  <2>1. Cardinality(Waiting \cup Gated)
          = Cardinality(Waiting) + Cardinality(Gated) - Cardinality(Waiting \cap Gated)
    BY <1>2, FS_Union
  <2>2. Cardinality(Waiting) \in Nat /\ Cardinality(Gated) \in Nat
    BY <1>2, FS_CardinalityType
  <2>3. Cardinality(Waiting \cap Gated) = 0
    BY <1>3, FS_EmptySet
  <2> QED BY <2>1, <2>2, <2>3
<1>5. Cardinality(Waiting \cup Gated) <= Cardinality(Attempts)
  <2>1. Waiting \cup Gated \subseteq Attempts
    BY <1>1
  <2> QED BY <2>1, PolicyAssumption, FS_Subset
<1>6. /\ Cardinality(Waiting) \in Nat /\ Cardinality(Gated) \in Nat
      /\ Cardinality(Attempts) \in Nat
  BY <1>2, PolicyAssumption, FS_CardinalityType
<1> QED BY <1>4, <1>5, <1>6

\* What moving one attempt does to the sets of attempts.
LEMMA SetsMove ==
    ASSUME NEW r \in Attempts, AttemptMoves(r)
    PROVE  /\ Waiting \in SUBSET Attempts /\ Waiting' \in SUBSET Attempts
           /\ Waiting' \ {r} = Waiting \ {r}
           /\ Gated \in SUBSET Attempts /\ Gated' \in SUBSET Attempts
           /\ Gated' \ {r} = Gated \ {r}
  BY DEF AttemptMoves, Waiting, Gated

\* Where EndAttempt, GoOn and an arrival leave their attempt.
LEMMA EndMoves ==
    ASSUME ThrottleTypeOK, NEW r \in Attempts, EndAttempt(r)
    PROVE  /\ AttemptMoves(r)
           /\ attempt' \in [Attempts -> [pc : AttemptPcs, ip : BOOLEAN]]
           /\ attempt'[r].pc = "idle"
  BY DEF ThrottleTypeOK, AttemptPcs, EndAttempt, NoAttempt, AttemptMoves

LEMMA GoOnMoves ==
    ASSUME ThrottleTypeOK, NEW r \in Attempts, NEW pc \in AttemptPcs, GoOn(r, pc)
    PROVE  /\ AttemptMoves(r)
           /\ attempt' \in [Attempts -> [pc : AttemptPcs, ip : BOOLEAN]]
           /\ attempt'[r].pc = pc
           /\ pc # "idle" => attempt'[r].ip = attempt[r].ip
<1> USE DEF ThrottleTypeOK, AttemptPcs
<1>1. CASE pc = "idle"
  <2>1. EndAttempt(r)
    BY <1>1 DEF GoOn
  <2> QED BY <1>1, <2>1, EndMoves
<1>2. CASE pc # "idle"
  BY <1>2 DEF GoOn, AttemptMoves
<1> QED BY <1>1, <1>2

LEMMA LoginMoves ==
    ASSUME ThrottleTypeOK, NEW r \in Attempts, LoginAttempt(r)
    PROVE  /\ AttemptMoves(r)
           /\ attempt' \in [Attempts -> [pc : AttemptPcs, ip : BOOLEAN]]
           /\ attempt'[r].pc = "lock"
<1>1. PICK ip \in BOOLEAN : attempt' = [attempt EXCEPT ![r] = [pc |-> "lock", ip |-> ip]]
  BY DEF LoginAttempt
<1> DEFINE e == [pc |-> "lock", ip |-> ip]
<1>2. e \in [pc : AttemptPcs, ip : BOOLEAN] /\ e.pc = "lock"
  BY DEF AttemptPcs
<1>3. attempt' = [attempt EXCEPT ![r] = e]
  BY <1>1
<1> HIDE DEF e
<1> QED BY <1>2, <1>3 DEF ThrottleTypeOK, AttemptMoves

\* The next place after a count is one of record_failure's.
LEMMA AfterCountPc ==
    ASSUME ThrottleTypeOK, NEW r \in Attempts, NEW n \in Nat
    PROVE  /\ AfterCount(r, n) \in {"setLock", "incrIp", "idle"}
           /\ n >= MaxFailures => AfterCount(r, n) = "setLock"
           /\ n < MaxFailures => AfterCount(r, n) = IF attempt[r].ip THEN "incrIp" ELSE "idle"
  BY PolicyAssumption DEF AfterCount, ThrottleTypeOK

-----------------------------------------------------------------------------
(* Where every action leaves its attempt.                                   *)

\* An attempt's places, and whether a step may lead from one to another.
LEMMA StepsMove ==
    ASSUME ThrottleTypeOK, NEW r \in Attempts,
           \/ LoginAttempt(r) \/ IsLocked(r) \/ IsIpLimited(r)
           \/ AuthenticatePassword(r)
           \/ RecordLogin(r) \/ RecordFailure(r) \/ Reset(r) \/ AbortAttempt(r)
    PROVE  AttemptMoves(r) /\ attempt' \in [Attempts -> [pc : AttemptPcs, ip : BOOLEAN]]
<1> USE DEF AttemptPcs
<1>1. CASE LoginAttempt(r)
  BY <1>1, LoginMoves
<1>2. CASE IsLocked(r)
  BY <1>2, GoOnMoves, EndMoves DEF IsLocked
<1>3. CASE IsIpLimited(r)
  BY <1>3, GoOnMoves, EndMoves DEF IsIpLimited
<1>4. CASE AuthenticatePassword(r)
  BY <1>4, GoOnMoves DEF AuthenticatePassword
<1>5. CASE RecordLogin(r)
  BY <1>5, GoOnMoves DEF RecordLogin
<1>6. CASE IncrFail(r)
  <2> DEFINE pc == IF fails = 0 THEN "arm" ELSE AfterCount(r, fails + 1)
  <2>1. fails + 1 \in Nat
    BY DEF ThrottleTypeOK
  <2>2. pc \in AttemptPcs
    BY <2>1, AfterCountPc
  <2>3. GoOn(r, pc)
    BY <1>6 DEF IncrFail
  <2> HIDE DEF pc
  <2> QED BY <2>2, <2>3, GoOnMoves
<1>7. CASE ArmFail(r)
  <2>1. AfterCount(r, 1) \in AttemptPcs
    BY AfterCountPc
  <2> QED BY <1>7, <2>1, GoOnMoves DEF ArmFail
<1>8. CASE SetLock(r)
  <2>1. GoOn(r, IF attempt[r].ip THEN "incrIp" ELSE "idle")
    BY <1>8 DEF SetLock
  <2> QED BY <2>1, GoOnMoves
<1>9. CASE IncrIp(r)
  BY <1>9, GoOnMoves DEF IncrIp
<1>10. CASE ArmIp(r)
  BY <1>10, GoOnMoves DEF ArmIp
<1>11. CASE Reset(r)
  BY <1>11, EndMoves DEF Reset
<1>12. CASE AbortAttempt(r)
  BY <1>12, EndMoves DEF AbortAttempt
<1> QED BY <1>1, <1>2, <1>3, <1>4, <1>5, <1>6, <1>7, <1>8, <1>9, <1>10, <1>11, <1>12
        DEF RecordFailure

LEMMA InitTypeOK == ThrottleInit => ThrottleTypeOK
<1> SUFFICES ASSUME ThrottleInit PROVE ThrottleTypeOK
  OBVIOUS
<1>1. 0 \in 0..Saturated /\ 0 \in 0..MaxAborts /\ 0 \in Nat
  BY PolicyAssumption DEF Saturated
<1>2. NoAttempt \in [pc : AttemptPcs, ip : BOOLEAN]
  BY DEF NoAttempt, AttemptPcs
<1>3. attempt \in [Attempts -> [pc : AttemptPcs, ip : BOOLEAN]]
  BY <1>2 DEF ThrottleInit
<1> QED BY <1>1, <1>3 DEF ThrottleInit, ThrottleTypeOK

LEMMA NextTypeOK == ThrottleTypeOK /\ [ThrottleNext]_throttleVars => ThrottleTypeOK'
<1> SUFFICES ASSUME ThrottleTypeOK, [ThrottleNext]_throttleVars PROVE ThrottleTypeOK'
  OBVIOUS
<1> USE PolicyAssumption
<1>1. ASSUME NEW r \in Attempts,
             \/ LoginAttempt(r) \/ IsLocked(r) \/ IsIpLimited(r)
             \/ AuthenticatePassword(r)
             \/ RecordLogin(r) \/ RecordFailure(r) \/ Reset(r) \/ AbortAttempt(r)
      PROVE  ThrottleTypeOK'
  <2>1. attempt' \in [Attempts -> [pc : AttemptPcs, ip : BOOLEAN]]
    BY <1>1, StepsMove
  <2>2. CASE LoginAttempt(r) \/ IsLocked(r) \/ IsIpLimited(r) \/ RecordLogin(r)
    BY <2>1, <2>2 DEF ThrottleTypeOK, LoginAttempt, IsLocked, IsIpLimited, RecordLogin, counterVars
  <2>3. CASE AuthenticatePassword(r)
    BY <2>1, <2>3 DEF ThrottleTypeOK, AuthenticatePassword, counterVars
  <2>4. CASE IncrFail(r)
    <3>1. fails' \in 0..Saturated
      BY <2>4 DEF ThrottleTypeOK, IncrFail, Increment, Saturated
    <3> QED BY <2>1, <2>4, <3>1 DEF ThrottleTypeOK, IncrFail
  <2>5. CASE ArmFail(r)
    <3>1. failsTTL' \in BOOLEAN
      BY <2>5 DEF ArmFail
    <3> QED BY <2>1, <2>5, <3>1 DEF ThrottleTypeOK, ArmFail
  <2>6. CASE SetLock(r)
    BY <2>1, <2>6 DEF ThrottleTypeOK, SetLock
  <2>7. CASE IncrIp(r)
    BY <2>1, <2>7 DEF ThrottleTypeOK, IncrIp
  <2>8. CASE ArmIp(r)
    <3>1. ipTTL' \in BOOLEAN
      BY <2>8 DEF ArmIp
    <3> QED BY <2>1, <2>8, <3>1 DEF ThrottleTypeOK, ArmIp
  <2>9. CASE Reset(r)
    <3>1. 0 \in 0..Saturated
      BY DEF Saturated
    <3> QED BY <2>1, <2>9, <3>1 DEF ThrottleTypeOK, Reset
  <2>10. CASE AbortAttempt(r)
    <3>1. aborts' \in 0..MaxAborts
      BY <2>10 DEF AbortAttempt, ThrottleTypeOK
    <3> QED BY <2>1, <2>10, <3>1 DEF ThrottleTypeOK, AbortAttempt, counterVars
  <2> QED BY <1>1, <2>2, <2>3, <2>4, <2>5, <2>6, <2>7, <2>8, <2>9, <2>10
          DEF RecordFailure
<1>2. CASE ExpireKey
  <2>1. 0 \in 0..Saturated /\ 0 \in Nat
    BY DEF Saturated
  <2> QED BY <1>2, <2>1 DEF ThrottleTypeOK, ExpireKey
<1>3. CASE UNCHANGED throttleVars
  BY <1>3 DEF ThrottleTypeOK, throttleVars, counterVars
<1> QED BY <1>1, <1>2, <1>3 DEF ThrottleNext

\* Every reachable state of the throttle is well typed, for any limits and any
\* number of attempts.
THEOREM ThrottleTypes == ThrottleSpec => []ThrottleTypeOK
<1> QED BY InitTypeOK, NextTypeOK, PTL DEF ThrottleSpec

-----------------------------------------------------------------------------
(* Counters get their TTL.                                                  *)

LEMMA NextCountersExpire == ThrottleTypeOK /\ CountersExpire /\ [ThrottleNext]_throttleVars => CountersExpire'
<1> SUFFICES ASSUME ThrottleTypeOK, CountersExpire, [ThrottleNext]_throttleVars, aborts' = 0 PROVE CountersExpire'
  BY DEF CountersExpire
<1> USE PolicyAssumption
<1>1. aborts = 0
  <2>1. aborts' = aborts \/ aborts' = aborts + 1
    BY DEF ThrottleNext, throttleVars, LoginAttempt, IsLocked, IsIpLimited, AuthenticatePassword,
           RecordLogin, RecordFailure, IncrFail, ArmFail, SetLock, IncrIp, ArmIp, Reset,
           AbortAttempt, ExpireKey
  <2> QED BY <2>1 DEF ThrottleTypeOK
<1>2. ASSUME NEW r \in Attempts,
             \/ LoginAttempt(r) \/ IsLocked(r) \/ IsIpLimited(r)
             \/ AuthenticatePassword(r)
             \/ RecordLogin(r) \/ SetLock(r)
      PROVE  CountersExpire'
  <2>1. AttemptMoves(r) /\ UNCHANGED <<fails, failsTTL, ipFails, ipTTL>> /\ attempt[r].pc \notin {"arm", "armIp"}
    BY <1>2, StepsMove
       DEF LoginAttempt, IsLocked, IsIpLimited, AuthenticatePassword, RecordLogin, SetLock, AttemptAt,
           counterVars, RecordFailure
  <2> QED BY <1>1, <2>1 DEF CountersExpire, AttemptMoves, AttemptAt
<1>3. ASSUME NEW r \in Attempts, IncrFail(r) PROVE CountersExpire'
  <2>1. AttemptMoves(r) /\ attempt[r].pc = "incr" /\ UNCHANGED <<failsTTL, ipFails, ipTTL>>
    BY <1>3, StepsMove DEF IncrFail, AttemptAt, RecordFailure
  <2>2. fails = 0 => attempt'[r].pc = "arm"
    BY <1>3, GoOnMoves DEF IncrFail, AttemptPcs
  <2> QED BY <1>1, <2>1, <2>2 DEF CountersExpire, AttemptMoves, AttemptAt, ThrottleTypeOK
<1>4. ASSUME NEW r \in Attempts, ArmFail(r) PROVE CountersExpire'
  <2>1. AttemptMoves(r) /\ attempt[r].pc = "arm" /\ UNCHANGED <<fails, ipFails, ipTTL>>
        /\ (fails > 0 => failsTTL')
    BY <1>4, StepsMove DEF ArmFail, AttemptAt, RecordFailure
  <2> QED BY <1>1, <2>1 DEF CountersExpire, AttemptMoves, AttemptAt
<1>5. ASSUME NEW r \in Attempts, IncrIp(r) PROVE CountersExpire'
  <2>1. AttemptMoves(r) /\ attempt[r].pc = "incrIp" /\ UNCHANGED <<fails, failsTTL, ipTTL>>
    BY <1>5, StepsMove DEF IncrIp, AttemptAt, RecordFailure
  <2>2. ipFails = 0 => attempt'[r].pc = "armIp"
    BY <1>5, GoOnMoves DEF IncrIp, AttemptPcs
  <2> QED BY <1>1, <2>1, <2>2 DEF CountersExpire, AttemptMoves, AttemptAt, ThrottleTypeOK
<1>6. ASSUME NEW r \in Attempts, ArmIp(r) PROVE CountersExpire'
  <2>1. AttemptMoves(r) /\ attempt[r].pc = "armIp" /\ UNCHANGED <<fails, failsTTL, ipFails>>
        /\ (ipFails > 0 => ipTTL')
    BY <1>6, StepsMove DEF ArmIp, AttemptAt, RecordFailure
  <2> QED BY <1>1, <2>1 DEF CountersExpire, AttemptMoves, AttemptAt
<1>7. ASSUME NEW r \in Attempts, Reset(r) PROVE CountersExpire'
  <2>1. AttemptMoves(r) /\ attempt[r].pc = "reset" /\ fails' = 0 /\ UNCHANGED <<ipFails, ipTTL>>
    BY <1>7, StepsMove DEF Reset, AttemptAt
  <2> QED BY <1>1, <2>1 DEF CountersExpire, AttemptMoves, AttemptAt
<1>8. ASSUME NEW r \in Attempts, AbortAttempt(r) PROVE FALSE
  BY <1>1, <1>8 DEF AbortAttempt, ThrottleTypeOK
<1>9. CASE ExpireKey
  BY <1>1, <1>9 DEF CountersExpire, ExpireKey, AttemptAt
<1>10. CASE UNCHANGED throttleVars
  BY <1>1, <1>10 DEF CountersExpire, AttemptAt, throttleVars, counterVars
<1> QED BY <1>2, <1>3, <1>4, <1>5, <1>6, <1>7, <1>8, <1>9, <1>10 DEF ThrottleNext, RecordFailure

\* Unless an attempt dies between INCR and EXPIRE, no counter stays without a
\* TTL, however failures, successes and expiries interleave.
THEOREM CountersGetTheirTTL == ThrottleSpec => []CountersExpire
<1>1. ThrottleInit => CountersExpire
  BY DEF ThrottleInit, CountersExpire
<1> QED BY <1>1, InitTypeOK, NextTypeOK, NextCountersExpire, PTL DEF ThrottleSpec

-----------------------------------------------------------------------------
(* Wrong passwords are bounded.                                             *)

\* What one step of attempt r does to the sizes of the sets.
LEMMA SizesMove ==
    ASSUME NEW r \in Attempts, AttemptMoves(r)
    PROVE  /\ Cardinality(Waiting) \in Nat /\ Cardinality(Waiting') \in Nat
           /\ Cardinality(Gated) \in Nat /\ Cardinality(Gated') \in Nat
           /\ r \in Waiting /\ r \notin Waiting' =>
                 Cardinality(Waiting') = Cardinality(Waiting) - 1
           /\ r \notin Waiting /\ r \in Waiting' =>
                 Cardinality(Waiting') = Cardinality(Waiting) + 1
           /\ (r \in Waiting <=> r \in Waiting') =>
                 Cardinality(Waiting') = Cardinality(Waiting)
           /\ r \in Gated /\ r \notin Gated' => Cardinality(Gated') = Cardinality(Gated) - 1
           /\ (r \in Gated <=> r \in Gated') => Cardinality(Gated') = Cardinality(Gated)
<1>1. /\ Waiting \in SUBSET Attempts /\ Waiting' \in SUBSET Attempts
      /\ Waiting' \ {r} = Waiting \ {r}
  BY SetsMove
<1>2. /\ Gated \in SUBSET Attempts /\ Gated' \in SUBSET Attempts
      /\ Gated' \ {r} = Gated \ {r}
  BY SetsMove
<1> QED BY <1>1, <1>2, OneMoves

\* A step that does not touch the lock, the counter or the guesses, and adds
\* nobody to the sets while it takes nobody from Waiting.
LEMMA QuietAttempt ==
    ASSUME ThrottleTypeOK, GuessInv, NEW r \in Attempts, AttemptMoves(r),
           UNCHANGED <<fails, locked, guesses, aborts>>,
           r \in Waiting <=> r \in Waiting',
           r \in Gated' => r \in Gated \/ ~locked
    PROVE  GuessInv'
<1>1. Cardinality(Waiting') = Cardinality(Waiting)
  BY SizesMove
<1>2. locked => Cardinality(Gated') <= Cardinality(Gated)
  BY SizesMove
<1> QED BY <1>1, <1>2, SizesMove, PolicyAssumption, WaitingAndGated
        DEF GuessInv, ThrottleTypeOK, Bound, Short

\* The gates let an attempt on only while there is no lock.
LEMMA GatesGuess ==
    ASSUME ThrottleTypeOK, GuessInv, NEW r \in Attempts,
           LoginAttempt(r) \/ IsLocked(r) \/ IsIpLimited(r) \/ RecordLogin(r) \/ IncrIp(r) \/ ArmIp(r)
    PROVE  GuessInv'
<1>1. AttemptMoves(r) /\ UNCHANGED <<fails, locked, guesses, aborts>>
  BY StepsMove DEF LoginAttempt, IsLocked, IsIpLimited, RecordLogin, IncrIp, ArmIp, counterVars,
                   RecordFailure
<1> USE DEF AttemptPcs, AttemptAt, Waiting, Gated
<1>2. CASE LoginAttempt(r)
  BY <1>1, <1>2, LoginMoves, QuietAttempt DEF LoginAttempt
<1>3. CASE IsLocked(r)
  <2>1. attempt[r].pc = "lock"
    BY <1>3 DEF IsLocked
  <2>2. attempt'[r].pc \in {"idle", "ip", "verify"} /\ (locked => attempt'[r].pc = "idle")
    BY <1>3, GoOnMoves, EndMoves DEF IsLocked
  <2> QED BY <1>1, <2>1, <2>2, QuietAttempt
<1>4. CASE IsIpLimited(r)
  <2>1. attempt[r].pc = "ip"
    BY <1>4 DEF IsIpLimited
  <2>2. attempt'[r].pc \in {"idle", "verify"}
    BY <1>4, GoOnMoves, EndMoves DEF IsIpLimited
  <2> QED BY <1>1, <2>1, <2>2, QuietAttempt
<1>5. CASE RecordLogin(r)
  <2>1. attempt[r].pc = "audit" /\ attempt'[r].pc = "incr"
    BY <1>5, GoOnMoves DEF RecordLogin
  <2> QED BY <1>1, <2>1, QuietAttempt
<1>6. CASE IncrIp(r)
  <2>1. attempt[r].pc = "incrIp" /\ attempt'[r].pc \in {"armIp", "idle"}
    BY <1>6, GoOnMoves DEF IncrIp
  <2> QED BY <1>1, <2>1, QuietAttempt
<1>7. CASE ArmIp(r)
  <2>1. attempt[r].pc = "armIp" /\ attempt'[r].pc = "idle"
    BY <1>7, GoOnMoves DEF ArmIp
  <2> QED BY <1>1, <2>1, QuietAttempt
<1> QED BY <1>2, <1>3, <1>4, <1>5, <1>6, <1>7

\* A wrong password is one guess more and one attempt more to be counted.
LEMMA VerifyGuess ==
    ASSUME ThrottleTypeOK, GuessInv, NEW r \in Attempts, AuthenticatePassword(r)
    PROVE  GuessInv'
<1>1. AttemptMoves(r) /\ UNCHANGED <<fails, locked, aborts>> /\ attempt[r].pc = "verify"
  BY StepsMove DEF AuthenticatePassword, counterVars, AttemptAt
<1>2. \/ attempt'[r].pc = "reset" /\ guesses' = guesses
      \/ attempt'[r].pc = "audit" /\ guesses' = guesses + 1
  BY GoOnMoves DEF AuthenticatePassword, AttemptPcs
<1>3. r \notin Waiting /\ (r \in Waiting' <=> attempt'[r].pc = "audit")
  BY <1>1, <1>2 DEF Waiting
<1>4. r \in Gated /\ r \notin Gated'
  BY <1>1, <1>2 DEF Gated
<1>5. Cardinality(Gated') = Cardinality(Gated) - 1
  BY <1>1, <1>4, SizesMove
<1>6. Cardinality(Waiting') = Cardinality(Waiting) + (guesses' - guesses)
  BY <1>1, <1>2, <1>3, SizesMove DEF ThrottleTypeOK
<1>7. guesses \in Nat /\ guesses' \in {guesses, guesses + 1} /\ aborts \in Nat
  BY <1>2, PolicyAssumption DEF ThrottleTypeOK
<1>8. Short(fails) \in Int /\ Bound \in Int
  BY PolicyAssumption, WaitingAndGated DEF Short, ThrottleTypeOK, Bound
<1>9. ~locked' => guesses' <= Short(fails') + Cardinality(Waiting') + aborts'
  BY <1>1, <1>6, <1>7, <1>8, SizesMove DEF GuessInv
<1>10. locked' => guesses' + Cardinality(Gated') <= Bound + aborts'
  BY <1>1, <1>5, <1>7, <1>8, SizesMove DEF GuessInv
<1> QED BY <1>9, <1>10 DEF GuessInv, Bound

\* A count takes the attempt from Waiting and raises the counter below the
\* limit, or leaves the attempt there to set the lock.
LEMMA CountGuess ==
    ASSUME ThrottleTypeOK, GuessInv, NEW r \in Attempts, IncrFail(r) \/ ArmFail(r)
    PROVE  GuessInv'
<1> USE PolicyAssumption
<1>1. AttemptMoves(r) /\ UNCHANGED <<locked, guesses, aborts>>
  BY StepsMove DEF IncrFail, ArmFail, RecordFailure
<1>2. fails \in Nat /\ fails + 1 \in Nat /\ guesses \in Nat /\ aborts \in Nat
  BY DEF ThrottleTypeOK
<1>3. CASE IncrFail(r)
  <2> DEFINE pc == IF fails = 0 THEN "arm" ELSE AfterCount(r, fails + 1)
  <2>1. GoOn(r, pc) /\ fails' = Increment(fails) /\ attempt[r].pc = "incr"
    BY <1>3 DEF IncrFail, AttemptAt
  <2>2. pc \in AttemptPcs
    BY <1>2, AfterCountPc DEF AttemptPcs
  <2>3. /\ pc \in {"arm", "setLock", "incrIp", "idle"}
        /\ fails + 1 >= MaxFailures => pc = "setLock" \/ (pc = "arm" /\ MaxFailures = 1)
        /\ fails + 1 < MaxFailures => pc \notin {"setLock"} /\ ~(pc = "arm" /\ MaxFailures = 1)
    BY <1>2, AfterCountPc
  <2>4. attempt'[r].pc = pc
    BY <2>1, <2>2, GoOnMoves
  <2> HIDE DEF pc
  <2>5. r \in Waiting /\ r \notin Gated /\ r \notin Gated'
    BY <2>1, <2>3, <2>4 DEF Waiting, Gated
  <2>6. r \in Waiting' <=> fails + 1 >= MaxFailures
    BY <1>2, <2>3, <2>4 DEF Waiting
  <2>7. Cardinality(Gated') = Cardinality(Gated)
    BY <1>1, <2>5, SizesMove
  <2>8. CASE fails + 1 < MaxFailures
    <3>1. Cardinality(Waiting') = Cardinality(Waiting) - 1
      BY <1>1, <1>2, <2>5, <2>6, <2>8, SizesMove
    <3>2. Short(fails') = Short(fails) + 1 /\ Short(fails) \in Int
      BY <1>2, <2>1, <2>8 DEF Short, Increment, Saturated
    <3> QED BY <1>1, <1>2, <2>7, <3>1, <3>2, SizesMove DEF GuessInv, Bound
  <2>9. CASE fails + 1 >= MaxFailures
    <3>1. Cardinality(Waiting') = Cardinality(Waiting)
      BY <1>1, <1>2, <2>5, <2>6, <2>9, SizesMove
    <3>2. Short(fails') = Short(fails) /\ Short(fails) \in Int
      BY <1>2, <2>1, <2>9 DEF Short, Increment, Saturated
    <3> QED BY <1>1, <1>2, <2>7, <3>1, <3>2, SizesMove DEF GuessInv, Bound
  <2> QED BY <1>2, <2>8, <2>9
<1>4. CASE ArmFail(r)
  <2>1. attempt[r].pc = "arm" /\ fails' = fails
    BY <1>4 DEF ArmFail, AttemptAt
  <2>2. AfterCount(r, 1) \in AttemptPcs
    BY AfterCountPc DEF AttemptPcs
  <2>3. attempt'[r].pc = AfterCount(r, 1)
    BY <1>4, <2>2, GoOnMoves DEF ArmFail
  <2>4. /\ attempt'[r].pc \in {"setLock", "incrIp", "idle"}
        /\ attempt'[r].pc = "setLock" <=> MaxFailures = 1
    BY <2>3, AfterCountPc
  <2>5. r \in Waiting <=> r \in Waiting'
    BY <2>1, <2>4 DEF Waiting
  <2>6. r \notin Gated'
    BY <2>4 DEF Gated
  <2> QED BY <1>1, <2>1, <2>5, <2>6, QuietAttempt
<1> QED BY <1>3, <1>4

\* When the lock is set, the attempts that wait and those that are gated are all
\* that can have guessed beyond the counter or still will.
LEMMA LockGuess ==
    ASSUME ThrottleTypeOK, GuessInv, NEW r \in Attempts, SetLock(r)
    PROVE  GuessInv'
<1> USE PolicyAssumption
<1>1. AttemptMoves(r) /\ UNCHANGED <<fails, guesses, aborts>> /\ locked' = TRUE
  BY StepsMove DEF SetLock, RecordFailure
<1>2. attempt[r].pc = "setLock" /\ attempt'[r].pc \in {"incrIp", "idle"}
  BY GoOnMoves DEF SetLock, AttemptAt, AttemptPcs
<1>3. Cardinality(Gated') = Cardinality(Gated)
  BY <1>1, <1>2, SizesMove DEF Gated
<1>4. guesses \in Nat /\ aborts \in Nat /\ Short(fails) \in Int
      /\ Short(fails) <= MaxFailures - 1
  BY DEF ThrottleTypeOK, Short
<1>5. guesses + Cardinality(Gated) <= Bound + aborts
  <2>1. CASE locked
    BY <2>1 DEF GuessInv
  <2>2. CASE ~locked
    BY <1>4, <2>2, WaitingAndGated DEF GuessInv, Bound
  <2> QED BY <2>1, <2>2
<1> QED BY <1>1, <1>3, <1>5 DEF GuessInv, Bound

\* A reset starts the count of guesses anew; a lost attempt is a fault.
LEMMA EndGuess ==
    ASSUME ThrottleTypeOK, GuessInv, NEW r \in Attempts, Reset(r) \/ AbortAttempt(r)
    PROVE  GuessInv'
<1> USE PolicyAssumption
<1>1. AttemptMoves(r) /\ attempt'[r].pc = "idle"
  BY StepsMove, EndMoves DEF Reset, AbortAttempt
<1>2. r \notin Waiting' /\ r \notin Gated'
  BY <1>1 DEF Waiting, Gated
<1>3. /\ Cardinality(Waiting') \in {Cardinality(Waiting), Cardinality(Waiting) - 1}
      /\ Cardinality(Gated') \in {Cardinality(Gated), Cardinality(Gated) - 1}
  BY <1>1, <1>2, SizesMove
<1>4. CASE Reset(r)
  <2>1. fails' = 0 /\ locked' = FALSE /\ guesses' = 0 /\ aborts' = aborts
    BY <1>4 DEF Reset
  <2>2. Short(fails') >= 0 /\ Short(fails') \in Int
    BY <2>1 DEF Short
  <2> QED BY <1>1, <2>1, <2>2, SizesMove DEF GuessInv, ThrottleTypeOK
<1>5. CASE AbortAttempt(r)
  <2>1. UNCHANGED <<fails, locked, guesses>> /\ aborts' = aborts + 1
    BY <1>5 DEF AbortAttempt, counterVars
  <2>2. Short(fails) \in Int /\ Bound \in Int /\ guesses \in Nat /\ aborts \in Nat
    BY WaitingAndGated DEF Short, ThrottleTypeOK, Bound
  <2> QED BY <1>1, <1>3, <2>1, <2>2, SizesMove DEF GuessInv, Bound, Short
<1> QED BY <1>4, <1>5

LEMMA NextGuess == ThrottleTypeOK /\ GuessInv /\ [ThrottleNext]_throttleVars => GuessInv'
<1> SUFFICES ASSUME ThrottleTypeOK, GuessInv, [ThrottleNext]_throttleVars PROVE GuessInv'
  OBVIOUS
<1> USE PolicyAssumption
<1>1. CASE ExpireKey
  <2>1. Waiting' = Waiting /\ Gated' = Gated /\ aborts' = aborts
    BY <1>1 DEF ExpireKey, Waiting, Gated
  <2>2. CASE guesses' = 0 /\ ~locked'
    <3>1. Short(fails') \in Nat
      BY <1>1 DEF ExpireKey, ThrottleTypeOK, Short
    <3> QED BY <2>1, <2>2, <3>1, WaitingAndGated DEF GuessInv, ThrottleTypeOK
  <2>3. CASE guesses' = 0 /\ locked' /\ locked
    BY <2>1, <2>3, WaitingAndGated DEF GuessInv, ThrottleTypeOK, Bound
  <2>4. CASE UNCHANGED <<fails, locked, guesses>>
    BY <2>1, <2>4 DEF GuessInv, Bound, Short
  <2>5. \/ guesses' = 0 /\ ~locked'
        \/ guesses' = 0 /\ locked' /\ locked
        \/ UNCHANGED <<fails, locked, guesses>>
    BY <1>1 DEF ExpireKey, ThrottleTypeOK
  <2> QED BY <2>2, <2>3, <2>4, <2>5
<1>2. CASE UNCHANGED throttleVars
  BY <1>2 DEF throttleVars, counterVars, GuessInv, Waiting, Gated, Bound, Short
<1> QED BY <1>1, <1>2, GatesGuess, VerifyGuess, CountGuess, LockGuess, EndGuess
        DEF ThrottleNext, RecordFailure

\* Between one expiry or reset and the next, at most max_failures - 1 wrong
\* passwords are verified and one more for each concurrent attempt and each
\* attempt that died, however checks and counts interleave.
THEOREM GuessesAreBounded == ThrottleSpec => []GuessesBounded
<1>1. ThrottleInit => GuessInv
  <2> SUFFICES ASSUME ThrottleInit PROVE GuessInv
    OBVIOUS
  <2>1. Short(fails) \in Nat
    BY PolicyAssumption DEF ThrottleInit, Short
  <2> QED BY <2>1, WaitingAndGated DEF ThrottleInit, GuessInv
<1>2. ThrottleTypeOK /\ GuessInv => GuessesBounded
  <2> SUFFICES ASSUME ThrottleTypeOK, GuessInv PROVE GuessesBounded
    OBVIOUS
  <2>1. guesses \in Nat /\ aborts \in Nat /\ Short(fails) \in Int
        /\ Short(fails) <= MaxFailures - 1 /\ MaxFailures \in Nat
    BY PolicyAssumption DEF ThrottleTypeOK, Short
  <2> QED BY <2>1, WaitingAndGated DEF GuessInv, GuessesBounded, Bound
<1> QED BY <1>1, <1>2, InitTypeOK, NextTypeOK, NextGuess, PTL DEF ThrottleSpec

=============================================================================
