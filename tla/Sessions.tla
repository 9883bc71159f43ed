------------------------------ MODULE Sessions ------------------------------
(***************************************************************************)
(* The sessions of one user: password login, refresh rotation, logout,     *)
(* kick, the online list, and the revocation of all sessions when the      *)
(* password changes or the account is disabled or deleted                  *)
(* (src/src/core/session_store.py, src/src/auth/service.py,                *)
(* src/src/admin/users, src/src/admin/online).                             *)
(*                                                                         *)
(* All session state is in Redis.  A session is one access token with the  *)
(* refresh token issued beside it, so both records are named by the        *)
(* session.  Requests run concurrently; every Redis command and every      *)
(* database statement is one step, since other requests run at each await. *)
(* Users share no key but the set sess:users, of which `online' is this    *)
(* user's membership.                                                      *)
(***************************************************************************)
EXTENDS Naturals, FiniteSets

CONSTANTS
    Requests,       \* request slots: how many requests run at once
    Session,        \* the (access jti, refresh hash) pairs ever issued
    NoSession,      \* no session
    MaxFaults       \* bound on requests that die or meet a failing Redis

ASSUME NoSessionAssumption == NoSession \notin Session
ASSUME SessionBounds ==
    /\ MaxFaults \in Nat
    /\ IsFiniteSet(Requests)
    /\ IsFiniteSet(Session)

VARIABLES
    access,      \* sessions with a record sess:access:{jti}
    refresh,     \* sessions with a record sess:refresh:{hash}
    used,        \* sessions with a marker sess:refresh:used:{hash}
    index,       \* the set sess:user:{user_id}
    indexTTL,    \* whether the index has a TTL
    online,      \* whether the user is in sess:users
    status,      \* the committed status of the user row
    rowLock,     \* the request whose transaction has written the user row
    req,         \* req[r]: what request r does and where it stands
    issued,      \* history: sessions issued so far
    family,      \* history: the login a session descends from by rotation
    faults       \* faults so far

redisVars == <<access, refresh, used, index, indexTTL, online>>
dbVars == <<status, rowLock>>
historyVars == <<issued, family>>
vars == <<redisVars, dbVars, req, historyVars, faults>>

\* A deleted row is found by no lookup, as a disabled one that nobody enables.
Statuses == {"active", "disabled"}

\* What a request is for: "revoke" is revoke_access, whether of a logout, a
\* kick or the end of a rotation; "change" is the user's own password change;
\* "write" an administrator's write of the row that revokes all sessions: a
\* password set or reset, a disable, a delete.
Creating == {"login", "refresh"}
Ops == {"idle", "revoke", "change", "write", "enable", "list", "listAll"}
           \cup Creating

Pcs == {"idle", "read", "setAccess", "setRefresh", "addIndex", "armIndex",
        "addOnline", "consume", "mark", "checkUsed", "get", "del", "unindex",
        "prune", "dropOnline", "delRefresh", "members", "visit", "visitDel",
        "visitRefresh", "delIndex", "dropUser", "gate", "row", "flush",
        "commit", "listUsers", "smembers", "look", "srem", "prunelist",
        "dropList", "listed"}

\* new: the session the request issues; old: the session it is about;
\* todo: index members still to visit; seen: the members revoke_all_sessions
\* listed; gone: those whose access record had expired by their visit; found:
\* what the last GET returned.
Idle == [op |-> "idle", pc |-> "idle", new |-> NoSession, old |-> NoSession,
         todo |-> {}, seen |-> {}, gone |-> {}, found |-> FALSE]

RequestType ==
    [op : Ops, pc : Pcs, new : Session \cup {NoSession},
     old : Session \cup {NoSession},
     todo : SUBSET Session, seen : SUBSET Session, gone : SUBSET Session,
     found : BOOLEAN]

TypeOK ==
    /\ access \subseteq Session
    /\ refresh \subseteq Session
    /\ used \subseteq Session
    /\ index \subseteq Session
    /\ indexTTL \in BOOLEAN
    /\ online \in BOOLEAN
    /\ status \in Statuses
    /\ rowLock \subseteq Requests
    /\ req \in [Requests -> RequestType]
    /\ issued \subseteq Session
    /\ family \in [Session -> Session]
    /\ faults \in 0..MaxFaults

Init ==
    /\ access = {} /\ refresh = {} /\ used = {} /\ index = {}
    /\ indexTTL = FALSE /\ online = FALSE
    /\ status = "active" /\ rowLock = {}
    /\ req = [r \in Requests |-> Idle]
    /\ issued = {}
    /\ family = [s \in Session |-> s]
    /\ faults = 0

At(r, pc) == req[r].pc = pc
Go(r, pc) == req' = [req EXCEPT ![r].pc = pc]
Finish(r) == req' = [req EXCEPT ![r] = Idle]

-----------------------------------------------------------------------------
(* A request arrives.                                                       *)

Start(r, op, pc) ==
    /\ At(r, "idle")
    /\ req' = [req EXCEPT ![r] = [Idle EXCEPT !.op = op, !.pc = pc]]
    /\ UNCHANGED <<redisVars, dbVars, historyVars, faults>>

StartWith(r, op, pc, s) ==
    /\ At(r, "idle")
    /\ req' = [req EXCEPT ![r] = [Idle EXCEPT !.op = op, !.pc = pc, !.old = s]]
    /\ UNCHANGED <<redisVars, dbVars, historyVars, faults>>

\* A request that is going to issue a session; Room bounds their number by the
\* sessions left.
WillIssue(r) ==
    \/ req[r].op = "login" /\ req[r].new = NoSession
    \/ req[r].op = "refresh" /\ req[r].pc \in {"mark", "setAccess"}

Room ==
    Cardinality(issued) + Cardinality({r \in Requests : WillIssue(r)})
      < Cardinality(Session)

\* POST /auth/login.
Login(r) == Room /\ Start(r, "login", "read")

\* POST /auth/refresh, with any refresh token ever handed out.
Refresh(r) == \E s \in issued : StartWith(r, "refresh", "consume", s)

\* Behind the middleware, which resolves the bearer token first.
Authenticated(r, op) == \E s \in issued : StartWith(r, op, "gate", s)

\* POST /auth/logout and PUT /auth/me/password.
Logout(r) == Authenticated(r, "revoke")
ChangePassword(r) == Authenticated(r, "change")

\* DELETE /online/sessions/{jti} and GET /online/sessions: an administrator's.
Kick(r) == \E s \in issued : StartWith(r, "revoke", "get", s)
ListOnline(r) == Start(r, "list", "smembers") \/ Start(r, "listAll", "listUsers")

\* The administrator's requests that end the sessions of the user (a password
\* set or reset, a disable, a delete), and an enable, which does not.
AdminUpdate(r) == Start(r, "write", "flush")
AdminEnable(r) == status = "disabled" /\ Start(r, "enable", "flush")

-----------------------------------------------------------------------------
(* authenticate_password, once the throttle (LoginThrottle) let it through.  *)

\* get_user_by_username and the argon2 check of what it returned.  A failure
\* is audited and counted by the throttle; no session changes.
VerifyPassword(r) ==
    /\ At(r, "read")
    /\ \/ status = "active" /\ Go(r, "setAccess")
       \/ Finish(r)
    /\ UNCHANGED <<redisVars, dbVars, historyVars, faults>>

-----------------------------------------------------------------------------
(* create_session, for a login and for a rotation.                          *)

\* issue_access_token and issue_refresh_token, then SET of the access record.
SetAccess(r) ==
    /\ At(r, "setAccess")
    /\ \E s \in Session \ issued :
        /\ issued' = issued \cup {s}
        /\ family' = [family EXCEPT ![s] =
                         IF req[r].op = "refresh" THEN family[req[r].old] ELSE s]
        /\ access' = access \cup {s}
        /\ req' = [req EXCEPT ![r].new = s, ![r].pc = "setRefresh"]
    /\ UNCHANGED <<refresh, used, index, indexTTL, online, dbVars, faults>>

SetRefresh(r) ==
    /\ At(r, "setRefresh")
    /\ refresh' = refresh \cup {req[r].new}
    /\ Go(r, "addIndex")
    /\ UNCHANGED <<access, used, index, indexTTL, online, dbVars, historyVars, faults>>

AddIndex(r) ==
    /\ At(r, "addIndex")
    /\ index' = index \cup {req[r].new}
    /\ Go(r, "armIndex")
    /\ UNCHANGED <<access, refresh, used, indexTTL, online, dbVars, historyVars, faults>>

\* EXPIRE of the index, if the key is still there.
ArmIndex(r) ==
    /\ At(r, "armIndex")
    /\ indexTTL' = (index # {})
    /\ Go(r, "addOnline")
    /\ UNCHANGED <<access, refresh, used, index, online, dbVars, historyVars, faults>>

\* A login is answered; a rotation goes on to revoke_access of the old session.
AddOnline(r) ==
    /\ At(r, "addOnline")
    /\ online' = TRUE
    /\ IF req[r].op = "refresh"
       THEN req' = [req EXCEPT ![r].op = "revoke", ![r].new = NoSession,
                               ![r].pc = "get"]
       ELSE Finish(r)
    /\ UNCHANGED <<access, refresh, used, index, indexTTL, dbVars, historyVars, faults>>

CreateSession(r) ==
    \/ SetAccess(r) \/ SetRefresh(r) \/ AddIndex(r) \/ ArmIndex(r) \/ AddOnline(r)

-----------------------------------------------------------------------------
(* consume_refresh.                                                         *)

\* Mutant: GET instead of GETDEL.
TakeRefreshByGet(r) ==
    /\ At(r, "consume")
    /\ req[r].old \in refresh => Room
    /\ Go(r, IF req[r].old \in refresh THEN "mark" ELSE "checkUsed")
    /\ UNCHANGED <<redisVars, dbVars, historyVars, faults>>

\* GETDEL of the refresh record: the one caller that gets it rotates.
TakeRefresh(r) ==
    /\ At(r, "consume")
    /\ req[r].old \in refresh => Room
    /\ refresh' = refresh \ {req[r].old}
    /\ Go(r, IF req[r].old \in refresh THEN "mark" ELSE "checkUsed")
    /\ UNCHANGED <<access, used, index, indexTTL, online, dbVars, historyVars, faults>>

MarkUsed(r) ==
    /\ At(r, "mark")
    /\ used' = used \cup {req[r].old}
    /\ Go(r, "setAccess")
    /\ UNCHANGED <<access, refresh, index, indexTTL, online, dbVars, historyVars, faults>>

\* A token already rotated away is replayed: all sessions are revoked.
CheckUsed(r) ==
    /\ At(r, "checkUsed")
    /\ IF req[r].old \in used
       THEN req' = [req EXCEPT ![r].old = NoSession, ![r].pc = "members"]
       ELSE Finish(r)
    /\ UNCHANGED <<redisVars, dbVars, historyVars, faults>>

ConsumeRefresh(r) == TakeRefresh(r) \/ MarkUsed(r) \/ CheckUsed(r)

-----------------------------------------------------------------------------
(* revoke_access: logout, kick, and the end of a rotation.                  *)

GetAccess(r) ==
    /\ At(r, "get")
    /\ req' = [req EXCEPT ![r].found = req[r].old \in access, ![r].pc = "del"]
    /\ UNCHANGED <<redisVars, dbVars, historyVars, faults>>

DelAccess(r) ==
    /\ At(r, "del")
    /\ access' = access \ {req[r].old}
    /\ IF req[r].found
       THEN req' = [req EXCEPT ![r].found = FALSE, ![r].pc = "unindex"]
       ELSE Finish(r)
    /\ UNCHANGED <<refresh, used, index, indexTTL, online, dbVars, historyVars, faults>>

\* SREM: the set and its TTL are gone with its last member.
RemoveFromIndex(s) ==
    /\ index' = index \ {s}
    /\ indexTTL' = (indexTTL /\ index' # {})

Unindex(r) ==
    /\ At(r, "unindex")
    /\ RemoveFromIndex(req[r].old)
    /\ Go(r, "prune")
    /\ UNCHANGED <<access, refresh, used, online, dbVars, historyVars, faults>>

\* _prune_user_index: EXISTS of the index, then SREM from sess:users.
PruneUserIndex(r, from, drop, after) ==
    \/ /\ At(r, from)
       /\ Go(r, IF index = {} THEN drop ELSE after)
       /\ UNCHANGED <<redisVars, dbVars, historyVars, faults>>
    \/ /\ At(r, drop)
       /\ online' = FALSE
       /\ Go(r, after)
       /\ UNCHANGED <<access, refresh, used, index, indexTTL, dbVars, historyVars, faults>>

DelRefresh(r) ==
    /\ At(r, "delRefresh")
    /\ refresh' = refresh \ {req[r].old}
    /\ Finish(r)
    /\ UNCHANGED <<access, used, index, indexTTL, online, dbVars, historyVars, faults>>

RevokeAccess(r) ==
    \/ GetAccess(r) \/ DelAccess(r) \/ Unindex(r) \/ DelRefresh(r)
    \/ PruneUserIndex(r, "prune", "dropOnline", "delRefresh")

-----------------------------------------------------------------------------
(* revoke_all_sessions: a replayed refresh token, a new password, a disable *)
(* or a delete.                                                             *)

\* SMEMBERS of the index: sessions added later are not visited.
ListMembers(r) ==
    /\ At(r, "members")
    /\ req' = [req EXCEPT ![r].todo = index, ![r].seen = index, ![r].pc = "visit"]
    /\ UNCHANGED <<redisVars, dbVars, historyVars, faults>>

\* GET of one listed session's access record.
Visit(r) ==
    /\ At(r, "visit")
    /\ IF req[r].todo = {}
       THEN req' = [req EXCEPT ![r].new = NoSession, ![r].pc = "delIndex"]
       ELSE \E s \in req[r].todo :
              req' = [req EXCEPT ![r].todo = @ \ {s}, ![r].new = s,
                                 ![r].found = s \in access,
                                 ![r].gone = IF s \in access THEN @ ELSE @ \cup {s},
                                 ![r].pc = "visitDel"]
    /\ UNCHANGED <<redisVars, dbVars, historyVars, faults>>

\* Mutant: the refresh record is left to its TTL.
VisitDelOnly(r) ==
    /\ At(r, "visitDel")
    /\ access' = access \ {req[r].new}
    /\ req' = [req EXCEPT ![r].found = FALSE, ![r].pc = "visit"]
    /\ UNCHANGED <<refresh, used, index, indexTTL, online, dbVars, historyVars, faults>>

VisitDel(r) ==
    /\ At(r, "visitDel")
    /\ access' = access \ {req[r].new}
    /\ req' = [req EXCEPT ![r].found = FALSE,
                          ![r].pc = IF req[r].found THEN "visitRefresh" ELSE "visit"]
    /\ UNCHANGED <<refresh, used, index, indexTTL, online, dbVars, historyVars, faults>>

VisitRefresh(r) ==
    /\ At(r, "visitRefresh")
    /\ refresh' = refresh \ {req[r].new}
    /\ Go(r, "visit")
    /\ UNCHANGED <<access, used, index, indexTTL, online, dbVars, historyVars, faults>>

DelIndex(r) ==
    /\ At(r, "delIndex")
    /\ index' = {} /\ indexTTL' = FALSE
    /\ Go(r, "dropUser")
    /\ UNCHANGED <<access, refresh, used, online, dbVars, historyVars, faults>>

\* A refused refresh ends here; the others still have to commit.
DropUser(r) ==
    /\ At(r, "dropUser")
    /\ online' = FALSE
    /\ IF req[r].op = "refresh" THEN Finish(r) ELSE Go(r, "commit")
    /\ UNCHANGED <<access, refresh, used, index, indexTTL, dbVars, historyVars, faults>>

RevokeAllSessions(r) ==
    \/ ListMembers(r) \/ Visit(r) \/ VisitDel(r) \/ VisitRefresh(r)
    \/ DelIndex(r) \/ DropUser(r)

-----------------------------------------------------------------------------
(* The online list, which drops the index members whose record expired.     *)

ListUserSessions(r) ==
    \/ /\ At(r, "smembers")
       /\ req' = [req EXCEPT ![r].todo = index, ![r].pc = "look"]
       /\ UNCHANGED <<redisVars, dbVars, historyVars, faults>>
    \/ /\ At(r, "look")
       /\ IF req[r].todo = {}
          THEN req' = [req EXCEPT ![r].old = NoSession, ![r].pc = "prunelist"]
          ELSE \E s \in req[r].todo :
                 req' = [req EXCEPT ![r].todo = @ \ {s}, ![r].old = s,
                                    ![r].found = @ \/ s \in access,
                                    ![r].pc = IF s \in access THEN "look" ELSE "srem"]
       /\ UNCHANGED <<redisVars, dbVars, historyVars, faults>>
    \/ /\ At(r, "srem")
       /\ RemoveFromIndex(req[r].old)
       /\ Go(r, "look")
       /\ UNCHANGED <<access, refresh, used, online, dbVars, historyVars, faults>>

\* list_all_sessions visits the user only if sess:users names it, and drops
\* it from there when no session was found, after list_user_sessions pruned.
ListAllSessions(r) ==
    \/ /\ At(r, "listUsers")
       /\ IF online THEN Go(r, "smembers") ELSE Finish(r)
       /\ UNCHANGED <<redisVars, dbVars, historyVars, faults>>
    \/ PruneUserIndex(r, "prunelist", "dropList", "listed")
    \/ /\ At(r, "listed")
       /\ online' = (online /\ (req[r].op = "list" \/ req[r].found))
       /\ Finish(r)
       /\ UNCHANGED <<access, refresh, used, index, indexTTL, dbVars, historyVars, faults>>

-----------------------------------------------------------------------------
(* Authenticated requests and the writes to the user row.                   *)

\* AuthMiddleware: the token's session must still be active.
ResolveAccessToken(r) ==
    /\ At(r, "gate")
    /\ IF req[r].old \in access THEN Go(r, "row") ELSE Finish(r)
    /\ UNCHANGED <<redisVars, dbVars, historyVars, faults>>

\* get_user_by_id: a disabled user is refused; a password change is refused
\* as well if the new password is weak or the old one is wrong.
LoadUser(r) ==
    /\ At(r, "row")
    /\ \/ /\ status = "active"
          /\ IF req[r].op = "revoke"
             THEN Go(r, "get")
             ELSE req' = [req EXCEPT ![r].old = NoSession, ![r].pc = "flush"]
       \/ /\ status # "active" \/ req[r].op = "change"
          /\ Finish(r)
    /\ UNCHANGED <<redisVars, dbVars, historyVars, faults>>

\* The flush writes the row and so locks it until the transaction ends.
Flush(r) ==
    /\ At(r, "flush")
    /\ rowLock = {}
    /\ rowLock' = {r}
    /\ Go(r, IF req[r].op = "enable" THEN "commit" ELSE "members")
    /\ UNCHANGED <<redisVars, status, historyVars, faults>>

\* Whether a login's password matches is open in VerifyPassword, so a new
\* password leaves no trace here.  What an administrator's write changes is
\* fixed by the request; it is chosen here, where it takes effect.
Commit(r) ==
    /\ At(r, "commit")
    /\ rowLock' = {}
    /\ \/ req[r].op = "enable" /\ status' = "active"
       \/ req[r].op \in {"change", "write"} /\ UNCHANGED status
       \/ req[r].op = "write" /\ status' = "disabled"
    /\ Finish(r)
    /\ UNCHANGED <<redisVars, historyVars, faults>>

-----------------------------------------------------------------------------
(* Time and faults.                                                         *)

\* A record's TTL runs out.  The index is given the refresh lifetime anew
\* with every session added, so it outlives its members, but for one whose
\* EXPIRE is still to come.
Expire ==
    \/ /\ \E s \in access : access' = access \ {s}
       /\ UNCHANGED <<refresh, used, index, indexTTL>>
    \/ /\ \E s \in refresh : refresh' = refresh \ {s}
       /\ UNCHANGED <<access, used, index, indexTTL>>
    \/ /\ \E s \in used : used' = used \ {s}
       /\ UNCHANGED <<access, refresh, index, indexTTL>>
    \/ /\ indexTTL
       /\ \A s \in index \cap (access \cup refresh) :
             \E r \in Requests : At(r, "armIndex") /\ req[r].new = s
       /\ index' = {} /\ indexTTL' = FALSE
       /\ UNCHANGED <<access, refresh, used>>

ExpireRecord ==
    Expire /\ UNCHANGED <<online, dbVars, req, historyVars, faults>>

\* The process dies, or a command raises: the request ends where it stands
\* and its transaction rolls back.
Abort(r) ==
    /\ faults < MaxFaults
    /\ ~At(r, "idle")
    /\ faults' = faults + 1
    /\ rowLock' = rowLock \ {r}
    /\ Finish(r)
    /\ UNCHANGED <<redisVars, status, historyVars>>

-----------------------------------------------------------------------------

Arrive(r) ==
    \/ Login(r) \/ Refresh(r) \/ Logout(r) \/ ChangePassword(r) \/ Kick(r)
    \/ ListOnline(r) \/ AdminUpdate(r) \/ AdminEnable(r)

Step(r) ==
    \/ VerifyPassword(r)
    \/ CreateSession(r) \/ ConsumeRefresh(r) \/ RevokeAccess(r)
    \/ RevokeAllSessions(r) \/ ListUserSessions(r) \/ ListAllSessions(r)
    \/ ResolveAccessToken(r) \/ LoadUser(r) \/ Flush(r) \/ Commit(r)

Next ==
    \/ \E r \in Requests : Arrive(r) \/ Step(r) \/ Abort(r)
    \/ ExpireRecord

Spec == Init /\ [][Next]_vars

-----------------------------------------------------------------------------
(* Properties.                                                              *)

\* A login and its rotations hold at most one redeemable refresh token between
\* them: GETDEL lets one of several concurrent rotations win, and the token
\* it hands out is the only one that goes on (session_store.py, consume_refresh).
OneRefreshPerFamily ==
    \A s, t \in refresh : family[s] = family[t] => s = t

\* When revoke_all_sessions has visited the sessions it listed, none of them
\* is active any more, and their refresh tokens are gone too, but for those
\* whose access record had expired by the visit.
ListedSessionsEnd ==
    \A r \in Requests :
        req[r].pc \in {"delIndex", "dropUser", "commit"} =>
            /\ req[r].seen \cap access = {}
            /\ req[r].seen \cap refresh \subseteq req[r].gone

\* What auth/service.py says of a password change: once its sessions are
\* revoked and it is about to commit, none of the user's tokens is alive.
OldSessionsEnd ==
    \A r \in Requests :
        req[r].op = "change" /\ At(r, "commit") => access = {} /\ refresh = {}

=============================================================================
