------------------------------ MODULE Directory ------------------------------
(***************************************************************************)
(* The administration of departments, users, roles and menus.              *)
(*                                                                         *)
(* The database has no foreign keys: the services check a reference when   *)
(* it is written and refuse to delete a row that is referred to.  A        *)
(* request is one transaction at READ COMMITTED: it reads what others have *)
(* committed, its own writes are seen when it commits, and between its     *)
(* checks and its commit other requests run.  Only department rows are     *)
(* locked on purpose (SELECT ... FOR UPDATE); the row locks plain UPDATEs  *)
(* take would only order commits to one row and are left out.              *)
(*                                                                         *)
(* Names, codes, passwords and the other columns are left out: what they   *)
(* can do here is refuse a request, as the authorisation guards can, and   *)
(* Refuse stands for every such refusal.                                   *)
(***************************************************************************)
EXTENDS Integers, FiniteSets

CONSTANTS
    Departments, Users, Roles, Menus,   \* ids rows may have
    Requests,                           \* administrative requests under way
    None,                               \* SQL NULL
    Same,                               \* a field the payload does not set
    MaxCommits                          \* bound on the commits of a behaviour

ASSUME DirectoryAssumption ==
    /\ MaxCommits \in Nat
    /\ IsFiniteSet(Departments) /\ IsFiniteSet(Menus)
    /\ Departments \cap Menus = {}
    /\ Users \cap Roles = {}
    /\ (Departments \cup Menus) \cap (Users \cup Roles) = {}
    /\ {None, Same} \cap (Departments \cup Menus \cup Users \cup Roles) = {}
    /\ None # Same
    /\ None \notin Requests

VARIABLES
    row,        \* status of a row, "none" before it is inserted
    parent,     \* parent_id of a department or menu
    member,     \* department_id of a user
    links,      \* rows of user_role and role_menu
    lock,       \* who holds FOR UPDATE on a department row
    req,        \* the transactions under way
    raced,      \* history: rows whose references were checked and then overtaken
    moved,      \* history: departments given a parent by an update
    commits

vars == <<row, parent, member, links, lock, req, raced, moved, commits>>

Nodes == Departments \cup Menus
Rows  == Nodes \cup Users \cup Roles
Links == (Users \X Roles) \cup (Roles \X Menus)

\* A payload: the handler, the rows it names, the reference it sets, the links
\* it replaces if it does, and whether it changes what a role or menu confers.
Payload(op, rows, to, assign, new, flip) ==
    [op |-> op, rows |-> rows, to |-> to, assign |-> assign, new |-> new, flip |-> flip]

IdleRequest ==
    [stage |-> "idle", p |-> Payload("none", {}, Same, FALSE, {}, FALSE),
     status |-> "active", above |-> None, gone |-> {}, cleared |-> {}, overtaken |-> FALSE]

PayloadType ==
    [op : {"none", "create", "update", "delete"}, rows : SUBSET Rows,
     to : Nodes \cup {None, Same}, assign : BOOLEAN, new : SUBSET Links, flip : BOOLEAN]

RequestType ==
    [stage : {"idle", "lock", "walk", "visit", "hung", "commit"}, p : PayloadType,
     status : {"active", "disabled"}, above : Nodes \cup {None}, gone : SUBSET Rows,
     cleared : SUBSET Links, overtaken : BOOLEAN]

Live(x) == row[x] \in {"active", "disabled"}

TreeOf(x) == IF x \in Departments THEN Departments ELSE Menus

-----------------------------------------------------------------------------
(* What the routers accept.  An update sets one field: that is enough, as  *)
(* each field is checked on its own and one commit writes them.            *)

DepartmentPayloads ==
    {Payload(op, {d}, to, FALSE, {}, FALSE) :
        op \in {"create", "update"}, d \in Departments, to \in Departments \cup {None}}
    \cup {Payload("delete", ds, Same, FALSE, {}, FALSE) :
        ds \in (SUBSET Departments) \ {{}}}

MenuPayloads ==
    {Payload(op, {m}, to, FALSE, {}, FALSE) :
        op \in {"create", "update"}, m \in Menus, to \in Menus \cup {None}}
    \cup {Payload("update", {m}, Same, FALSE, {}, TRUE) : m \in Menus}
    \cup {Payload("delete", ms, Same, FALSE, {}, FALSE) : ms \in (SUBSET Menus) \ {{}}}

UserWrites(u) ==
    {Payload("create", {u}, to, TRUE, new, FALSE) :
        to \in Departments \cup {None}, new \in SUBSET ({u} \X Roles)}
    \cup {Payload("update", {u}, Same, TRUE, new, FALSE) : new \in SUBSET ({u} \X Roles)}
    \cup {Payload("update", {u}, to, FALSE, {}, FALSE) : to \in Departments \cup {None}}

UserPayloads ==
    (UNION {UserWrites(u) : u \in Users})
    \cup {Payload("delete", us, Same, FALSE, {}, FALSE) : us \in (SUBSET Users) \ {{}}}

RoleWrites(o) ==
    {Payload(op, {o}, Same, TRUE, new, FALSE) :
        op \in {"create", "update"}, new \in SUBSET ({o} \X Menus)}
    \cup {Payload(op, {o}, Same, FALSE, {}, TRUE) : op \in {"create", "update"}}

RolePayloads ==
    (UNION {RoleWrites(o) : o \in Roles})
    \cup {Payload("delete", os, Same, FALSE, {}, FALSE) : os \in (SUBSET Roles) \ {{}}}

\* Any directory without history: live rows that refer to live rows.
Init ==
    /\ row \in [Rows -> {"none", "active"}]
    /\ parent \in [Nodes -> Nodes \cup {None}]
    /\ \A n \in Nodes : parent[n] # None =>
            /\ Live(n) /\ Live(parent[n])
            /\ parent[n] \in TreeOf(n) \ {n}
            /\ parent[parent[n]] = None
    /\ member \in [Users -> {d \in Departments : Live(d)} \cup {None}]
    /\ \A u \in Users : member[u] # None => Live(u)
    /\ links \in SUBSET {l \in Links : Live(l[1]) /\ Live(l[2])}
    /\ lock = [d \in Departments |-> None]
    /\ req = [r \in Requests |-> IdleRequest]
    /\ raced = {}
    /\ moved = {}
    /\ commits = 0

-----------------------------------------------------------------------------
(* The first check of a handler.  A handler that refuses leaves no trace,  *)
(* so a step is taken only by a request that passes.                       *)

Unchanged == UNCHANGED <<row, parent, member, links, raced, moved, commits>>

\* A flip sets the status the row was not read to have.
StatusSet(p) ==
    IF p.flip /\ \A x \in p.rows : row[x] \in {"none", "active"} THEN "disabled" ELSE "active"

Start(r, p, stage, change) ==
    /\ req' = [req EXCEPT ![r] = [change EXCEPT !.stage = stage, !.p = p,
                                                !.status = StatusSet(p)]]
    /\ UNCHANGED lock
    /\ Unchanged

\* A snowflake id is given to one row: no other request is inserting it.
Unused(x) ==
    /\ row[x] = "none"
    /\ \A r \in Requests :
            ~(req[r].stage # "idle" /\ req[r].p.op = "create" /\ x \in req[r].p.rows)

CreateDepartment(r, p) ==
    /\ p.op = "create"
    /\ \A d \in p.rows : Unused(d)
    /\ p.to # None => Live(p.to)
    /\ Start(r, p, IF p.to = None THEN "commit" ELSE "lock", IdleRequest)

CreateMenu(r, p) ==
    /\ p.op = "create"
    /\ \A m \in p.rows : Unused(m)
    /\ p.to # None => Live(p.to)
    /\ Start(r, p, "commit", IdleRequest)

\* Not itself, and the parent is there; the ancestors are walked next.
UpdateDepartment(r, p) ==
    /\ p.op = "update"
    /\ \A d \in p.rows : Live(d) /\ p.to # d
    /\ p.to # None => Live(p.to)
    /\ Start(r, p, IF p.to # None THEN "walk" ELSE "commit", IdleRequest)

\* Here the row of the parent is read before the table is.
UpdateMenu(r, p) ==
    /\ p.op = "update"
    /\ \A m \in p.rows : Live(m) /\ p.to # m
    /\ p.to \in Menus => Live(p.to)
    /\ Start(r, p, IF p.to \in Menus THEN "walk" ELSE "commit",
             [IdleRequest EXCEPT !.above = IF p.to \in Menus THEN parent[p.to] ELSE None])

DeleteNodes(r, p) ==
    /\ p.op = "delete"
    /\ Start(r, p, "visit", IdleRequest)

\* The department is live and the roles are live and active.
ValidReferences(p) ==
    /\ p.to \in Departments => Live(p.to)
    /\ \A l \in p.new : row[l[2]] = "active"

LinksOf(xs) == {l \in links : l[1] \in xs}

CreateUser(r, p) ==
    /\ p.op = "create"
    /\ \A u \in p.rows : Unused(u)
    /\ ValidReferences(p)
    /\ Start(r, p, "commit", IdleRequest)

UpdateUser(r, p) ==
    /\ p.op = "update"
    /\ \A u \in p.rows : Live(u)
    /\ ValidReferences(p)
    /\ Start(r, p, "commit",
             [IdleRequest EXCEPT !.cleared = IF p.assign THEN LinksOf(p.rows) ELSE {}])

\* soft_delete_many takes the live ones among those the actor dominates.
DeleteUsers(r, p) ==
    /\ p.op = "delete"
    /\ \E gone \in SUBSET {u \in p.rows : Live(u)} :
            Start(r, p, "commit", [IdleRequest EXCEPT !.gone = gone, !.cleared = LinksOf(gone)])

\* Any menu that is not deleted may be granted.
ExistingMenus(p) == \A l \in p.new : Live(l[2])

CreateRole(r, p) ==
    /\ p.op = "create"
    /\ \A o \in p.rows : Unused(o)
    /\ ExistingMenus(p)
    /\ Start(r, p, "commit", IdleRequest)

UpdateRole(r, p) ==
    /\ p.op = "update"
    /\ \A o \in p.rows : Live(o)
    /\ ExistingMenus(p)
    /\ Start(r, p, "commit",
             [IdleRequest EXCEPT !.cleared = IF p.assign THEN LinksOf(p.rows) ELSE {}])

UserLinks(os) == {l \in links : l[2] \in os}

DeleteRoles(r, p) ==
    /\ p.op = "delete"
    /\ \E gone \in SUBSET {o \in p.rows : Live(o)} :
            Start(r, p, "commit",
                  [IdleRequest EXCEPT !.gone = gone,
                                      !.cleared = LinksOf(gone) \cup UserLinks(gone)])

-----------------------------------------------------------------------------
(* Later steps of a handler.                                               *)

\* Mutant: the parent is read again, not locked.
LockParentByGet(r) ==
    /\ req[r].stage = "lock"
    /\ Live(req[r].p.to)
    /\ req' = [req EXCEPT ![r].stage = "commit"]
    /\ UNCHANGED lock
    /\ Unchanged

\* create_department takes the parent's row lock and finds it still there.
LockParent(r) ==
    LET to == req[r].p.to IN
    /\ req[r].stage = "lock"
    /\ lock[to] = None
    /\ Live(to)
    /\ lock' = [lock EXCEPT ![to] = r]
    /\ req' = [req EXCEPT ![r].stage = "commit"]
    /\ Unchanged

\* x and the rows above it, up to a root or to the first row that is gone.
Above(x, up) ==
    LET step(S) == S \cup {up[y] : y \in {z \in S : z \in Nodes /\ Live(z)}}
        reach[k \in 0..Cardinality(Nodes)] == IF k = 0 THEN {x} ELSE step(reach[k - 1])
    IN  reach[Cardinality(Nodes)] \ {None}

\* Mutant: any live parent will do.
WalkSkipped(r) ==
    /\ req[r].stage = "walk"
    /\ req' = [req EXCEPT ![r].stage = "commit"]
    /\ UNCHANGED lock
    /\ Unchanged

\* A department's walk stops at a row it has seen.  A menu's starts from the
\* parent as it was read before the table was, and stops only at a root or at
\* a row that is gone: round a cycle it runs for ever.
WalkAncestors(r) ==
    LET q  == req[r]
        n  == CHOOSE x \in Nodes : x \in q.p.rows
        up == IF n \in Menus THEN [parent EXCEPT ![q.p.to] = q.above] ELSE parent
        as == Above(q.p.to, up)
        endless == n \in Menus /\ \A a \in as : Live(a) /\ up[a] # None
    IN  /\ q.stage = "walk"
        /\ n \notin as
        /\ req' = [req EXCEPT ![r].stage = IF endless THEN "hung" ELSE "commit"]
        /\ UNCHANGED lock
        /\ Unchanged

HasActiveChildren(x, gone) == \E n \in TreeOf(x) \ gone : Live(n) /\ parent[n] = x

HasActiveMembers(d) == \E u \in Users : Live(u) /\ member[u] = d

\* Mutant: roles' own references do not keep a menu alive.
IsRoleGrantedToUser(m) == \E u \in Users, o \in Roles : <<u, o>> \in links /\ <<o, m>> \in links

IsRoleGranted(m) == \E l \in links : l[2] = m

\* One row of the request: locked, then deleted if it is there and empty,
\* else skipped.  What the transaction deleted before is deleted to it.
VisitDepartment(r, d) ==
    LET q == req[r] IN
    /\ q.stage = "visit"
    /\ d \in q.p.rows
    /\ lock[d] \in {None, r}
    /\ lock' = [lock EXCEPT ![d] = IF Live(d) THEN r ELSE @]
    /\ req' = [req EXCEPT ![r].p.rows = @ \ {d},
                          ![r].stage = IF q.p.rows = {d} THEN "commit" ELSE "visit",
                          ![r].gone = IF Live(d) /\ ~HasActiveChildren(d, q.gone)
                                           /\ ~HasActiveMembers(d)
                                      THEN @ \cup {d} ELSE @]
    /\ Unchanged

VisitMenu(r, m) ==
    LET q == req[r] IN
    /\ q.stage = "visit"
    /\ m \in q.p.rows
    /\ req' = [req EXCEPT ![r].p.rows = @ \ {m},
                          ![r].stage = IF q.p.rows = {m} THEN "commit" ELSE "visit",
                          ![r].gone = IF Live(m) /\ ~HasActiveChildren(m, q.gone)
                                           /\ ~IsRoleGranted(m)
                                      THEN @ \cup {m} ELSE @]
    /\ UNCHANGED lock
    /\ Unchanged

Release(r) == [d \in Departments |-> IF lock[d] = r THEN None ELSE lock[d]]

-----------------------------------------------------------------------------
(* Commit and rollback.                                                    *)

\* The rows a transaction refers to, by a column or by a link.
Refs(q) ==
    IF q.p.op = "delete" THEN {}
    ELSE ({q.p.to} \ {None, Same}) \cup (IF q.p.new = {} THEN {} ELSE q.p.rows)
         \cup {l[2] : l \in q.p.new}

Moves(q) == q.p.op = "update" /\ q.p.to \in Nodes /\ q.p.rows \subseteq Nodes

\* Committing q pulls the ground from under a check that t has made.
Overtakes(q, t) ==
    /\ t.stage \in {"lock", "walk", "visit", "commit"}
    /\ \/ q.gone \cap Refs(t) # {}
       \/ Refs(q) \cap t.gone # {}
       \/ Moves(q) /\ Moves(t)

StatusAfter(q, x) ==
    IF x \in q.gone THEN "deleted"
    ELSE IF x \in q.p.rows /\ (q.p.op = "create" \/ (q.p.flip /\ Live(x))) THEN q.status
    ELSE row[x]

Places(q, x) == x \in q.p.rows /\ q.p.op # "delete" /\ q.p.to # Same

\* The unique indexes of the link tables refuse a link somebody else inserted.
Commit(r) ==
    LET q == req[r] IN
    /\ q.stage = "commit"
    /\ commits < MaxCommits
    /\ q.p.new \cap (links \ q.cleared) = {}
    /\ row' = [x \in Rows |-> StatusAfter(q, x)]
    /\ parent' = [n \in Nodes |-> IF Places(q, n) THEN q.p.to ELSE parent[n]]
    /\ member' = [u \in Users |-> IF Places(q, u) THEN q.p.to ELSE member[u]]
    /\ links' = (links \ q.cleared) \cup q.p.new
    /\ lock' = Release(r)
    /\ raced' = raced \cup (IF q.overtaken THEN Refs(q) \cup q.gone \cup q.p.rows ELSE {})
    /\ moved' = moved \cup (IF q.p.op = "update" THEN {d \in Departments : Places(q, d)} ELSE {})
    /\ req' = [t \in Requests |->
                 IF t = r THEN IdleRequest
                 ELSE [req[t] EXCEPT !.overtaken = @ \/ Overtakes(q, req[t])]]
    /\ commits' = commits + 1

\* Mutant: deleting a role drops nobody's snapshot.
InvalidatedByUpdates(q) ==
    IF q.p.op = "update" /\ (q.p.assign \/ q.p.flip) THEN Users ELSE q.gone \cap Users

\* The after-commit hooks: whose permission snapshots a commit drops.
Invalidated(q) ==
    CASE q.p.op = "update" /\ q.p.rows \subseteq Users -> IF q.p.assign THEN q.p.rows ELSE {}
      [] q.p.op = "update" /\ q.p.rows \subseteq Roles ->
            IF q.p.assign \/ q.p.flip THEN Users ELSE {}
      [] q.p.op = "update" /\ q.p.rows \subseteq Menus -> IF q.p.flip THEN Users ELSE {}
      [] q.gone \cap Roles # {} -> Users
      [] OTHER -> q.gone \cap Users

\* A refusal, a failed statement, a deadlock the database breaks, or the end of
\* the process: the transaction is rolled back and its hooks are dropped.
Refuse(r) ==
    /\ req[r].stage # "idle"
    /\ lock' = Release(r)
    /\ req' = [req EXCEPT ![r] = IdleRequest]
    /\ Unchanged

Receive(r) ==
    /\ req[r].stage = "idle"
    /\ commits < MaxCommits \/ \A t \in Requests : req[t].stage = "idle"
    /\ \/ \E p \in DepartmentPayloads :
            CreateDepartment(r, p) \/ UpdateDepartment(r, p) \/ DeleteNodes(r, p)
       \/ \E p \in MenuPayloads : CreateMenu(r, p) \/ UpdateMenu(r, p) \/ DeleteNodes(r, p)
       \/ \E p \in UserPayloads : CreateUser(r, p) \/ UpdateUser(r, p) \/ DeleteUsers(r, p)
       \/ \E p \in RolePayloads : CreateRole(r, p) \/ UpdateRole(r, p) \/ DeleteRoles(r, p)

HandlerStep(r) ==
    \/ LockParent(r)
    \/ WalkAncestors(r)
    \/ \E d \in Departments : VisitDepartment(r, d)
    \/ \E m \in Menus : VisitMenu(r, m)

Next == \E r \in Requests : Receive(r) \/ HandlerStep(r) \/ Commit(r) \/ Refuse(r)

Spec == Init /\ [][Next]_vars

-----------------------------------------------------------------------------
(* Properties.                                                             *)

\* Rows, references and requests are well formed, and a department row stays
\* locked only while the request that locked it is under way.
TypeOK ==
    /\ row \in [Rows -> {"none", "active", "disabled", "deleted"}]
    /\ parent \in [Nodes -> Nodes \cup {None}]
    /\ \A n \in Nodes : parent[n] \in TreeOf(n) \cup {None}
    /\ member \in [Users -> Departments \cup {None}]
    /\ links \subseteq Links
    /\ lock \in [Departments -> Requests \cup {None}]
    /\ \A d \in Departments : lock[d] # None => req[lock[d]].stage # "idle"
    /\ req \in [Requests -> RequestType]
    /\ raced \subseteq Rows
    /\ moved \subseteq Departments
    /\ commits \in 0..MaxCommits

\* delete_department and create_department agree on the parent's row lock: a
\* department that create_department placed, and nobody moved, is never left
\* under a deleted one, whatever the requests' order.
CreatedUnderLive ==
    \A d \in Departments \ moved : Live(d) /\ parent[d] # None => Live(parent[d])

\* A live row refers to a deleted one only when the check of one request was
\* overtaken by the commit of the other: taken one after the other, the
\* services' checks keep every reference (there are no foreign keys to do it).
RefsNeedRace ==
    /\ \A n \in Nodes : Live(n) /\ parent[n] # None => Live(parent[n]) \/ parent[n] \in raced
    /\ \A u \in Users : Live(u) /\ member[u] # None => Live(member[u]) \/ member[u] \in raced
    /\ \A l \in links : (Live(l[1]) /\ Live(l[2])) \/ {l[1], l[2]} \cap raced # {}

\* The ancestor walks of _validate_reparent and _validate_parent keep both
\* trees free of cycles unless two moves overlapped.
CyclesNeedRace ==
    \A n \in Nodes : Live(n) /\ parent[n] # None /\ n \in Above(parent[n], parent)
        => Above(n, parent) \cap raced # {}

\* What perm_cache holds for a user: the active roles and what they confer.
PermissionSnapshot(u) ==
    LET held == {o \in Roles : <<u, o>> \in links /\ row[o] = "active"}
    IN  <<held, {m \in Menus : row[m] = "active" /\ \E o \in held : <<o, m>> \in links}>>

\* A commit that changes what a live user may do runs a hook that drops that
\* user's cached snapshot; only a menu deleted while a role was being granted
\* it slips through.
HooksCoverChanges ==
    [][\A u \in Users :
         Live(u) /\ Live(u)' /\ PermissionSnapshot(u)' # PermissionSnapshot(u)
         => \E r \in Requests :
                /\ req[r].stage = "commit"
                /\ req'[r].stage = "idle"
                /\ (u \in Invalidated(req[r]) \/ req[r].overtaken)]_vars

=============================================================================
