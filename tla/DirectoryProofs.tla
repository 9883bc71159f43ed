--------------------------- MODULE DirectoryProofs ---------------------------
(***************************************************************************)
(* Proofs about Directory, for any sets of departments, users, roles,      *)
(* menus and requests: its types; that the row lock on which the creation  *)
(* and the deletion of departments agree keeps a created department under  *)
(* a live one; that references to deleted rows, and cycles in the trees,   *)
(* need requests that overlapped; and that a commit which changes what a   *)
(* user may do drops the user's cached permissions.                        *)
(***************************************************************************)
EXTENDS Directory, FiniteSetTheorems, NaturalsInduction, WellFoundedInduction, TLAPS

\* What a request's payload may refer to and how far it may have got.
Shape(q) ==
    /\ q.p.op \in {"create", "update"} =>
          /\ q.p.rows \cap Departments # {} => q.p.to \in Departments \cup {None}
          /\ q.p.rows \cap Menus # {} => q.p.to \in Menus \cup {None, Same}
          /\ q.p.rows \cap Users # {} => q.p.to \in Departments \cup {None, Same}
    /\ q.stage # "idle" => q.p.op # "none"
    /\ q.stage = "lock" => q.p.to \in Departments
    /\ q.stage = "walk" => q.p.op = "update"
    /\ q.stage = "visit" => q.p.op = "delete"
    /\ q.gone # {} => q.p.op = "delete"

\* A request about to insert a department under another.
Placing(q) ==
    q.stage = "commit" /\ q.p.op = "create" /\ q.p.rows \cap Departments # {} /\ q.p.to # None

\* Who inserts a department holds the row lock of its parent.
ParentHeld(r) ==
    Placing(req[r]) => lock[req[r].p.to] = r /\ Live(req[r].p.to)

\* Who deletes departments holds their row locks, and deletes the departments
\* below them as well, but for those moved there since.
GoneHeld(r) ==
    \A x \in req[r].gone \cap Departments :
        /\ lock[x] = r
        /\ \A d \in Departments \ moved : Live(d) /\ parent[d] = x => d \in req[r].gone

LockInv ==
    /\ \A r \in Requests : Shape(req[r])
    /\ \A r \in Requests : ParentHeld(r)
    /\ \A r \in Requests : GoneHeld(r)
    /\ CreatedUnderLive

-----------------------------------------------------------------------------
(* Payloads.                                                               *)

LEMMA PayloadTyped ==
    ASSUME NEW op \in {"none", "create", "update", "delete"}, NEW rows \in SUBSET Rows,
           NEW to \in Nodes \cup {None, Same}, NEW assign \in BOOLEAN,
           NEW new \in SUBSET Links, NEW flip \in BOOLEAN
    PROVE  Payload(op, rows, to, assign, new, flip) \in PayloadType
  BY DEF Payload, PayloadType

LEMMA IdleTyped ==
    /\ IdleRequest \in RequestType /\ Shape(IdleRequest) /\ IdleRequest.gone = {}
    /\ IdleRequest.stage = "idle" /\ ~Placing(IdleRequest)
<1>1. Payload("none", {}, Same, FALSE, {}, FALSE) \in PayloadType
  BY PayloadTyped
<1>2. IdleRequest \in RequestType
  BY <1>1 DEF IdleRequest, RequestType
<1>3. /\ IdleRequest.gone = {} /\ IdleRequest.stage = "idle"
      /\ IdleRequest.p = Payload("none", {}, Same, FALSE, {}, FALSE)
  BY DEF IdleRequest
<1>4. IdleRequest.p.op = "none"
  BY <1>3 DEF Payload
<1> QED BY <1>2, <1>3, <1>4 DEF Shape, Placing

LEMMA DepartmentPayload ==
    ASSUME NEW p \in DepartmentPayloads
    PROVE  /\ p \in PayloadType /\ p.op # "none"
           /\ p.rows \subseteq Departments
           /\ p.op \in {"create", "update"} => p.to \in Departments \cup {None}
<1>1. CASE \E op \in {"create", "update"}, d \in Departments, to \in Departments \cup {None} :
              p = Payload(op, {d}, to, FALSE, {}, FALSE)
  <2>1. PICK op \in {"create", "update"}, d \in Departments, to \in Departments \cup {None} :
              p = Payload(op, {d}, to, FALSE, {}, FALSE)
    BY <1>1
  <2>2. p \in PayloadType
    BY <2>1, PayloadTyped DEF Rows, Nodes
  <2> QED BY <2>1, <2>2 DEF Payload
<1>2. CASE \E ds \in SUBSET Departments : p = Payload("delete", ds, Same, FALSE, {}, FALSE)
  <2>1. PICK ds \in SUBSET Departments : p = Payload("delete", ds, Same, FALSE, {}, FALSE)
    BY <1>2
  <2>2. p \in PayloadType
    BY <2>1, PayloadTyped DEF Rows, Nodes
  <2> QED BY <2>1, <2>2 DEF Payload
<1> QED BY <1>1, <1>2, SMT DEF DepartmentPayloads, Payload

LEMMA MenuPayload ==
    ASSUME NEW p \in MenuPayloads
    PROVE  /\ p \in PayloadType /\ p.op # "none"
           /\ p.rows \subseteq Menus /\ p.to \in Menus \cup {None, Same}
<1>1. CASE \E op \in {"create", "update"}, m \in Menus, to \in Menus \cup {None} :
              p = Payload(op, {m}, to, FALSE, {}, FALSE)
  <2>1. PICK op \in {"create", "update"}, m \in Menus, to \in Menus \cup {None} :
              p = Payload(op, {m}, to, FALSE, {}, FALSE)
    BY <1>1
  <2>2. p \in PayloadType
    BY <2>1, PayloadTyped DEF Rows, Nodes
  <2> QED BY <2>1, <2>2 DEF Payload
<1>2. CASE \E m \in Menus : p = Payload("update", {m}, Same, FALSE, {}, TRUE)
  <2>1. PICK m \in Menus : p = Payload("update", {m}, Same, FALSE, {}, TRUE)
    BY <1>2
  <2>2. p \in PayloadType
    BY <2>1, PayloadTyped DEF Rows, Nodes
  <2> QED BY <2>1, <2>2 DEF Payload
<1>3. CASE \E ms \in SUBSET Menus : p = Payload("delete", ms, Same, FALSE, {}, FALSE)
  <2>1. PICK ms \in SUBSET Menus : p = Payload("delete", ms, Same, FALSE, {}, FALSE)
    BY <1>3
  <2>2. p \in PayloadType
    BY <2>1, PayloadTyped DEF Rows, Nodes
  <2> QED BY <2>1, <2>2 DEF Payload
<1> QED BY <1>1, <1>2, <1>3, SMT DEF MenuPayloads, Payload

LEMMA UserPayload ==
    ASSUME NEW p \in UserPayloads
    PROVE  /\ p \in PayloadType /\ p.op # "none"
           /\ p.rows \subseteq Users /\ p.to \in Departments \cup {None, Same}
<1>0. \A u \in Users : \A new \in SUBSET ({u} \X Roles) : new \subseteq Links
  BY DEF Links
<1>1. CASE \E u \in Users, op \in {"create", "update"}, to \in Departments \cup {None, Same},
              assign \in BOOLEAN, new \in SUBSET Links :
              p = Payload(op, {u}, to, assign, new, FALSE)
  <2>1. PICK u \in Users, op \in {"create", "update"}, to \in Departments \cup {None, Same},
              assign \in BOOLEAN, new \in SUBSET Links :
              p = Payload(op, {u}, to, assign, new, FALSE)
    BY <1>1
  <2>2. p \in PayloadType
    BY <2>1, PayloadTyped DEF Rows, Nodes
  <2> QED BY <2>1, <2>2 DEF Payload
<1>2. CASE \E us \in SUBSET Users : p = Payload("delete", us, Same, FALSE, {}, FALSE)
  <2>1. PICK us \in SUBSET Users : p = Payload("delete", us, Same, FALSE, {}, FALSE)
    BY <1>2
  <2>2. p \in PayloadType
    BY <2>1, PayloadTyped DEF Rows, Nodes
  <2> QED BY <2>1, <2>2 DEF Payload
<1>3. \/ p \in {Payload("delete", us, Same, FALSE, {}, FALSE) : us \in (SUBSET Users) \ {{}}}
      \/ \E u \in Users : p \in UserWrites(u)
  BY Zenon DEF UserPayloads
<1>4. CASE p \in {Payload("delete", us, Same, FALSE, {}, FALSE) : us \in (SUBSET Users) \ {{}}}
  BY <1>2, <1>4, Zenon
<1>5. ASSUME NEW u \in Users, p \in UserWrites(u)
      PROVE  \/ \E to \in Departments \cup {None}, new \in SUBSET Links :
                   p = Payload("create", {u}, to, TRUE, new, FALSE)
             \/ \E new \in SUBSET Links : p = Payload("update", {u}, Same, TRUE, new, FALSE)
             \/ \E to \in Departments \cup {None} : p = Payload("update", {u}, to, FALSE, {}, FALSE)
  BY <1>0, <1>5, SMT DEF UserWrites, Payload
<1>6. {} \in SUBSET Links
  OBVIOUS
<1>7. CASE \E u \in Users : p \in UserWrites(u)
  BY <1>1, <1>5, <1>6, <1>7
<1> QED BY <1>3, <1>4, <1>7

LEMMA RolePayload ==
    ASSUME NEW p \in RolePayloads
    PROVE  p \in PayloadType /\ p.op # "none" /\ p.rows \subseteq Roles
<1>0. \A o \in Roles : \A new \in SUBSET ({o} \X Menus) : new \subseteq Links
  BY DEF Links
<1>1. CASE \E o \in Roles, op \in {"create", "update"}, assign \in BOOLEAN,
              new \in SUBSET Links, flip \in BOOLEAN :
              p = Payload(op, {o}, Same, assign, new, flip)
  <2>1. PICK o \in Roles, op \in {"create", "update"}, assign \in BOOLEAN,
              new \in SUBSET Links, flip \in BOOLEAN :
              p = Payload(op, {o}, Same, assign, new, flip)
    BY <1>1
  <2>2. p \in PayloadType
    BY <2>1, PayloadTyped DEF Rows, Nodes
  <2> QED BY <2>1, <2>2 DEF Payload
<1>2. CASE \E os \in SUBSET Roles : p = Payload("delete", os, Same, FALSE, {}, FALSE)
  <2>1. PICK os \in SUBSET Roles : p = Payload("delete", os, Same, FALSE, {}, FALSE)
    BY <1>2
  <2>2. p \in PayloadType
    BY <2>1, PayloadTyped DEF Rows, Nodes
  <2> QED BY <2>1, <2>2 DEF Payload
<1>3. \/ p \in {Payload("delete", os, Same, FALSE, {}, FALSE) : os \in (SUBSET Roles) \ {{}}}
      \/ \E o \in Roles : p \in RoleWrites(o)
  BY Zenon DEF RolePayloads
<1>4. CASE p \in {Payload("delete", os, Same, FALSE, {}, FALSE) : os \in (SUBSET Roles) \ {{}}}
  BY <1>2, <1>4, Zenon
<1>5. ASSUME NEW o \in Roles, p \in RoleWrites(o)
      PROVE  \/ \E op \in {"create", "update"}, new \in SUBSET Links :
                   p = Payload(op, {o}, Same, TRUE, new, FALSE)
             \/ \E op \in {"create", "update"} : p = Payload(op, {o}, Same, FALSE, {}, TRUE)
  BY <1>0, <1>5, SMT DEF RoleWrites, Payload
<1>6. {} \in SUBSET Links
  OBVIOUS
<1>7. CASE \E o \in Roles : p \in RoleWrites(o)
  BY <1>1, <1>5, <1>6, <1>7
<1> QED BY <1>3, <1>4, <1>7

-----------------------------------------------------------------------------
(* Steps that write no row.                                                *)

\* Such a step keeps the invariant if the request that takes it is in order
\* and keeps its hands off the row locks of the others.
LEMMA OwnStep ==
    ASSUME TypeOK, LockInv, NEW r \in Requests, NEW e \in RequestType,
           req' = [req EXCEPT ![r] = e], Unchanged,
           lock' \in [Departments -> Requests \cup {None}],
           \A d \in Departments : lock[d] \in Requests \ {r} => lock'[d] = lock[d],
           \A d \in Departments : lock'[d] \in {lock[d], r, None},
           \A d \in Departments : lock'[d] = r => e.stage # "idle",
           Shape(e),
           Placing(e) => lock'[e.p.to] = r /\ Live(e.p.to),
           \A x \in e.gone \cap Departments :
              /\ lock'[x] = r
              /\ \A d \in Departments \ moved : Live(d) /\ parent[d] = x => d \in e.gone
    PROVE  TypeOK' /\ LockInv'
<1>1. req' \in [Requests -> RequestType] /\ req'[r] = e
      /\ \A q \in Requests \ {r} : req'[q] = req[q]
  BY DEF TypeOK
<1>2. \A d \in Departments : lock'[d] # None => req'[lock'[d]].stage # "idle"
  BY <1>1 DEF TypeOK
<1>3. TypeOK'
  BY <1>1, <1>2 DEF TypeOK, Unchanged
<1>4. \A q \in Requests : Shape(req'[q])
  BY <1>1 DEF LockInv
<1>5. \A x : Live(x)' <=> Live(x)
  BY DEF Live, Unchanged
<1>6. ASSUME NEW q \in Requests PROVE ParentHeld(q)'
  <2>1. CASE q = r
    BY <1>1, <1>5, <2>1 DEF ParentHeld
  <2>2. CASE q # r /\ Placing(req[q])
    <3>1. lock[req[q].p.to] = q /\ Live(req[q].p.to) /\ req[q].p.to \in Departments
      BY <2>2 DEF LockInv, ParentHeld, Placing, Shape
    <3> QED BY <1>1, <1>5, <2>2, <3>1 DEF ParentHeld
  <2>3. CASE q # r /\ ~Placing(req[q])
    BY <1>1, <2>3 DEF ParentHeld
  <2> QED BY <2>1, <2>2, <2>3
<1>7. ASSUME NEW q \in Requests PROVE GoneHeld(q)'
  <2>1. CASE q = r
    BY <1>1, <1>5, <2>1 DEF GoneHeld, Unchanged
  <2>2. CASE q # r
    <3>1. GoneHeld(q) /\ req'[q] = req[q]
      BY <1>1, <2>2 DEF LockInv
    <3> QED BY <1>5, <2>2, <3>1 DEF GoneHeld, Unchanged
  <2> QED BY <2>1, <2>2
<1>8. CreatedUnderLive'
  BY <1>5 DEF LockInv, CreatedUnderLive, Unchanged
<1> QED BY <1>3, <1>4, <1>6, <1>7, <1>8 DEF LockInv

\* A handler's first step.
LEMMA StartStep ==
    ASSUME TypeOK, LockInv, NEW r \in Requests, req[r].stage = "idle",
           NEW p \in PayloadType, p.op # "none",
           NEW stage \in {"idle", "lock", "walk", "visit", "hung", "commit"},
           NEW change \in RequestType, Start(r, p, stage, change),
           change.gone \cap Departments = {},
           change.gone # {} => p.op = "delete",
           p.op \in {"create", "update"} =>
             /\ p.rows \cap Departments # {} => p.to \in Departments \cup {None}
             /\ p.rows \cap Menus # {} => p.to \in Menus \cup {None, Same}
             /\ p.rows \cap Users # {} => p.to \in Departments \cup {None, Same},
           stage = "lock" => p.to \in Departments,
           stage = "walk" => p.op = "update",
           stage = "visit" => p.op = "delete",
           ~(stage = "commit" /\ p.op = "create" /\ p.rows \cap Departments # {} /\ p.to # None)
    PROVE  TypeOK' /\ LockInv'
<1> DEFINE e == [change EXCEPT !.stage = stage, !.p = p, !.status = StatusSet(p)]
<1>1. StatusSet(p) \in {"active", "disabled"}
  BY DEF StatusSet
<1>2. /\ e \in RequestType /\ e.stage = stage /\ e.p = p /\ e.gone = change.gone
      /\ req' = [req EXCEPT ![r] = e]
  BY <1>1 DEF Start, RequestType
<1> HIDE DEF e
<1>3. Shape(e) /\ ~Placing(e)
  BY <1>2 DEF Shape, Placing
<1>4. UNCHANGED lock /\ Unchanged
  BY DEF Start
<1>5. \A d \in Departments : lock[d] # r
  BY DirectoryAssumption DEF TypeOK
<1>6. lock' \in [Departments -> Requests \cup {None}]
  BY <1>4 DEF TypeOK
<1> QED BY <1>2, <1>3, <1>4, <1>5, <1>6, OwnStep

\* What the records that the first steps store look like.
LEMMA ChangeTyped ==
    ASSUME NEW above \in Nodes \cup {None}, NEW gone \in SUBSET Rows, NEW cleared \in SUBSET Links
    PROVE  /\ [IdleRequest EXCEPT !.above = above] \in RequestType
           /\ [IdleRequest EXCEPT !.above = above].gone = {}
           /\ [IdleRequest EXCEPT !.cleared = cleared] \in RequestType
           /\ [IdleRequest EXCEPT !.cleared = cleared].gone = {}
           /\ [IdleRequest EXCEPT !.gone = gone, !.cleared = cleared] \in RequestType
           /\ [IdleRequest EXCEPT !.gone = gone, !.cleared = cleared].gone = gone
  BY IdleTyped DEF RequestType

LEMMA ReceiveStep ==
    ASSUME TypeOK, LockInv, NEW r \in Requests, Receive(r)
    PROVE  TypeOK' /\ LockInv'
<1>0. /\ req[r].stage = "idle" /\ IdleRequest \in RequestType /\ IdleRequest.gone = {}
      /\ Departments \cap Menus = {} /\ Nodes \cap (Users \cup Roles) = {} /\ Users \cap Roles = {}
      /\ Same \notin Nodes /\ None \notin Nodes /\ None # Same
  BY IdleTyped, DirectoryAssumption DEF Receive, Nodes
<1>1. ASSUME NEW p \in DepartmentPayloads,
             CreateDepartment(r, p) \/ UpdateDepartment(r, p) \/ DeleteNodes(r, p)
      PROVE  TypeOK' /\ LockInv'
  <2>0. /\ p \in PayloadType /\ p.op # "none" /\ p.rows \subseteq Departments
        /\ p.op \in {"create", "update"} => p.to \in Departments \cup {None}
        /\ p.rows \cap Menus = {} /\ p.rows \cap Users = {}
    BY <1>0, DepartmentPayload DEF Nodes
  <2>1. CASE CreateDepartment(r, p) /\ p.to = None
    <3>1. Start(r, p, "commit", IdleRequest)
      BY <2>1 DEF CreateDepartment
    <3> QED BY <1>0, <2>0, <2>1, <3>1, StartStep
  <2>2. CASE CreateDepartment(r, p) /\ p.to # None
    <3>1. Start(r, p, "lock", IdleRequest) /\ p.op = "create"
      BY <2>2 DEF CreateDepartment
    <3> QED BY <1>0, <2>0, <2>2, <3>1, StartStep
  <2>3. CASE UpdateDepartment(r, p)
    <3>1. p.op = "update" /\ (Start(r, p, "walk", IdleRequest) \/ Start(r, p, "commit", IdleRequest))
      BY <2>3 DEF UpdateDepartment
    <3> QED BY <1>0, <2>0, <3>1, StartStep
  <2>4. CASE DeleteNodes(r, p)
    <3>1. p.op = "delete" /\ Start(r, p, "visit", IdleRequest)
      BY <2>4 DEF DeleteNodes
    <3> QED BY <1>0, <2>0, <3>1, StartStep
  <2> QED BY <1>1, <2>1, <2>2, <2>3, <2>4
<1>2. ASSUME NEW p \in MenuPayloads,
             CreateMenu(r, p) \/ UpdateMenu(r, p) \/ DeleteNodes(r, p)
      PROVE  TypeOK' /\ LockInv'
  <2>0. /\ p \in PayloadType /\ p.op # "none" /\ p.to \in Menus \cup {None, Same}
        /\ p.rows \cap Departments = {} /\ p.rows \cap Users = {}
    BY <1>0, MenuPayload DEF Nodes
  <2>1. CASE CreateMenu(r, p)
    <3>1. Start(r, p, "commit", IdleRequest)
      BY <2>1 DEF CreateMenu
    <3> QED BY <1>0, <2>0, <3>1, StartStep
  <2>2. CASE UpdateMenu(r, p)
    <3> DEFINE above == IF p.to \in Menus THEN parent[p.to] ELSE None
               c == [IdleRequest EXCEPT !.above = above]
    <3>1. above \in Nodes \cup {None}
      BY DEF TypeOK, Nodes
    <3> HIDE DEF above
    <3>2. c \in RequestType /\ c.gone = {}
      BY <3>1, ChangeTyped
    <3>3. p.op = "update" /\ (Start(r, p, "walk", c) \/ Start(r, p, "commit", c))
      BY <2>2 DEF UpdateMenu, above
    <3> HIDE DEF c
    <3> QED BY <1>0, <2>0, <3>2, <3>3, StartStep
  <2>3. CASE DeleteNodes(r, p)
    <3>1. p.op = "delete" /\ Start(r, p, "visit", IdleRequest)
      BY <2>3 DEF DeleteNodes
    <3> QED BY <1>0, <2>0, <3>1, StartStep
  <2> QED BY <1>2, <2>1, <2>2, <2>3
<1>3. \A xs : LinksOf(xs) \in SUBSET Links /\ UserLinks(xs) \in SUBSET Links
  BY DEF LinksOf, UserLinks, TypeOK
<1>4. ASSUME NEW p \in UserPayloads,
             CreateUser(r, p) \/ UpdateUser(r, p) \/ DeleteUsers(r, p)
      PROVE  TypeOK' /\ LockInv'
  <2>0. /\ p \in PayloadType /\ p.op # "none" /\ p.rows \subseteq Users /\ p.to \in Departments \cup {None, Same}
        /\ p.rows \cap Departments = {} /\ p.rows \cap Menus = {}
    BY <1>0, UserPayload DEF Nodes
  <2>1. CASE CreateUser(r, p)
    <3>1. Start(r, p, "commit", IdleRequest)
      BY <2>1 DEF CreateUser
    <3> QED BY <1>0, <2>0, <3>1, StartStep
  <2>2. CASE UpdateUser(r, p)
    <3> DEFINE cleared == IF p.assign THEN LinksOf(p.rows) ELSE {}
               c == [IdleRequest EXCEPT !.cleared = cleared]
    <3>1. cleared \in SUBSET Links
      BY <1>3
    <3>2. p.op = "update" /\ Start(r, p, "commit", c)
      BY <2>2 DEF UpdateUser
    <3> HIDE DEF cleared
    <3>3. c \in RequestType /\ c.gone = {}
      BY <3>1, ChangeTyped
    <3> HIDE DEF c
    <3> QED BY <1>0, <2>0, <3>2, <3>3, StartStep
  <2>3. CASE DeleteUsers(r, p)
    <3>1. PICK gone \in SUBSET {u \in p.rows : Live(u)} :
              Start(r, p, "commit", [IdleRequest EXCEPT !.gone = gone, !.cleared = LinksOf(gone)])
      BY <2>3 DEF DeleteUsers
    <3> DEFINE c == [IdleRequest EXCEPT !.gone = gone, !.cleared = LinksOf(gone)]
    <3>2. gone \in SUBSET Rows /\ gone \cap Departments = {} /\ p.op = "delete"
      BY <1>0, <2>0, <2>3 DEF Rows, Nodes, DeleteUsers
    <3>3. c \in RequestType /\ c.gone = gone /\ Start(r, p, "commit", c)
      BY <1>3, <3>1, <3>2, ChangeTyped
    <3> HIDE DEF c
    <3> QED BY <1>0, <2>0, <3>2, <3>3, StartStep
  <2> QED BY <1>4, <2>1, <2>2, <2>3
<1>5. ASSUME NEW p \in RolePayloads,
             CreateRole(r, p) \/ UpdateRole(r, p) \/ DeleteRoles(r, p)
      PROVE  TypeOK' /\ LockInv'
  <2>0. /\ p \in PayloadType /\ p.op # "none" /\ p.rows \subseteq Roles
        /\ p.rows \cap Departments = {} /\ p.rows \cap Menus = {} /\ p.rows \cap Users = {}
    BY <1>0, RolePayload DEF Nodes
  <2>1. CASE CreateRole(r, p)
    <3>1. Start(r, p, "commit", IdleRequest)
      BY <2>1 DEF CreateRole
    <3> QED BY <1>0, <2>0, <3>1, StartStep
  <2>2. CASE UpdateRole(r, p)
    <3> DEFINE cleared == IF p.assign THEN LinksOf(p.rows) ELSE {}
               c == [IdleRequest EXCEPT !.cleared = cleared]
    <3>1. cleared \in SUBSET Links
      BY <1>3
    <3>2. p.op = "update" /\ Start(r, p, "commit", c)
      BY <2>2 DEF UpdateRole
    <3> HIDE DEF cleared
    <3>3. c \in RequestType /\ c.gone = {}
      BY <3>1, ChangeTyped
    <3> HIDE DEF c
    <3> QED BY <1>0, <2>0, <3>2, <3>3, StartStep
  <2>3. CASE DeleteRoles(r, p)
    <3>1. PICK gone \in SUBSET {o \in p.rows : Live(o)} :
              Start(r, p, "commit", [IdleRequest EXCEPT !.gone = gone,
                                       !.cleared = LinksOf(gone) \cup UserLinks(gone)])
      BY <2>3 DEF DeleteRoles
    <3> DEFINE cleared == LinksOf(gone) \cup UserLinks(gone)
               c == [IdleRequest EXCEPT !.gone = gone, !.cleared = cleared]
    <3>2. gone \in SUBSET Rows /\ gone \cap Departments = {} /\ p.op = "delete"
      BY <1>0, <2>0, <2>3 DEF Rows, Nodes, DeleteRoles
    <3>3. cleared \in SUBSET Links /\ Start(r, p, "commit", c)
      BY <1>3, <3>1
    <3> HIDE DEF cleared
    <3>4. c \in RequestType /\ c.gone = gone
      BY <3>2, <3>3, ChangeTyped
    <3> HIDE DEF c
    <3> QED BY <1>0, <2>0, <3>2, <3>3, <3>4, StartStep
  <2> QED BY <1>5, <2>1, <2>2, <2>3
<1> QED BY <1>1, <1>2, <1>4, <1>5 DEF Receive

\* create_department takes the lock it needs.
LEMMA LockParentStep ==
    ASSUME TypeOK, LockInv, NEW r \in Requests, LockParent(r)
    PROVE  TypeOK' /\ LockInv'
<1> DEFINE to == req[r].p.to
           e == [req[r] EXCEPT !.stage = "commit"]
<1>1. /\ req[r] \in RequestType /\ req[r].stage = "lock" /\ Shape(req[r]) /\ to \in Departments
      /\ lock[to] = None /\ Live(to) /\ lock' = [lock EXCEPT ![to] = r] /\ Unchanged
  BY DEF TypeOK, LockInv, LockParent, Shape
<1>2. /\ e \in RequestType /\ e.stage = "commit" /\ e.p = req[r].p /\ e.gone = req[r].gone
      /\ req' = [req EXCEPT ![r] = e]
  BY <1>1 DEF LockParent, RequestType
<1> HIDE DEF e
<1>3. Shape(e)
  BY <1>1, <1>2 DEF Shape
<1>4. lock' \in [Departments -> Requests \cup {None}] /\ lock'[to] = r
      /\ \A d \in Departments : d # to => lock'[d] = lock[d]
  BY <1>1 DEF TypeOK
<1>5. \A d \in Departments : /\ lock[d] \in Requests \ {r} => lock'[d] = lock[d]
                             /\ lock'[d] \in {lock[d], r, None}
  BY <1>1, <1>4, DirectoryAssumption
<1>6. Placing(e) => lock'[e.p.to] = r /\ Live(e.p.to)
  BY <1>1, <1>2, <1>4
<1>7. \A x \in e.gone \cap Departments :
         /\ lock'[x] = r
         /\ \A d \in Departments \ moved : Live(d) /\ parent[d] = x => d \in e.gone
  BY <1>2, <1>4 DEF LockInv, GoneHeld
<1> QED BY <1>1, <1>2, <1>3, <1>4, <1>5, <1>6, <1>7, OwnStep

LEMMA WalkStep ==
    ASSUME TypeOK, LockInv, NEW r \in Requests, WalkAncestors(r)
    PROVE  TypeOK' /\ LockInv'
<1>1. PICK stage \in {"hung", "commit"} : req' = [req EXCEPT ![r].stage = stage]
  BY DEF WalkAncestors
<1> DEFINE e == [req[r] EXCEPT !.stage = stage]
<1>2. /\ req[r] \in RequestType /\ req[r].stage = "walk" /\ Shape(req[r])
      /\ UNCHANGED lock /\ Unchanged
  BY DEF TypeOK, LockInv, WalkAncestors
<1>3. /\ e \in RequestType /\ e.stage = stage /\ e.p = req[r].p /\ e.gone = req[r].gone
      /\ req' = [req EXCEPT ![r] = e]
  BY <1>1, <1>2 DEF RequestType
<1> HIDE DEF e
<1>4. Shape(e) /\ ~Placing(e)
  BY <1>2, <1>3 DEF Shape, Placing
<1>5. lock' \in [Departments -> Requests \cup {None}]
  BY <1>2 DEF TypeOK
<1>6. \A x \in e.gone \cap Departments :
         /\ lock'[x] = r
         /\ \A d \in Departments \ moved : Live(d) /\ parent[d] = x => d \in e.gone
  BY <1>2, <1>3 DEF LockInv, GoneHeld
<1> QED BY <1>2, <1>3, <1>4, <1>5, <1>6, OwnStep

\* delete_department locks the row, and deletes it only if nothing live that it
\* is not deleting is below it.
LEMMA VisitDepartmentStep ==
    ASSUME TypeOK, LockInv, NEW r \in Requests, NEW x \in Departments, VisitDepartment(r, x)
    PROVE  TypeOK' /\ LockInv'
<1> DEFINE q == req[r]
           stage == IF q.p.rows = {x} THEN "commit" ELSE "visit"
           gone == IF Live(x) /\ ~HasActiveChildren(x, q.gone) /\ ~HasActiveMembers(x)
                   THEN q.gone \cup {x} ELSE q.gone
           p == [q.p EXCEPT !.rows = @ \ {x}]
           e == [q EXCEPT !.p = p, !.stage = stage, !.gone = gone]
<1>1. /\ q \in RequestType /\ Shape(q) /\ q.stage = "visit" /\ lock[x] \in {None, r} /\ Unchanged
      /\ lock' = [lock EXCEPT ![x] = IF Live(x) THEN r ELSE @]
  BY DEF TypeOK, LockInv, VisitDepartment
<1>2. req' = [req EXCEPT ![r] = e]
  BY <1>1 DEF VisitDepartment, TypeOK, RequestType
<1>3. stage \in {"visit", "commit"} /\ gone \in SUBSET Rows /\ x \in Rows
  BY <1>1 DEF RequestType, Rows, Nodes
<1>4. /\ gone \subseteq q.gone \cup {x} /\ q.gone \subseteq gone
      /\ x \in gone \ q.gone => Live(x) /\ ~HasActiveChildren(x, q.gone)
  OBVIOUS
<1> HIDE DEF stage, gone
<1>5. e \in RequestType /\ Shape(e) /\ ~Placing(e) /\ e.gone = gone /\ e.stage = stage
  <2>1. p \in PayloadType /\ p.op = "delete"
    BY <1>1 DEF RequestType, PayloadType, Shape
  <2> HIDE DEF p
  <2>2. e \in RequestType /\ e.gone = gone /\ e.stage = stage /\ e.p = p
    BY <1>1, <1>3, <2>1 DEF RequestType
  <2> HIDE DEF e
  <2>3. Shape(e) /\ ~Placing(e)
    BY <1>3, <2>1, <2>2 DEF Shape, Placing
  <2> QED BY <2>2, <2>3
<1> HIDE DEF e
<1>6. /\ lock' \in [Departments -> Requests \cup {None}]
      /\ Live(x) => lock'[x] = r
      /\ lock'[x] \in {lock[x], r}
      /\ \A d \in Departments \ {x} : lock'[d] = lock[d]
  BY <1>1 DEF TypeOK
<1>7. \A d \in Departments : /\ lock[d] \in Requests \ {r} => lock'[d] = lock[d]
                             /\ lock'[d] \in {lock[d], r, None}
  BY <1>1, <1>6, DirectoryAssumption
<1>8. ASSUME NEW y \in gone \cap Departments
      PROVE  /\ lock'[y] = r
             /\ \A d \in Departments \ moved : Live(d) /\ parent[d] = y => d \in gone
  <2>1. CASE y \in q.gone
    <3>1. lock[y] = r /\ \A d \in Departments \ moved : Live(d) /\ parent[d] = y => d \in q.gone
      BY <2>1 DEF LockInv, GoneHeld
    <3> QED BY <1>4, <1>6, <3>1
  <2>2. CASE y \notin q.gone
    <3>1. y = x /\ Live(x) /\ ~HasActiveChildren(x, q.gone)
      BY <1>4, <2>2
    <3>2. \A d \in Departments : Live(d) /\ parent[d] = x => d \in q.gone
      BY <3>1 DEF HasActiveChildren, TreeOf
    <3> QED BY <1>4, <1>6, <3>1, <3>2
  <2> QED BY <2>1, <2>2
<1>9. e.stage # "idle"
  BY <1>3, <1>5
<1> QED BY <1>1, <1>2, <1>5, <1>6, <1>7, <1>8, <1>9, OwnStep

LEMMA VisitMenuStep ==
    ASSUME TypeOK, LockInv, NEW r \in Requests, NEW x \in Menus, VisitMenu(r, x)
    PROVE  TypeOK' /\ LockInv'
<1> DEFINE q == req[r]
           stage == IF q.p.rows = {x} THEN "commit" ELSE "visit"
           gone == IF Live(x) /\ ~HasActiveChildren(x, q.gone) /\ ~IsRoleGranted(x)
                   THEN q.gone \cup {x} ELSE q.gone
           p == [q.p EXCEPT !.rows = @ \ {x}]
           e == [q EXCEPT !.p = p, !.stage = stage, !.gone = gone]
<1>1. q \in RequestType /\ Shape(q) /\ q.stage = "visit" /\ UNCHANGED lock /\ Unchanged
  BY DEF TypeOK, LockInv, VisitMenu
<1>2. req' = [req EXCEPT ![r] = e]
  BY <1>1 DEF VisitMenu, TypeOK, RequestType
<1>3. stage \in {"visit", "commit"} /\ gone \in SUBSET Rows /\ x \in Rows
  BY <1>1 DEF RequestType, Rows, Nodes
<1>4. gone \cap Departments = q.gone \cap Departments /\ q.gone \subseteq gone
  BY DirectoryAssumption
<1> HIDE DEF stage, gone
<1>5. e \in RequestType /\ Shape(e) /\ ~Placing(e) /\ e.gone = gone /\ e.stage = stage
  <2>1. p \in PayloadType /\ p.op = "delete"
    BY <1>1 DEF RequestType, PayloadType, Shape
  <2> HIDE DEF p
  <2>2. e \in RequestType /\ e.gone = gone /\ e.stage = stage /\ e.p = p
    BY <1>1, <1>3, <2>1 DEF RequestType
  <2> HIDE DEF e
  <2>3. Shape(e) /\ ~Placing(e)
    BY <1>3, <2>1, <2>2 DEF Shape, Placing
  <2> QED BY <2>2, <2>3
<1> HIDE DEF e
<1>6. lock' \in [Departments -> Requests \cup {None}]
  BY <1>1 DEF TypeOK
<1>7. \A y \in gone \cap Departments :
         /\ lock'[y] = r
         /\ \A d \in Departments \ moved : Live(d) /\ parent[d] = y => d \in gone
  BY <1>1, <1>4 DEF LockInv, GoneHeld
<1>8. e.stage # "idle"
  BY <1>3, <1>5
<1> QED BY <1>1, <1>2, <1>5, <1>6, <1>7, <1>8, OwnStep

LEMMA ReleaseTyped ==
    ASSUME TypeOK, NEW r \in Requests
    PROVE  /\ Release(r) \in [Departments -> Requests \cup {None}]
           /\ \A d \in Departments : /\ lock[d] # r => Release(r)[d] = lock[d]
                                     /\ lock[d] = r => Release(r)[d] = None
  BY DEF Release, TypeOK

LEMMA RefuseStep ==
    ASSUME TypeOK, LockInv, NEW r \in Requests, Refuse(r)
    PROVE  TypeOK' /\ LockInv'
<1>1. lock' = Release(r) /\ req' = [req EXCEPT ![r] = IdleRequest] /\ Unchanged
  BY DEF Refuse
<1>2. /\ lock' \in [Departments -> Requests \cup {None}]
      /\ \A d \in Departments : /\ lock[d] # r => lock'[d] = lock[d]
                                /\ lock[d] = r => lock'[d] = None
                                /\ lock'[d] # r
  BY <1>1, ReleaseTyped, DirectoryAssumption
<1> QED BY <1>1, <1>2, IdleTyped, OwnStep

-----------------------------------------------------------------------------
(* The commit.                                                             *)

LEMMA CommitStep ==
    ASSUME TypeOK, LockInv, NEW r \in Requests, Commit(r)
    PROVE  TypeOK' /\ LockInv'
<1> DEFINE q == req[r]
<1>0. /\ q \in RequestType /\ q.stage = "commit" /\ Shape(q) /\ q.p \in PayloadType
      /\ ParentHeld(r) /\ GoneHeld(r) /\ CreatedUnderLive
  BY DEF TypeOK, LockInv, Commit, RequestType
<1>1. /\ q.p.op \in {"none", "create", "update", "delete"} /\ q.p.rows \subseteq Rows
      /\ q.p.to \in Nodes \cup {None, Same} /\ q.p.new \subseteq Links
      /\ q.status \in {"active", "disabled"} /\ q.gone \subseteq Rows
  BY <1>0 DEF RequestType, PayloadType
<1>2. /\ row' = [x \in Rows |-> StatusAfter(q, x)]
      /\ parent' = [n \in Nodes |-> IF Places(q, n) THEN q.p.to ELSE parent[n]]
      /\ member' = [u \in Users |-> IF Places(q, u) THEN q.p.to ELSE member[u]]
      /\ links' = (links \ q.cleared) \cup q.p.new
      /\ lock' = Release(r)
      /\ raced' = raced \cup (IF q.overtaken THEN Refs(q) \cup q.gone \cup q.p.rows ELSE {})
      /\ moved' = moved \cup (IF q.p.op = "update" THEN {d \in Departments : Places(q, d)} ELSE {})
      /\ req' = [t \in Requests |->
                   IF t = r THEN IdleRequest
                   ELSE [req[t] EXCEPT !.overtaken = @ \/ Overtakes(q, req[t])]]
      /\ commits' = commits + 1 /\ commits < MaxCommits
  BY DEF Commit
<1>3. ASSUME NEW t \in Requests, t # r
      PROVE  /\ req'[t] \in RequestType /\ req'[t].stage = req[t].stage
             /\ req'[t].p = req[t].p /\ req'[t].gone = req[t].gone
  <2>1. req[t] \in RequestType /\ req'[t] = [req[t] EXCEPT !.overtaken = @ \/ Overtakes(q, req[t])]
    BY <1>2, <1>3 DEF TypeOK
  <2>2. (req[t].overtaken \/ Overtakes(q, req[t])) \in BOOLEAN
    OBVIOUS
  <2> QED BY <2>1, <2>2 DEF RequestType
<1>4. req'[r] = IdleRequest
  BY <1>2
<1>5. req' \in [Requests -> RequestType]
  BY <1>2, <1>3, <1>4, IdleTyped
<1>6. /\ lock' \in [Departments -> Requests \cup {None}]
      /\ \A d \in Departments : lock[d] # r => lock'[d] = lock[d]
      /\ \A d \in Departments : lock'[d] # r
  BY <1>2, ReleaseTyped, DirectoryAssumption
<1>7. \A d \in Departments : lock'[d] # None => req'[lock'[d]].stage # "idle"
  <2> SUFFICES ASSUME NEW d \in Departments, lock'[d] # None
               PROVE  req'[lock'[d]].stage # "idle"
    OBVIOUS
  <2>1. lock'[d] = lock[d] /\ lock[d] \in Requests \ {r}
    BY <1>2, <1>6, ReleaseTyped DEF TypeOK
  <2> QED BY <1>3, <2>1 DEF TypeOK
<1>8. row' \in [Rows -> {"none", "active", "disabled", "deleted"}]
  <2>1. \A x \in Rows : StatusAfter(q, x) \in {"none", "active", "disabled", "deleted"}
    BY <1>1 DEF StatusAfter, TypeOK
  <2> QED BY <1>2, <2>1
<1>9. /\ parent' \in [Nodes -> Nodes \cup {None}]
      /\ \A n \in Nodes : parent'[n] \in TreeOf(n) \cup {None}
  <2>1. ASSUME NEW n \in Nodes, Places(q, n) PROVE q.p.to \in TreeOf(n) \cup {None}
    BY <1>0, <1>1, <2>1 DEF Places, Shape, TreeOf, Nodes
  <2>2. \A n \in Nodes : TreeOf(n) \subseteq Nodes
    BY DEF TreeOf, Nodes
  <2>3. \A n \in Nodes : (IF Places(q, n) THEN q.p.to ELSE parent[n]) \in TreeOf(n) \cup {None}
    BY <2>1 DEF TypeOK
  <2> QED BY <1>2, <2>2, <2>3
<1>10. member' \in [Users -> Departments \cup {None}]
  <2>1. ASSUME NEW u \in Users, Places(q, u) PROVE q.p.to \in Departments \cup {None}
    BY <1>0, <1>1, <2>1 DEF Places, Shape
  <2> QED BY <1>2, <2>1 DEF TypeOK
<1>11. links' \subseteq Links /\ moved' \subseteq Departments /\ commits' \in 0..MaxCommits
  <2>1. links' \subseteq Links
    BY <1>1, <1>2 DEF TypeOK
  <2>2. moved' \subseteq Departments
    BY <1>2 DEF TypeOK
  <2>3. commits' \in 0..MaxCommits
    BY <1>2, DirectoryAssumption DEF TypeOK
  <2> QED BY <2>1, <2>2, <2>3
<1>12. raced' \subseteq Rows
  <2>1. \A l \in Links : l[2] \in Rows
    BY DEF Links, Rows, Nodes
  <2>2. {l[2] : l \in q.p.new} \subseteq Rows
    BY <1>1, <2>1
  <2>3. {q.p.to} \ {None, Same} \subseteq Rows
    BY <1>1 DEF Rows
  <2>4. Refs(q) \subseteq Rows
    BY <1>1, <2>2, <2>3 DEF Refs
  <2> QED BY <1>1, <1>2, <2>4 DEF TypeOK
<1>13. TypeOK'
  BY <1>5, <1>6, <1>7, <1>8, <1>9, <1>10, <1>11, <1>12 DEF TypeOK
\* Who is live afterwards.
<1>14. ASSUME NEW d \in Departments, Live(d)' , ~(q.p.op = "create" /\ d \in q.p.rows)
       PROVE  Live(d) /\ d \notin q.gone
  <2>1. d \in Rows /\ row'[d] = StatusAfter(q, d)
    BY <1>2 DEF Rows, Nodes
  <2> QED BY <1>14, <2>1 DEF StatusAfter, Live
<1>15. ASSUME NEW d \in Departments, Live(d), d \notin q.gone PROVE Live(d)'
  <2>1. d \in Rows /\ row'[d] = StatusAfter(q, d)
    BY <1>2 DEF Rows, Nodes
  <2> QED BY <1>1, <1>15, <2>1 DEF StatusAfter, Live
<1>16. ASSUME NEW d \in Departments \ moved', parent'[d] # None,
              Places(q, d) \/ (q.p.op = "create" /\ d \in q.p.rows)
       PROVE  /\ parent'[d] = q.p.to /\ q.p.to \in Departments
              /\ lock[q.p.to] = r /\ Live(q.p.to) /\ q.gone = {}
  <2>1. q.p.op # "update"
    BY <1>2, <1>16 DEF Places
  <2>2. d \in q.p.rows /\ q.p.op = "create"
    BY <1>0, <1>1, <1>16, <2>1 DEF Places, Shape
  <2>3. q.p.to \in Departments \cup {None}
    BY <1>0, <2>2 DEF Shape
  <2>4. Places(q, d)
    BY <2>2, <2>3, DirectoryAssumption DEF Places
  <2>5. parent'[d] = q.p.to
    BY <1>2, <2>4 DEF Nodes
  <2>6. Placing(q) /\ q.gone = {}
    BY <1>0, <1>16, <2>2, <2>5 DEF Placing, Shape
  <2> QED BY <1>0, <1>16, <2>3, <2>5, <2>6 DEF ParentHeld
<1>17. ASSUME NEW d \in Departments, ~Places(q, d) PROVE parent'[d] = parent[d]
  BY <1>2, <1>17 DEF Nodes
<1>18. CreatedUnderLive'
  <2> SUFFICES ASSUME NEW d \in Departments \ moved', Live(d)', parent'[d] # None
               PROVE  Live(parent[d])'
    BY DEF CreatedUnderLive
  <2>1. CASE Places(q, d) \/ (q.p.op = "create" /\ d \in q.p.rows)
    <3>1. parent'[d] = q.p.to /\ q.p.to \in Departments /\ Live(q.p.to) /\ q.gone = {}
      BY <1>16, <2>1
    <3>2. row'[q.p.to] \in {"active", "disabled"}
      BY <1>15, <3>1 DEF Live
    <3> QED BY <3>1, <3>2 DEF Live
  <2>2. CASE ~(Places(q, d) \/ (q.p.op = "create" /\ d \in q.p.rows))
    <3>1. parent'[d] = parent[d] /\ Live(d) /\ d \notin q.gone /\ d \notin moved
      BY <1>2, <1>14, <1>17, <2>2
    <3>2. parent[d] \in Departments
      BY <3>1 DEF TypeOK, TreeOf, Nodes
    <3>3. Live(parent[d]) /\ parent[d] \notin q.gone
      BY <1>0, <3>1, <3>2 DEF CreatedUnderLive, GoneHeld
    <3>4. row'[parent[d]] \in {"active", "disabled"}
      BY <1>15, <3>2, <3>3 DEF Live
    <3> QED BY <3>1, <3>4 DEF Live
  <2> QED BY <2>1, <2>2
<1>19. \A t \in Requests : Shape(req'[t])
  <2>1. ASSUME NEW t \in Requests, t # r PROVE Shape(req'[t])
    <3>1. Shape(req[t])
      BY DEF LockInv
    <3> QED BY <1>3, <2>1, <3>1 DEF Shape
  <2> QED BY <1>4, <2>1, IdleTyped
<1>20. ASSUME NEW t \in Requests PROVE ParentHeld(t)'
  <2>1. CASE t = r
    BY <1>4, <2>1, IdleTyped DEF ParentHeld
  <2>2. CASE t # r /\ Placing(req[t])
    <3>1. lock[req[t].p.to] = t /\ Live(req[t].p.to) /\ req[t].p.to \in Departments
      BY <2>2 DEF LockInv, ParentHeld, Placing, Shape
    <3>2. req[t].p.to \notin q.gone
      BY <1>0, <2>2, <3>1 DEF GoneHeld
    <3>3. row'[req[t].p.to] \in {"active", "disabled"} /\ lock'[req[t].p.to] = t
      BY <1>6, <1>15, <2>2, <3>1, <3>2 DEF Live
    <3> QED BY <1>3, <2>2, <3>3 DEF ParentHeld, Live
  <2>3. CASE t # r /\ ~Placing(req[t])
    BY <1>3, <2>3 DEF ParentHeld, Placing
  <2> QED BY <2>1, <2>2, <2>3
<1>21. ASSUME NEW t \in Requests PROVE GoneHeld(t)'
  <2>1. CASE t = r
    BY <1>4, <2>1, IdleTyped DEF GoneHeld
  <2>2. CASE t # r
    <3> SUFFICES ASSUME NEW x \in req[t].gone \cap Departments
                 PROVE  /\ lock'[x] = t
                        /\ \A d \in Departments \ moved' :
                              Live(d)' /\ parent'[d] = x => d \in req[t].gone
      BY <1>3, <2>2 DEF GoneHeld
    <3>1. lock[x] = t /\ \A d \in Departments \ moved : Live(d) /\ parent[d] = x => d \in req[t].gone
      BY DEF LockInv, GoneHeld
    <3>2. lock'[x] = t
      BY <1>6, <2>2, <3>1
    <3>3. ASSUME NEW d \in Departments \ moved', Live(d)', parent'[d] = x
          PROVE  d \in req[t].gone
      <4>1. ~(Places(q, d) \/ (q.p.op = "create" /\ d \in q.p.rows))
        BY <1>16, <2>2, <3>1, <3>3, DirectoryAssumption
      <4>2. parent[d] = x /\ Live(d) /\ d \notin moved
        BY <1>2, <1>14, <1>17, <3>3, <4>1
      <4> QED BY <3>1, <4>2
    <3> QED BY <3>2, <3>3
  <2> QED BY <2>1, <2>2
<1> QED BY <1>13, <1>18, <1>19, <1>20, <1>21 DEF LockInv

-----------------------------------------------------------------------------
(* The theorems.                                                           *)

LEMMA InitInv == Init => TypeOK /\ LockInv
<1> SUFFICES ASSUME Init PROVE TypeOK /\ LockInv
  OBVIOUS
<1>1. \A r \in Requests : req[r] = IdleRequest
  BY DEF Init
<1>2. req \in [Requests -> RequestType]
  BY <1>1, IdleTyped DEF Init
<1>3. \A n \in Nodes : parent[n] \in TreeOf(n) \cup {None}
  BY DEF Init
<1>4. commits \in 0..MaxCommits
  BY DirectoryAssumption DEF Init
<1>5. links \subseteq Links
  BY DEF Init
<1>6. TypeOK
  BY <1>2, <1>3, <1>4, <1>5 DEF Init, TypeOK
<1>7. \A r \in Requests : Shape(req[r]) /\ ParentHeld(r) /\ GoneHeld(r)
  BY <1>1, IdleTyped DEF ParentHeld, GoneHeld
<1>8. CreatedUnderLive
  BY DEF Init, CreatedUnderLive, Nodes
<1> QED BY <1>6, <1>7, <1>8 DEF LockInv

LEMMA Inductive == Spec => [](TypeOK /\ LockInv)
<1>1. ASSUME TypeOK, LockInv, [Next]_vars PROVE TypeOK' /\ LockInv'
  <2>1. CASE UNCHANGED vars
    <3>1. TypeOK'
      BY <1>1, <2>1 DEF vars, TypeOK
    <3>2. LockInv'
      BY <1>1, <2>1 DEF vars, LockInv, ParentHeld, GoneHeld, CreatedUnderLive, Live
    <3> QED BY <3>1, <3>2
  <2>2. ASSUME NEW r \in Requests, HandlerStep(r) PROVE TypeOK' /\ LockInv'
    <3>1. CASE LockParent(r)
      BY <1>1, <3>1, LockParentStep
    <3>2. CASE WalkAncestors(r)
      BY <1>1, <3>2, WalkStep
    <3>3. ASSUME NEW d \in Departments, VisitDepartment(r, d) PROVE TypeOK' /\ LockInv'
      BY <1>1, <3>3, VisitDepartmentStep
    <3>4. ASSUME NEW m \in Menus, VisitMenu(r, m) PROVE TypeOK' /\ LockInv'
      BY <1>1, <3>4, VisitMenuStep
    <3> QED BY <2>2, <3>1, <3>2, <3>3, <3>4 DEF HandlerStep
  <2> QED BY <1>1, <2>1, <2>2, ReceiveStep, CommitStep, RefuseStep DEF Next
<1> QED BY <1>1, InitInv, PTL DEF Spec

\* Rows, references and requests keep their types, and no row lock outlives the
\* request that took it (get_for_update and the end of the transaction).
THEOREM TypeCorrect == Spec => []TypeOK
  BY Inductive, PTL

\* In a directory of any size, with any number of requests, a department that
\* create_department placed and nobody moved is never left under a deleted one:
\* creation and deletion agree on the parent's row lock.
THEOREM CreatedStayUnderLive == Spec => []CreatedUnderLive
<1>1. LockInv => CreatedUnderLive
  BY DEF LockInv
<1> QED BY <1>1, Inductive, PTL

-----------------------------------------------------------------------------
(* References.                                                             *)

\* The rows of a payload, and what it deletes, are of one kind.
OneKind(S) == S \subseteq Departments \/ S \subseteq Menus \/ S \subseteq Users \/ S \subseteq Roles

\* What a payload may set: a created row is placed, only roles and menus are
\* switched, and the links written are those of the row the payload names.
PayloadSound(p) ==
    /\ p.flip => p.op # "delete" /\ p.rows \subseteq Roles \cup Menus
    /\ \A l \in p.new : l[1] \in p.rows
    /\ p.new # {} => p.assign /\ p.op # "delete"
    /\ p.op = "create" /\ p.rows \cap (Nodes \cup Users) # {} => p.to # Same

\* What a request clears belongs to the rows it rewrites or deletes.
Written(q) ==
    /\ OneKind(q.p.rows \cup q.gone)
    /\ PayloadSound(q.p)
    /\ q.p.op = "create" => q.cleared = {}
    /\ q.p.op = "update" => /\ \A l \in q.cleared : l[1] \in q.p.rows
                            /\ ~q.p.assign => q.cleared = {}
    /\ q.p.op = "delete" => \A l \in q.cleared : l[1] \in q.gone \/ q.gone \cap Roles # {}

\* The rows a request refers to exist, deleted or not; those it inserts do not.
Known(q) ==
    q.stage # "idle" =>
        /\ q.p.op = "create" => \A x \in q.p.rows : row[x] = "none"
        /\ q.p.op = "update" => \A x \in q.p.rows : row[x] # "none"
        /\ \A l \in q.p.new : row[l[2]] # "none"
        /\ \A x \in q.gone : row[x] # "none"
        /\ q.p.op # "delete" /\ q.p.to \in Nodes => row[q.p.to] # "none"

Busy == {"lock", "walk", "visit", "commit"}

\* Until a commit overtakes it, what a request refers to is live ...
Checked(q) ==
    q.stage \in Busy /\ q.p.op # "delete" /\ ~q.overtaken =>
        /\ q.p.to \in Nodes => Live(q.p.to)
        /\ \A l \in q.p.new : (Live(l[1]) \/ q.p.op = "create") /\ Live(l[2])

\* ... and nothing that stays refers to what a request deletes.
Emptied(q) ==
    q.stage \in Busy /\ ~q.overtaken =>
        \A x \in q.gone :
            /\ \A n \in Nodes : Live(n) /\ parent[n] = x => n \in q.gone
            /\ \A u \in Users : Live(u) => member[u] # x
            /\ \A l \in links : x \in {l[1], l[2]} => l \in q.cleared

Sound(q) == Written(q) /\ Known(q) /\ Checked(q) /\ Emptied(q)

Creating(q) == q.stage # "idle" /\ q.p.op = "create"

\* No two requests insert one row.
DistinctIds ==
    \A r, t \in Requests :
        r # t /\ Creating(req[r]) /\ Creating(req[t]) => req[r].p.rows \cap req[t].p.rows = {}

\* Nothing refers to a row that was never there.
RefsExist ==
    /\ \A l \in links : row[l[1]] # "none" /\ row[l[2]] # "none"
    /\ \A n \in Nodes : parent[n] # None => row[parent[n]] # "none"

RefInv ==
    /\ \A r \in Requests : Sound(req[r])
    /\ DistinctIds
    /\ RefsExist
    /\ RefsNeedRace

LEMMA DepartmentSound ==
    ASSUME NEW p \in DepartmentPayloads
    PROVE  PayloadSound(p)
<1>0. None # Same /\ Same \notin Departments
  BY DirectoryAssumption
<1>1. CASE \E op \in {"create", "update"}, d \in Departments, to \in Departments \cup {None} :
              p = Payload(op, {d}, to, FALSE, {}, FALSE)
  BY <1>0, <1>1 DEF Payload, PayloadSound
<1>2. CASE \E ds \in SUBSET Departments : p = Payload("delete", ds, Same, FALSE, {}, FALSE)
  BY <1>2 DEF Payload, PayloadSound
<1> QED BY <1>1, <1>2, SMT DEF DepartmentPayloads, Payload

LEMMA MenuSound ==
    ASSUME NEW p \in MenuPayloads
    PROVE  PayloadSound(p)
<1>0. None # Same /\ Same \notin Menus
  BY DirectoryAssumption
<1>1. CASE \E op \in {"create", "update"}, m \in Menus, to \in Menus \cup {None} :
              p = Payload(op, {m}, to, FALSE, {}, FALSE)
  BY <1>0, <1>1 DEF Payload, PayloadSound
<1>2. CASE \E m \in Menus : p = Payload("update", {m}, Same, FALSE, {}, TRUE)
  BY <1>2 DEF Payload, PayloadSound
<1>3. CASE \E ms \in SUBSET Menus : p = Payload("delete", ms, Same, FALSE, {}, FALSE)
  BY <1>3 DEF Payload, PayloadSound
<1> QED BY <1>1, <1>2, <1>3, SMT DEF MenuPayloads, Payload

LEMMA UserSound ==
    ASSUME NEW p \in UserPayloads
    PROVE  PayloadSound(p)
<1>0. None # Same /\ Same \notin Departments
  BY DirectoryAssumption
<1>1. CASE \E us \in SUBSET Users : p = Payload("delete", us, Same, FALSE, {}, FALSE)
  BY <1>1 DEF Payload, PayloadSound
<1>2. ASSUME NEW u \in Users, NEW to \in Departments \cup {None}, NEW new \in SUBSET ({u} \X Roles),
             \/ p = Payload("create", {u}, to, TRUE, new, FALSE)
             \/ p = Payload("update", {u}, Same, TRUE, new, FALSE)
             \/ p = Payload("update", {u}, to, FALSE, {}, FALSE)
      PROVE  PayloadSound(p)
  <2>1. \A l \in new : l[1] \in {u}
    OBVIOUS
  <2> QED BY <1>0, <1>2, <2>1 DEF Payload, PayloadSound
<1>3. \/ p \in {Payload("delete", us, Same, FALSE, {}, FALSE) : us \in (SUBSET Users) \ {{}}}
      \/ \E u \in Users : p \in UserWrites(u)
  BY Zenon DEF UserPayloads
<1>4. CASE p \in {Payload("delete", us, Same, FALSE, {}, FALSE) : us \in (SUBSET Users) \ {{}}}
  BY <1>1, <1>4, Zenon
<1>5. ASSUME NEW u \in Users, p \in UserWrites(u) PROVE PayloadSound(p)
  <2>1. {} \in SUBSET ({u} \X Roles) /\ None \in Departments \cup {None}
    OBVIOUS
  <2>2. \/ \E to \in Departments \cup {None}, new \in SUBSET ({u} \X Roles) :
              p = Payload("create", {u}, to, TRUE, new, FALSE)
        \/ \E new \in SUBSET ({u} \X Roles) : p = Payload("update", {u}, Same, TRUE, new, FALSE)
        \/ \E to \in Departments \cup {None} : p = Payload("update", {u}, to, FALSE, {}, FALSE)
    BY <1>5, SMT DEF UserWrites, Payload
  <2> QED BY <1>2, <2>1, <2>2, Zenon
<1> QED BY <1>3, <1>4, <1>5

LEMMA RoleSound ==
    ASSUME NEW p \in RolePayloads
    PROVE  PayloadSound(p) /\ p.to = Same
<1>0. Roles \cap (Nodes \cup Users) = {}
  BY DirectoryAssumption DEF Nodes
<1>1. CASE \E os \in SUBSET Roles : p = Payload("delete", os, Same, FALSE, {}, FALSE)
  BY <1>1 DEF Payload, PayloadSound
<1>2. ASSUME NEW o \in Roles, NEW op \in {"create", "update"}, NEW new \in SUBSET ({o} \X Menus),
             \/ p = Payload(op, {o}, Same, TRUE, new, FALSE)
             \/ p = Payload(op, {o}, Same, FALSE, {}, TRUE)
      PROVE  PayloadSound(p) /\ p.to = Same
  <2>1. \A l \in new : l[1] \in {o}
    OBVIOUS
  <2> QED BY <1>0, <1>2, <2>1 DEF Payload, PayloadSound
<1>3. \/ p \in {Payload("delete", os, Same, FALSE, {}, FALSE) : os \in (SUBSET Roles) \ {{}}}
      \/ \E o \in Roles : p \in RoleWrites(o)
  BY Zenon DEF RolePayloads
<1>4. CASE p \in {Payload("delete", os, Same, FALSE, {}, FALSE) : os \in (SUBSET Roles) \ {{}}}
  BY <1>1, <1>4, Zenon
<1>5. ASSUME NEW o \in Roles, p \in RoleWrites(o) PROVE PayloadSound(p) /\ p.to = Same
  <2>1. {} \in SUBSET ({o} \X Menus)
    OBVIOUS
  <2>2. \/ \E op \in {"create", "update"}, new \in SUBSET ({o} \X Menus) :
              p = Payload(op, {o}, Same, TRUE, new, FALSE)
        \/ \E op \in {"create", "update"} : p = Payload(op, {o}, Same, FALSE, {}, TRUE)
    BY <1>5, SMT DEF RoleWrites, Payload
  <2> QED BY <1>2, <2>1, <2>2, Zenon
<1> QED BY <1>3, <1>4, <1>5

\* An idle request refers to nothing.
LEMMA IdleSound ==
    /\ Sound(IdleRequest) /\ ~Creating(IdleRequest) /\ ~IdleRequest.overtaken
    /\ IdleRequest.cleared = {}
<1>1. /\ IdleRequest.gone = {} /\ IdleRequest.stage = "idle" /\ IdleRequest.cleared = {}
      /\ ~IdleRequest.overtaken /\ IdleRequest.p = Payload("none", {}, Same, FALSE, {}, FALSE)
  BY DEF IdleRequest
<1>2. /\ IdleRequest.p.op = "none" /\ IdleRequest.p.rows = {} /\ IdleRequest.p.new = {}
      /\ ~IdleRequest.p.flip
  BY <1>1 DEF Payload
<1>3. Written(IdleRequest)
  BY <1>1, <1>2 DEF Written, PayloadSound, OneKind
<1> QED BY <1>1, <1>2, <1>3 DEF Sound, Known, Checked, Emptied, Creating, Busy

\* A step that writes no row keeps the invariant if its request stays sound and
\* inserts no row that another inserts.
LEMMA RefOwnStep ==
    ASSUME TypeOK, RefInv, NEW r \in Requests, NEW e \in RequestType,
           req' = [req EXCEPT ![r] = e], Unchanged, Sound(e),
           Creating(e) => \A t \in Requests \ {r} :
                             Creating(req[t]) => e.p.rows \cap req[t].p.rows = {}
    PROVE  RefInv'
<1>1. req'[r] = e /\ \A t \in Requests \ {r} : req'[t] = req[t]
  BY DEF TypeOK
<1>2. row' = row /\ parent' = parent /\ member' = member /\ links' = links /\ raced' = raced
  BY DEF Unchanged
<1>3. \A x : Live(x)' <=> Live(x)
  BY <1>2 DEF Live
<1>4. ASSUME NEW t \in Requests PROVE Sound(req[t])'
  <2> DEFINE q == req'[t]
  <2>1. Written(q) /\ Known(q) /\ Checked(q) /\ Emptied(q)
    BY <1>1 DEF RefInv, Sound
  <2> HIDE DEF q
  <2>2. Written(req[t])'
    BY <2>1 DEF Written, q
  <2>3. Known(req[t])'
    BY <1>2, <2>1 DEF Known, q
  <2>4. Checked(req[t])'
    BY <1>3, <2>1 DEF Checked, q
  <2>5. Emptied(req[t])'
    BY <1>2, <1>3, <2>1 DEF Emptied, q
  <2> QED BY <2>2, <2>3, <2>4, <2>5 DEF Sound
<1>5. DistinctIds'
  BY <1>1 DEF RefInv, DistinctIds
<1>6. RefsExist'
  BY <1>2 DEF RefInv, RefsExist
<1>7. RefsNeedRace'
  BY <1>2, <1>3 DEF RefInv, RefsNeedRace
<1> QED BY <1>4, <1>5, <1>6, <1>7 DEF RefInv

\* A handler's first checks.
LEMMA RefStart ==
    ASSUME TypeOK, RefInv, NEW r \in Requests, NEW p \in PayloadType, PayloadSound(p),
           NEW stage \in {"lock", "walk", "visit", "commit"},
           NEW change \in RequestType, Start(r, p, stage, change), ~change.overtaken,
           OneKind(p.rows \cup change.gone),
           p.op = "create" => (\A x \in p.rows : Unused(x)) /\ change.cleared = {},
           p.op = "update" => /\ \A x \in p.rows : Live(x)
                              /\ \A l \in change.cleared : l[1] \in p.rows
                              /\ ~p.assign => change.cleared = {},
           p.op = "delete" =>
                \A l \in change.cleared : l[1] \in change.gone \/ change.gone \cap Roles # {},
           p.op \in {"create", "update"} /\ p.to \in Nodes => Live(p.to),
           p.op \in {"create", "update", "delete"},
           \A l \in p.new : Live(l[2]),
           \A x \in change.gone :
                /\ Live(x) /\ x \notin Nodes
                /\ \A l \in links : x \in {l[1], l[2]} => l \in change.cleared
    PROVE  RefInv'
<1> DEFINE e == [change EXCEPT !.stage = stage, !.p = p, !.status = StatusSet(p)]
<1>1. StatusSet(p) \in {"active", "disabled"}
  BY DEF StatusSet
<1>2. /\ e \in RequestType /\ e.stage = stage /\ e.p = p /\ e.gone = change.gone
      /\ e.cleared = change.cleared /\ e.overtaken = change.overtaken
      /\ req' = [req EXCEPT ![r] = e] /\ Unchanged
  BY <1>1 DEF Start, RequestType
<1> HIDE DEF e
<1>3. Written(e)
  BY <1>2 DEF Written
<1>4. \A x : Live(x) => row[x] # "none"
  BY DEF Live
<1>5. Known(e)
  BY <1>2, <1>4 DEF Known, Unused
<1>6. Checked(e)
  <2>1. \A l \in p.new : (p.op = "create" \/ Live(l[1])) /\ Live(l[2])
    BY DEF PayloadSound
  <2> QED BY <1>2, <2>1 DEF Checked
<1>7. Emptied(e)
  <2>1. ASSUME NEW x \in change.gone
        PROVE  /\ \A n \in Nodes : parent[n] # x
               /\ \A u \in Users : member[u] # x
    <3>1. x \notin Nodes /\ x \in Rows /\ x # None
      BY DirectoryAssumption DEF RequestType, Rows, Nodes
    <3> QED BY <3>1 DEF TypeOK, Nodes
  <2> QED BY <1>2, <2>1 DEF Emptied
<1>8. Creating(e) => \A t \in Requests \ {r} :
         Creating(req[t]) => e.p.rows \cap req[t].p.rows = {}
  BY <1>2 DEF Creating, Unused
<1> QED BY <1>2, <1>3, <1>5, <1>6, <1>7, <1>8, RefOwnStep DEF Sound

LEMMA ChangeSound ==
    ASSUME NEW above \in Nodes \cup {None}, NEW gone \in SUBSET Rows, NEW cleared \in SUBSET Links
    PROVE  /\ ~[IdleRequest EXCEPT !.above = above].overtaken
           /\ [IdleRequest EXCEPT !.above = above].cleared = {}
           /\ ~[IdleRequest EXCEPT !.cleared = cleared].overtaken
           /\ [IdleRequest EXCEPT !.cleared = cleared].cleared = cleared
           /\ ~[IdleRequest EXCEPT !.gone = gone, !.cleared = cleared].overtaken
           /\ [IdleRequest EXCEPT !.gone = gone, !.cleared = cleared].cleared = cleared
  BY IdleTyped, IdleSound DEF RequestType

LEMMA RefReceive ==
    ASSUME TypeOK, RefInv, NEW r \in Requests, Receive(r)
    PROVE  RefInv'
<1>0. /\ IdleRequest \in RequestType /\ IdleRequest.gone = {} /\ IdleRequest.cleared = {}
      /\ ~IdleRequest.overtaken
      /\ Departments \cap Menus = {} /\ Nodes \cap (Users \cup Roles) = {} /\ Users \cap Roles = {}
      /\ Same \notin Nodes /\ None \notin Nodes /\ None # Same
  BY IdleTyped, IdleSound, DirectoryAssumption DEF Nodes
<1>00. \A p \in PayloadType :
          /\ p.op \in {"none", "create", "update", "delete"} /\ p.new \subseteq Links
          /\ PayloadSound(p) /\ ~p.assign => p.new = {}
  BY DEF PayloadType, PayloadSound
<1>1. ASSUME NEW p \in DepartmentPayloads,
             CreateDepartment(r, p) \/ UpdateDepartment(r, p) \/ DeleteNodes(r, p)
      PROVE  RefInv'
  <2>0. /\ p \in PayloadType /\ p.op \in {"create", "update", "delete"} /\ p.rows \subseteq Departments
        /\ p.op \in {"create", "update"} => p.to \in Departments \cup {None}
        /\ OneKind(p.rows \cup IdleRequest.gone) /\ PayloadSound(p)
    BY <1>0, <1>00, DepartmentPayload, DepartmentSound DEF OneKind
  <2>1. p.new = {}
    BY SMT DEF DepartmentPayloads, Payload
  <2>2. CASE CreateDepartment(r, p)
    <3>1. /\ Start(r, p, "commit", IdleRequest) \/ Start(r, p, "lock", IdleRequest)
          /\ p.op = "create" /\ \A x \in p.rows : Unused(x)
          /\ p.to # None => Live(p.to)
      BY <2>2 DEF CreateDepartment
    <3> QED BY <1>0, <2>0, <2>1, <3>1, RefStart
  <2>3. CASE UpdateDepartment(r, p)
    <3>1. /\ Start(r, p, "commit", IdleRequest) \/ Start(r, p, "walk", IdleRequest)
          /\ p.op = "update" /\ \A x \in p.rows : Live(x)
          /\ p.to # None => Live(p.to)
      BY <2>3 DEF UpdateDepartment
    <3> QED BY <1>0, <2>0, <2>1, <3>1, RefStart
  <2>4. CASE DeleteNodes(r, p)
    <3>1. p.op = "delete" /\ Start(r, p, "visit", IdleRequest)
      BY <2>4 DEF DeleteNodes
    <3> QED BY <1>0, <2>0, <2>1, <3>1, RefStart
  <2> QED BY <1>1, <2>2, <2>3, <2>4
<1>2. ASSUME NEW p \in MenuPayloads,
             CreateMenu(r, p) \/ UpdateMenu(r, p) \/ DeleteNodes(r, p)
      PROVE  RefInv'
  <2>0. /\ p \in PayloadType /\ p.op \in {"create", "update", "delete"} /\ p.rows \subseteq Menus
        /\ p.to \in Menus \cup {None, Same}
        /\ OneKind(p.rows \cup {}) /\ PayloadSound(p)
    BY <1>00, MenuPayload, MenuSound DEF OneKind
  <2>1. p.new = {}
    BY SMT DEF MenuPayloads, Payload
  <2>2. CASE CreateMenu(r, p)
    <3>1. /\ Start(r, p, "commit", IdleRequest)
          /\ p.op = "create" /\ \A x \in p.rows : Unused(x)
          /\ p.to # None => Live(p.to)
      BY <2>2 DEF CreateMenu
    <3> QED BY <1>0, <2>0, <2>1, <3>1, RefStart
  <2>3. CASE UpdateMenu(r, p)
    <3> DEFINE above == IF p.to \in Menus THEN parent[p.to] ELSE None
               c == [IdleRequest EXCEPT !.above = above]
    <3>1. above \in Nodes \cup {None}
      BY DEF TypeOK, Nodes
    <3> HIDE DEF above
    <3>2. c \in RequestType /\ c.gone = {} /\ ~c.overtaken /\ c.cleared = {}
      BY <3>1, ChangeTyped, ChangeSound
    <3>3. /\ Start(r, p, "walk", c) \/ Start(r, p, "commit", c)
          /\ p.op = "update" /\ \A x \in p.rows : Live(x)
          /\ p.to \in Menus => Live(p.to)
      BY <2>3 DEF UpdateMenu, above
    <3> HIDE DEF c
    <3>4. p.to \in Nodes => Live(p.to)
      BY <1>0, <2>0, <3>3
    <3> QED BY <2>0, <2>1, <3>2, <3>3, <3>4, RefStart
  <2>4. CASE DeleteNodes(r, p)
    <3>1. p.op = "delete" /\ Start(r, p, "visit", IdleRequest)
      BY <2>4 DEF DeleteNodes
    <3> QED BY <1>0, <2>0, <2>1, <3>1, RefStart
  <2> QED BY <1>2, <2>2, <2>3, <2>4
<1>3. \A xs : LinksOf(xs) \in SUBSET Links /\ UserLinks(xs) \in SUBSET Links
  BY DEF LinksOf, UserLinks, TypeOK
<1>4. \A l \in links : l[1] \in Users \cup Roles /\ l[2] \in Roles \cup Menus
  BY DEF TypeOK, Links
<1>5. ASSUME NEW p \in UserPayloads,
             CreateUser(r, p) \/ UpdateUser(r, p) \/ DeleteUsers(r, p)
      PROVE  RefInv'
  <2>0. /\ p \in PayloadType /\ p.op \in {"create", "update", "delete"} /\ p.rows \subseteq Users
        /\ p.to \in Departments \cup {None, Same}
        /\ OneKind(p.rows \cup {}) /\ PayloadSound(p)
    BY <1>00, UserPayload, UserSound DEF OneKind
  <2>1. ValidReferences(p) => /\ p.to \in Nodes => Live(p.to)
                              /\ \A l \in p.new : Live(l[2])
    BY <1>0, <2>0 DEF ValidReferences, Live, Nodes
  <2>2. CASE CreateUser(r, p)
    <3>1. /\ Start(r, p, "commit", IdleRequest)
          /\ p.op = "create" /\ \A x \in p.rows : Unused(x)
          /\ ValidReferences(p)
      BY <2>2 DEF CreateUser
    <3> QED BY <1>0, <2>0, <2>1, <3>1, RefStart
  <2>3. CASE UpdateUser(r, p)
    <3> DEFINE cleared == IF p.assign THEN LinksOf(p.rows) ELSE {}
               c == [IdleRequest EXCEPT !.cleared = cleared]
    <3>1. /\ cleared \in SUBSET Links /\ \A l \in cleared : l[1] \in p.rows
          /\ ~p.assign => cleared = {}
      BY <1>3 DEF LinksOf
    <3>2. /\ Start(r, p, "commit", c)
          /\ p.op = "update" /\ \A x \in p.rows : Live(x)
          /\ ValidReferences(p)
      BY <2>3 DEF UpdateUser
    <3> HIDE DEF cleared
    <3>3. c \in RequestType /\ c.gone = {} /\ ~c.overtaken /\ c.cleared = cleared
      <4>1. c \in RequestType /\ c.gone = {}
        BY <3>1, ChangeTyped
      <4>2. ~c.overtaken /\ c.cleared = cleared
        BY <3>1, ChangeSound
      <4> QED BY <4>1, <4>2
    <3> HIDE DEF c
    <3> QED BY <2>0, <2>1, <3>1, <3>2, <3>3, RefStart
  <2>4. CASE DeleteUsers(r, p)
    <3>1. PICK gone \in SUBSET {u \in p.rows : Live(u)} :
              Start(r, p, "commit", [IdleRequest EXCEPT !.gone = gone, !.cleared = LinksOf(gone)])
      BY <2>4 DEF DeleteUsers
    <3> DEFINE c == [IdleRequest EXCEPT !.gone = gone, !.cleared = LinksOf(gone)]
    <3>2. gone \in SUBSET Rows /\ gone \subseteq Users /\ p.op = "delete"
      BY <2>0, <2>4 DEF Rows, DeleteUsers
    <3>3. c \in RequestType /\ c.gone = gone /\ Start(r, p, "commit", c)
      BY <1>3, <3>1, <3>2, ChangeTyped
    <3>4. ~c.overtaken /\ c.cleared = LinksOf(gone)
      BY <1>3, <3>2, ChangeSound
    <3> HIDE DEF c
    <3>5. \A x \in gone : \A l \in links : x \in {l[1], l[2]} => l \in LinksOf(gone)
      BY <1>0, <1>4, <3>2 DEF LinksOf, Nodes
    <3>6. \A l \in LinksOf(gone) : l[1] \in gone
      BY DEF LinksOf
    <3>7. \A x \in gone : Live(x) /\ x \notin Nodes
      BY <1>0, <3>2
    <3>8. OneKind(p.rows \cup gone) /\ p.new = {}
      BY <2>0, <3>2 DEF OneKind, PayloadSound
    <3> QED BY <2>0, <3>2, <3>3, <3>4, <3>5, <3>6, <3>7, <3>8, RefStart
  <2> QED BY <1>5, <2>2, <2>3, <2>4
<1>6. ASSUME NEW p \in RolePayloads,
             CreateRole(r, p) \/ UpdateRole(r, p) \/ DeleteRoles(r, p)
      PROVE  RefInv'
  <2>0. /\ p \in PayloadType /\ p.op \in {"create", "update", "delete"} /\ p.rows \subseteq Roles
        /\ p.to \notin Nodes
        /\ OneKind(p.rows \cup {}) /\ PayloadSound(p)
    BY <1>0, <1>00, RolePayload, RoleSound DEF OneKind
  <2>1. CASE CreateRole(r, p)
    <3>1. /\ Start(r, p, "commit", IdleRequest)
          /\ p.op = "create" /\ \A x \in p.rows : Unused(x)
          /\ \A l \in p.new : Live(l[2])
      BY <2>1 DEF CreateRole, ExistingMenus
    <3> QED BY <1>0, <2>0, <3>1, RefStart
  <2>2. CASE UpdateRole(r, p)
    <3> DEFINE cleared == IF p.assign THEN LinksOf(p.rows) ELSE {}
               c == [IdleRequest EXCEPT !.cleared = cleared]
    <3>1. /\ cleared \in SUBSET Links /\ \A l \in cleared : l[1] \in p.rows
          /\ ~p.assign => cleared = {}
      BY <1>3 DEF LinksOf
    <3>2. /\ Start(r, p, "commit", c)
          /\ p.op = "update" /\ \A x \in p.rows : Live(x)
          /\ \A l \in p.new : Live(l[2])
      BY <2>2 DEF UpdateRole, ExistingMenus
    <3> HIDE DEF cleared
    <3>3. c \in RequestType /\ c.gone = {} /\ ~c.overtaken /\ c.cleared = cleared
      <4>1. c \in RequestType /\ c.gone = {}
        BY <3>1, ChangeTyped
      <4>2. ~c.overtaken /\ c.cleared = cleared
        BY <3>1, ChangeSound
      <4> QED BY <4>1, <4>2
    <3> HIDE DEF c
    <3> QED BY <2>0, <3>1, <3>2, <3>3, RefStart
  <2>3. CASE DeleteRoles(r, p)
    <3>1. PICK gone \in SUBSET {o \in p.rows : Live(o)} :
              Start(r, p, "commit", [IdleRequest EXCEPT !.gone = gone,
                                       !.cleared = LinksOf(gone) \cup UserLinks(gone)])
      BY <2>3 DEF DeleteRoles
    <3> DEFINE cleared == LinksOf(gone) \cup UserLinks(gone)
               c == [IdleRequest EXCEPT !.gone = gone, !.cleared = cleared]
    <3>2. gone \in SUBSET Rows /\ gone \subseteq Roles /\ p.op = "delete"
      BY <2>0, <2>3 DEF Rows, DeleteRoles
    <3>3. cleared \in SUBSET Links /\ Start(r, p, "commit", c)
      BY <1>3, <3>1
    <3>4. /\ \A x \in gone : \A l \in links : x \in {l[1], l[2]} => l \in cleared
          /\ cleared # {} => gone # {}
      BY DEF LinksOf, UserLinks
    <3> HIDE DEF cleared
    <3>5. c \in RequestType /\ c.gone = gone /\ ~c.overtaken /\ c.cleared = cleared
      <4>1. c \in RequestType /\ c.gone = gone
        BY <3>2, <3>3, ChangeTyped
      <4>2. ~c.overtaken /\ c.cleared = cleared
        BY <3>2, <3>3, ChangeSound
      <4> QED BY <4>1, <4>2
    <3> HIDE DEF c
    <3>6. \A l \in cleared : gone \cap Roles # {}
      BY <3>2, <3>4
    <3>7. \A x \in gone : Live(x) /\ x \notin Nodes
      BY <1>0, <3>2
    <3>8. OneKind(p.rows \cup gone) /\ p.new = {}
      BY <2>0, <3>2 DEF OneKind, PayloadSound
    <3> QED BY <2>0, <3>2, <3>3, <3>4, <3>5, <3>6, <3>7, <3>8, RefStart
  <2> QED BY <1>6, <2>1, <2>2, <2>3
<1> QED BY <1>1, <1>2, <1>5, <1>6 DEF Receive

LEMMA RefHandlerStep ==
    ASSUME TypeOK, LockInv, RefInv, NEW r \in Requests, LockParent(r) \/ WalkAncestors(r)
    PROVE  RefInv'
<1>1. PICK stage \in {"hung", "commit"} : req' = [req EXCEPT ![r].stage = stage]
  BY DEF LockParent, WalkAncestors
<1> DEFINE e == [req[r] EXCEPT !.stage = stage]
<1>2. req[r] \in RequestType /\ req[r].stage \in {"lock", "walk"} /\ Unchanged
  BY DEF TypeOK, LockParent, WalkAncestors
<1>3. /\ e \in RequestType /\ e.stage = stage /\ e.p = req[r].p /\ e.gone = req[r].gone
      /\ e.cleared = req[r].cleared /\ e.overtaken = req[r].overtaken
      /\ req' = [req EXCEPT ![r] = e]
  BY <1>1, <1>2 DEF RequestType
<1> HIDE DEF e
<1>4. Sound(req[r])
  BY DEF RefInv
<1>5. Written(e) /\ Known(e)
  BY <1>2, <1>3, <1>4 DEF Sound, Written, Known
<1>6. Checked(e) /\ Emptied(e)
  BY <1>2, <1>3, <1>4 DEF Sound, Checked, Emptied, Busy
<1>7. Creating(e) => \A t \in Requests \ {r} :
         Creating(req[t]) => e.p.rows \cap req[t].p.rows = {}
  BY <1>2, <1>3 DEF RefInv, DistinctIds, Creating
<1> QED BY <1>2, <1>3, <1>5, <1>6, <1>7, RefOwnStep DEF Sound

\* A row is deleted when nothing live that stays refers to it.
LEMMA RefVisit ==
    ASSUME TypeOK, LockInv, RefInv, NEW r \in Requests, NEW x \in Nodes,
           \/ x \in Departments /\ VisitDepartment(r, x)
           \/ x \in Menus /\ VisitMenu(r, x)
    PROVE  RefInv'
<1> DEFINE q == req[r]
           stage == IF q.p.rows = {x} THEN "commit" ELSE "visit"
           keep == IF x \in Departments THEN HasActiveMembers(x) ELSE IsRoleGranted(x)
           gone == IF Live(x) /\ ~HasActiveChildren(x, q.gone) /\ ~keep
                   THEN q.gone \cup {x} ELSE q.gone
           p == [q.p EXCEPT !.rows = @ \ {x}]
           e == [q EXCEPT !.p = p, !.stage = stage, !.gone = gone]
<1>0. Departments \cap Menus = {} /\ Nodes \cap (Users \cup Roles) = {} /\ None \notin Nodes
  BY DirectoryAssumption DEF Nodes
<1>1. /\ q \in RequestType /\ q.stage = "visit" /\ x \in q.p.rows /\ Unchanged /\ q.p.op = "delete"
      /\ Sound(q)
  BY DEF TypeOK, LockInv, Shape, VisitDepartment, VisitMenu, RefInv
<1>2. req' = [req EXCEPT ![r] = e]
  BY <1>0, <1>1, ZenonT(30) DEF VisitDepartment, VisitMenu, TypeOK, RequestType
<1>3. stage \in {"visit", "commit"} /\ gone \in SUBSET Rows /\ x \in Rows
  BY <1>1 DEF RequestType, Rows
<1>4. /\ gone \subseteq q.gone \cup {x} /\ q.gone \subseteq gone
      /\ x \in gone \ q.gone => Live(x) /\ ~HasActiveChildren(x, q.gone) /\ ~keep
  OBVIOUS
<1> HIDE DEF stage, gone
<1>5. /\ e \in RequestType /\ e.gone = gone /\ e.stage = stage /\ e.cleared = q.cleared
      /\ e.overtaken = q.overtaken /\ e.p = p
  <2>1. p \in PayloadType
    BY <1>1 DEF RequestType, PayloadType
  <2> HIDE DEF p
  <2> QED BY <1>1, <1>3, <2>1 DEF RequestType
<1>6. /\ p.op = "delete" /\ p.rows = q.p.rows \ {x} /\ p.new = q.p.new /\ p.flip = q.p.flip
      /\ p.assign = q.p.assign
  BY <1>1 DEF RequestType, PayloadType
<1> HIDE DEF e, p
<1>7. Written(e)
  <2>1. OneKind(p.rows \cup gone)
    BY <1>1, <1>4, <1>6 DEF Sound, Written, OneKind
  <2>2. PayloadSound(p)
    BY <1>1, <1>6 DEF Sound, Written, PayloadSound
  <2>3. \A l \in q.cleared : l[1] \in gone \/ gone \cap Roles # {}
    BY <1>1, <1>4 DEF Sound, Written
  <2> QED BY <1>5, <1>6, <2>1, <2>2, <2>3 DEF Written
<1>8. Known(e)
  <2>1. \A y \in gone : row[y] # "none"
    BY <1>1, <1>4 DEF Sound, Known, Live
  <2> QED BY <1>1, <1>5, <1>6, <2>1 DEF Known, Sound
<1>9. Checked(e)
  BY <1>5, <1>6 DEF Checked
<1>10. Emptied(e)
  <2> SUFFICES ASSUME NEW y \in gone, ~q.overtaken
               PROVE  /\ \A n \in Nodes : Live(n) /\ parent[n] = y => n \in gone
                      /\ \A u \in Users : Live(u) => member[u] # y
                      /\ \A l \in links : y \in {l[1], l[2]} => l \in q.cleared
    BY <1>5 DEF Emptied
  <2>1. CASE y \in q.gone
    BY <1>1, <1>4, <2>1 DEF Sound, Emptied, Busy
  <2>2. CASE y \notin q.gone
    <3>1. y = x /\ ~HasActiveChildren(x, q.gone) /\ ~keep
      BY <1>4, <2>2
    <3>2. ASSUME NEW n \in Nodes, Live(n), parent[n] = x PROVE n \in gone
      <4>1. n \in TreeOf(x)
        BY <1>0, <3>2 DEF TypeOK, TreeOf, Nodes
      <4> QED BY <1>4, <3>1, <3>2, <4>1 DEF HasActiveChildren
    <3>3. ASSUME NEW u \in Users, Live(u) PROVE member[u] # x
      BY <1>0, <3>1, <3>3 DEF HasActiveMembers, TypeOK, Nodes
    <3>4. ASSUME NEW l \in links, x \in {l[1], l[2]} PROVE FALSE
      <4>1. l[1] \in Users \cup Roles /\ l[2] \in Roles \cup Menus
        BY DEF TypeOK, Links
      <4>2. x = l[2] /\ x \in Menus /\ x \notin Departments
        BY <1>0, <3>4, <4>1 DEF Nodes
      <4> QED BY <3>1, <4>2 DEF IsRoleGranted
    <3> QED BY <3>1, <3>2, <3>3, <3>4
  <2> QED BY <2>1, <2>2
<1>11. ~Creating(e)
  BY <1>5, <1>6 DEF Creating
<1> QED BY <1>1, <1>2, <1>5, <1>7, <1>8, <1>9, <1>10, <1>11, RefOwnStep DEF Sound

LEMMA RefRefuse ==
    ASSUME TypeOK, RefInv, NEW r \in Requests, Refuse(r)
    PROVE  RefInv'
<1>1. req' = [req EXCEPT ![r] = IdleRequest] /\ Unchanged
  BY DEF Refuse
<1> QED BY <1>1, IdleTyped, IdleSound, RefOwnStep

\* What a commit does to the rows and to the other requests.
LEMMA CommitEffect ==
    ASSUME TypeOK, LockInv, RefInv, NEW r \in Requests, Commit(r)
    PROVE  LET q == req[r] IN
           /\ q \in RequestType /\ q.stage = "commit" /\ q.p \in PayloadType /\ Sound(q) /\ Shape(q)
           /\ q.p.op \in {"create", "update", "delete"}
           /\ q.p.op # "delete" => q.gone = {}
           /\ \A x \in Rows : row'[x] = StatusAfter(q, x)
           /\ \A x \in Rows : x \in q.gone => ~Live(x)'
           /\ \A x \in Rows : Live(x) /\ x \notin q.gone => Live(x)'
           /\ \A x \in Rows : Live(x)' => x \notin q.gone /\ (Live(x) \/ (q.p.op = "create" /\ x \in q.p.rows))
           /\ \A x \in Rows : q.p.op = "create" /\ x \in q.p.rows => Live(x)'
           /\ \A x \in Rows : row[x] # "none" => row'[x] # "none"
           /\ \A x \in Rows : row[x] = "none" /\ ~(q.p.op = "create" /\ x \in q.p.rows) => row'[x] = "none"
           /\ \A n \in Nodes : parent'[n] = IF Places(q, n) THEN q.p.to ELSE parent[n]
           /\ \A u \in Users : member'[u] = IF Places(q, u) THEN q.p.to ELSE member[u]
           /\ links' = (links \ q.cleared) \cup q.p.new
           /\ raced' = raced \cup (IF q.overtaken THEN Refs(q) \cup q.gone \cup q.p.rows ELSE {})
           /\ req'[r] = IdleRequest
           /\ \A t \in Requests \ {r} :
                 /\ req'[t].stage = req[t].stage /\ req'[t].p = req[t].p /\ req'[t].above = req[t].above
                 /\ req'[t].gone = req[t].gone /\ req'[t].cleared = req[t].cleared
                 /\ req'[t].overtaken <=> (req[t].overtaken \/ Overtakes(q, req[t]))
<1> DEFINE q == req[r]
<1>0. /\ q \in RequestType /\ q.stage = "commit" /\ Shape(q) /\ q.p \in PayloadType /\ Sound(q)
  BY DEF TypeOK, LockInv, Commit, RequestType, RefInv
<1>1. /\ q.p.op \in {"create", "update", "delete"} /\ q.status \in {"active", "disabled"}
      /\ q.p.op # "delete" => q.gone = {}
  BY <1>0 DEF RequestType, PayloadType, Shape
<1>2. /\ row' = [x \in Rows |-> StatusAfter(q, x)]
      /\ parent' = [n \in Nodes |-> IF Places(q, n) THEN q.p.to ELSE parent[n]]
      /\ member' = [u \in Users |-> IF Places(q, u) THEN q.p.to ELSE member[u]]
      /\ links' = (links \ q.cleared) \cup q.p.new
      /\ raced' = raced \cup (IF q.overtaken THEN Refs(q) \cup q.gone \cup q.p.rows ELSE {})
      /\ req' = [t \in Requests |->
                   IF t = r THEN IdleRequest
                   ELSE [req[t] EXCEPT !.overtaken = @ \/ Overtakes(q, req[t])]]
  BY DEF Commit
<1>3. ASSUME NEW t \in Requests \ {r}
      PROVE  /\ req'[t].stage = req[t].stage /\ req'[t].p = req[t].p /\ req'[t].above = req[t].above
             /\ req'[t].gone = req[t].gone /\ req'[t].cleared = req[t].cleared
             /\ req'[t].overtaken <=> (req[t].overtaken \/ Overtakes(q, req[t]))
  <2>1. req[t] \in RequestType /\ req'[t] = [req[t] EXCEPT !.overtaken = @ \/ Overtakes(q, req[t])]
    BY <1>2 DEF TypeOK
  <2> QED BY <2>1 DEF RequestType
<1>4. req'[r] = IdleRequest
  BY <1>2
<1>5. \A x \in Rows : row'[x] = StatusAfter(q, x)
  BY <1>2
<1>6. /\ q.p.op = "create" => \A x \in q.p.rows : row[x] = "none"
      /\ \A x \in q.gone : row[x] # "none"
  BY <1>0 DEF Sound, Known
<1>7. ASSUME NEW x \in Rows
      PROVE  /\ x \in q.gone => ~Live(x)'
             /\ Live(x) /\ x \notin q.gone => Live(x)'
             /\ Live(x)' => x \notin q.gone /\ (Live(x) \/ (q.p.op = "create" /\ x \in q.p.rows))
             /\ q.p.op = "create" /\ x \in q.p.rows => Live(x)'
             /\ row[x] # "none" => row'[x] # "none"
             /\ row[x] = "none" /\ ~(q.p.op = "create" /\ x \in q.p.rows) => row'[x] = "none"
  <2>1. row'[x] = StatusAfter(q, x)
    BY <1>5
  <2> QED BY <1>1, <1>6, <2>1 DEF StatusAfter, Live
<1>8. /\ \A n \in Nodes : parent'[n] = IF Places(q, n) THEN q.p.to ELSE parent[n]
      /\ \A u \in Users : member'[u] = IF Places(q, u) THEN q.p.to ELSE member[u]
      /\ links' = (links \ q.cleared) \cup q.p.new
      /\ raced' = raced \cup (IF q.overtaken THEN Refs(q) \cup q.gone \cup q.p.rows ELSE {})
  BY <1>2
<1> HIDE DEF q
<1>9. \A x \in Rows : /\ x \in q.gone => ~Live(x)'
                      /\ Live(x) /\ x \notin q.gone => Live(x)'
                      /\ Live(x)' => x \notin q.gone /\ (Live(x) \/ (q.p.op = "create" /\ x \in q.p.rows))
                      /\ q.p.op = "create" /\ x \in q.p.rows => Live(x)'
                      /\ row[x] # "none" => row'[x] # "none"
                      /\ row[x] = "none" /\ ~(q.p.op = "create" /\ x \in q.p.rows) => row'[x] = "none"
  BY <1>7
<1> QED BY <1>0, <1>1, <1>3, <1>4, <1>5, <1>8, <1>9 DEF q

\* The rows a commit refers to.
LEMMA RefsOf ==
    ASSUME NEW q \in RequestType, q.p.op \in {"create", "update"}, PayloadSound(q.p)
    PROVE  /\ q.p.to \in Nodes => q.p.to \in Refs(q)
           /\ \A l \in q.p.new : l[1] \in Refs(q) /\ l[2] \in Refs(q)
<1>1. q.p.to \in Nodes => q.p.to \in Refs(q)
  BY DirectoryAssumption DEF Refs, Nodes
<1>2. \A l \in q.p.new : l[1] \in q.p.rows
  BY DEF PayloadSound
<1> QED BY <1>1, <1>2 DEF Refs

LEMMA RefCommit ==
    ASSUME TypeOK, LockInv, RefInv, NEW r \in Requests, Commit(r)
    PROVE  RefInv'
<1> DEFINE q == req[r]
           LiveNow(x) == row'[x] \in {"active", "disabled"}
<1>0. /\ q \in RequestType /\ q.stage = "commit" /\ q.p \in PayloadType /\ Sound(q) /\ Shape(q)
      /\ q.p.op \in {"create", "update", "delete"}
      /\ q.p.op # "delete" => q.gone = {}
      /\ req'[r] = IdleRequest
      /\ links' = (links \ q.cleared) \cup q.p.new
      /\ raced' = raced \cup (IF q.overtaken THEN Refs(q) \cup q.gone \cup q.p.rows ELSE {})
  BY CommitEffect
<1>1. \A x \in Rows :
        /\ x \in q.gone => ~LiveNow(x)
        /\ Live(x) /\ x \notin q.gone => LiveNow(x)
        /\ LiveNow(x) => x \notin q.gone /\ (Live(x) \/ (q.p.op = "create" /\ x \in q.p.rows))
        /\ q.p.op = "create" /\ x \in q.p.rows => LiveNow(x)
        /\ row[x] # "none" => row'[x] # "none"
        /\ row[x] = "none" /\ ~(q.p.op = "create" /\ x \in q.p.rows) => row'[x] = "none"
  BY CommitEffect DEF Live
<1>2. /\ \A n \in Nodes : parent'[n] = IF Places(q, n) THEN q.p.to ELSE parent[n]
      /\ \A u \in Users : member'[u] = IF Places(q, u) THEN q.p.to ELSE member[u]
  BY CommitEffect
<1>3. \A t \in Requests \ {r} :
         /\ req'[t].stage = req[t].stage /\ req'[t].p = req[t].p
         /\ req'[t].gone = req[t].gone /\ req'[t].cleared = req[t].cleared
         /\ req'[t].overtaken <=> (req[t].overtaken \/ Overtakes(q, req[t]))
  BY CommitEffect
<1>4. /\ q.p.rows \subseteq Rows /\ q.p.to \in Nodes \cup {None, Same} /\ q.p.new \subseteq Links
      /\ q.gone \subseteq Rows
  BY <1>0 DEF RequestType, PayloadType
<1>5. \A l \in Links : l[1] \in Rows /\ l[2] \in Rows
  BY DEF Links, Rows, Nodes
<1>6. \A x \in Nodes \cup Users : x \in Rows
  BY DEF Rows
<1>7. /\ q.p.op \in {"create", "update"} /\ q.p.to \in Nodes => q.p.to \in Refs(q)
      /\ \A l \in q.p.new : l[1] \in Refs(q) /\ l[2] \in Refs(q) /\ l[1] \in q.p.rows
      /\ q.p.new # {} => q.p.op # "delete"
  <2>1. q.p.new # {} => q.p.op \in {"create", "update"}
    BY <1>0 DEF Sound, Written, PayloadSound
  <2>2. PayloadSound(q.p)
    BY <1>0 DEF Sound, Written
  <2>3. q.p.op \in {"create", "update"} =>
           /\ q.p.to \in Nodes => q.p.to \in Refs(q)
           /\ \A l \in q.p.new : l[1] \in Refs(q) /\ l[2] \in Refs(q)
    BY <1>0, <2>2, RefsOf
  <2> QED BY <2>1, <2>2, <2>3 DEF PayloadSound
\* What the commit refers to, unless it was overtaken, is live afterwards.
<1>8. ~q.overtaken =>
         /\ q.p.op \in {"create", "update"} /\ q.p.to \in Nodes => LiveNow(q.p.to)
         /\ \A l \in q.p.new : LiveNow(l[1]) /\ LiveNow(l[2])
  <2> SUFFICES ASSUME ~q.overtaken
               PROVE  /\ q.p.op \in {"create", "update"} /\ q.p.to \in Nodes => LiveNow(q.p.to)
                      /\ \A l \in q.p.new : LiveNow(l[1]) /\ LiveNow(l[2])
    OBVIOUS
  <2>1. q.p.op # "delete" =>
           /\ q.p.to \in Nodes => Live(q.p.to)
           /\ \A l \in q.p.new : (Live(l[1]) \/ q.p.op = "create") /\ Live(l[2])
    BY <1>0 DEF Sound, Checked, Busy
  <2> QED BY <1>0, <1>1, <1>4, <1>5, <1>6, <1>7, <2>1
\* A node or user that is live afterwards and was not placed was live before.
<1>9. ASSUME NEW x \in Nodes \cup Users, LiveNow(x), ~Places(q, x)
      PROVE  Live(x) /\ x \notin q.gone
  <2>1. ~(q.p.op = "create" /\ x \in q.p.rows)
    BY <1>0, <1>9 DEF Places, Sound, Written, PayloadSound
  <2> QED BY <1>1, <1>6, <1>9, <2>1
<1>10. \A x : Places(q, x) => q.p.op \in {"create", "update"} /\ q.p.to # Same
  BY <1>0 DEF Places
<1>11. raced \subseteq raced' /\ (q.overtaken => Refs(q) \cup q.gone \subseteq raced')
  BY <1>0
<1>12. \A x \in q.gone : ~q.overtaken =>
            /\ \A n \in Nodes : Live(n) /\ parent[n] = x => n \in q.gone
            /\ \A u \in Users : Live(u) => member[u] # x
            /\ \A l \in links : x \in {l[1], l[2]} => l \in q.cleared
  BY <1>0 DEF Sound, Emptied, Busy
<1> HIDE DEF q
<1>13. RefsNeedRace'
  <2>1. ASSUME NEW n \in Nodes, LiveNow(n), parent'[n] # None
        PROVE  LiveNow(parent'[n]) \/ parent'[n] \in raced'
    <3>1. CASE Places(q, n)
      <4>1. parent'[n] = q.p.to /\ q.p.to \in Nodes
        BY <1>2, <1>4, <1>10, <2>1, <3>1
      <4> QED BY <1>7, <1>8, <1>10, <1>11, <3>1, <4>1
    <3>2. CASE ~Places(q, n)
      <4>1. parent'[n] = parent[n] /\ Live(n) /\ n \notin q.gone
        BY <1>2, <1>9, <2>1, <3>2
      <4>2. parent[n] \in Nodes /\ (Live(parent[n]) \/ parent[n] \in raced)
        BY <2>1, <4>1 DEF RefInv, RefsNeedRace, TypeOK
      <4>3. parent[n] \in q.gone => q.overtaken
        BY <1>12, <4>1
      <4> QED BY <1>1, <1>6, <1>11, <4>1, <4>2, <4>3
    <3> QED BY <3>1, <3>2
  <2>2. ASSUME NEW u \in Users, LiveNow(u), member'[u] # None
        PROVE  LiveNow(member'[u]) \/ member'[u] \in raced'
    <3>1. CASE Places(q, u)
      <4>1. member'[u] = q.p.to /\ q.p.to \in Nodes
        BY <1>2, <1>4, <1>10, <2>2, <3>1
      <4> QED BY <1>7, <1>8, <1>10, <1>11, <3>1, <4>1
    <3>2. CASE ~Places(q, u)
      <4>1. member'[u] = member[u] /\ Live(u)
        BY <1>2, <1>9, <2>2, <3>2
      <4>2. member[u] \in Rows /\ (Live(member[u]) \/ member[u] \in raced)
        BY <2>2, <4>1 DEF RefInv, RefsNeedRace, TypeOK, Rows, Nodes
      <4>3. member[u] \in q.gone => q.overtaken
        BY <1>12, <4>1
      <4> QED BY <1>1, <1>11, <4>1, <4>2, <4>3
    <3> QED BY <3>1, <3>2
  <2>3. ASSUME NEW l \in links'
        PROVE  (LiveNow(l[1]) /\ LiveNow(l[2])) \/ {l[1], l[2]} \cap raced' # {}
    <3>1. CASE l \in q.p.new
      BY <1>7, <1>8, <1>11, <3>1
    <3>2. CASE l \in links /\ l \notin q.cleared
      <4>1. l[1] \in Rows /\ l[2] \in Rows
        BY <1>5, <3>2 DEF TypeOK
      <4>2. (Live(l[1]) /\ Live(l[2])) \/ {l[1], l[2]} \cap raced # {}
        BY <3>2 DEF RefInv, RefsNeedRace
      <4>3. {l[1], l[2]} \cap q.gone # {} => q.overtaken
        BY <1>12, <3>2
      <4> QED BY <1>1, <1>11, <4>1, <4>2, <4>3
    <3> QED BY <1>0, <2>3, <3>1, <3>2
  <2> QED BY <2>1, <2>2, <2>3 DEF RefsNeedRace, Live
<1>14. RefsExist'
  <2>1. q.p.op \in {"create", "update"} /\ q.p.to \in Nodes => row'[q.p.to] # "none"
    BY <1>0, <1>1, <1>4, <1>6 DEF Sound, Known
  <2>2. ASSUME NEW l \in q.p.new PROVE row'[l[1]] # "none" /\ row'[l[2]] # "none"
    <3>1. l[1] \in q.p.rows /\ row[l[2]] # "none" /\ q.p.op \in {"create", "update"}
          /\ l[1] \in Rows /\ l[2] \in Rows
      BY <1>0, <1>4, <1>5, <1>7 DEF Sound, Known
    <3>2. q.p.op = "update" => row[l[1]] # "none"
      BY <1>0, <3>1 DEF Sound, Known
    <3>3. q.p.op = "create" => LiveNow(l[1])
      BY <1>1, <3>1
    <3> QED BY <1>1, <3>1, <3>2, <3>3
  <2>3. ASSUME NEW l \in links PROVE row'[l[1]] # "none" /\ row'[l[2]] # "none"
    BY <1>1, <1>5 DEF RefInv, RefsExist, TypeOK
  <2>4. ASSUME NEW n \in Nodes, parent'[n] # None PROVE row'[parent'[n]] # "none"
    <3>1. CASE Places(q, n)
      BY <1>2, <1>4, <1>10, <2>1, <2>4, <3>1
    <3>2. CASE ~Places(q, n)
      <4>1. parent'[n] = parent[n] /\ parent[n] \in Nodes /\ row[parent[n]] # "none"
        BY <1>2, <2>4, <3>2 DEF RefInv, RefsExist, TypeOK
      <4> QED BY <1>1, <1>6, <4>1
    <3> QED BY <3>1, <3>2
  <2>5. \A l \in links' : row'[l[1]] # "none" /\ row'[l[2]] # "none"
    BY <1>0, <2>2, <2>3
  <2> QED BY <2>4, <2>5 DEF RefsExist
<1>15. DistinctIds'
  BY <1>0, <1>3, IdleSound DEF RefInv, DistinctIds, Creating
<1>16. ASSUME NEW t \in Requests \ {r} PROVE Sound(req[t])'
  <2> DEFINE s == req[t]
  <2>1. /\ s \in RequestType /\ Sound(s) /\ s.p.rows \subseteq Rows /\ s.gone \subseteq Rows
        /\ s.p.new \subseteq Links /\ s.p.op \in {"none", "create", "update", "delete"}
        /\ s.stage # "idle" => s.p.op # "none"
    BY DEF RefInv, TypeOK, RequestType, PayloadType, LockInv, Shape
  <2>2. /\ req'[t].stage = s.stage /\ req'[t].p = s.p
        /\ req'[t].gone = s.gone /\ req'[t].cleared = s.cleared
        /\ req'[t].overtaken <=> (s.overtaken \/ Overtakes(q, s))
    BY <1>3
  <2>3. s.stage \in Busy /\ ~req'[t].overtaken =>
           ~s.overtaken /\ q.gone \cap Refs(s) = {} /\ Refs(q) \cap s.gone = {}
    BY <2>2 DEF Overtakes, Busy
  <2>4. Written(req[t])'
    BY <2>1, <2>2 DEF Sound, Written
  <2>5. ASSUME s.stage # "idle", s.p.op = "create", NEW x \in s.p.rows PROVE row'[x] = "none"
    <3>1. row[x] = "none" /\ x \in Rows
      BY <2>1, <2>5 DEF Sound, Known
    <3>2. ~(q.p.op = "create" /\ x \in q.p.rows)
      BY <1>0, <2>5 DEF RefInv, DistinctIds, Creating, q
    <3> QED BY <1>1, <3>1, <3>2
  <2>6. Known(req[t])'
    <3>1. ASSUME s.stage # "idle"
          PROVE  /\ s.p.op = "update" => \A x \in s.p.rows : row'[x] # "none"
                 /\ \A l \in s.p.new : row'[l[2]] # "none"
                 /\ \A x \in s.gone : row'[x] # "none"
                 /\ s.p.op # "delete" /\ s.p.to \in Nodes => row'[s.p.to] # "none"
      BY <1>1, <1>5, <1>6, <2>1, <3>1 DEF Sound, Known
    <3> HIDE DEF s
    <3> QED BY <2>2, <2>5, <3>1 DEF Known
  <2>7. Checked(req[t])'
    <3>1. ASSUME s.stage \in Busy, s.p.op # "delete", ~req'[t].overtaken
          PROVE  /\ s.p.to \in Nodes => LiveNow(s.p.to)
                 /\ \A l \in s.p.new : (LiveNow(l[1]) \/ s.p.op = "create") /\ LiveNow(l[2])
      <4>1. ~s.overtaken /\ q.gone \cap Refs(s) = {}
        BY <2>3, <3>1
      <4>2. s.p.op \in {"create", "update"} /\ PayloadSound(s.p)
        BY <2>1, <3>1 DEF Busy, Sound, Written
      <4>3. /\ s.p.to \in Nodes => s.p.to \in Refs(s)
            /\ \A l \in s.p.new : l[1] \in Refs(s) /\ l[2] \in Refs(s)
        BY <2>1, <4>2, RefsOf
      <4>4. /\ s.p.to \in Nodes => Live(s.p.to)
            /\ \A l \in s.p.new : (Live(l[1]) \/ s.p.op = "create") /\ Live(l[2])
        BY <2>1, <3>1, <4>1 DEF Sound, Checked
      <4> QED BY <1>1, <1>5, <1>6, <2>1, <4>1, <4>3, <4>4
    <3> HIDE DEF s
    <3> QED BY <2>2, <3>1 DEF Checked, Live
  <2>8. Emptied(req[t])'
    <3>1. ASSUME s.stage \in Busy, ~req'[t].overtaken, NEW x \in s.gone
          PROVE  /\ \A n \in Nodes : LiveNow(n) /\ parent'[n] = x => n \in s.gone
                 /\ \A u \in Users : LiveNow(u) => member'[u] # x
                 /\ \A l \in links' : x \in {l[1], l[2]} => l \in s.cleared
      <4>1. ~s.overtaken /\ x \notin Refs(q) /\ x \in Rows
        BY <2>1, <2>3, <3>1
      <4>2. /\ \A n \in Nodes : Live(n) /\ parent[n] = x => n \in s.gone
            /\ \A u \in Users : Live(u) => member[u] # x
            /\ \A l \in links : x \in {l[1], l[2]} => l \in s.cleared
        BY <2>1, <3>1, <4>1 DEF Sound, Emptied
      <4>3. x # None /\ x # Same
        BY <4>1, DirectoryAssumption DEF Rows, Nodes
      <4>4. \A y : Places(q, y) => q.p.to # x
        BY <1>4, <1>7, <1>10, <4>1, <4>3
      <4>5. ASSUME NEW n \in Nodes, LiveNow(n), parent'[n] = x PROVE n \in s.gone
        BY <1>2, <1>9, <4>2, <4>4, <4>5
      <4>6. ASSUME NEW u \in Users, LiveNow(u) PROVE member'[u] # x
        BY <1>2, <1>9, <4>2, <4>4, <4>6
      <4>7. ASSUME NEW l \in links', x \in {l[1], l[2]} PROVE l \in s.cleared
        BY <1>0, <1>7, <4>1, <4>2, <4>7
      <4> QED BY <4>5, <4>6, <4>7
    <3> HIDE DEF s
    <3> QED BY <2>2, <3>1 DEF Emptied, Live
  <2> QED BY <2>4, <2>6, <2>7, <2>8 DEF Sound
<1>17. Sound(req[r])'
  <2>1. Sound(IdleRequest)'
    <3>1. /\ IdleRequest.gone = {} /\ IdleRequest.stage = "idle"
      BY IdleTyped
    <3>2. Written(IdleRequest)
      BY IdleSound DEF Sound
    <3> QED BY <3>1, <3>2 DEF Sound, Known, Checked, Emptied, Busy, Written
  <2> QED BY <1>0, <2>1 DEF Sound, Known, Checked, Emptied, Written
<1> QED BY <1>13, <1>14, <1>15, <1>16, <1>17 DEF RefInv

LEMMA RefInit == Init => RefInv
<1> SUFFICES ASSUME Init PROVE RefInv
  OBVIOUS
<1>1. \A r \in Requests : req[r] = IdleRequest
  BY DEF Init
<1>2. \A r \in Requests : Sound(req[r])
  BY <1>1, IdleSound
<1>3. DistinctIds
  BY <1>1, IdleSound DEF DistinctIds
<1>4. \A x : Live(x) => row[x] # "none"
  BY DEF Live
<1>5. RefsExist
  BY <1>4 DEF Init, RefsExist
<1>6. RefsNeedRace
  BY DEF Init, RefsNeedRace
<1> QED BY <1>2, <1>3, <1>5, <1>6 DEF RefInv

LEMMA RefStep == TypeOK /\ LockInv /\ RefInv /\ [Next]_vars => RefInv'
<1> SUFFICES ASSUME TypeOK, LockInv, RefInv, [Next]_vars PROVE RefInv'
  OBVIOUS
<1>1. CASE UNCHANGED vars
  BY <1>1, SMTT(30) DEF vars, RefInv, Sound, Written, Known, Checked, Emptied, DistinctIds, RefsExist,
              RefsNeedRace, Live
<1>2. ASSUME NEW r \in Requests, HandlerStep(r) PROVE RefInv'
  <2>1. Departments \subseteq Nodes /\ Menus \subseteq Nodes
    BY DEF Nodes
  <2> QED BY <1>2, <2>1, RefHandlerStep, RefVisit DEF HandlerStep
<1> QED BY <1>1, <1>2, RefReceive, RefCommit, RefRefuse DEF Next

LEMMA RefInductive == Spec => [](TypeOK /\ LockInv /\ RefInv)
  BY Inductive, RefInit, RefStep, PTL DEF Spec

\* In a directory of any size, with any number of requests, a live row or a link
\* refers to a deleted row only if the check of one request was overtaken by the
\* commit of another: the services' checks replace the foreign keys otherwise.
THEOREM RefsKept == Spec => []RefsNeedRace
<1>1. RefInv => RefsNeedRace
  BY DEF RefInv
<1> QED BY <1>1, RefInductive, PTL

-----------------------------------------------------------------------------
(* Permission snapshots.                                                   *)

\* What has to stay for a user's snapshot to stay.
LEMMA SnapshotKept ==
    ASSUME NEW u \in Users,
           \A o \in Roles : <<u, o>> \in links' <=> <<u, o>> \in links,
           \A o \in Roles : <<u, o>> \in links => row'[o] = row[o],
           \A o \in Roles, m \in Menus :
              <<u, o>> \in links => (<<o, m>> \in links' <=> <<o, m>> \in links),
           \A o \in Roles, m \in Menus : <<o, m>> \in links => row'[m] = row[m]
    PROVE  PermissionSnapshot(u)' = PermissionSnapshot(u)
<1> DEFINE held == {o \in Roles : <<u, o>> \in links /\ row[o] = "active"}
           heldNow == {o \in Roles : <<u, o>> \in links' /\ row'[o] = "active"}
           menus == {m \in Menus : row[m] = "active" /\ \E o \in held : <<o, m>> \in links}
           menusNow == {m \in Menus : row'[m] = "active" /\ \E o \in heldNow : <<o, m>> \in links'}
<1>1. heldNow = held
  OBVIOUS
<1>2. menusNow = menus
  <2>1. ASSUME NEW m \in Menus, NEW o \in held
        PROVE  row'[m] = "active" /\ <<o, m>> \in links' <=> row[m] = "active" /\ <<o, m>> \in links
    OBVIOUS
  <2> HIDE DEF held, heldNow
  <2> QED BY <1>1, <2>1
<1> HIDE DEF held, heldNow, menus, menusNow
<1>3. PermissionSnapshot(u) = <<held, menus>>
  BY DEF PermissionSnapshot, held, menus
<1>4. PermissionSnapshot(u)' = <<heldNow, menusNow>>
  BY DEF PermissionSnapshot, heldNow, menusNow
<1> QED BY <1>1, <1>2, <1>3, <1>4

\* A commit that drops no snapshot of a live user, and was not overtaken, changes
\* nothing that the snapshot is made of.
LEMMA CommitHooks ==
    ASSUME TypeOK, LockInv, RefInv, NEW r \in Requests, Commit(r), NEW u \in Users,
           Live(u), Live(u)', ~req[r].overtaken, u \notin Invalidated(req[r])
    PROVE  PermissionSnapshot(u)' = PermissionSnapshot(u)
<1> DEFINE q == req[r]
<1>0. /\ q \in RequestType /\ q.stage = "commit" /\ Sound(q)
      /\ q.p.op \in {"create", "update", "delete"}
      /\ q.p.op # "delete" => q.gone = {}
      /\ links' = (links \ q.cleared) \cup q.p.new
      /\ \A x \in Rows : row'[x] = StatusAfter(q, x)
  BY CommitEffect
<1>1. /\ Departments \cap Menus = {} /\ Nodes \cap (Users \cup Roles) = {} /\ Users \cap Roles = {}
      /\ Roles \subseteq Rows /\ Menus \subseteq Rows /\ Menus \subseteq Nodes
      /\ Departments \subseteq Nodes /\ Users \subseteq Rows
  BY DirectoryAssumption DEF Nodes, Rows
<1>2. /\ \A l \in q.p.new : l[1] \in Users \cup Roles
      /\ \A l \in q.cleared : l[1] \in Users \cup Roles
  BY <1>0 DEF RequestType, PayloadType, Links
<1>3. /\ OneKind(q.p.rows \cup q.gone) /\ PayloadSound(q.p)
      /\ q.p.op = "create" => q.cleared = {}
      /\ q.p.op = "update" => /\ \A l \in q.cleared : l[1] \in q.p.rows
                              /\ ~q.p.assign => q.cleared = {}
      /\ q.p.op = "delete" => \A l \in q.cleared : l[1] \in q.gone \/ q.gone \cap Roles # {}
  BY <1>0 DEF Sound, Written
<1>4. \A x \in Rows : row'[x] # row[x] => x \in q.gone \/ (x \in q.p.rows /\ (q.p.op = "create" \/ q.p.flip))
  BY <1>0 DEF StatusAfter
<1>5. /\ \A l \in links : row[l[1]] # "none" /\ row[l[2]] # "none"
      /\ row[u] # "none"
  BY DEF RefInv, RefsExist, Live
<1>6. u \notin q.gone
  BY CommitEffect, <1>1
<1>7. q.p.new # {} => q.p.assign /\ q.p.op # "delete"
  BY <1>3 DEF PayloadSound
<1>8. \A l \in q.p.new : l[1] \in q.p.rows
  BY <1>3 DEF PayloadSound
<1>9. q.p.flip => q.p.rows \subseteq Roles \cup Menus
  BY <1>3 DEF PayloadSound
<1>10. q.p.op = "create" => \A x \in q.p.rows : row[x] = "none"
  BY <1>0 DEF Sound, Known
<1>11. \A x \in q.gone : \A l \in links : x \in {l[1], l[2]} => l \in q.cleared
  BY <1>0 DEF Sound, Emptied, Busy
<1>12. \A o, m : <<o, m>>[1] = o /\ <<o, m>>[2] = m
  OBVIOUS
<1>13. CASE q.p.op = "create"
  <2>1. links' = links \cup q.p.new /\ u \notin q.p.rows /\ q.gone = {}
    BY <1>0, <1>3, <1>5, <1>10, <1>13
  <2>2. \A o \in Roles : <<u, o>> \in links' <=> <<u, o>> \in links
    BY <1>8, <1>12, <2>1
  <2>3. \A o \in Roles : <<u, o>> \in links => o \notin q.p.rows
    BY <1>5, <1>10, <1>12, <1>13
  <2>4. \A o \in Roles : <<u, o>> \in links => row'[o] = row[o]
    BY <1>1, <1>4, <2>1, <2>3
  <2>5. \A o \in Roles, m \in Menus :
           <<u, o>> \in links => (<<o, m>> \in links' <=> <<o, m>> \in links)
    BY <1>8, <1>12, <2>1, <2>3
  <2>6. \A o \in Roles, m \in Menus : <<o, m>> \in links => m \notin q.p.rows
    BY <1>5, <1>10, <1>12, <1>13
  <2>7. \A o \in Roles, m \in Menus : <<o, m>> \in links => row'[m] = row[m]
    BY <1>1, <1>4, <2>1, <2>6
  <2> QED BY <2>2, <2>4, <2>5, <2>7, SnapshotKept
\* Writes that touch neither roles nor menus, nor the links of u or of a role.
<1>14. ASSUME q.p.op # "create",
              q.gone \cap (Roles \cup Menus) = {}, ~q.p.flip \/ q.p.rows \cap (Roles \cup Menus) = {},
              \A l \in q.p.new \cup q.cleared : l[1] # u /\ l[1] \notin Roles
       PROVE  PermissionSnapshot(u)' = PermissionSnapshot(u)
  <2>1. \A x \in Roles \cup Menus : row'[x] = row[x]
    BY <1>1, <1>4, <1>14
  <2>2. \A o \in Roles : <<u, o>> \in links' <=> <<u, o>> \in links
    BY <1>0, <1>12, <1>14
  <2>3. \A o \in Roles, m \in Menus : <<o, m>> \in links' <=> <<o, m>> \in links
    BY <1>0, <1>12, <1>14
  <2> QED BY <2>1, <2>2, <2>3, SnapshotKept
<1>15. CASE q.p.op = "update"
  <2>0. q.gone = {} /\ q.gone \cap Roles = {}
    BY <1>0, <1>15
  <2>1. \A l \in q.p.new \cup q.cleared : l[1] \in q.p.rows /\ q.p.assign
    BY <1>3, <1>7, <1>8, <1>15
  <2>2. CASE q.p.rows \subseteq Departments \/ q.p.rows = {}
    BY <1>1, <1>2, <1>14, <1>15, <2>0, <2>1, <2>2
  <2>3. CASE q.p.rows \subseteq Users /\ q.p.rows # {}
    <3>1. ~q.p.assign \/ u \notin q.p.rows
      BY <1>1, <1>15, <2>3 DEF Invalidated
    <3>2. q.p.rows \cap Roles = {} /\ q.p.rows \cap Menus = {}
      BY <1>1, <2>3
    <3> QED BY <1>14, <1>15, <2>0, <2>1, <3>1, <3>2
  <2>4. CASE q.p.rows \subseteq Roles /\ q.p.rows # {}
    <3>1. ~q.p.assign /\ ~q.p.flip
      <4>1. ~(q.p.rows \subseteq Users) /\ ~(q.p.rows \subseteq Menus)
        BY <1>1, <2>4
      <4> QED BY <1>15, <2>4, <4>1 DEF Invalidated
    <3> QED BY <1>14, <1>15, <2>0, <2>1, <3>1
  <2>5. CASE q.p.rows \subseteq Menus /\ q.p.rows # {}
    <3>1. ~q.p.flip
      <4>1. ~(q.p.rows \subseteq Users) /\ ~(q.p.rows \subseteq Roles)
        BY <1>1, <2>5
      <4> QED BY <1>15, <2>5, <4>1 DEF Invalidated
    <3>2. q.p.rows \cap (Users \cup Roles) = {}
      BY <1>1, <2>5
    <3> QED BY <1>2, <1>14, <1>15, <2>0, <2>1, <3>1, <3>2
  <2> QED BY <1>3, <2>2, <2>3, <2>4, <2>5 DEF OneKind
<1>16. CASE q.p.op = "delete"
  <2>1. q.p.new = {}
    BY <1>7, <1>16
  <2>2. ~q.p.flip
    BY <1>3, <1>16 DEF PayloadSound
  <2>3. \A x \in Rows : row'[x] # row[x] => x \in q.gone
    BY <1>4, <1>16, <2>2
  <2>4. CASE q.gone \subseteq Departments \/ q.gone \subseteq Users
    <3>1. /\ \A x \in Roles \cup Menus : row'[x] = row[x]
          /\ q.gone \cap Roles = {}
      BY <1>1, <2>3, <2>4
    <3>2. \A l \in q.cleared : l[1] \in q.gone /\ l[1] # u /\ l[1] \notin Roles
      BY <1>1, <1>3, <1>6, <1>16, <2>4, <3>1
    <3>3. \A o \in Roles : <<u, o>> \in links' <=> <<u, o>> \in links
      BY <1>0, <1>12, <2>1, <3>2
    <3>4. \A o \in Roles, m \in Menus : <<o, m>> \in links' <=> <<o, m>> \in links
      BY <1>0, <1>12, <2>1, <3>2
    <3> QED BY <3>1, <3>3, <3>4, SnapshotKept
  <2>5. CASE q.gone \subseteq Roles
    <3>1. q.gone = {}
      BY <1>16, <2>5 DEF Invalidated
    <3> QED BY <2>4, <3>1
  <2>6. CASE q.gone \subseteq Menus
    <3>1. q.gone \cap Roles = {} /\ q.gone \cap (Users \cup Roles) = {}
      BY <1>1, <2>6
    <3>2. q.cleared = {}
      BY <1>2, <1>3, <1>16, <3>1
    <3>3. links' = links /\ \A o \in Roles : row'[o] = row[o]
      BY <1>0, <1>1, <2>1, <2>3, <3>1, <3>2
    <3>4. \A o \in Roles, m \in Menus : <<o, m>> \in links => m \notin q.gone
      BY <1>11, <1>12, <3>2
    <3>5. \A o \in Roles, m \in Menus : <<o, m>> \in links => row'[m] = row[m]
      BY <1>1, <2>3, <3>4
    <3> QED BY <3>3, <3>5, SnapshotKept
  <2> QED BY <1>3, <2>4, <2>5, <2>6 DEF OneKind
<1> QED BY <1>0, <1>13, <1>15, <1>16

\* The commit that changes what a live user may do drops that user's snapshot.
HookStep ==
    \A u \in Users :
         Live(u) /\ Live(u)' /\ PermissionSnapshot(u)' # PermissionSnapshot(u)
         => \E r \in Requests :
                /\ req[r].stage = "commit"
                /\ req'[r].stage = "idle"
                /\ (u \in Invalidated(req[r]) \/ req[r].overtaken)

\* A request that is received has only been read for.
LEMMA StartsQuiet ==
    ASSUME NEW r, NEW p,
           \/ CreateDepartment(r, p) \/ UpdateDepartment(r, p) \/ DeleteNodes(r, p)
           \/ CreateMenu(r, p) \/ UpdateMenu(r, p) \/ CreateUser(r, p) \/ UpdateUser(r, p)
           \/ DeleteUsers(r, p) \/ CreateRole(r, p) \/ UpdateRole(r, p) \/ DeleteRoles(r, p)
    PROVE  Unchanged
<1>1. \A stage, change : Start(r, p, stage, change) => Unchanged
  BY DEF Start
<1> QED BY <1>1 DEF CreateDepartment, UpdateDepartment, DeleteNodes, CreateMenu, UpdateMenu,
              CreateUser, UpdateUser, DeleteUsers, CreateRole, UpdateRole, DeleteRoles

LEMMA NextHooks == TypeOK /\ LockInv /\ RefInv /\ [Next]_vars => HookStep
<1> SUFFICES ASSUME TypeOK, LockInv, RefInv, [Next]_vars, NEW u \in Users,
                    Live(u), Live(u)', PermissionSnapshot(u)' # PermissionSnapshot(u)
             PROVE  \E r \in Requests :
                       /\ req[r].stage = "commit"
                       /\ req'[r].stage = "idle"
                       /\ (u \in Invalidated(req[r]) \/ req[r].overtaken)
  BY DEF HookStep
<1>1. ~(Unchanged \/ UNCHANGED vars)
  BY DEF Unchanged, vars, PermissionSnapshot
<1>2. PICK r \in Requests : Commit(r)
  <2>1. PICK r \in Requests : Receive(r) \/ HandlerStep(r) \/ Commit(r) \/ Refuse(r)
    BY <1>1 DEF Next
  <2>2. Receive(r) => Unchanged
    BY StartsQuiet DEF Receive
  <2>3. HandlerStep(r) \/ Refuse(r) => Unchanged
    BY DEF HandlerStep, Refuse, LockParent, WalkAncestors, VisitDepartment, VisitMenu
  <2> QED BY <1>1, <2>1, <2>2, <2>3
<1>3. req[r].stage = "commit" /\ req'[r].stage = "idle"
  BY <1>2, CommitEffect, IdleTyped
<1>4. u \in Invalidated(req[r]) \/ req[r].overtaken
  BY <1>2, CommitHooks
<1> QED BY <1>3, <1>4

\* However the administrative requests interleave, a commit that changes the roles
\* a live user has, or what they confer, drops that user's cached snapshot, unless
\* another commit had overtaken its checks.
THEOREM HooksCover == Spec => HooksCoverChanges
<1>1. TypeOK /\ LockInv /\ RefInv /\ [Next]_vars => [HookStep]_vars
  BY NextHooks
<1>2. [][HookStep]_vars => HooksCoverChanges
  BY PTL DEF HookStep, HooksCoverChanges
<1> QED BY <1>1, <1>2, RefInductive, PTL DEF Spec

-----------------------------------------------------------------------------
(* Ancestor walks.                                                         *)

\* A set of counterexamples up to N that has a smaller one for each is empty.
LEMMA NoCounterexample ==
    ASSUME NEW N \in Nat, NEW T \in SUBSET (0..N), 0 \notin T,
           \A k \in 1..N : k \in T => k - 1 \in T
    PROVE  T = {}
<1> SUFFICES ASSUME T # {} PROVE FALSE
  OBVIOUS
<1>1. T \subseteq Nat
  OBVIOUS
<1>2. PICK m \in T : \A k \in T : ~(<<k, m>> \in OpToRel(<, Nat))
  BY <1>1, NatLessThanWellFounded, WFMin
<1>3. \A k \in T : ~(k < m)
  BY <1>1, <1>2 DEF OpToRel
<1>4. m \in 1..N /\ m - 1 \in T
  OBVIOUS
<1> QED BY <1>1, <1>3, <1>4

\* One more row up from each live row of S.
StepUp(S, up) == S \cup {up[y] : y \in {z \in S : z \in Nodes /\ Live(z)}}

\* What Above's recursive function satisfies.
Reach(f, x, up, m) == f = [k \in 0..m |-> IF k = 0 THEN {x} ELSE StepUp(f[k - 1], up)]

LEMMA NodesFinite ==
    /\ IsFiniteSet(Nodes) /\ Cardinality(Nodes) \in Nat
    /\ None \notin Nodes
    /\ IsFiniteSet(Nodes \cup {None}) /\ Cardinality(Nodes \cup {None}) = Cardinality(Nodes) + 1
<1>1. IsFiniteSet(Nodes)
  BY DirectoryAssumption, FS_Union DEF Nodes
<1>2. None \notin Nodes
  BY DirectoryAssumption DEF Nodes
<1>3. Cardinality(Nodes) \in Nat
  BY <1>1, FS_CardinalityType
<1> QED BY <1>1, <1>2, <1>3, FS_AddElement

\* The recursion defines a function.
LEMMA ReachExists ==
    ASSUME NEW x, NEW up, NEW N \in Nat
    PROVE  \E f : Reach(f, x, up, N)
<1> DEFINE T == {m \in 0..N : ~\E f : Reach(f, x, up, m)}
<1>1. 0 \notin T
  <2> DEFINE f == [k \in 0..0 |-> {x}]
  <2>1. \A k \in 0..0 : k = 0
    OBVIOUS
  <2>2. f = [k \in 0..0 |-> IF k = 0 THEN {x} ELSE StepUp(f[k - 1], up)]
    BY <2>1
  <2> HIDE DEF f
  <2>3. \E g : Reach(g, x, up, 0)
    BY <2>2 DEF Reach
  <2> QED BY <2>3
<1>2. ASSUME NEW m \in 1..N, m \in T PROVE m - 1 \in T
  <2> SUFFICES ASSUME NEW g, Reach(g, x, up, m - 1) PROVE FALSE
    BY <1>2
  <2> DEFINE f == [k \in 0..m |-> IF k = m THEN StepUp(g[m - 1], up) ELSE g[k]]
  <2>1. \A k \in 0..(m - 1) : g[k] = IF k = 0 THEN {x} ELSE StepUp(g[k - 1], up)
    BY DEF Reach
  <2>2. ASSUME NEW k \in 0..m PROVE f[k] = IF k = 0 THEN {x} ELSE StepUp(f[k - 1], up)
    <3>1. k = 0 \/ (k - 1 \in 0..m /\ k - 1 # m /\ f[k - 1] = g[k - 1])
      OBVIOUS
    <3>2. CASE k = m
      BY <3>1, <3>2
    <3>3. CASE k # m
      <4>1. k \in 0..(m - 1) /\ f[k] = g[k]
        BY <3>3
      <4> QED BY <2>1, <3>1, <4>1
    <3> QED BY <3>2, <3>3
  <2>3. f = [k \in 0..m |-> f[k]]
    OBVIOUS
  <2> HIDE DEF f
  <2>4. f = [k \in 0..m |-> IF k = 0 THEN {x} ELSE StepUp(f[k - 1], up)]
    BY <2>2, <2>3
  <2> QED BY <1>2, <2>4 DEF Reach
<1>3. T \in SUBSET (0..N)
  OBVIOUS
<1> HIDE DEF T
<1>4. T = {}
  BY <1>1, <1>2, <1>3, NoCounterexample
<1> QED BY <1>4 DEF T

\* Above is the last value of such a function.
LEMMA AboveReach ==
    ASSUME NEW x, NEW up
    PROVE  \E f : Reach(f, x, up, Cardinality(Nodes)) /\ Above(x, up) = f[Cardinality(Nodes)] \ {None}
<1> DEFINE P(f) == f = [k \in 0..Cardinality(Nodes) |->
                          IF k = 0 THEN {x}
                          ELSE f[k - 1] \cup {up[y] : y \in {z \in f[k - 1] : z \in Nodes /\ Live(z)}}]
<1>1. \A f : P(f) <=> Reach(f, x, up, Cardinality(Nodes))
  BY DEF Reach, StepUp
<1>2. Above(x, up) = (CHOOSE f : P(f))[Cardinality(Nodes)] \ {None}
  BY DEF Above
<1> HIDE DEF P
<1>3. \E f : P(f)
  BY <1>1, ReachExists, NodesFinite
<1>4. P(CHOOSE f : P(f))
  BY <1>3
<1> QED BY <1>1, <1>2, <1>4

\* Above(x, up) is the least set that has x and, for each of its live rows, the
\* row above it: card(Nodes) steps are enough to get there.
LEMMA AboveClosed ==
    ASSUME NEW x \in Nodes, NEW up \in [Nodes -> Nodes \cup {None}]
    PROVE  /\ x \in Above(x, up) /\ Above(x, up) \subseteq Nodes
           /\ \A y \in Above(x, up) : Live(y) => up[y] \in Above(x, up) \cup {None}
           /\ \A B \in SUBSET Nodes :
                 x \in B /\ (\A z \in B : Live(z) => up[z] \in B \cup {None}) => Above(x, up) \subseteq B
<1> DEFINE N == Cardinality(Nodes)
           All == Nodes \cup {None}
<1>1. PICK f : Reach(f, x, up, N) /\ Above(x, up) = f[N] \ {None}
  BY AboveReach
<1>2. N \in Nat /\ None \notin Nodes /\ IsFiniteSet(All) /\ Cardinality(All) = N + 1
  BY NodesFinite
<1> HIDE DEF N
<1>3. f[0] = {x} /\ \A k \in 1..N : f[k] = StepUp(f[k - 1], up)
  <2>1. \A k \in 0..N : f[k] = IF k = 0 THEN {x} ELSE StepUp(f[k - 1], up)
    <3> DEFINE g == [k \in 0..N |-> IF k = 0 THEN {x} ELSE StepUp(f[k - 1], up)]
    <3>1. f = g
      BY <1>1 DEF Reach
    <3>2. \A k \in 0..N : g[k] = IF k = 0 THEN {x} ELSE StepUp(f[k - 1], up)
      OBVIOUS
    <3> HIDE DEF g
    <3> QED BY <3>1, <3>2
  <2>2. 0 \in 0..N /\ \A k \in 1..N : k \in 0..N /\ k # 0
    BY <1>2
  <2> QED BY <2>1, <2>2
<1>4. \A S : S \subseteq StepUp(S, up)
  BY DEF StepUp
<1>5. \A S \in SUBSET All : StepUp(S, up) \in SUBSET All
  BY DEF StepUp
<1>6. \A k \in 0..N : f[k] \in SUBSET All /\ x \in f[k]
  <2> DEFINE T == {k \in 0..N : ~(f[k] \in SUBSET All /\ x \in f[k])}
  <2>1. 0 \notin T
    BY <1>3
  <2>2. \A k \in 1..N : k \in T => k - 1 \in T
    BY <1>2, <1>3, <1>4, <1>5
  <2>3. T \in SUBSET (0..N)
    OBVIOUS
  <2> HIDE DEF T
  <2>4. T = {}
    BY <1>2, <2>1, <2>2, <2>3, NoCounterexample
  <2> QED BY <2>4 DEF T
<1>7. \A k \in 0..N : IsFiniteSet(f[k]) /\ Cardinality(f[k]) \in Nat
  BY <1>2, <1>6, FS_Subset, FS_CardinalityType
<1>8. \A k \in 0..N : StepUp(f[k], up) = f[k] \/ Cardinality(f[k]) >= k + 1
  <2> DEFINE T == {k \in 0..N : ~(StepUp(f[k], up) = f[k] \/ Cardinality(f[k]) >= k + 1)}
  <2>1. 0 \notin T
    <3>1. Cardinality(f[0]) = 1
      BY <1>3, FS_Singleton
    <3>2. Cardinality(f[0]) >= 0 + 1
      BY <3>1
    <3> QED BY <3>2
  <2>2. ASSUME NEW k \in 1..N, k - 1 \notin T PROVE k \notin T
    <3>1. k - 1 \in 0..N /\ k \in 0..N /\ f[k] = StepUp(f[k - 1], up)
      BY <1>2, <1>3
    <3>2. CASE StepUp(f[k - 1], up) = f[k - 1]
      BY <3>1, <3>2
    <3>3. CASE StepUp(f[k - 1], up) # f[k - 1]
      <4>1. Cardinality(f[k - 1]) >= (k - 1) + 1
        BY <2>2, <3>1, <3>3
      <4>2. f[k - 1] \subseteq f[k] /\ f[k - 1] # f[k]
        BY <1>4, <3>1, <3>3
      <4>3. /\ Cardinality(f[k - 1]) <= Cardinality(f[k])
            /\ Cardinality(f[k - 1]) # Cardinality(f[k])
        BY <1>7, <3>1, <4>2, FS_Subset
      <4>4. Cardinality(f[k]) >= k + 1
        BY <1>7, <3>1, <4>1, <4>3
      <4> QED BY <4>4
    <3> QED BY <3>2, <3>3
  <2>3. T \in SUBSET (0..N)
    OBVIOUS
  <2> HIDE DEF T
  <2>4. T = {}
    BY <1>2, <2>1, <2>2, <2>3, NoCounterexample
  <2> QED BY <2>4 DEF T
<1>9. N \in 0..N
  BY <1>2
<1>10. StepUp(f[N], up) = f[N]
  <2>1. CASE Cardinality(f[N]) >= N + 1
    <3>1. f[N] \in SUBSET All /\ Cardinality(f[N]) <= Cardinality(All)
      BY <1>2, <1>6, <1>9, FS_Subset
    <3>2. Cardinality(f[N]) = Cardinality(All)
      BY <1>2, <1>7, <1>9, <2>1, <3>1
    <3>3. f[N] = All
      BY <1>2, <3>1, <3>2, FS_Subset
    <3> QED BY <1>4, <1>5, <3>3
  <2> QED BY <1>8, <1>9, <2>1
<1>11. x \in Above(x, up) /\ Above(x, up) \subseteq Nodes
  BY <1>1, <1>2, <1>6, <1>9
<1>12. ASSUME NEW y \in Above(x, up), Live(y) PROVE up[y] \in Above(x, up) \cup {None}
  <2>1. y \in f[N] /\ y \in Nodes
    BY <1>1, <1>11
  <2>2. up[y] \in StepUp(f[N], up)
    BY <1>12, <2>1 DEF StepUp
  <2> QED BY <1>1, <1>10, <2>2
<1>13. ASSUME NEW B \in SUBSET Nodes, x \in B, \A z \in B : Live(z) => up[z] \in B \cup {None}
       PROVE  Above(x, up) \subseteq B
  <2> DEFINE T == {k \in 0..N : ~(f[k] \subseteq B \cup {None})}
  <2>1. 0 \notin T
    BY <1>3, <1>13
  <2>2. ASSUME NEW k \in 1..N, k - 1 \notin T PROVE k \notin T
    <3>1. k - 1 \in 0..N /\ f[k] = StepUp(f[k - 1], up) /\ f[k - 1] \subseteq B \cup {None}
      BY <1>2, <1>3, <2>2
    <3>2. StepUp(f[k - 1], up) \subseteq B \cup {None}
      BY <1>2, <1>13, <3>1 DEF StepUp
    <3> QED BY <3>1, <3>2
  <2>3. T \in SUBSET (0..N)
    OBVIOUS
  <2> HIDE DEF T
  <2>4. T = {}
    BY <1>2, <2>1, <2>2, <2>3, NoCounterexample
  <2> QED BY <1>1, <1>9, <2>4 DEF T
<1> QED BY <1>11, <1>12, <1>13

-----------------------------------------------------------------------------
(* Cycles.                                                                 *)

\* Rows that are each below another of them.
Loop(S) == S # {} /\ \A n \in S : Live(n) /\ parent[n] \in S

\* A walk that nobody overtook has read the parent it starts from.
Walking(q) ==
    /\ q.stage = "lock" => q.p.op = "create"
    /\ q.stage = "walk" =>
          /\ q.p.op = "update"
          /\ \E n \in Nodes : q.p.rows = {n} /\ q.p.to \in TreeOf(n)
          /\ q.p.rows \subseteq Menus /\ ~q.overtaken => parent[q.p.to] \in {q.above, None}

\* A move that nobody overtook goes to a row from which the moved one cannot be
\* reached: some set is closed upwards, and has the one but not the other.
Apart(q) ==
    q.stage = "commit" /\ Moves(q) /\ q.p.rows # {} /\ ~q.overtaken =>
        \E A \in SUBSET Nodes :
            /\ q.p.to \in A /\ q.p.rows \cap A = {}
            /\ \A y \in A : row[y] # "none" /\ (Live(y) => parent[y] \in A \cup {None})

LoopInv ==
    /\ \A S \in SUBSET Nodes : Loop(S) => S \cap raced # {}
    /\ \A r \in Requests : Walking(req[r]) /\ Apart(req[r])

\* The set above a row that is above itself has a loop.
LEMMA LoopInvCycles == TypeOK /\ LoopInv => CyclesNeedRace
<1> SUFFICES ASSUME TypeOK, LoopInv, NEW n \in Nodes, Live(n), parent[n] # None,
                    n \in Above(parent[n], parent)
             PROVE  Above(n, parent) \cap raced # {}
  BY DEF CyclesNeedRace
<1> DEFINE A == Above(n, parent)
           S == {y \in A : n \in Above(y, parent)}
<1>0. parent \in [Nodes -> Nodes \cup {None}]
  BY DEF TypeOK
<1>1. /\ n \in A /\ A \subseteq Nodes
      /\ \A y \in A : Live(y) => parent[y] \in A \cup {None}
  BY <1>0, AboveClosed
<1>2. n \in S /\ S \in SUBSET Nodes
  BY <1>1
<1>3. ASSUME NEW y \in S, y # n
      PROVE  Live(y) /\ parent[y] # None /\ n \in Above(parent[y], parent)
  <2>1. y \in Nodes /\ n \in Above(y, parent)
    BY <1>2
  <2>2. ASSUME NEW B \in SUBSET Nodes, y \in B, n \notin B
        PROVE  \E z \in B : Live(z) /\ parent[z] \notin B \cup {None}
    BY <1>0, <2>1, <2>2, AboveClosed
  <2>3. Live(y) /\ parent[y] # None
    <3>1. {y} \in SUBSET Nodes /\ y \in {y} /\ n \notin {y}
      BY <1>3, <2>1
    <3>2. \E z \in {y} : Live(z) /\ parent[z] \notin {y} \cup {None}
      BY <2>2, <3>1
    <3> QED BY <3>2
  <2>4. parent[y] \in Nodes
    BY <1>0, <2>1, <2>3
  <2> DEFINE B == {y} \cup Above(parent[y], parent)
  <2>5. /\ parent[y] \in Above(parent[y], parent) /\ Above(parent[y], parent) \subseteq Nodes
        /\ \A z \in Above(parent[y], parent) : Live(z) => parent[z] \in Above(parent[y], parent) \cup {None}
    BY <1>0, <2>4, AboveClosed
  <2>6. B \in SUBSET Nodes /\ y \in B /\ \A z \in B : Live(z) => parent[z] \in B \cup {None}
    BY <2>1, <2>5
  <2>7. n \in B
    <3> HIDE DEF B
    <3> QED BY <2>2, <2>6
  <2> QED BY <1>3, <2>3, <2>7
<1>4. ASSUME NEW y \in S PROVE Live(y) /\ parent[y] \in S
  <2>1. Live(y) /\ parent[y] # None /\ n \in Above(parent[y], parent)
    BY <1>3
  <2> QED BY <1>1, <2>1
<1> HIDE DEF S
<1>5. S \cap raced # {}
  BY <1>2, <1>4 DEF LoopInv, Loop
<1> QED BY <1>5 DEF S

\* A step that writes no row.
LEMMA LoopOwnStep ==
    ASSUME TypeOK, LoopInv, NEW r \in Requests, NEW e,
           req' = [req EXCEPT ![r] = e], Unchanged, Walking(e), Apart(e)
    PROVE  LoopInv'
<1>1. req'[r] = e /\ \A t \in Requests \ {r} : req'[t] = req[t]
  BY DEF TypeOK
<1>2. row' = row /\ parent' = parent /\ raced' = raced
  BY DEF Unchanged
<1>3. \A x : Live(x)' <=> Live(x)
  BY <1>2 DEF Live
<1>4. ASSUME NEW t \in Requests PROVE Walking(req[t])' /\ Apart(req[t])'
  <2> DEFINE q == req'[t]
  <2>1. Walking(q) /\ Apart(q)
    BY <1>1 DEF LoopInv
  <2> HIDE DEF q
  <2>2. Walking(req[t])'
    BY <1>2, <2>1 DEF Walking, q
  <2>3. Apart(req[t])'
    BY <1>2, <1>3, <2>1 DEF Apart, Moves, q
  <2> QED BY <2>2, <2>3
<1>5. \A S \in SUBSET Nodes : Loop(S)' => S \cap raced' # {}
  BY <1>2, <1>3 DEF LoopInv, Loop
<1> QED BY <1>4, <1>5 DEF LoopInv

\* A handler's first step: a payload that moves a row walks first.
LEMMA LoopStart ==
    ASSUME TypeOK, LoopInv, NEW r \in Requests, NEW p \in PayloadType,
           NEW stage \in {"lock", "walk", "visit", "commit"},
           NEW change \in RequestType, Start(r, p, stage, change), ~change.overtaken,
           stage = "lock" => p.op = "create",
           stage = "walk" =>
                /\ p.op = "update"
                /\ \E n \in Nodes : p.rows = {n} /\ p.to \in TreeOf(n)
                /\ p.rows \subseteq Menus => parent[p.to] = change.above,
           stage = "commit" /\ p.op = "update" => p.to \notin Nodes \/ p.rows \cap Nodes = {}
    PROVE  LoopInv'
<1> DEFINE e == [change EXCEPT !.stage = stage, !.p = p, !.status = StatusSet(p)]
<1>1. StatusSet(p) \in {"active", "disabled"}
  BY DEF StatusSet
<1>2. /\ e \in RequestType /\ e.stage = stage /\ e.p = p /\ e.above = change.above
      /\ req' = [req EXCEPT ![r] = e] /\ Unchanged
  BY <1>1 DEF Start, RequestType
<1> HIDE DEF e
<1>3. Walking(e)
  BY <1>2 DEF Walking
<1>4. Apart(e)
  BY <1>2 DEF Apart, Moves
<1> QED BY <1>2, <1>3, <1>4, LoopOwnStep

LEMMA SingleMoves ==
    /\ \A p \in DepartmentPayloads : p.op = "update" => \E d \in Departments : p.rows = {d}
    /\ \A p \in MenuPayloads : p.op = "update" => \E m \in Menus : p.rows = {m}
<1>1. ASSUME NEW p \in DepartmentPayloads, p.op = "update" PROVE \E d \in Departments : p.rows = {d}
  BY <1>1, SMT DEF DepartmentPayloads, Payload
<1>2. ASSUME NEW p \in MenuPayloads, p.op = "update" PROVE \E m \in Menus : p.rows = {m}
  BY <1>2, SMT DEF MenuPayloads, Payload
<1> QED BY <1>1, <1>2

LEMMA LoopReceive ==
    ASSUME TypeOK, LoopInv, NEW r \in Requests, Receive(r)
    PROVE  LoopInv'
<1>0. /\ IdleRequest \in RequestType /\ ~IdleRequest.overtaken
      /\ Departments \cap Menus = {} /\ Nodes \cap (Users \cup Roles) = {}
      /\ Same \notin Nodes /\ None \notin Nodes
      /\ Departments \subseteq Nodes /\ Menus \subseteq Nodes
      /\ \A d \in Departments : TreeOf(d) = Departments
      /\ \A m \in Menus : TreeOf(m) = Menus
  BY IdleTyped, IdleSound, DirectoryAssumption DEF Nodes, TreeOf
<1>1. ASSUME NEW p \in DepartmentPayloads,
             CreateDepartment(r, p) \/ UpdateDepartment(r, p) \/ DeleteNodes(r, p)
      PROVE  LoopInv'
  <2>0. p \in PayloadType /\ p.op \in {"create", "update"} => p.to \in Departments \cup {None}
    BY DepartmentPayload
  <2>1. CASE CreateDepartment(r, p)
    BY <1>0, <2>1, DepartmentPayload, LoopStart DEF CreateDepartment
  <2>2. CASE UpdateDepartment(r, p)
    <3>1. PICK d \in Departments : p.rows = {d}
      BY <2>2, SingleMoves DEF UpdateDepartment
    <3>2. CASE p.to # None
      <4>1. Start(r, p, "walk", IdleRequest) /\ p.op = "update"
        BY <2>2, <3>2 DEF UpdateDepartment
      <4>2. p.to \in TreeOf(d) /\ d \in Nodes /\ ~(p.rows \subseteq Menus)
        BY <1>0, <3>1, <3>2, <4>1, DepartmentPayload
      <4> QED BY <1>0, <3>1, <4>1, <4>2, DepartmentPayload, LoopStart
    <3>3. CASE p.to = None
      <4>1. Start(r, p, "commit", IdleRequest)
        BY <2>2, <3>3 DEF UpdateDepartment
      <4> QED BY <1>0, <3>3, <4>1, DepartmentPayload, LoopStart
    <3> QED BY <3>2, <3>3
  <2>3. CASE DeleteNodes(r, p)
    BY <1>0, <2>3, DepartmentPayload, LoopStart DEF DeleteNodes
  <2> QED BY <1>1, <2>1, <2>2, <2>3
<1>2. ASSUME NEW p \in MenuPayloads,
             CreateMenu(r, p) \/ UpdateMenu(r, p) \/ DeleteNodes(r, p)
      PROVE  LoopInv'
  <2>1. CASE CreateMenu(r, p)
    BY <1>0, <2>1, MenuPayload, LoopStart DEF CreateMenu
  <2>2. CASE UpdateMenu(r, p)
    <3> DEFINE above == IF p.to \in Menus THEN parent[p.to] ELSE None
               c == [IdleRequest EXCEPT !.above = above]
    <3>1. above \in Nodes \cup {None}
      BY DEF TypeOK, Nodes
    <3>2. c \in RequestType /\ ~c.overtaken /\ c.above = above
      <4> HIDE DEF above
      <4>1. c \in RequestType
        BY <3>1, ChangeTyped
      <4>2. ~c.overtaken
        BY <3>1, ChangeSound
      <4> QED BY <1>0, <4>1, <4>2 DEF RequestType
    <3>3. PICK m \in Menus : p.rows = {m}
      BY <2>2, SingleMoves DEF UpdateMenu
    <3>4. CASE p.to \in Menus
      <4>1. Start(r, p, "walk", c) /\ p.op = "update" /\ c.above = parent[p.to]
        BY <2>2, <3>2, <3>4 DEF UpdateMenu
      <4> HIDE DEF c
      <4> QED BY <1>0, <3>2, <3>3, <3>4, <4>1, MenuPayload, LoopStart
    <3>5. CASE p.to \notin Menus
      <4>1. Start(r, p, "commit", c)
        BY <2>2, <3>5 DEF UpdateMenu
      <4>2. p.to \notin Nodes
        BY <1>0, <3>5, MenuPayload
      <4> HIDE DEF c
      <4> QED BY <3>2, <4>1, <4>2, MenuPayload, LoopStart
    <3> QED BY <3>4, <3>5
  <2>3. CASE DeleteNodes(r, p)
    BY <1>0, <2>3, MenuPayload, LoopStart DEF DeleteNodes
  <2> QED BY <1>2, <2>1, <2>2, <2>3
<1>3. \A xs : LinksOf(xs) \in SUBSET Links /\ UserLinks(xs) \in SUBSET Links
  BY DEF LinksOf, UserLinks, TypeOK
\* The other handlers move nothing.
<1>4. ASSUME NEW p \in PayloadType, p.rows \cap Nodes = {}, NEW gone \in SUBSET Rows,
             NEW cleared \in SUBSET Links,
             \/ Start(r, p, "commit", IdleRequest)
             \/ Start(r, p, "commit", [IdleRequest EXCEPT !.cleared = cleared])
             \/ Start(r, p, "commit", [IdleRequest EXCEPT !.gone = gone, !.cleared = cleared])
      PROVE  LoopInv'
  <2> DEFINE c == [IdleRequest EXCEPT !.cleared = cleared]
             d == [IdleRequest EXCEPT !.gone = gone, !.cleared = cleared]
  <2>1. c \in RequestType /\ d \in RequestType
    BY ChangeTyped
  <2>2. ~c.overtaken /\ ~d.overtaken
    BY ChangeSound
  <2>3. Start(r, p, "commit", IdleRequest) \/ Start(r, p, "commit", c) \/ Start(r, p, "commit", d)
    BY <1>4
  <2> HIDE DEF c, d
  <2> QED BY <1>0, <1>4, <2>1, <2>2, <2>3, LoopStart
<1>5. ASSUME NEW p \in UserPayloads,
             CreateUser(r, p) \/ UpdateUser(r, p) \/ DeleteUsers(r, p)
      PROVE  LoopInv'
  <2>0. p \in PayloadType /\ p.rows \subseteq Users /\ p.rows \cap Nodes = {} /\ {} \in SUBSET Rows
    BY <1>0, UserPayload
  <2>1. CASE CreateUser(r, p)
    BY <1>4, <2>0, <2>1 DEF CreateUser
  <2>2. CASE UpdateUser(r, p)
    <3> DEFINE cleared == IF p.assign THEN LinksOf(p.rows) ELSE {}
    <3>1. cleared \in SUBSET Links
      BY <1>3
    <3>2. Start(r, p, "commit", [IdleRequest EXCEPT !.cleared = cleared])
      BY <2>2 DEF UpdateUser
    <3> HIDE DEF cleared
    <3> QED BY <1>4, <2>0, <3>1, <3>2
  <2>3. CASE DeleteUsers(r, p)
    <3>1. PICK gone \in SUBSET {u \in p.rows : Live(u)} :
              Start(r, p, "commit", [IdleRequest EXCEPT !.gone = gone, !.cleared = LinksOf(gone)])
      BY <2>3 DEF DeleteUsers
    <3>2. gone \in SUBSET Rows
      BY <2>0 DEF Rows
    <3> QED BY <1>3, <1>4, <2>0, <3>1, <3>2
  <2> QED BY <1>5, <2>1, <2>2, <2>3
<1>6. ASSUME NEW p \in RolePayloads,
             CreateRole(r, p) \/ UpdateRole(r, p) \/ DeleteRoles(r, p)
      PROVE  LoopInv'
  <2>0. p \in PayloadType /\ p.rows \subseteq Roles /\ p.rows \cap Nodes = {} /\ {} \in SUBSET Rows
    BY <1>0, RolePayload
  <2>1. CASE CreateRole(r, p)
    BY <1>4, <2>0, <2>1 DEF CreateRole
  <2>2. CASE UpdateRole(r, p)
    <3> DEFINE cleared == IF p.assign THEN LinksOf(p.rows) ELSE {}
    <3>1. cleared \in SUBSET Links
      BY <1>3
    <3>2. Start(r, p, "commit", [IdleRequest EXCEPT !.cleared = cleared])
      BY <2>2 DEF UpdateRole
    <3> HIDE DEF cleared
    <3> QED BY <1>4, <2>0, <3>1, <3>2
  <2>3. CASE DeleteRoles(r, p)
    <3>1. PICK gone \in SUBSET {o \in p.rows : Live(o)} :
              Start(r, p, "commit", [IdleRequest EXCEPT !.gone = gone,
                                       !.cleared = LinksOf(gone) \cup UserLinks(gone)])
      BY <2>3 DEF DeleteRoles
    <3>2. gone \in SUBSET Rows /\ LinksOf(gone) \cup UserLinks(gone) \in SUBSET Links
      BY <1>3, <2>0 DEF Rows
    <3> QED BY <1>4, <2>0, <3>1, <3>2
  <2> QED BY <1>6, <2>1, <2>2, <2>3
<1> QED BY <1>1, <1>2, <1>5, <1>6 DEF Receive

LEMMA LoopIdle == Walking(IdleRequest) /\ Apart(IdleRequest)
  BY IdleTyped DEF Walking, Apart

\* At first every parent is a root.
LEMMA LoopInit == Init => LoopInv
<1> SUFFICES ASSUME Init PROVE LoopInv
  OBVIOUS
<1>1. \A r \in Requests : req[r] = IdleRequest
  BY DEF Init
<1>2. None \notin Nodes
  BY NodesFinite
<1>3. ASSUME NEW S \in SUBSET Nodes, Loop(S) PROVE FALSE
  <2>1. PICK n \in S : parent[n] \in S /\ parent[parent[n]] \in S
    BY <1>3 DEF Loop
  <2> QED BY <1>2, <2>1 DEF Init
<1> QED BY <1>1, <1>3, LoopIdle DEF LoopInv

\* The ancestor walk finds the set that keeps the move apart.
LEMMA LoopWalk ==
    ASSUME TypeOK, LockInv, RefInv, LoopInv, NEW r \in Requests, LockParent(r) \/ WalkAncestors(r)
    PROVE  LoopInv'
<1> DEFINE q == req[r]
<1>1. PICK stage \in {"hung", "commit"} : req' = [req EXCEPT ![r].stage = stage]
  BY DEF LockParent, WalkAncestors
<1> DEFINE e == [q EXCEPT !.stage = stage]
<1>2. q \in RequestType /\ q.stage \in {"lock", "walk"} /\ Unchanged /\ Walking(q) /\ Sound(q)
  BY DEF TypeOK, LockParent, WalkAncestors, LoopInv, RefInv
<1>3. /\ e.stage = stage /\ e.p = q.p /\ e.overtaken = q.overtaken
      /\ req' = [req EXCEPT ![r] = e]
  BY <1>1, <1>2 DEF RequestType
<1> HIDE DEF e
<1>4. Walking(e)
  BY <1>3 DEF Walking
<1>5. Apart(e)
  <2>1. CASE q.stage = "lock"
    BY <1>2, <1>3, <2>1 DEF Walking, Apart, Moves
  <2>2. CASE q.stage = "walk" /\ ~q.overtaken
    <3> DEFINE to == q.p.to
               up == IF (CHOOSE x \in Nodes : x \in q.p.rows) \in Menus
                     THEN [parent EXCEPT ![to] = q.above] ELSE parent
               A == {y \in Above(to, up) : row[y] # "none"}
    <3>1. PICK n \in Nodes : q.p.rows = {n} /\ to \in TreeOf(n)
      BY <1>2, <2>2 DEF Walking
    <3>2. (CHOOSE x \in Nodes : x \in q.p.rows) = n
      BY <3>1
    <3>3. n \notin Above(to, up)
      BY <2>2, <3>2 DEF LockParent, WalkAncestors
    <3>4. to \in Nodes /\ row[to] # "none" /\ q.p.op = "update"
      BY <1>2, <2>2, <3>1 DEF TreeOf, Nodes, Sound, Known, Walking
    <3>5. /\ parent \in [Nodes -> Nodes \cup {None}] /\ q.above \in Nodes \cup {None}
      BY <1>2 DEF TypeOK, RequestType
    <3>6. /\ up \in [Nodes -> Nodes \cup {None}]
          /\ \A y \in Nodes : up[y] = parent[y] \/ (y = to /\ up[y] = q.above /\ n \in Menus)
      BY <3>2, <3>4, <3>5
    <3> HIDE DEF up
    <3>7. /\ to \in Above(to, up) /\ Above(to, up) \subseteq Nodes
          /\ \A y \in Above(to, up) : Live(y) => up[y] \in Above(to, up) \cup {None}
      BY <3>4, <3>6, AboveClosed
    <3>8. n \in Menus => parent[to] \in {q.above, None}
      BY <1>2, <2>2, <3>1 DEF Walking
    <3>9. ASSUME NEW y \in A, Live(y) PROVE parent[y] \in A \cup {None}
      <4>1. parent[y] \in Above(to, up) \cup {None}
        BY <3>6, <3>7, <3>8, <3>9
      <4>2. parent[y] # None => row[parent[y]] # "none"
        BY <3>7 DEF RefInv, RefsExist
      <4> QED BY <4>1, <4>2
    <3>10. to \in A /\ q.p.rows \cap A = {} /\ A \in SUBSET Nodes /\ \A y \in A : row[y] # "none"
      BY <3>1, <3>3, <3>4, <3>7
    <3> HIDE DEF A
    <3> QED BY <1>3, <3>9, <3>10 DEF Apart
  <2>3. CASE q.overtaken
    BY <1>3, <2>3 DEF Apart
  <2> QED BY <1>2, <2>1, <2>2, <2>3
<1> QED BY <1>2, <1>3, <1>4, <1>5, LoopOwnStep

\* A visit deletes and moves nothing.
LEMMA LoopVisit ==
    ASSUME TypeOK, LockInv, LoopInv, NEW r \in Requests, NEW x \in Nodes,
           \/ x \in Departments /\ VisitDepartment(r, x)
           \/ x \in Menus /\ VisitMenu(r, x)
    PROVE  LoopInv'
<1> DEFINE q == req[r]
           stage == IF q.p.rows = {x} THEN "commit" ELSE "visit"
           keep == IF x \in Departments THEN HasActiveMembers(x) ELSE IsRoleGranted(x)
           gone == IF Live(x) /\ ~HasActiveChildren(x, q.gone) /\ ~keep
                   THEN q.gone \cup {x} ELSE q.gone
           p == [q.p EXCEPT !.rows = @ \ {x}]
           e == [q EXCEPT !.p = p, !.stage = stage, !.gone = gone]
<1>0. Departments \cap Menus = {}
  BY DirectoryAssumption
<1>1. q \in RequestType /\ q.stage = "visit" /\ Unchanged /\ q.p.op = "delete"
  BY DEF TypeOK, LockInv, Shape, VisitDepartment, VisitMenu
<1>2. req' = [req EXCEPT ![r] = e]
  BY <1>0, <1>1 DEF VisitDepartment, VisitMenu, TypeOK, RequestType
<1>3. stage \in {"visit", "commit"}
  OBVIOUS
<1> HIDE DEF stage, gone
<1>4. e.stage = stage /\ e.p.op = "delete"
  BY <1>1 DEF RequestType, PayloadType
<1> HIDE DEF e
<1>5. Walking(e) /\ Apart(e)
  BY <1>3, <1>4 DEF Walking, Apart, Moves
<1> QED BY <1>1, <1>2, <1>5, LoopOwnStep

\* A commit closes no loop: one that passes through a new row or a moved one has
\* a part that was a loop before, or its request was overtaken.
LEMMA LoopCommit ==
    ASSUME TypeOK, LockInv, RefInv, LoopInv, NEW r \in Requests, Commit(r)
    PROVE  LoopInv'
<1> DEFINE q == req[r]
           LiveNow(x) == row'[x] \in {"active", "disabled"}
<1>0. /\ q \in RequestType /\ q.stage = "commit" /\ q.p \in PayloadType /\ Sound(q)
      /\ q.p.op \in {"create", "update", "delete"}
      /\ req'[r] = IdleRequest
      /\ raced' = raced \cup (IF q.overtaken THEN Refs(q) \cup q.gone \cup q.p.rows ELSE {})
  BY CommitEffect
<1>1. \A x \in Nodes :
        /\ LiveNow(x) => Live(x) \/ (q.p.op = "create" /\ x \in q.p.rows)
        /\ row[x] # "none" => row'[x] # "none"
  <2>1. Nodes \subseteq Rows
    BY DEF Rows
  <2> QED BY <2>1, CommitEffect DEF Live
<1>2. \A n \in Nodes : parent'[n] = IF Places(q, n) THEN q.p.to ELSE parent[n]
  BY CommitEffect
<1>3. \A t \in Requests \ {r} :
         /\ req'[t].stage = req[t].stage /\ req'[t].p = req[t].p /\ req'[t].above = req[t].above
         /\ req'[t].overtaken <=> (req[t].overtaken \/ Overtakes(q, req[t]))
  BY CommitEffect
<1>4. /\ q.p.rows \subseteq Rows /\ q.p.to \in Nodes \cup {None, Same}
      /\ parent \in [Nodes -> Nodes \cup {None}] /\ None \notin Nodes
  BY <1>0, NodesFinite DEF RequestType, PayloadType, TypeOK
<1>5. /\ q.p.op = "create" => \A x \in q.p.rows : row[x] = "none"
      /\ q.p.op = "create" /\ q.p.to \in Nodes => row[q.p.to] # "none"
      /\ q.p.op = "create" /\ q.p.rows \cap Nodes # {} => q.p.to # Same
  BY <1>0 DEF Sound, Known, Written, PayloadSound
<1>6. \A n \in Nodes : parent[n] # None => row[parent[n]] # "none"
  BY DEF RefInv, RefsExist
\* A row is placed by its creation, by a move, or made a root.
<1>7. ASSUME NEW n \in Nodes, Places(q, n)
      PROVE  n \in q.p.rows /\ (q.p.op = "create" \/ (q.p.op = "update" /\ (Moves(q) \/ q.p.to = None)))
  <2>1. n \in q.p.rows /\ q.p.op \in {"create", "update"} /\ q.p.to \in Nodes \cup {None}
    BY <1>0, <1>4, <1>7 DEF Places
  <2>2. q.p.rows \subseteq Nodes
    <3>1. OneKind(q.p.rows \cup q.gone)
      BY <1>0 DEF Sound, Written
    <3>2. Nodes \cap (Users \cup Roles) = {}
      BY DirectoryAssumption DEF Nodes
    <3> QED BY <2>1, <3>1, <3>2 DEF OneKind, Nodes
  <2> QED BY <2>1, <2>2 DEF Moves
<1>8. ASSUME NEW n \in Nodes, LiveNow(n), ~Places(q, n) PROVE Live(n)
  BY <1>0, <1>1, <1>5, <1>8 DEF Places
<1>9. q.overtaken => q.p.rows \subseteq raced'
  BY <1>0
<1>10. raced \subseteq raced'
  BY <1>0
<1>11. Apart(q)
  BY DEF LoopInv
<1> HIDE DEF q
<1>12. ASSUME NEW S \in SUBSET Nodes, S # {}, \A n \in S : LiveNow(n) /\ parent'[n] \in S
       PROVE  S \cap raced' # {}
  <2>1. CASE \A n \in S : ~Places(q, n)
    <3>1. Loop(S)
      BY <1>2, <1>8, <1>12, <2>1 DEF Loop
    <3> QED BY <1>10, <3>1 DEF LoopInv
  <2>2. ASSUME NEW n \in S, Places(q, n), ~q.overtaken PROVE S \cap raced' # {}
    <3>1. parent'[n] = q.p.to /\ q.p.to \in S /\ n \in q.p.rows /\ q.p.to \in Nodes
      BY <1>2, <1>7, <1>12, <2>2
    <3>2. CASE q.p.op = "create"
      <4> DEFINE T == S \ q.p.rows
      <4>1. q.p.to \in T
        BY <1>5, <3>1, <3>2
      <4>2. ASSUME NEW y \in T PROVE Live(y) /\ parent[y] \in T
        <5>1. ~Places(q, y)
          BY DEF Places
        <5>2. Live(y) /\ parent'[y] = parent[y] /\ parent[y] \in S
          BY <1>2, <1>8, <1>12, <5>1
        <5>3. row[parent[y]] # "none"
          BY <1>4, <1>6, <5>2
        <5> QED BY <1>5, <3>2, <5>2, <5>3
      <4>3. Loop(T) /\ T \in SUBSET Nodes
        BY <4>1, <4>2 DEF Loop
      <4> QED BY <1>10, <4>3 DEF LoopInv
    <3>3. CASE q.p.op = "update"
      <4>1. Moves(q)
        BY <1>4, <1>7, <2>2, <3>1, <3>3
      <4>2. PICK A \in SUBSET Nodes :
                /\ q.p.to \in A /\ q.p.rows \cap A = {}
                /\ \A y \in A : row[y] # "none" /\ (Live(y) => parent[y] \in A \cup {None})
        BY <1>0, <1>11, <2>2, <3>1, <4>1 DEF Apart
      <4> DEFINE T == S \cap A
      <4>3. ASSUME NEW y \in T PROVE Live(y) /\ parent[y] \in T
        <5>1. ~Places(q, y)
          BY <4>2 DEF Places
        <5>2. Live(y) /\ parent'[y] = parent[y] /\ parent[y] \in S
          BY <1>2, <1>8, <1>12, <5>1
        <5> QED BY <1>4, <4>2, <5>2
      <4>4. Loop(T) /\ T \in SUBSET Nodes
        BY <3>1, <4>2, <4>3 DEF Loop
      <4> QED BY <1>10, <4>4 DEF LoopInv
    <3> QED BY <1>7, <2>2, <3>2, <3>3
  <2>3. ASSUME NEW n \in S, Places(q, n), q.overtaken PROVE S \cap raced' # {}
    BY <1>7, <1>9, <2>3
  <2> QED BY <2>1, <2>2, <2>3
\* The move of another request is overtaken by a move, and untouched by the rest.
<1>13. ASSUME NEW t \in Requests \ {r} PROVE Walking(req[t])' /\ Apart(req[t])'
  <2> DEFINE s == req[t]
  <2>1. s \in RequestType /\ Walking(s) /\ Apart(s) /\ Sound(s)
    BY DEF TypeOK, LoopInv, RefInv
  <2>2. /\ req'[t].stage = s.stage /\ req'[t].p = s.p /\ req'[t].above = s.above
        /\ req'[t].overtaken <=> (s.overtaken \/ Overtakes(q, s))
    BY <1>3
  <2>3. s.stage \in {"walk", "commit"} /\ Moves(s) /\ ~req'[t].overtaken => ~s.overtaken /\ ~Moves(q)
    BY <2>2 DEF Overtakes
  <2>4. s.stage = "walk" => row[s.p.to] # "none" /\ s.p.to \in Nodes /\ Moves(s)
    BY <2>1 DEF Sound, Known, Walking, TreeOf, Nodes, Moves
  \* A row that is there keeps its parent or loses it, unless the commit moves one.
  <2>5. ASSUME NEW y \in Nodes, row[y] # "none", ~Moves(q) PROVE parent'[y] \in {parent[y], None}
    BY <1>2, <1>5, <1>7, <2>5
  <2>6. ASSUME s.stage = "walk", s.p.rows \subseteq Menus, ~req'[t].overtaken
        PROVE  parent'[s.p.to] \in {s.above, None}
    <3>1. parent[s.p.to] \in {s.above, None}
      BY <2>1, <2>3, <2>4, <2>6 DEF Walking
    <3> QED BY <2>3, <2>4, <2>5, <2>6, <3>1
  <2>7. ASSUME s.stage = "commit", Moves(s), s.p.rows # {}, ~req'[t].overtaken
        PROVE  \E A \in SUBSET Nodes :
                 /\ s.p.to \in A /\ s.p.rows \cap A = {}
                 /\ \A y \in A : row'[y] # "none" /\ (LiveNow(y) => parent'[y] \in A \cup {None})
    <3>1. ~s.overtaken /\ ~Moves(q)
      BY <2>3, <2>7
    <3>2. PICK A \in SUBSET Nodes :
              /\ s.p.to \in A /\ s.p.rows \cap A = {}
              /\ \A y \in A : row[y] # "none" /\ (Live(y) => parent[y] \in A \cup {None})
      BY <2>1, <2>7, <3>1 DEF Apart
    <3>3. ASSUME NEW y \in A PROVE row'[y] # "none" /\ (LiveNow(y) => parent'[y] \in A \cup {None})
      <4>1. y \in Nodes /\ row[y] # "none" /\ (Live(y) => parent[y] \in A \cup {None})
        BY <3>2
      <4> QED BY <1>1, <1>5, <2>5, <3>1, <4>1
    <3> QED BY <3>2, <3>3
  <2> HIDE DEF s
  <2>8. Walking(req[t])'
    BY <2>1, <2>2, <2>6 DEF Walking
  <2>9. Apart(req[t])'
    BY <2>2, <2>7 DEF Apart, Moves, Live
  <2> QED BY <2>8, <2>9
<1>14. Walking(req[r])' /\ Apart(req[r])'
  <2>1. req'[r].stage = "idle"
    BY <1>0, IdleTyped
  <2> QED BY <2>1 DEF Walking, Apart
<1>15. \A S \in SUBSET Nodes : Loop(S)' => S \cap raced' # {}
  BY <1>12 DEF Loop, Live
<1> QED BY <1>13, <1>14, <1>15 DEF LoopInv

LEMMA LoopStep == TypeOK /\ LockInv /\ RefInv /\ LoopInv /\ [Next]_vars => LoopInv'
<1> SUFFICES ASSUME TypeOK, LockInv, RefInv, LoopInv, [Next]_vars PROVE LoopInv'
  OBVIOUS
<1>1. CASE UNCHANGED vars
  BY <1>1 DEF vars, LoopInv, Loop, Walking, Apart, Moves, Live
<1>2. ASSUME NEW r \in Requests, HandlerStep(r) PROVE LoopInv'
  <2>1. Departments \subseteq Nodes /\ Menus \subseteq Nodes
    BY DEF Nodes
  <2> QED BY <1>2, <2>1, LoopWalk, LoopVisit DEF HandlerStep
<1>3. ASSUME NEW r \in Requests, Refuse(r) PROVE LoopInv'
  BY <1>3, LoopIdle, LoopOwnStep DEF Refuse
<1> QED BY <1>1, <1>2, <1>3, LoopReceive, LoopCommit DEF Next

\* In trees of any size, and with any number of requests, the ancestor walks keep
\* departments and menus free of cycles: on every cycle, or above it, is a row
\* of a request that another one's commit overtook.
THEOREM CyclesNeedRaces == Spec => []CyclesNeedRace
<1>1. Spec => []LoopInv
  BY RefInductive, LoopInit, LoopStep, PTL DEF Spec
<1> QED BY <1>1, RefInductive, LoopInvCycles, PTL

=============================================================================
