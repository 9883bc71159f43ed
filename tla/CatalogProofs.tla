--------------------------- MODULE CatalogProofs ---------------------------
(***************************************************************************)
(* Proofs about Catalog, for any sets of rows and requests: its types,     *)
(* that only overlapping requests leave an active deployment on a deleted  *)
(* channel or model, that the unique indexes refuse only overlapping       *)
(* requests, and that the default grant is handed over, not dropped.       *)
(***************************************************************************)
EXTENDS Catalog, FiniteSetTheorems, TLAPS

\* What Payload builds and what a request record holds.
PayloadType ==
    [op : {"none", "create", "update", "rotate", "delete"}, x : Rows \cup {None},
     c : Channels \cup {None}, m : Models \cup {None}, mark : {"yes", "no", "unset"},
     flip : BOOLEAN]

RequestType ==
    [stage : {"idle", "clear", "wait", "commit"}, p : PayloadType,
     status : {"same", "active", "disabled"}, cleared : SUBSET Grants, overtaken : BOOLEAN]

\* What a request under way may write.
Shape(q) ==
    /\ q.stage # "idle" => q.p.x \in Rows /\ q.p.op # "none"
    /\ q.p.op = "rotate" => q.p.x \in Keys
    /\ q.stage \in {"clear", "wait"} => q.p.x \in Grants /\ q.p.mark = "yes" /\ q.p.op # "delete"
    /\ q.cleared # {} => q.p.x \in Grants /\ q.p.mark = "yes" /\ q.p.op # "delete"
    /\ q.p.op = "create" /\ q.p.x \in Deployments => q.p.c # None /\ q.p.m # None
    /\ q.status = "active" /\ q.p.x \in Deployments => q.p.op = "update" /\ q.p.x \in dozed

\* Which rows of a row's own table a flush collides with.
Rivals(p, cleared) ==
    \/ /\ p.mark = "yes"
       /\ \E T \in {Channels, Models, Quotas} :
             p.x \in T /\ \E y \in T \ {p.x} : Live(y) /\ y \in contested
    \/ p.x \in Limits /\ p.mark = "yes" /\ (contested \cap Limits) \ {p.x} # {}
    \/ /\ p.x \in Deployments
       /\ \E y \in Deployments \ {p.x} :
             Live(y) /\ chan[y] = Or(p.c, chan[p.x]) /\ model[y] = Or(p.m, model[p.x])
    \/ /\ p.x \in Grants
       /\ \E y \in Grants \ {p.x} :
             Live(y) /\ (model[y] = Or(p.m, model[p.x])
                          \/ (p.mark = "yes" /\ y \in default /\ y \notin cleared))

\* What it will have cleared: the default, when it comes to that.
Clearing(q) == IF q.stage = "commit" THEN q.cleared ELSE Grants

\* Until a commit overtakes a request, what its checks found still holds: the row
\* it writes is there, a deployment's channel and model are, nothing active is on
\* the channel or model it deletes, the indexes will let it pass, and the default
\* it waits for is the default.
Sound(q) ==
    q.stage # "idle" /\ ~q.overtaken =>
        /\ q.p.op # "create" => Live(q.p.x)
        /\ q.p.x \in Deployments => /\ q.p.c # None => Live(q.p.c)
                                    /\ q.p.m # None => Live(q.p.m)
        /\ q.p.op = "delete" => \A d \in Deployments \ dozed :
                                    Active(d) => q.p.x \notin {chan[d], model[d]}
        /\ q.p.op \in {"create", "update"} /\ q.p.x \notin Limits => ~Rivals(q.p, Clearing(q))
        /\ q.stage = "wait" => q.cleared = CurrentDefault

\* The partial unique indexes of deployments and grants hold.
Indexed ==
    /\ \A x, y \in Deployments :
          x # y /\ Live(x) /\ Live(y) => <<chan[x], model[x]>> # <<chan[y], model[y]>>
    /\ \A x, y \in Grants : x # y /\ Live(x) /\ Live(y) => model[x] # model[y]

\* The inductive invariant: what each request under way may count on, that a
\* disabled deployment is known as one (only such a one is activated with nobody
\* looking at its channel and model), the indexes, and the property itself.
CatalogInv ==
    /\ \A r \in Requests : Shape(req[r]) /\ Sound(req[r])
    /\ \A d \in Deployments : row[d] = "disabled" => d \in dozed
    /\ \A d \in Deployments : Live(d) => chan[d] # None /\ model[d] # None
    /\ Indexed
    /\ DeploymentsNeedRace

-----------------------------------------------------------------------------
(* Tables and indexes.                                                     *)

Tables == {Channels, Keys, Models, Deployments, Grants, Quotas, Limits}

\* No row is in two tables.
LEMMA RowTables ==
    /\ \A T, U \in Tables : \A x : x \in T /\ x \in U => T = U
    /\ \A T \in Tables : T \subseteq Rows
    /\ \A x \in Rows : \E T \in Tables : x \in T
    /\ None \notin Rows
<1>1. ASSUME NEW T \in Tables, NEW U \in Tables, NEW x, x \in T, x \in U PROVE T = U
  BY <1>1, CatalogAssumption DEF Tables
<1>2. \A T \in Tables : T \subseteq Rows
  BY DEF Tables, Rows, Named, Placed
<1>3. \A x \in Rows : \E T \in Tables : x \in T
  BY DEF Tables, Rows, Named, Placed
<1>4. None \notin Rows
  BY CatalogAssumption DEF Rows, Named, Placed
<1> QED BY <1>1, <1>2, <1>3, <1>4

\* The table CASE finds is the one the row is in.
LEMMA TableIs ==
    ASSUME NEW T \in Tables, NEW x \in T
    PROVE  TableOf(x) = T
<1>1. TableOf(x) = CHOOSE U \in Tables : x \in U
  BY DEF TableOf, Tables
<1>2. \E U \in Tables : x \in U
  OBVIOUS
<1>3. (CHOOSE U \in Tables : x \in U) \in Tables /\ x \in (CHOOSE U \in Tables : x \in U)
  BY <1>2
<1> QED BY <1>1, <1>3, RowTables

\* A flush collides with a rival, whichever of the indexes it meets.
LEMMA CollidesIs ==
    TypeOK => \A q : q.p.x \in Rows =>
        (Collides(q) <=> /\ q.p.op = "create" \/ (q.p.op = "update" /\ Live(q.p.x))
                         /\ Rivals(q.p, q.cleared))
<1> SUFFICES ASSUME TypeOK, NEW q, q.p.x \in Rows
             PROVE  Collides(q) <=> /\ q.p.op = "create" \/ (q.p.op = "update" /\ Live(q.p.x))
                                    /\ Rivals(q.p, q.cleared)
  OBVIOUS
<1> DEFINE x == q.p.x
           others(T) == {y \in T \ {x} : Live(y)}
           c == ColumnAfter(chan, q.p, q.p.c)
           m == ColumnAfter(model, q.p, q.p.m)
           A == x \in Channels \cup Models \cup Quotas /\ q.p.mark = "yes"
                  /\ others(TableOf(x)) \cap contested # {}
           B == x \in Limits /\ q.p.mark = "yes" /\ (contested \cap Limits) \ {x} # {}
           D == x \in Deployments /\ \E y \in others(Deployments) : <<c[x], m[x]>> = <<c[y], m[y]>>
           G == x \in Grants
                  /\ \/ \E y \in others(Grants) : m[x] = m[y]
                     \/ q.p.mark = "yes" /\ others(Grants) \cap (default \ q.cleared) # {}
<1>1. Collides(q) <=> /\ q.p.op = "create" \/ (q.p.op = "update" /\ Live(x))
                      /\ A \/ B \/ D \/ G
  BY DEF Collides
<1>2. /\ \A y \in Deployments : c[y] = IF y = x THEN Or(q.p.c, chan[y]) ELSE chan[y]
      /\ \A y \in Deployments \cup Grants : m[y] = IF y = x THEN Or(q.p.m, model[y]) ELSE model[y]
  BY DEF TypeOK, ColumnAfter, Or, Placed
<1> HIDE DEF c, m
<1>3. A <=> /\ q.p.mark = "yes"
            /\ \E T \in {Channels, Models, Quotas} :
                 x \in T /\ \E y \in T \ {x} : Live(y) /\ y \in contested
  <2>1. ASSUME NEW T \in {Channels, Models, Quotas}, x \in T PROVE TableOf(x) = T
    BY <2>1, TableIs DEF Tables
  <2> QED BY <2>1
<1>4. D <=> /\ x \in Deployments
            /\ \E y \in Deployments \ {x} :
                  Live(y) /\ chan[y] = Or(q.p.c, chan[x]) /\ model[y] = Or(q.p.m, model[x])
  BY <1>2
<1>5. G <=> /\ x \in Grants
            /\ \E y \in Grants \ {x} :
                 Live(y) /\ (model[y] = Or(q.p.m, model[x])
                              \/ (q.p.mark = "yes" /\ y \in default /\ y \notin q.cleared))
  BY <1>2
<1> HIDE DEF A, D, G
<1> QED BY <1>1, <1>3, <1>4, <1>5 DEF Rivals, B

-----------------------------------------------------------------------------
(* Payloads.                                                               *)

\* Payload builds a payload.
LEMMA PayloadTyped ==
    ASSUME NEW op \in {"none", "create", "update", "rotate", "delete"}, NEW x \in Rows \cup {None},
           NEW c \in Channels \cup {None}, NEW m \in Models \cup {None},
           NEW mark \in {"yes", "no", "unset"}, NEW flip \in BOOLEAN
    PROVE  Payload(op, x, c, m, mark, flip) \in PayloadType
  BY DEF Payload, PayloadType

\* What the requests for a channel, model, quota or rate limit may carry.
LEMMA NamedPayload ==
    ASSUME NEW T \in {Channels, Models, Quotas, Limits}, NEW p \in NamedPayloads(T)
    PROVE  /\ p \in PayloadType /\ p.x \in T /\ p.c = None /\ p.m = None
           /\ p.op \in {"create", "update", "delete"}
           /\ p.op = "delete" => p.mark = "unset"
<1>1. PICK op \in {"create", "update", "delete"}, x \in T, mark \in {"yes", "no", "unset"},
           flip \in BOOLEAN :
         p = Payload(op, x, None, None, mark, flip) /\ (op = "delete" => mark = "unset")
  <2>1. CASE \E x \in T, op \in {"create", "update"}, mark \in {"yes", "no"} :
                p = Payload(op, x, None, None, mark, FALSE)
    BY <2>1
  <2>2. CASE \E x \in T : p = Payload("update", x, None, None, "unset", TRUE)
    BY <2>2
  <2>3. CASE \E x \in T : p = Payload("delete", x, None, None, "unset", FALSE)
    BY <2>3
  <2> QED BY <2>1, <2>2, <2>3, SMT DEF NamedPayloads, Payload
<1>2. p \in PayloadType
  BY <1>1, PayloadTyped, RowTables DEF Tables
<1> QED BY <1>1, <1>2 DEF Payload

\* What the requests for a key may carry.
LEMMA KeyPayload ==
    ASSUME NEW p \in KeyPayloads
    PROVE  /\ p \in PayloadType /\ p.x \in Keys /\ p.mark = "unset"
           /\ p.op \in {"create", "update", "rotate", "delete"}
           /\ p.op = "delete" => p.c = None /\ p.m = None
<1>1. PICK op \in {"create", "update", "rotate", "delete"}, x \in Keys, c \in Channels \cup {None},
           flip \in BOOLEAN :
         p = Payload(op, x, c, None, "unset", flip) /\ (op = "delete" => c = None)
  <2>1. CASE \E op \in {"create", "update"}, k \in Keys, c \in Channels :
                p = Payload(op, k, c, None, "unset", FALSE)
    BY <2>1
  <2>2. CASE \E op \in {"update", "rotate", "delete"}, k \in Keys :
                p = Payload(op, k, None, None, "unset", op = "update")
    BY <2>2, ZenonT(30)
  <2> QED BY <2>1, <2>2, SMT DEF KeyPayloads, Payload
<1>2. p \in PayloadType
  BY <1>1, PayloadTyped, RowTables DEF Tables
<1> QED BY <1>1, <1>2 DEF Payload

\* What the requests for a deployment may carry.
LEMMA DeploymentPayload ==
    ASSUME NEW p \in DeploymentPayloads
    PROVE  /\ p \in PayloadType /\ p.x \in Deployments /\ p.mark = "unset"
           /\ p.op \in {"create", "update", "delete"}
           /\ p.op = "create" => p.c \in Channels /\ p.m \in Models
           /\ p.op = "update" /\ p.flip => p.c = None /\ p.m = None
           /\ p.op = "delete" => p.c = None /\ p.m = None /\ ~p.flip
<1>0. \/ \E d \in Deployments, c \in Channels, m \in Models, flip \in BOOLEAN :
            p = Payload("create", d, c, m, "unset", flip)
      \/ \E d \in Deployments, c \in Channels : p = Payload("update", d, c, None, "unset", FALSE)
      \/ \E d \in Deployments, m \in Models : p = Payload("update", d, None, m, "unset", FALSE)
      \/ \E d \in Deployments : p = Payload("update", d, None, None, "unset", TRUE)
      \/ \E d \in Deployments : p = Payload("delete", d, None, None, "unset", FALSE)
  <2> DEFINE A == {Payload("create", d, c, m, "unset", flip) :
                     d \in Deployments, c \in Channels, m \in Models, flip \in BOOLEAN}
             B == {Payload("update", d, c, None, "unset", FALSE) : d \in Deployments, c \in Channels}
             C == {Payload("update", d, None, m, "unset", FALSE) : d \in Deployments, m \in Models}
             D == {Payload(op, d, None, None, "unset", op = "update") :
                     op \in {"update", "delete"}, d \in Deployments}
  <2>1. p \in A \/ p \in B \/ p \in C \/ p \in D
    BY SMTT(30) DEF DeploymentPayloads, Payload
  <2>2. p \in A => \E d \in Deployments, c \in Channels, m \in Models, flip \in BOOLEAN :
                      p = Payload("create", d, c, m, "unset", flip)
    OBVIOUS
  <2>3. p \in B => \E d \in Deployments, c \in Channels : p = Payload("update", d, c, None, "unset", FALSE)
    BY SMT DEF Payload
  <2>4. p \in C => \E d \in Deployments, m \in Models : p = Payload("update", d, None, m, "unset", FALSE)
    BY SMT DEF Payload
  <2>5. ASSUME p \in D
        PROVE  \/ \E d \in Deployments : p = Payload("update", d, None, None, "unset", TRUE)
               \/ \E d \in Deployments : p = Payload("delete", d, None, None, "unset", FALSE)
    <3>1. PICK op \in {"update", "delete"}, d \in Deployments :
             p = Payload(op, d, None, None, "unset", op = "update")
      BY <2>5
    <3>2. CASE op = "update"
      BY <3>1, <3>2 DEF Payload
    <3>3. CASE op = "delete"
      BY <3>1, <3>3 DEF Payload
    <3> QED BY <3>2, <3>3
  <2> HIDE DEF A, B, C, D
  <2> QED BY <2>1, <2>2, <2>3, <2>4, <2>5, Zenon
<1>1. PICK op \in {"create", "update", "delete"}, x \in Deployments, c \in Channels \cup {None},
           m \in Models \cup {None}, flip \in BOOLEAN :
         /\ p = Payload(op, x, c, m, "unset", flip)
         /\ op = "create" => c \in Channels /\ m \in Models
         /\ op = "update" /\ flip => c = None /\ m = None
         /\ op = "delete" => c = None /\ m = None /\ ~flip
  <2>1. CASE \E d \in Deployments, c \in Channels, m \in Models, flip \in BOOLEAN :
                p = Payload("create", d, c, m, "unset", flip)
    BY <2>1
  <2>2. CASE \E d \in Deployments, c \in Channels : p = Payload("update", d, c, None, "unset", FALSE)
    BY <2>2
  <2>3. CASE \E d \in Deployments, m \in Models : p = Payload("update", d, None, m, "unset", FALSE)
    BY <2>3
  <2>4. CASE \E d \in Deployments : p = Payload("update", d, None, None, "unset", TRUE)
    BY <2>4
  <2>5. CASE \E d \in Deployments : p = Payload("delete", d, None, None, "unset", FALSE)
    BY <2>5
  <2> QED BY <1>0, <2>1, <2>2, <2>3, <2>4, <2>5
<1>2. p \in PayloadType
  BY <1>1, PayloadTyped, RowTables DEF Tables
<1> QED BY <1>1, <1>2 DEF Payload

\* What the requests for a grant may carry.
LEMMA GrantPayload ==
    ASSUME NEW p \in GrantPayloads
    PROVE  /\ p \in PayloadType /\ p.x \in Grants /\ p.c = None /\ ~p.flip
           /\ p.op \in {"create", "update", "delete"}
           /\ p.op = "create" => p.m \in Models
           /\ p.op # "create" => p.m = None
           /\ p.op = "delete" => p.mark = "unset"
<1>1. PICK op \in {"create", "update", "delete"}, x \in Grants, m \in Models \cup {None},
           mark \in {"yes", "no", "unset"} :
         /\ p = Payload(op, x, None, m, mark, FALSE)
         /\ op = "create" => m \in Models
         /\ op # "create" => m = None
         /\ op = "delete" => mark = "unset"
  BY SMT DEF GrantPayloads, Payload
<1>2. p \in PayloadType
  BY <1>1, PayloadTyped, RowTables DEF Tables
<1> QED BY <1>1, <1>2 DEF Payload

\* An update writes at most what the payload has.
LEMMA WrittenIs ==
    ASSUME TypeOK, NEW p \in PayloadType
    PROVE  /\ Written(p) \in PayloadType
           /\ Written(p).op = p.op /\ Written(p).x = p.x /\ Written(p).flip = p.flip
           /\ Written(p).c \in {p.c, None} /\ Written(p).m \in {p.m, None}
           /\ Written(p).mark \in {p.mark, "unset"}
           /\ p.op # "update" => Written(p) = p
           /\ p.op = "update" /\ p.x \in Placed => Or(Written(p).c, chan[p.x]) = Or(p.c, chan[p.x])
           /\ p.op = "update" /\ p.x \in Deployments =>
                 Or(Written(p).m, model[p.x]) = Or(p.m, model[p.x])
           /\ p.op = "update" /\ p.x \in contested \cup default => Written(p).mark # "yes"
  BY ZenonT(30) DEF Written, PayloadType, Or

-----------------------------------------------------------------------------
(* Steps that write no row.                                                *)

\* An idle request promises nothing.
LEMMA IdleRequestSound ==
    /\ IdleRequest \in RequestType /\ Shape(IdleRequest) /\ Sound(IdleRequest)
    /\ IdleRequest.stage = "idle" /\ IdleRequest.cleared = {} /\ ~IdleRequest.overtaken
<1>1. Payload("none", None, None, None, "unset", FALSE) \in PayloadType
  BY PayloadTyped
<1>2. IdleRequest \in RequestType
  BY <1>1 DEF IdleRequest, RequestType
<1>3. /\ IdleRequest.stage = "idle" /\ IdleRequest.cleared = {} /\ ~IdleRequest.overtaken
      /\ IdleRequest.status = "same" /\ IdleRequest.p = Payload("none", None, None, None, "unset", FALSE)
  BY DEF IdleRequest
<1>4. IdleRequest.p.op = "none"
  BY <1>3 DEF Payload
<1> QED BY <1>2, <1>3, <1>4 DEF Shape, Sound

\* Rivals are found in the row's own table.
LEMMA RivalsLocal ==
    ASSUME NEW p, NEW cleared, NEW T \in Tables, p.x \in T,
           \A y \in T : row'[y] = row[y] /\ (y \in contested' <=> y \in contested),
           T = Deployments => \A y \in T : chan'[y] = chan[y],
           T \in {Deployments, Grants} => \A y \in T : model'[y] = model[y],
           T = Grants => default' = default
    PROVE  Rivals(p, cleared)' <=> Rivals(p, cleared)
<1>1. \A y \in T : Live(y)' <=> Live(y)
  BY DEF Live
<1>2. \A U \in Tables : p.x \in U => U = T
  BY RowTables
<1>3. T \in {Channels, Models, Quotas} =>
        ((p.mark = "yes" /\ \E y \in T \ {p.x} : Live(y) /\ y \in contested)'
          <=> (p.mark = "yes" /\ \E y \in T \ {p.x} : Live(y) /\ y \in contested))
  BY <1>1
<1>4. CASE T = Channels
  BY <1>1, <1>2, <1>4 DEF Rivals, Tables
<1>5. CASE T = Models
  BY <1>1, <1>2, <1>5 DEF Rivals, Tables
<1>6. CASE T = Quotas
  BY <1>1, <1>2, <1>6 DEF Rivals, Tables
<1>7. CASE T = Limits
  BY <1>1, <1>2, <1>7 DEF Rivals, Tables
<1>8. CASE T = Keys
  BY <1>1, <1>2, <1>8 DEF Rivals, Tables
<1>9. CASE T = Deployments
  BY <1>1, <1>2, <1>9 DEF Rivals, Tables, Or
<1>10. CASE T = Grants
  BY <1>1, <1>2, <1>10 DEF Rivals, Tables, Or
<1> QED BY <1>4, <1>5, <1>6, <1>7, <1>8, <1>9, <1>10 DEF Tables

\* What a request is found to be in the next state.
LEMMA SoundNext ==
    ASSUME NEW t, NEW v, v = req'[t], Sound(v)', Shape(v)'
    PROVE  Sound(req[t])' /\ Shape(req[t])'
<1>1. Shape(req[t])'
  BY DEF Shape
<1>2. Rivals(req[t].p, Clearing(req[t]))' <=> Rivals(v.p, Clearing(v))'
  BY DEF Rivals, Clearing
<1>3. Sound(req[t])'
  BY <1>2 DEF Sound
<1> QED BY <1>1, <1>3

\* A step that changes only its own request keeps the invariant when the request
\* it leaves is sound.
LEMMA OwnStep ==
    ASSUME TypeOK, CatalogInv, NEW r \in Requests, NEW e \in RequestType,
           req' = [req EXCEPT ![r] = e], UNCHANGED <<columns, raced, dozed, commits>>,
           lock' \in [Grants -> Requests \cup {None}],
           \A g \in Grants : lock'[g] \in {lock[g], r, None},
           \A g \in Grants : lock'[g] = r => e.stage = "commit",
           Shape(e), Sound(e)
    PROVE  TypeOK' /\ CatalogInv'
<1>1. /\ req'[r] = e /\ \A t \in Requests \ {r} : req'[t] = req[t]
      /\ req' \in [Requests -> RequestType]
  BY DEF TypeOK, RequestType, PayloadType
<1>2. /\ row' = row /\ contested' = contested /\ chan' = chan /\ model' = model /\ default' = default
      /\ raced' = raced /\ dozed' = dozed /\ commits' = commits
  BY DEF columns
<1>3. \A g \in Grants : lock'[g] # None => req'[lock'[g]].stage = "commit"
  BY <1>1 DEF TypeOK
<1>4. TypeOK'
  BY <1>1, <1>2, <1>3 DEF TypeOK, RequestType, PayloadType
<1>5. ASSUME NEW t \in Requests PROVE Shape(req[t])' /\ Sound(req[t])'
  <2>1. PICK v : v = req'[t]
    OBVIOUS
  <2>2. Shape(v) /\ Sound(v)
    BY <1>1, <2>1 DEF CatalogInv
  <2>3. \A x : (Live(x)' <=> Live(x)) /\ (Active(x)' <=> Active(x))
    BY <1>2 DEF Live, Active
  <2>4. CurrentDefault' = CurrentDefault
    BY <1>2, <2>3 DEF CurrentDefault
  <2>5. Shape(v)'
    BY <1>2, <2>2 DEF Shape
  <2>6. v.p.x \in Rows => (Rivals(v.p, Clearing(v))' <=> Rivals(v.p, Clearing(v)))
    BY <1>2, RowTables, RivalsLocal DEF Clearing
  <2>7. Sound(v)'
    BY <1>2, <2>2, <2>3, <2>4, <2>6 DEF Sound, Shape
  <2> QED BY <2>1, <2>5, <2>7, SoundNext
<1>6. (/\ DeploymentsNeedRace /\ Indexed
       /\ \A d \in Deployments : row[d] = "disabled" => d \in dozed
       /\ \A d \in Deployments : Live(d) => chan[d] # None /\ model[d] # None)'
  BY <1>2 DEF CatalogInv, DeploymentsNeedRace, Indexed, Live, Active
<1> QED BY <1>4, <1>5, <1>6 DEF CatalogInv

\* A handler's first step.
LEMMA StartStep ==
    ASSUME TypeOK, CatalogInv, NEW r \in Requests, req[r].stage = "idle",
           NEW p \in PayloadType, NEW stage \in {"clear", "commit"}, Start(r, p, stage),
           p.x \in Rows, p.op # "none", p.op = "rotate" => p.x \in Keys,
           stage = "clear" => p.x \in Grants /\ Written(p).mark = "yes" /\ p.op # "delete",
           p.op = "create" /\ p.x \in Deployments => p.c # None /\ p.m # None,
           p.flip /\ p.x \in Deployments => p.op \in {"create", "update"},
           p.op # "create" => Live(p.x),
           p.x \in Deployments => /\ p.c # None => Live(p.c)
                                  /\ p.m # None => Live(p.m),
           p.op = "delete" => \A d \in Deployments : Active(d) => p.x \notin {chan[d], model[d]},
           p.x \notin Limits /\ p.op \in {"create", "update"} =>
                ~Rivals(Written(p), IF stage = "clear" THEN Grants ELSE {})
    PROVE  TypeOK' /\ CatalogInv'
<1> DEFINE e == [IdleRequest EXCEPT !.stage = stage, !.p = Written(p), !.status = StatusSet(p)]
<1>1. StatusSet(p) \in {"same", "active", "disabled"}
  BY DEF StatusSet
<1>2. /\ e \in RequestType /\ e.stage = stage /\ e.p = Written(p) /\ e.status = StatusSet(p)
      /\ e.cleared = {} /\ ~e.overtaken
  BY <1>1, IdleRequestSound, WrittenIs DEF RequestType
<1>3. req' = [req EXCEPT ![r] = e] /\ UNCHANGED <<columns, raced, dozed, commits>> /\ lock' = lock
  BY DEF Start
<1> HIDE DEF e
<1>5. p.op = "update" /\ StatusSet(p) = "active" /\ p.x \in Deployments => p.x \in dozed
  BY DEF StatusSet, CatalogInv, Live, Active
<1>6. StatusSet(p) = "active" => p.op = "update"
  BY DEF StatusSet
<1>7. Shape(e)
  BY <1>2, <1>5, <1>6, WrittenIs DEF Shape
<1>8. p.x \notin Limits /\ p.op \in {"create", "update"} => ~Rivals(e.p, Clearing(e))
  BY <1>2 DEF Clearing
<1>9. Sound(e)
  BY <1>2, <1>8, WrittenIs DEF Sound
<1>10. \A g \in Grants : lock[g] # r
  BY RowTables, CatalogAssumption DEF TypeOK
<1>11. lock \in [Grants -> Requests \cup {None}]
  BY DEF TypeOK
<1> QED BY <1>2, <1>3, <1>7, <1>9, <1>10, <1>11, OwnStep

-----------------------------------------------------------------------------
(* Requests are received.                                                  *)

\* A row with a name of its own has no rival, nor has one whose name was looked for.
LEMMA NamedStep ==
    ASSUME TypeOK, CatalogInv, NEW r \in Requests, req[r].stage = "idle",
           NEW T \in {Channels, Models, Quotas, Limits}, NEW p \in NamedPayloads(T),
           p.op \in {"create", "update"}, p.op = "update" => Live(p.x),
           p.mark = "yes" => NameIsFree(p.x) \/ T = Limits,
           Start(r, p, "commit")
    PROVE  TypeOK' /\ CatalogInv'
<1> DEFINE w == Written(p)
<1>1. /\ p \in PayloadType /\ p.x \in T /\ p.x \in Rows /\ p.c = None /\ p.m = None
      /\ TableOf(p.x) = T /\ T \in Tables
  BY NamedPayload, RowTables, TableIs DEF Tables
<1>2. w.x = p.x /\ w.mark \in {p.mark, "unset"}
  BY <1>1, WrittenIs
<1>3. \A U \in Tables : p.x \in U => U = T
  BY <1>1, RowTables
<1>4. p.x \notin Deployments /\ p.x \notin Grants
  BY <1>1, CatalogAssumption
<1> HIDE DEF w
<1>5. p.x \notin Limits => ~Rivals(w, {})
  <2>1. p.x \notin Limits => (p.mark = "yes" => \A y \in T \ {p.x} : y \in contested => ~Live(y))
    BY <1>1 DEF NameIsFree
  <2>2. \A U \in {Channels, Models, Quotas} : p.x \in U => U = T
    BY <1>3 DEF Tables
  <2> QED BY <1>2, <1>4, <2>1, <2>2 DEF Rivals
<1> QED BY <1>1, <1>4, <1>5, StartStep DEF w

\* Nothing has to be looked for before a row is deleted that nothing refers to.
LEMMA DeleteStep ==
    ASSUME TypeOK, CatalogInv, NEW r \in Requests, req[r].stage = "idle",
           NEW p \in PayloadType, p.x \in Rows, p.op = "delete", Live(p.x),
           p.c = None, p.m = None, p.x \in Deployments => ~p.flip,
           p.x \in Channels \cup Models => CountActiveDeployments(p.x) = 0,
           Start(r, p, "commit")
    PROVE  TypeOK' /\ CatalogInv'
<1>1. ASSUME NEW d \in Deployments, Active(d) PROVE p.x \notin {chan[d], model[d]}
  <2> DEFINE S == {e \in Deployments : Active(e) /\ p.x \in {chan[e], model[e]}}
  <2>1. chan[d] \in Channels \cup {None} /\ model[d] \in Models \cup {None}
    BY DEF TypeOK, Placed
  <2>2. CASE p.x \in Channels \cup Models
    <3>1. IsFiniteSet(S)
      <4>1. S \subseteq Deployments
        OBVIOUS
      <4> HIDE DEF S
      <4> QED BY <4>1, FS_Subset, CatalogAssumption
    <3>2. Cardinality(S) = 0
      BY <2>2 DEF CountActiveDeployments
    <3>3. S = {}
      <4> HIDE DEF S
      <4> QED BY <3>1, <3>2, FS_EmptySet
    <3> QED BY <1>1, <3>3
  <2>3. CASE p.x \notin Channels \cup Models
    BY <2>1, <2>3, RowTables
  <2> QED BY <2>2, <2>3
<1> QED BY <1>1, StartStep

\* A key has no rival but by its own row.
LEMMA KeyStep ==
    ASSUME TypeOK, CatalogInv, NEW r \in Requests, req[r].stage = "idle",
           NEW p \in KeyPayloads, p.op # "delete", p.op # "create" => Live(p.x),
           Start(r, p, "commit")
    PROVE  TypeOK' /\ CatalogInv'
<1>1. p \in PayloadType /\ p.x \in Keys /\ p.x \in Rows /\ p.op # "none"
  BY KeyPayload, RowTables DEF Tables
<1>2. /\ p.x \notin Deployments /\ p.x \notin Grants /\ p.x \notin Limits
      /\ p.x \notin Channels /\ p.x \notin Models /\ p.x \notin Quotas
  BY <1>1, CatalogAssumption
<1>3. ~Rivals(Written(p), {})
  <2>1. Written(p).x = p.x
    BY <1>1, WrittenIs
  <2> QED BY <1>2, <2>1 DEF Rivals
<1> QED BY <1>1, <1>2, <1>3, StartStep

\* A deployment starts with its channel and model found, and its pair free.
LEMMA DeploymentStep ==
    ASSUME TypeOK, CatalogInv, NEW r \in Requests, req[r].stage = "idle",
           NEW p \in DeploymentPayloads, CreateDeployment(r, p) \/ UpdateDeployment(r, p)
    PROVE  TypeOK' /\ CatalogInv'
<1> DEFINE w == Written(p)
<1>1. /\ p \in PayloadType /\ p.x \in Deployments /\ p.x \in Rows /\ p.op \in {"create", "update"}
      /\ p.op = "create" => p.c \in Channels /\ p.m \in Models
      /\ p.op = "update" /\ p.flip => p.c = None /\ p.m = None
      /\ p.op = "update" => Live(p.x)
      /\ p.c # None => Live(p.c)
      /\ p.m # None => Live(p.m)
      /\ Start(r, p, "commit")
  BY DeploymentPayload, RowTables DEF Tables, CreateDeployment, UpdateDeployment, Active, Live
<1>2. /\ p.x \notin Grants /\ p.x \notin Limits
      /\ p.x \notin Channels /\ p.x \notin Models /\ p.x \notin Quotas
      /\ None \notin Channels /\ None \notin Models
  BY <1>1, CatalogAssumption
<1>3. w.x = p.x /\ (p.op = "create" => w = p)
  BY <1>1, WrittenIs
<1>4. p.x \in Placed
  BY <1>1 DEF Placed
<1>5. p.op = "update" =>
        Or(w.c, chan[p.x]) = Or(p.c, chan[p.x]) /\ Or(w.m, model[p.x]) = Or(p.m, model[p.x])
  BY <1>1, <1>4, WrittenIs
<1> HIDE DEF w
<1>6. ASSUME NEW y \in Deployments \ {p.x}, Live(y), chan[y] = Or(w.c, chan[p.x]),
             model[y] = Or(w.m, model[p.x])
      PROVE  FALSE
  <2>1. CASE p.op = "create"
    <3>1. chan[y] = p.c /\ model[y] = p.m
      BY <1>1, <1>2, <1>3, <1>6, <2>1 DEF Or
    <3> QED BY <1>6, <2>1, <3>1 DEF CreateDeployment, UpdateDeployment, DeploymentIsUnique
  <2>2. CASE p.op = "update" /\ ~p.flip
    BY <1>5, <1>6, <2>2 DEF CreateDeployment, UpdateDeployment, DeploymentIsUnique
  <2>3. CASE p.op = "update" /\ p.flip
    <3>1. chan[y] = chan[p.x] /\ model[y] = model[p.x] /\ Live(p.x)
      BY <1>1, <1>5, <1>6, <2>3 DEF Or
    <3> QED BY <1>1, <1>6, <3>1 DEF CatalogInv, Indexed
  <2> QED BY <1>1, <2>1, <2>2, <2>3
<1>7. ~Rivals(w, {})
  BY <1>2, <1>3, <1>6 DEF Rivals
<1> QED BY <1>1, <1>2, <1>7, StartStep DEF w

\* A grant starts with its model free.
LEMMA GrantStep ==
    ASSUME TypeOK, CatalogInv, NEW r \in Requests, req[r].stage = "idle",
           NEW p \in GrantPayloads, CreateGrant(r, p) \/ UpdateGrant(r, p)
    PROVE  TypeOK' /\ CatalogInv'
<1> DEFINE w == Written(p)
<1>1. /\ p \in PayloadType /\ p.x \in Grants /\ p.x \in Rows /\ p.op \in {"create", "update"}
      /\ p.op = "create" => p.m \in Models
      /\ p.op = "update" => p.m = None /\ Live(p.x)
  BY GrantPayload, RowTables DEF Tables, CreateGrant, UpdateGrant
<1>2. /\ p.x \notin Deployments /\ p.x \notin Limits /\ p.x \notin Named
      /\ p.x \notin Channels /\ p.x \notin Models /\ p.x \notin Quotas
      /\ None \notin Models
  BY <1>1, CatalogAssumption DEF Named
<1>3. /\ w.x = p.x /\ (p.op = "create" => w = p) /\ w.m \in {p.m, None} /\ w.mark \in {p.mark, "unset"}
      /\ p.op = "update" /\ p.x \in contested \cup default => w.mark # "yes"
  BY <1>1, WrittenIs
<1> DEFINE stage == IF p.mark = "yes" /\ (p.op = "create" \/ p.x \notin default)
                    THEN "clear" ELSE "commit"
<1>4. Start(r, p, stage) /\ stage \in {"clear", "commit"}
  BY DEF CreateGrant, UpdateGrant
<1>5. (stage = "clear") <=> (w.mark = "yes")
  <2>1. p.op = "update" /\ p.mark = "yes" /\ p.x \notin default => w.mark = "yes"
    <3>1. p.x \notin contested
      BY <1>2 DEF TypeOK
    <3> QED BY <1>1, <3>1 DEF Written, PayloadType
  <2> QED BY <1>1, <1>3, <2>1
<1> HIDE DEF w, stage
<1>6. ASSUME NEW y \in Grants \ {p.x}, Live(y), model[y] = Or(w.m, model[p.x]) PROVE FALSE
  <2>1. CASE p.op = "create"
    BY <1>1, <1>2, <1>3, <1>6, <2>1 DEF Or, CreateGrant, UpdateGrant
  <2>2. CASE p.op = "update"
    <3>1. model[y] = model[p.x] /\ Live(p.x)
      BY <1>1, <1>3, <1>6, <2>2 DEF Or
    <3> QED BY <1>1, <1>6, <3>1 DEF CatalogInv, Indexed
  <2> QED BY <1>1, <2>1, <2>2
<1>7. ~Rivals(w, IF stage = "clear" THEN Grants ELSE {})
  BY <1>2, <1>3, <1>5, <1>6 DEF Rivals
<1> QED BY <1>1, <1>2, <1>4, <1>5, <1>7, StartStep DEF w

\* Every request is received as its checks found the rows.
LEMMA ReceiveStep ==
    ASSUME TypeOK, CatalogInv, NEW r \in Requests, Receive(r)
    PROVE  TypeOK' /\ CatalogInv'
<1>0. req[r].stage = "idle"
  BY DEF Receive
<1>1. ASSUME NEW T \in {Channels, Models, Quotas, Limits}, NEW p \in NamedPayloads(T),
             \/ CreateNamed(r, p) \/ UpdateNamed(r, p) \/ UpdateRule(r, p)
             \/ T = Limits /\ CreateRule(r, p)
      PROVE  TypeOK' /\ CatalogInv'
  BY <1>0, <1>1, NamedStep DEF CreateNamed, UpdateNamed, UpdateRule, CreateRule
<1>2. ASSUME NEW p \in KeyPayloads \cup DeploymentPayloads \cup GrantPayloads, DeleteRow(r, p)
      PROVE  TypeOK' /\ CatalogInv'
  <2>1. /\ p \in PayloadType /\ p.x \in Keys \cup Deployments \cup Grants
        /\ p.op = "delete" => p.c = None /\ p.m = None /\ (p.x \in Deployments => ~p.flip)
    BY KeyPayload, DeploymentPayload, GrantPayload, CatalogAssumption
  <2>2. p.x \in Rows /\ p.x \notin Channels \cup Models
    BY <2>1, CatalogAssumption DEF Rows, Placed
  <2> QED BY <1>0, <1>2, <2>1, <2>2, DeleteStep DEF DeleteRow
<1>3. ASSUME NEW T \in {Quotas, Limits}, NEW p \in NamedPayloads(T), DeleteRow(r, p)
      PROVE  TypeOK' /\ CatalogInv'
  <2>1. /\ p \in PayloadType /\ p.x \in T /\ p.c = None /\ p.m = None
    BY NamedPayload
  <2>2. p.x \in Rows /\ p.x \notin Channels \cup Models /\ p.x \notin Deployments
    BY <2>1, CatalogAssumption DEF Rows, Named
  <2> QED BY <1>0, <1>3, <2>1, <2>2, DeleteStep DEF DeleteRow
<1>4. ASSUME NEW T \in {Channels, Models}, NEW p \in NamedPayloads(T),
             DeleteChannel(r, p) \/ DeleteModel(r, p)
      PROVE  TypeOK' /\ CatalogInv'
  <2>1. /\ p \in PayloadType /\ p.x \in T /\ p.c = None /\ p.m = None
    BY NamedPayload
  <2>2. p.x \in Rows /\ p.x \notin Deployments
    BY <2>1, CatalogAssumption DEF Rows, Named
  <2> QED BY <1>0, <1>4, <2>1, <2>2, DeleteStep DEF DeleteChannel, DeleteModel
<1>5. CASE ChannelRequest(r)
  BY <1>1, <1>4, <1>5 DEF ChannelRequest, CreateChannel, UpdateChannel
<1>6. CASE ModelRequest(r)
  BY <1>1, <1>4, <1>6 DEF ModelRequest, CreateModel, UpdateModel
<1>7. CASE KeyRequest(r)
  BY <1>0, <1>2, <1>7, KeyStep DEF KeyRequest, CreateKey, UpdateKey
<1>8. CASE DeploymentRequest(r)
  BY <1>0, <1>2, <1>8, DeploymentStep DEF DeploymentRequest
<1>9. CASE GrantRequest(r)
  BY <1>0, <1>2, <1>9, GrantStep DEF GrantRequest
<1>10. CASE QuotaRequest(r)
  BY <1>1, <1>3, <1>10 DEF QuotaRequest, CreateQuota
<1>11. CASE RateLimitRequest(r)
  BY <1>1, <1>3, <1>11 DEF RateLimitRequest
<1> QED BY <1>5, <1>6, <1>7, <1>8, <1>9, <1>10, <1>11 DEF Receive

-----------------------------------------------------------------------------
(* The default is cleared; a request is refused; what a commit writes.     *)

\* The default is cleared under its row lock.
LEMMA ClearStep ==
    ASSUME TypeOK, CatalogInv, NEW r \in Requests, ClearDefault(r)
    PROVE  TypeOK' /\ CatalogInv'
<1> DEFINE q == req[r]
<1>1. /\ q \in RequestType /\ q.stage \in {"clear", "wait"} /\ Shape(q) /\ Sound(q)
      /\ UNCHANGED <<columns, raced, dozed, commits>>
  BY DEF ClearDefault, TypeOK, CatalogInv, RequestType, PayloadType
<1>2. PICK stage \in {"wait", "commit"}, cleared \in SUBSET Grants :
        /\ req' = [req EXCEPT ![r] = [q EXCEPT !.stage = stage, !.cleared = cleared]]
        /\ cleared \subseteq CurrentDefault
        /\ ~q.overtaken => cleared = CurrentDefault
        /\ lock' \in [Grants -> Requests \cup {None}]
        /\ \A g \in Grants : lock'[g] \in {lock[g], r, None}
        /\ stage = "wait" => lock' = lock
  <2>1. CurrentDefault \in SUBSET Grants /\ q.cleared \in SUBSET Grants
    BY <1>1 DEF CurrentDefault, TypeOK, RequestType
  <2>2. CASE q.stage = "clear" /\ \E g \in CurrentDefault : lock[g] # None
    <3>1. req' = [req EXCEPT ![r] = [q EXCEPT !.stage = "wait", !.cleared = CurrentDefault]]
          /\ lock' = lock
      BY <1>1, <2>2 DEF ClearDefault, TypeOK, RequestType
    <3> QED BY <2>1, <3>1 DEF TypeOK
  <2>3. CASE q.stage = "clear" /\ ~\E g \in CurrentDefault : lock[g] # None
    <3>1. /\ req' = [req EXCEPT ![r] = [q EXCEPT !.stage = "commit", !.cleared = CurrentDefault]]
          /\ lock' = [g \in Grants |-> IF g \in CurrentDefault THEN r ELSE lock[g]]
      BY <1>1, <2>3 DEF ClearDefault, TypeOK, RequestType
    <3> QED BY <2>1, <3>1 DEF TypeOK
  <2>4. CASE q.stage = "wait"
    <3> DEFINE cleared == q.cleared \cap CurrentDefault
    <3>1. /\ req' = [req EXCEPT ![r] = [q EXCEPT !.stage = "commit", !.cleared = cleared]]
          /\ lock' = [g \in Grants |-> IF g \in cleared THEN r ELSE lock[g]]
      BY <1>1, <2>4 DEF ClearDefault, TypeOK, RequestType
    <3>2. ~q.overtaken => q.cleared = CurrentDefault
      BY <1>1, <2>4 DEF Sound
    <3>3. cleared \in SUBSET Grants /\ cleared \subseteq CurrentDefault
          /\ (~q.overtaken => cleared = CurrentDefault)
      BY <2>1, <3>2
    <3> HIDE DEF cleared
    <3> QED BY <3>1, <3>3 DEF TypeOK
  <2> QED BY <1>1, <2>2, <2>3, <2>4
<1> DEFINE e == [q EXCEPT !.stage = stage, !.cleared = cleared]
<1>3. /\ e \in RequestType /\ e.stage = stage /\ e.p = q.p /\ e.status = q.status
      /\ e.cleared = cleared /\ e.overtaken = q.overtaken
  BY <1>1 DEF RequestType
<1>4. req' = [req EXCEPT ![r] = e]
  BY <1>2
<1> HIDE DEF e
<1>5. Shape(e)
  BY <1>1, <1>3 DEF Shape
<1>6. ASSUME ~q.overtaken, q.p.op \in {"create", "update"}, q.p.x \notin Limits
      PROVE  ~Rivals(e.p, Clearing(e))
  <2>1. ~Rivals(q.p, Grants)
    BY <1>1, <1>6 DEF Sound, Clearing
  <2>2. \A y \in Grants : Live(y) /\ y \in default => y \in Clearing(e)
    BY <1>2, <1>3, <1>6 DEF Clearing, CurrentDefault
  <2>3. q.p.x \in Grants
    BY <1>1 DEF Shape
  <2>4. q.p.x \notin Deployments /\ \A T \in {Channels, Models, Quotas} : q.p.x \notin T
    BY <2>3, CatalogAssumption
  <2> QED BY <1>3, <1>6, <2>1, <2>2, <2>3, <2>4 DEF Rivals
<1>7. Sound(e)
  BY <1>1, <1>2, <1>3, <1>6 DEF Sound
<1>8. \A g \in Grants : lock[g] # r
  <2>1. None \notin Requests
    BY CatalogAssumption
  <2> QED BY <1>1, <2>1 DEF TypeOK
<1>9. \A g \in Grants : lock'[g] = r => e.stage = "commit"
  BY <1>2, <1>3, <1>8
<1> QED BY <1>1, <1>2, <1>3, <1>4, <1>5, <1>7, <1>9, OwnStep

\* A refused request leaves the rows alone.
LEMMA RefuseStep ==
    ASSUME TypeOK, CatalogInv, NEW r \in Requests, Refuse(r)
    PROVE  TypeOK' /\ CatalogInv'
<1>1. /\ req' = [req EXCEPT ![r] = IdleRequest] /\ UNCHANGED <<columns, raced, dozed, commits>>
      /\ lock' = [g \in Grants |-> IF lock[g] = r THEN None ELSE lock[g]]
  BY DEF Refuse, Release
<1>2. None \notin Requests
  BY CatalogAssumption
<1>3. /\ lock' \in [Grants -> Requests \cup {None}]
      /\ \A g \in Grants : lock'[g] \in {lock[g], r, None} /\ lock'[g] # r
  BY <1>1, <1>2 DEF TypeOK
<1> QED BY <1>1, <1>3, IdleRequestSound, OwnStep

-----------------------------------------------------------------------------
(* Commits.                                                                *)

\* What a commit does to the rows and to the other requests.
LEMMA CommitEffect ==
    ASSUME TypeOK, CatalogInv, NEW r \in Requests, Commit(r)
    PROVE  LET q == req[r] IN
           /\ q \in RequestType /\ q.stage = "commit" /\ q.p \in PayloadType /\ q.p.x \in Rows
           /\ Shape(q) /\ Sound(q)
           /\ q.p.op = "create" \/ (q.p.op = "update" /\ Live(q.p.x)) => ~Rivals(q.p, q.cleared)
           /\ \A y \in Rows : row'[y] = StatusAfter(q, y)
           /\ \A y \in Rows : y # q.p.x => row'[y] = row[y]
           /\ \A y \in Rows : Live(y) /\ ~(q.p.op = "delete" /\ y = q.p.x) => Live(y)'
           /\ \A y \in Rows : Live(y)' => Live(y) \/ (q.p.op = "create" /\ y = q.p.x)
           /\ q.p.op = "create" => row'[q.p.x] \in {"active", "disabled"}
           /\ q.p.op = "delete" => row'[q.p.x] \notin {"active", "disabled"}
           /\ \A y \in Rows : Active(y)' => \/ Active(y)
                                            \/ y = q.p.x /\ (q.p.op = "create" \/ q.status = "active")
           /\ \A y \in Rows : row'[y] = "disabled" => row[y] = "disabled" \/ (y = q.p.x /\ q.status = "disabled")
           /\ contested' = ContestedAfter(q) /\ default' = DefaultAfter(q)
           /\ \A y \in Placed : chan'[y] = IF y = q.p.x THEN Or(q.p.c, chan[y]) ELSE chan[y]
           /\ \A y \in Deployments \cup Grants :
                 model'[y] = IF y = q.p.x THEN Or(q.p.m, model[y]) ELSE model[y]
           /\ lock' = Release(r)
           /\ raced' = raced \cup (IF q.overtaken THEN {q.p.x, q.p.c, q.p.m} \ {None} ELSE {})
           /\ dozed' = dozed \cup (IF q.status = "disabled" THEN {q.p.x} ELSE {})
           /\ req'[r] = IdleRequest
           /\ req' \in [Requests -> RequestType]
           /\ \A t \in Requests \ {r} :
                 /\ req'[t].stage = req[t].stage /\ req'[t].p = req[t].p
                 /\ req'[t].status = req[t].status /\ req'[t].cleared = req[t].cleared
                 /\ req'[t].overtaken <=> (req[t].overtaken \/ Overtakes(q, req[t]))
<1> DEFINE q == req[r]
<1>0. /\ q \in RequestType /\ q.stage = "commit" /\ Shape(q) /\ Sound(q)
  BY DEF TypeOK, Commit, RequestType, PayloadType, CatalogInv
<1>1. /\ q.p \in PayloadType /\ q.p.x \in Rows /\ q.p.op \in {"create", "update", "rotate", "delete"}
      /\ q.status \in {"same", "active", "disabled"}
  BY <1>0 DEF RequestType, PayloadType, Shape
<1>2. /\ row' = [x \in Rows |-> StatusAfter(q, x)]
      /\ contested' = ContestedAfter(q) /\ default' = DefaultAfter(q)
      /\ chan' = ColumnAfter(chan, q.p, q.p.c)
      /\ model' = ColumnAfter(model, q.p, q.p.m)
      /\ lock' = Release(r)
      /\ raced' = raced \cup (IF q.overtaken THEN {q.p.x, q.p.c, q.p.m} \ {None} ELSE {})
      /\ dozed' = dozed \cup (IF q.status = "disabled" THEN {q.p.x} ELSE {})
      /\ req' = [t \in Requests |->
                   IF t = r THEN IdleRequest
                   ELSE [req[t] EXCEPT !.overtaken = @ \/ Overtakes(q, req[t])]]
      /\ ~Collides(q)
  BY DEF Commit
<1>3. q.p.op = "create" \/ (q.p.op = "update" /\ Live(q.p.x)) => ~Rivals(q.p, q.cleared)
  BY <1>1, <1>2, CollidesIs
<1>4. ASSUME NEW t \in Requests \ {r}
      PROVE  /\ req'[t].stage = req[t].stage /\ req'[t].p = req[t].p
             /\ req'[t].status = req[t].status /\ req'[t].cleared = req[t].cleared
             /\ req'[t].overtaken <=> (req[t].overtaken \/ Overtakes(q, req[t]))
             /\ req'[t] \in RequestType
  <2>1. req[t] \in RequestType /\ req'[t] = [req[t] EXCEPT !.overtaken = @ \/ Overtakes(q, req[t])]
    BY <1>2 DEF TypeOK, RequestType, PayloadType
  <2>2. Overtakes(q, req[t]) \in BOOLEAN
    BY DEF Overtakes
  <2> QED BY <2>1, <2>2 DEF RequestType
<1>5. req'[r] = IdleRequest /\ req' \in [Requests -> RequestType]
  BY <1>2, <1>4, IdleRequestSound
<1>6. ASSUME NEW y \in Rows
      PROVE  /\ row'[y] = StatusAfter(q, y)
             /\ y # q.p.x => row'[y] = row[y]
             /\ Live(y) /\ ~(q.p.op = "delete" /\ y = q.p.x) => Live(y)'
             /\ Live(y)' => Live(y) \/ (q.p.op = "create" /\ y = q.p.x)
             /\ q.p.op = "create" /\ y = q.p.x => Live(y)'
             /\ q.p.op = "delete" /\ y = q.p.x => ~Live(y)'
             /\ Active(y)' => Active(y) \/ (y = q.p.x /\ (q.p.op = "create" \/ q.status = "active"))
             /\ row'[y] = "disabled" => row[y] = "disabled" \/ (y = q.p.x /\ q.status = "disabled")
  <2>1. row'[y] = StatusAfter(q, y)
    BY <1>2
  <2> HIDE DEF q
  <2>2. CASE y # q.p.x
    <3>1. row'[y] = row[y]
      BY <2>1, <2>2 DEF StatusAfter
    <3> QED BY <2>1, <2>2, <3>1 DEF Live, Active
  <2>3. CASE y = q.p.x /\ q.p.op = "create"
    <3>1. row'[y] = IF q.status = "same" THEN "active" ELSE q.status
      BY <2>1, <2>3 DEF StatusAfter
    <3> QED BY <1>1, <2>1, <2>3, <3>1 DEF Live, Active
  <2>4. CASE y = q.p.x /\ q.p.op = "delete"
    <3>1. row'[y] = "deleted"
      BY <2>1, <2>4 DEF StatusAfter
    <3> QED BY <2>1, <2>4, <3>1 DEF Live, Active
  <2>5. CASE y = q.p.x /\ q.p.op \in {"update", "rotate"}
    <3>1. row'[y] = IF q.status # "same" /\ Live(y) THEN q.status ELSE row[y]
      BY <2>1, <2>5 DEF StatusAfter
    <3> QED BY <1>1, <2>1, <2>5, <3>1 DEF Live, Active
  <2> QED BY <1>1, <2>2, <2>3, <2>4, <2>5
<1>7. /\ \A y \in Placed : chan'[y] = IF y = q.p.x THEN Or(q.p.c, chan[y]) ELSE chan[y]
      /\ \A y \in Deployments \cup Grants :
            model'[y] = IF y = q.p.x THEN Or(q.p.m, model[y]) ELSE model[y]
  BY <1>2 DEF ColumnAfter, Or, TypeOK
<1> HIDE DEF q
<1>8. \A y \in Rows :
             /\ row'[y] = StatusAfter(q, y)
             /\ y # q.p.x => row'[y] = row[y]
             /\ Live(y) /\ ~(q.p.op = "delete" /\ y = q.p.x) => Live(y)'
             /\ Live(y)' => Live(y) \/ (q.p.op = "create" /\ y = q.p.x)
             /\ Active(y)' => Active(y) \/ (y = q.p.x /\ (q.p.op = "create" \/ q.status = "active"))
             /\ row'[y] = "disabled" => row[y] = "disabled" \/ (y = q.p.x /\ q.status = "disabled")
  BY <1>6
<1>9. (q.p.op = "create" => row'[q.p.x] \in {"active", "disabled"})
      /\ (q.p.op = "delete" => row'[q.p.x] \notin {"active", "disabled"})
  BY <1>1, <1>6 DEF Live
<1> QED BY <1>0, <1>1, <1>2, <1>3, <1>4, <1>5, <1>7, <1>8, <1>9 DEF q

-----------------------------------------------------------------------------
(* A commit keeps the types and the unique indexes.                        *)

\* A commit writes well-typed rows.
LEMMA CommitTypes ==
    ASSUME TypeOK, CatalogInv, NEW r \in Requests, Commit(r)
    PROVE  TypeOK'
<1> DEFINE q == req[r]
<1>0. /\ q.p \in PayloadType /\ q.p.x \in Rows /\ q.cleared \subseteq Grants
      /\ q.status \in {"same", "active", "disabled"}
      /\ req' \in [Requests -> RequestType]
      /\ raced' = raced \cup (IF q.overtaken THEN {q.p.x, q.p.c, q.p.m} \ {None} ELSE {})
      /\ dozed' = dozed \cup (IF q.status = "disabled" THEN {q.p.x} ELSE {})
  BY CommitEffect DEF RequestType
<1>1. row' \in [Rows -> {"none", "active", "disabled", "deleted"}]
  <2>1. row' = [x \in Rows |-> StatusAfter(q, x)]
    BY DEF Commit
  <2>2. ASSUME NEW x \in Rows PROVE StatusAfter(q, x) \in {"none", "active", "disabled", "deleted"}
    BY <1>0 DEF StatusAfter, TypeOK
  <2> QED BY <2>1, <2>2
<1>2. contested' \subseteq Named
  BY CommitEffect DEF ContestedAfter, MarkAfter, TypeOK
<1>3. default' \subseteq Grants
  BY CommitEffect, SMTT(30) DEF DefaultAfter, MarkAfter, TypeOK
<1>4. chan' \in [Placed -> Channels \cup {None}] /\ model' \in [Deployments \cup Grants -> Models \cup {None}]
  <2>1. chan' = ColumnAfter(chan, q.p, q.p.c) /\ model' = ColumnAfter(model, q.p, q.p.m)
    BY DEF Commit
  <2>2. q.p.c \in Channels \cup {None} /\ q.p.m \in Models \cup {None}
    BY <1>0 DEF PayloadType
  <2> HIDE DEF q
  <2> QED BY <2>1, <2>2 DEF ColumnAfter, TypeOK
<1>5. /\ lock' \in [Grants -> Requests \cup {None}]
      /\ \A g \in Grants : lock'[g] # None => req'[lock'[g]].stage = "commit"
  <2>1. /\ lock' = [g \in Grants |-> IF lock[g] = r THEN None ELSE lock[g]]
        /\ \A t \in Requests \ {r} : req'[t].stage = req[t].stage
    BY CommitEffect DEF Release
  <2> QED BY <2>1 DEF TypeOK
<1>6. raced' \subseteq Rows /\ dozed' \subseteq Rows
  <2>1. q.p.c \in Rows \cup {None} /\ q.p.m \in Rows \cup {None}
    BY <1>0 DEF PayloadType, Rows, Named
  <2> QED BY <1>0, <2>1 DEF TypeOK
<1>7. commits' \in 0..MaxCommits
  <2>1. commits' = commits + 1 /\ commits < MaxCommits /\ commits \in 0..MaxCommits /\ MaxCommits \in Nat
    BY CatalogAssumption DEF Commit, TypeOK
  <2> QED BY <2>1
<1> QED BY <1>0, <1>1, <1>2, <1>3, <1>4, <1>5, <1>6, <1>7 DEF TypeOK, RequestType, PayloadType

\* A commit leaves the tables alone that its row is not in.
LEMMA OtherTable ==
    ASSUME TypeOK, CatalogInv, NEW r \in Requests, Commit(r),
           NEW T \in Tables, req[r].p.x \notin T
    PROVE  /\ \A y \in T : row'[y] = row[y] /\ (y \in contested' <=> y \in contested)
           /\ T = Deployments => \A y \in T : chan'[y] = chan[y]
           /\ T \in {Deployments, Grants} => \A y \in T : model'[y] = model[y]
           /\ T = Grants => default' = default
<1> DEFINE q == req[r]
<1>1. T \subseteq Rows /\ \A y \in T : y # q.p.x
  BY RowTables
<1>2. \A y \in T : row'[y] = row[y]
  BY <1>1, CommitEffect
<1>3. \A y \in T : y \in contested' <=> y \in contested
  BY <1>1, CommitEffect DEF ContestedAfter, MarkAfter
<1>4. /\ \A y \in Placed : y # q.p.x => chan'[y] = chan[y]
      /\ \A y \in Deployments \cup Grants : y # q.p.x => model'[y] = model[y]
  BY CommitEffect
<1>5. T = Grants => default' = default
  BY CommitEffect DEF DefaultAfter
<1> QED BY <1>1, <1>2, <1>3, <1>4, <1>5 DEF Placed

\* A commit that the indexes let pass keeps them.
LEMMA CommitIndexed ==
    ASSUME TypeOK, CatalogInv, NEW r \in Requests, Commit(r)
    PROVE  Indexed'
<1> DEFINE q == req[r]
           LiveNow(y) == row'[y] \in {"active", "disabled"}
<1>0. /\ q.p \in PayloadType /\ q.p.x \in Rows
      /\ q.p.op = "create" \/ (q.p.op = "update" /\ Live(q.p.x)) => ~Rivals(q.p, q.cleared)
      /\ q.p.op \in {"create", "update", "rotate", "delete"}
  BY CommitEffect DEF PayloadType, Shape
<1>1. /\ \A y \in Rows : LiveNow(y) => Live(y) \/ (q.p.op = "create" /\ y = q.p.x)
      /\ q.p.op = "delete" => ~LiveNow(q.p.x)
  BY CommitEffect DEF Live
<1>2. /\ \A y \in Placed : chan'[y] = IF y = q.p.x THEN Or(q.p.c, chan[y]) ELSE chan[y]
      /\ \A y \in Deployments \cup Grants :
            model'[y] = IF y = q.p.x THEN Or(q.p.m, model[y]) ELSE model[y]
  BY CommitEffect
<1>3. Deployments \subseteq Placed /\ Deployments \subseteq Rows /\ Grants \subseteq Rows
  BY DEF Placed, Rows
\* Only a key is rotated, and a key is in neither index.
<1>4. q.p.op = "rotate" => q.p.x \notin Deployments /\ q.p.x \notin Grants
  BY CommitEffect, CatalogAssumption DEF Shape
<1> HIDE DEF q
<1>5. ASSUME NEW x \in Deployments, NEW y \in Deployments, x # y, LiveNow(x), LiveNow(y),
             chan'[x] = chan'[y], model'[x] = model'[y], x = q.p.x
      PROVE  FALSE
  <2>1. /\ Live(y) /\ chan[y] = Or(q.p.c, chan[x]) /\ model[y] = Or(q.p.m, model[x])
        /\ q.p.op # "delete"
    BY <1>1, <1>2, <1>3, <1>5
  <2>2. Rivals(q.p, q.cleared)
    BY <1>5, <2>1 DEF Rivals
  <2>3. q.p.op = "rotate" /\ Live(x)
    BY <1>0, <1>1, <1>3, <1>5, <2>1, <2>2
  <2> QED BY <1>4, <1>5, <2>3
<1>6. ASSUME NEW x \in Grants, NEW y \in Grants, x # y, LiveNow(x), LiveNow(y),
             model'[x] = model'[y], x = q.p.x
      PROVE  FALSE
  <2>1. Live(y) /\ model[y] = Or(q.p.m, model[x]) /\ q.p.op # "delete"
    BY <1>1, <1>2, <1>3, <1>6
  <2>2. Rivals(q.p, q.cleared)
    BY <1>6, <2>1 DEF Rivals
  <2>3. q.p.op = "rotate" /\ Live(x)
    BY <1>0, <1>1, <1>3, <1>6, <2>1, <2>2
  <2> QED BY <1>4, <1>6, <2>3
<1>7. ASSUME NEW x \in Deployments, NEW y \in Deployments, x # y, LiveNow(x), LiveNow(y)
      PROVE  <<chan'[x], model'[x]>> # <<chan'[y], model'[y]>>
  <2>1. CASE x # q.p.x /\ y # q.p.x
    BY <1>1, <1>2, <1>3, <1>7, <2>1 DEF CatalogInv, Indexed
  <2> QED BY <1>5, <1>7, <2>1
<1>8. ASSUME NEW x \in Grants, NEW y \in Grants, x # y, LiveNow(x), LiveNow(y)
      PROVE  model'[x] # model'[y]
  <2>1. CASE x # q.p.x /\ y # q.p.x
    BY <1>1, <1>2, <1>3, <1>8, <2>1 DEF CatalogInv, Indexed
  <2> QED BY <1>6, <1>8, <2>1
<1> QED BY <1>7, <1>8 DEF Indexed, Live

-----------------------------------------------------------------------------
(* A commit and the other requests; the theorems.                          *)

\* What another request has checked stays so, or the commit overtakes it.
LEMMA CommitOthers ==
    ASSUME TypeOK, CatalogInv, NEW r \in Requests, Commit(r), NEW t \in Requests \ {r}
    PROVE  Shape(req[t])' /\ Sound(req[t])'
<1> DEFINE q == req[r]
           s == req[t]
<1>0. PICK v : v = req'[t]
  OBVIOUS
<1>1. /\ q \in RequestType /\ q.p \in PayloadType /\ Shape(q) /\ q.p.x \in Rows
      /\ q.p.op \in {"create", "update", "rotate", "delete"}
      /\ dozed' = dozed \cup (IF q.status = "disabled" THEN {q.p.x} ELSE {})
  BY CommitEffect DEF PayloadType, Shape
<1>2. /\ v.stage = s.stage /\ v.p = s.p /\ v.status = s.status /\ v.cleared = s.cleared
      /\ v.overtaken <=> (s.overtaken \/ Overtakes(q, s))
  BY <1>0, CommitEffect
<1>3. s \in RequestType /\ s.p \in PayloadType /\ Shape(s) /\ Sound(s)
  BY DEF TypeOK, CatalogInv, RequestType, PayloadType
<1>4. Shape(v)'
  BY <1>1, <1>2, <1>3 DEF Shape
<1>5. Sound(v)'
  <2> SUFFICES ASSUME s.stage # "idle", ~s.overtaken, ~Overtakes(q, s) PROVE Sound(v)'
    BY <1>2 DEF Sound
  <2>1. PICK T \in Tables : s.p.x \in T
    BY <1>3, RowTables DEF Shape
  <2>2. /\ q.p.x \notin T
        /\ ~(q.p.op = "delete" /\ q.p.x \in {s.p.c, s.p.m})
        /\ ~(s.p.op = "delete" /\ s.p.x \in {q.p.c, q.p.m})
    <3>1. q.p.x \in T => TableOf(q.p.x) = TableOf(s.p.x)
      BY <2>1, TableIs
    <3> QED BY <3>1 DEF Overtakes
  <2>3. /\ \A y \in T : row'[y] = row[y] /\ (y \in contested' <=> y \in contested)
        /\ T = Deployments => \A y \in T : chan'[y] = chan[y]
        /\ T \in {Deployments, Grants} => \A y \in T : model'[y] = model[y]
        /\ T = Grants => default' = default
    BY <2>2, OtherTable
  <2>4. \A y \in Rows : Live(y) /\ ~(q.p.op = "delete" /\ y = q.p.x) =>
                           row'[y] \in {"active", "disabled"}
    BY CommitEffect DEF Live
  <2>5. s.p.x \in T /\ (s.p.op # "create" => row'[s.p.x] \in {"active", "disabled"})
    BY <1>3, <2>1, <2>3 DEF Sound, Live
  <2>6. s.p.x \in Deployments => /\ s.p.c # None => row'[s.p.c] \in {"active", "disabled"}
                                 /\ s.p.m # None => row'[s.p.m] \in {"active", "disabled"}
    <3>1. s.p.c \in Rows \cup {None} /\ s.p.m \in Rows \cup {None}
      BY <1>3 DEF PayloadType, Rows, Named
    <3> QED BY <1>3, <2>2, <2>4, <3>1 DEF Sound
  <2>7. ASSUME s.p.op = "delete", NEW d \in Deployments \ dozed', row'[d] = "active"
        PROVE  s.p.x \notin {chan'[d], model'[d]}
    <3>1. d \notin dozed /\ d \in Rows /\ d \in Placed
      BY <1>1, <2>7 DEF Rows, Placed
    <3>2. Active(d) \/ (d = q.p.x /\ q.p.op = "create")
      <4>1. Active(d) \/ (d = q.p.x /\ (q.p.op = "create" \/ q.status = "active"))
        BY <2>7, <3>1, CommitEffect DEF Active
      <4> QED BY <1>1, <3>1, <4>1 DEF Shape
    <3>3. /\ chan'[d] = IF d = q.p.x THEN Or(q.p.c, chan[d]) ELSE chan[d]
          /\ model'[d] = IF d = q.p.x THEN Or(q.p.m, model[d]) ELSE model[d]
      BY <3>1, CommitEffect
    <3>4. d = q.p.x /\ q.p.op = "create" => q.p.c # None /\ q.p.m # None
      BY <1>1 DEF Shape
    <3>5. Active(d) => s.p.x \notin {chan[d], model[d]}
      BY <1>3, <2>7, <3>1 DEF Sound
    <3> QED BY <2>2, <2>7, <3>2, <3>3, <3>4, <3>5 DEF Or
  <2>8. Rivals(v.p, Clearing(v))' <=> Rivals(s.p, Clearing(s))
    <3>1. v.p.x \in T /\ Clearing(v) = Clearing(s)
      BY <1>2, <2>1 DEF Clearing
    <3>2. Rivals(v.p, Clearing(v))' <=> Rivals(v.p, Clearing(v))
      BY <2>3, <3>1, RivalsLocal DEF Clearing
    <3> QED BY <1>2, <3>1, <3>2
  <2>9. s.stage = "wait" => s.cleared = CurrentDefault'
    <3> SUFFICES ASSUME s.stage = "wait" PROVE s.cleared = CurrentDefault'
      OBVIOUS
    <3>1. T = Grants
      BY <1>3, <2>1, RowTables DEF Shape, Tables
    <3>2. CurrentDefault' = CurrentDefault
      BY <2>3, <3>1 DEF CurrentDefault, Live, TypeOK
    <3> QED BY <1>3, <3>2 DEF Sound
  <2>10. s.p.op \in {"create", "update"} /\ s.p.x \notin Limits => ~Rivals(v.p, Clearing(v))'
    BY <1>3, <2>8 DEF Sound
  <2> HIDE DEF s, q
  <2> QED BY <1>2, <2>5, <2>6, <2>7, <2>9, <2>10 DEF Sound, Live, Active
<1> QED BY <1>0, <1>4, <1>5, SoundNext

\* A deployment is put where its channel and model are live, and these are deleted
\* when nothing active is on them.
LEMMA CommitDeployments ==
    ASSUME TypeOK, CatalogInv, NEW r \in Requests, Commit(r)
    PROVE  /\ DeploymentsNeedRace'
           /\ \A d \in Deployments : row'[d] = "disabled" => d \in dozed'
           /\ \A d \in Deployments : Live(d)' => chan'[d] # None /\ model'[d] # None
<1> DEFINE q == req[r]
           LiveNow(y) == row'[y] \in {"active", "disabled"}
<1>1. /\ q \in RequestType /\ q.p \in PayloadType /\ Shape(q) /\ Sound(q) /\ q.p.x \in Rows
      /\ q.stage = "commit" /\ q.p.op \in {"create", "update", "rotate", "delete"}
      /\ raced' = raced \cup (IF q.overtaken THEN {q.p.x, q.p.c, q.p.m} \ {None} ELSE {})
      /\ dozed' = dozed \cup (IF q.status = "disabled" THEN {q.p.x} ELSE {})
  BY CommitEffect DEF PayloadType, Shape
<1>2. \A y \in Rows :
        /\ Live(y) /\ ~(q.p.op = "delete" /\ y = q.p.x) => LiveNow(y)
        /\ LiveNow(y) => Live(y) \/ (q.p.op = "create" /\ y = q.p.x)
        /\ row'[y] = "active" => Active(y) \/ (y = q.p.x /\ (q.p.op = "create" \/ q.status = "active"))
        /\ row'[y] = "disabled" => row[y] = "disabled" \/ (y = q.p.x /\ q.status = "disabled")
  BY CommitEffect DEF Live, Active
<1>3. q.p.op = "delete" => ~LiveNow(q.p.x)
  BY CommitEffect
<1>4. \A d \in Deployments :
        /\ chan'[d] = IF d = q.p.x THEN Or(q.p.c, chan[d]) ELSE chan[d]
        /\ model'[d] = IF d = q.p.x THEN Or(q.p.m, model[d]) ELSE model[d]
        /\ d \in Rows
  BY CommitEffect DEF Placed, Rows
<1>5. None \notin Rows
  BY RowTables
<1>6. \A d \in Deployments : row'[d] = "disabled" => d \in dozed'
  BY <1>1, <1>2, <1>4 DEF CatalogInv
<1>7. ASSUME NEW d \in Deployments, LiveNow(d) PROVE chan'[d] # None /\ model'[d] # None
  <2>1. Live(d) => chan[d] # None /\ model[d] # None
    BY DEF CatalogInv
  <2>2. q.p.op = "create" /\ d = q.p.x => q.p.c # None /\ q.p.m # None
    BY <1>1 DEF Shape
  <2> QED BY <1>2, <1>4, <1>7, <2>1, <2>2 DEF Or
<1>8. ASSUME NEW d \in Deployments, d \notin dozed', d \notin raced', row'[d] = "active",
             NEW x \in {chan'[d], model'[d]}
      PROVE  LiveNow(x) \/ x \in raced'
  <2>1. d \notin dozed /\ d \notin raced /\ d \in Rows /\ raced \subseteq raced'
    BY <1>1, <1>4, <1>8
  <2>2. Active(d) => \A y \in {chan[d], model[d]} : (Live(y) \/ y \in raced) /\ y \in Rows
    <3>1. Active(d) => \A y \in {chan[d], model[d]} : Live(y) \/ y \in raced
      BY <2>1 DEF CatalogInv, DeploymentsNeedRace
    <3>2. Active(d) => chan[d] # None /\ model[d] # None
      BY DEF CatalogInv, Live, Active
    <3>3. chan[d] \in Rows \cup {None} /\ model[d] \in Rows \cup {None}
      BY DEF TypeOK, Placed, Rows, Named
    <3> QED BY <3>1, <3>2, <3>3
  <2>3. CASE d = q.p.x
    <3>1. ~q.overtaken
      BY <1>1, <1>5, <1>8, <2>1, <2>3
    <3>2. /\ q.p.c # None => Live(q.p.c) /\ q.p.c \in Rows
          /\ q.p.m # None => Live(q.p.m) /\ q.p.m \in Rows
      BY <1>1, <2>3, <3>1 DEF Sound, PayloadType, Rows, Named
    <3>3. q.p.op # "delete"
      BY <1>3, <1>8, <2>3
    <3>4. Active(d) \/ q.p.op = "create"
      BY <1>1, <1>2, <1>8, <2>1, <2>3 DEF Shape
    <3>5. q.p.op = "create" => q.p.c # None /\ q.p.m # None
      BY <1>1, <2>3 DEF Shape
    <3>6. x \in {Or(q.p.c, chan[d]), Or(q.p.m, model[d])}
      BY <1>4, <1>8, <2>3
    <3> QED BY <1>2, <2>1, <2>2, <3>2, <3>3, <3>4, <3>5, <3>6 DEF Or
  <2>4. CASE d # q.p.x
    <3>1. Active(d) /\ x \in {chan[d], model[d]}
      BY <1>2, <1>4, <1>8, <2>1, <2>4
    <3>2. (Live(x) \/ x \in raced) /\ x \in Rows
      BY <2>2, <3>1
    <3>3. q.p.op = "delete" /\ x = q.p.x => q.overtaken
      BY <1>1, <2>1, <3>1 DEF Sound
    <3>4. q.overtaken => q.p.x \in raced'
      BY <1>1, <1>5
    <3> QED BY <1>2, <2>1, <3>2, <3>3, <3>4
  <2> QED BY <2>3, <2>4
<1> HIDE DEF q
<1> QED BY <1>6, <1>7, <1>8 DEF DeploymentsNeedRace, Live, Active

\* A commit keeps the invariant: its own rows, the other requests, the deployments.
LEMMA CommitStep ==
    ASSUME TypeOK, CatalogInv, NEW r \in Requests, Commit(r)
    PROVE  TypeOK' /\ CatalogInv'
<1>1. Shape(req[r])' /\ Sound(req[r])'
  <2>1. PICK v : v = req'[r]
    OBVIOUS
  <2>2. v = IdleRequest
    BY <2>1, CommitEffect
  <2>3. v.stage = "idle" /\ v.cleared = {} /\ v.status = "same" /\ v.p.op = "none"
    BY <2>2 DEF IdleRequest, Payload
  <2>4. Shape(v)' /\ Sound(v)'
    BY <2>3 DEF Shape, Sound
  <2> QED BY <2>1, <2>4, SoundNext
<1>2. \A t \in Requests : Shape(req[t])' /\ Sound(req[t])'
  BY <1>1, CommitOthers
<1> QED BY <1>2, CommitTypes, CommitIndexed, CommitDeployments DEF CatalogInv

-----------------------------------------------------------------------------
(* The theorems.                                                           *)

\* The seeded rows satisfy it.
LEMMA CatalogInit == Init => TypeOK /\ CatalogInv
<1> SUFFICES ASSUME Init PROVE TypeOK /\ CatalogInv
  OBVIOUS
<1>1. req = [r \in Requests |-> IdleRequest] /\ IdleRequest \in RequestType
  BY IdleRequestSound DEF Init
<1>2. /\ \A x \in Rows : Live(x) <=> x \in Seeded
      /\ \A x \in Rows : row[x] \in {"none", "active"}
      /\ row \in [Rows -> {"none", "active", "disabled", "deleted"}]
  BY DEF Init, Live
<1>3. default \subseteq Grants
  BY DEF Init
<1>4. /\ lock \in [Grants -> Requests \cup {None}]
      /\ \A g \in Grants : lock[g] # None => req[lock[g]].stage = "commit"
  BY DEF Init
<1>5. commits \in 0..MaxCommits
  BY CatalogAssumption DEF Init
<1>6. TypeOK
  BY <1>1, <1>2, <1>3, <1>4, <1>5 DEF Init, TypeOK, RequestType, PayloadType
<1>7. \A r \in Requests : Shape(req[r]) /\ Sound(req[r])
  BY <1>1, IdleRequestSound
<1>8. Deployments \subseteq Rows /\ Grants \subseteq Rows /\ Deployments \subseteq Placed
      /\ None \notin Channels /\ None \notin Models
  BY CatalogAssumption DEF Rows, Placed
<1>9. \A d \in Deployments : Live(d) =>
         /\ chan[d] \in Seeded /\ chan[d] \in Channels /\ model[d] \in Seeded /\ model[d] \in Models
  BY <1>8 DEF Init
<1>10. \A d \in Deployments : Live(d) => chan[d] # None /\ model[d] # None
  BY <1>8, <1>9
<1>11. Indexed
  BY DEF Init, Indexed
<1>12. DeploymentsNeedRace
  <2>1. Channels \subseteq Rows /\ Models \subseteq Rows
    BY DEF Rows, Named
  <2>2. \A d \in Deployments : Active(d) => Live(d)
    BY DEF Active, Live
  <2> QED BY <1>2, <1>9, <2>1, <2>2 DEF DeploymentsNeedRace
<1> QED BY <1>2, <1>6, <1>7, <1>8, <1>10, <1>11, <1>12 DEF CatalogInv

\* Every step keeps it.
LEMMA CatalogStep == TypeOK /\ CatalogInv /\ [Next]_vars => TypeOK' /\ CatalogInv'
<1> SUFFICES ASSUME TypeOK, CatalogInv, [Next]_vars PROVE TypeOK' /\ CatalogInv'
  OBVIOUS
<1>1. CASE UNCHANGED vars
  <2>1. /\ row' = row /\ contested' = contested /\ chan' = chan /\ model' = model
        /\ default' = default /\ lock' = lock /\ req' = req /\ raced' = raced /\ dozed' = dozed
        /\ commits' = commits
    BY <1>1 DEF vars, columns
  <2>2. TypeOK'
    BY <2>1 DEF TypeOK
  <2>3. ASSUME NEW t \in Requests PROVE Shape(req[t])' /\ Sound(req[t])'
    BY <2>1, <2>3 DEF CatalogInv, Shape, Sound, Rivals, Clearing, CurrentDefault, Live, Active, Or
  <2>4. (/\ DeploymentsNeedRace /\ Indexed
         /\ \A d \in Deployments : row[d] = "disabled" => d \in dozed
         /\ \A d \in Deployments : Live(d) => chan[d] # None /\ model[d] # None)'
    BY <2>1 DEF CatalogInv, DeploymentsNeedRace, Indexed, Live, Active
  <2> QED BY <2>2, <2>3, <2>4 DEF CatalogInv
<1> QED BY <1>1, ReceiveStep, ClearStep, CommitStep, RefuseStep DEF Next

\* It holds in every reachable state.
LEMMA CatalogInductive == Spec => [](TypeOK /\ CatalogInv)
  BY CatalogInit, CatalogStep, PTL DEF Spec

\* Rows, references and requests keep their types, and no grant stays locked once
\* the request that locked it has ended.
THEOREM TypeCorrect == Spec => []TypeOK
  BY CatalogInductive, PTL

\* In a catalog of any size, with any number of requests, an active deployment
\* that was never disabled is left on a deleted channel or model only by requests
\* that overlapped: the checks of create_deployment, update_deployment,
\* delete_channel and delete_model stand in for foreign keys otherwise.
THEOREM DeploymentsKept == Spec => []DeploymentsNeedRace
<1>1. CatalogInv => DeploymentsNeedRace
  BY DEF CatalogInv
<1> QED BY <1>1, CatalogInductive, PTL

\* The services look for what the unique indexes forbid: whatever the order of
\* requests, an index refuses only a request that another one's commit overtook,
\* and a rate-limit rule, for which create_rule does not look.
THEOREM IndexesRefuseRaces == Spec => []IndexRefusesOnlyRaces
<1>1. TypeOK /\ CatalogInv => IndexRefusesOnlyRaces
  <2> SUFFICES ASSUME TypeOK, CatalogInv, NEW r \in Requests, req[r].stage = "commit",
                      Collides(req[r]), ~req[r].overtaken, req[r].p.x \notin Limits
               PROVE  FALSE
    BY DEF IndexRefusesOnlyRaces
  <2>1. Shape(req[r]) /\ Sound(req[r])
    BY DEF CatalogInv
  <2>2. req[r].p.x \in Rows
    BY <2>1 DEF Shape
  <2>3. req[r].p.op \in {"create", "update"} /\ Rivals(req[r].p, req[r].cleared)
    BY <2>2, CollidesIs
  <2> QED BY <2>1, <2>3 DEF Sound, Clearing
<1> QED BY <1>1, CatalogInductive, PTL

\* Every commit that leaves the subject without a default grant deletes or unsets
\* that grant, or comes from a request whose checks were overtaken.
THEOREM DefaultsKept == Spec => DefaultsHandedOver
<1> DEFINE HandedOver == CurrentDefault # {} /\ CurrentDefault' = {} =>
             \E r \in Requests :
                /\ req[r].stage = "commit"
                /\ req'[r].stage = "idle"
                /\ \/ req[r].p.x \in default /\ (req[r].p.op = "delete" \/ req[r].p.mark = "no")
                   \/ req[r].overtaken
<1>1. ASSUME TypeOK, CatalogInv, NEW r \in Requests, Commit(r) PROVE HandedOver
  <2> DEFINE q == req[r]
             LiveNow(y) == row'[y] \in {"active", "disabled"}
  <2>1. /\ q \in RequestType /\ q.stage = "commit" /\ Shape(q) /\ Sound(q) /\ q.p.x \in Rows
        /\ q.p \in PayloadType /\ default' = DefaultAfter(q) /\ req'[r].stage = "idle"
        /\ \A y \in Rows : Live(y) /\ ~(q.p.op = "delete" /\ y = q.p.x) => LiveNow(y)
        /\ q.p.op = "create" => LiveNow(q.p.x)
    BY <1>1, CommitEffect, IdleRequestSound DEF Live
  <2> SUFFICES ASSUME NEW g \in CurrentDefault, CurrentDefault' = {}, ~q.overtaken,
                      ~(q.p.x \in default /\ (q.p.op = "delete" \/ q.p.mark = "no"))
               PROVE  FALSE
    BY <2>1
  <2>2. g \in default /\ Live(g) /\ g \in Rows
    BY <1>1 DEF CurrentDefault, TypeOK, Rows
  <2>3. \A y \in default' : ~LiveNow(y)
    BY DEF CurrentDefault, Live
  <2>4. LiveNow(g)
    BY <2>1, <2>2
  <2>5. g \in q.cleared /\ q.p.x \in Grants /\ q.p.mark = "yes" /\ q.p.op # "delete"
    <3>1. g \notin default'
      BY <2>3, <2>4
    <3>2. g \in q.cleared
      BY <2>1, <2>2, <3>1 DEF DefaultAfter, MarkAfter
    <3> QED BY <2>1, <3>2 DEF Shape
  <2>6. q.p.x \in default'
    BY <2>1, <2>5 DEF DefaultAfter, MarkAfter
  <2>7. LiveNow(q.p.x)
    BY <2>1, <2>5 DEF Sound
  <2> QED BY <2>3, <2>6, <2>7
<1>2. ASSUME NEW r \in Requests, Receive(r) \/ ClearDefault(r) \/ Refuse(r) PROVE HandedOver
  <2>1. UNCHANGED columns
    BY <1>2 DEF Receive, ClearDefault, Refuse, ChannelRequest, ModelRequest, KeyRequest,
                DeploymentRequest, GrantRequest, QuotaRequest, RateLimitRequest, CreateChannel,
                UpdateChannel, CreateModel, UpdateModel, CreateQuota, CreateRule, UpdateRule,
                CreateNamed, UpdateNamed, DeleteChannel, DeleteModel, DeleteRow, CreateKey,
                UpdateKey, CreateDeployment, UpdateDeployment, CreateGrant, UpdateGrant, Start
  <2> QED BY <2>1 DEF columns, CurrentDefault, Live
<1>3. TypeOK /\ CatalogInv /\ [Next]_vars => [HandedOver]_vars
  BY <1>1, <1>2 DEF Next
<1> QED BY <1>3, CatalogInductive, PTL DEF DefaultsHandedOver, Spec

=============================================================================
