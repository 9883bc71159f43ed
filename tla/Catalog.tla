------------------------------- MODULE Catalog -------------------------------
(***************************************************************************)
(* The administration of channels, their keys, logical models, deployments,*)
(* the model grants of one subject, quota rules and rate-limit rules.      *)
(*                                                                         *)
(* A request is one transaction at READ COMMITTED, as in Directory: checks *)
(* first, writes seen at the commit.  Here nothing that is referred to is  *)
(* locked.  What backs the services' "look, then insert" are partial       *)
(* unique indexes, over the rows that are not deleted: a channel's and a   *)
(* model's name, a deployment's model and channel, a grant's subject and   *)
(* model, a subject's one default grant, a quota rule's scope and period.  *)
(* A rate-limit rule's subject and model are unique over all rows, deleted *)
(* ones too, unless a column is NULL.                                      *)
(*                                                                         *)
(* One name (or rule scope) is contested, every other is a row's own.      *)
(***************************************************************************)
EXTENDS Integers, FiniteSets

CONSTANTS
    Channels, Keys, Models, Deployments, Grants, Quotas, Limits,   \* ids rows may have
    Seeded,        \* the rows there are at the start
    Requests,
    None,          \* no value, or a field the payload does not set
    MaxCommits     \* bound on the commits of a behaviour

ASSUME CatalogAssumption ==
    /\ MaxCommits \in Nat
    /\ Seeded \subseteq Channels \cup Keys \cup Models \cup Deployments \cup Grants
    /\ IsFiniteSet(Deployments)
    /\ Channels \cap (Keys \cup Models \cup Deployments \cup Grants \cup Quotas \cup Limits) = {}
    /\ Keys \cap (Models \cup Deployments \cup Grants \cup Quotas \cup Limits) = {}
    /\ Models \cap (Deployments \cup Grants \cup Quotas \cup Limits) = {}
    /\ Deployments \cap (Grants \cup Quotas \cup Limits) = {}
    /\ Grants \cap (Quotas \cup Limits) = {}
    /\ Quotas \cap Limits = {}
    /\ None \notin Channels \cup Keys \cup Models \cup Deployments \cup Grants \cup Quotas
                   \cup Limits \cup Requests

VARIABLES
    row,        \* status of a row, "none" before it is inserted
    contested,  \* channels, models and rules with the contested name or scope
    chan,       \* channel_id of a key or deployment
    model,      \* logical_model_id of a deployment or grant
    default,    \* grants with is_default
    lock,       \* who holds FOR UPDATE on a grant
    req,
    raced,      \* history: deployments, channels and models of overtaken requests
    dozed,      \* history: deployments that have been disabled
    commits

columns == <<row, contested, chan, model, default>>
vars == <<columns, lock, req, raced, dozed, commits>>

Named  == Channels \cup Models \cup Quotas \cup Limits
Placed == Keys \cup Deployments
Rows   == Named \cup Placed \cup Grants
TableOf(x) == 
    CHOOSE T \in {Channels, Keys, Models, Deployments, Grants, Quotas, Limits} : x \in T

\* A payload: what is done to row x, the references it sets, whether it takes
\* ("yes") or leaves ("no") the contested name or the default, and whether it
\* changes the status.
Payload(op, x, c, m, mark, flip) ==
    [op |-> op, x |-> x, c |-> c, m |-> m, mark |-> mark, flip |-> flip]

IdleRequest ==
    [stage |-> "idle", p |-> Payload("none", None, None, None, "unset", FALSE),
     status |-> "same", cleared |-> {}, overtaken |-> FALSE]

Live(x) == row[x] \in {"active", "disabled"}
Active(x) == row[x] = "active"

-----------------------------------------------------------------------------
(* What the routers accept.  An update sets one field.                     *)

NamedPayloads(T) ==
    {Payload("create", x, None, None, mark, FALSE) : x \in T, mark \in {"yes", "no"}}
    \cup {Payload("update", x, None, None, mark, FALSE) : x \in T, mark \in {"yes", "no"}}
    \cup {Payload("update", x, None, None, "unset", TRUE) : x \in T}
    \cup {Payload("delete", x, None, None, "unset", FALSE) : x \in T}

KeyPayloads ==
    {Payload(op, k, c, None, "unset", FALSE) :
        op \in {"create", "update"}, k \in Keys, c \in Channels}
    \cup {Payload(op, k, None, None, "unset", op = "update") :
        op \in {"update", "rotate", "delete"}, k \in Keys}

DeploymentPayloads ==
    {Payload("create", d, c, m, "unset", flip) :
        d \in Deployments, c \in Channels, m \in Models, flip \in BOOLEAN}
    \cup {Payload("update", d, c, None, "unset", FALSE) : d \in Deployments, c \in Channels}
    \cup {Payload("update", d, None, m, "unset", FALSE) : d \in Deployments, m \in Models}
    \cup {Payload(op, d, None, None, "unset", op = "update") :
        op \in {"update", "delete"}, d \in Deployments}

GrantPayloads ==
    {Payload("create", g, None, m, mark, FALSE) :
        g \in Grants, m \in Models, mark \in {"yes", "no"}}
    \cup {Payload("update", g, None, None, mark, FALSE) : g \in Grants, mark \in {"yes", "no"}}
    \cup {Payload("delete", g, None, None, "unset", FALSE) : g \in Grants}

\* The seeded rows, with any references the indexes allow.
Init ==
    /\ row = [x \in Rows |-> IF x \in Seeded THEN "active" ELSE "none"]
    /\ contested = {}
    /\ chan \in [Placed -> Channels \cup {None}]
    /\ \A x \in Placed : chan[x] \in (IF Live(x) THEN Seeded \cap Channels ELSE {None})
    /\ model \in [Deployments \cup Grants -> Models \cup {None}]
    /\ \A x \in Deployments \cup Grants : model[x] \in (IF Live(x) THEN Seeded \cap Models ELSE {None})
    /\ \A x, y \in Deployments :
            x # y /\ Live(x) => <<chan[x], model[x]>> # <<chan[y], model[y]>>
    /\ \A x, y \in Grants : x # y /\ Live(x) => model[x] # model[y]
    /\ default \in {{}} \cup {{g} : g \in {h \in Grants : Live(h)}}
    /\ lock = [g \in Grants |-> None]
    /\ req = [r \in Requests |-> IdleRequest]
    /\ raced = {}
    /\ dozed = {}
    /\ commits = 0

-----------------------------------------------------------------------------
(* The checks of a handler; a refusal leaves no trace.                     *)

\* An update writes the fields that differ from what it read.
Written(p) ==
    IF p.op # "update" THEN p
    ELSE [p EXCEPT
            !.c = IF p.x \in Placed /\ p.c = chan[p.x] THEN None ELSE @,
            !.m = IF p.x \in Deployments /\ p.m = model[p.x] THEN None ELSE @,
            !.mark = IF @ = (IF p.x \in contested \cup default THEN "yes" ELSE "no")
                     THEN "unset" ELSE @]

StatusSet(p) ==
    IF p.flip THEN IF p.op = "update" /\ ~Active(p.x) THEN "active" ELSE "disabled"
    ELSE "same"

Start(r, p, stage) ==
    /\ req' = [req EXCEPT ![r] = [IdleRequest EXCEPT !.stage = stage, !.p = Written(p),
                                                     !.status = StatusSet(p)]]
    /\ UNCHANGED <<columns, lock, raced, dozed, commits>>

\* A snowflake id is given to one row.
Unused(x) ==
    /\ row[x] = "none"
    /\ \A t \in Requests : ~(req[t].p.op = "create" /\ req[t].p.x = x)

\* _ensure_channel_name_unique, _ensure_model_name_unique, get_existing.
NameIsFree(x) == \A y \in (contested \cap TableOf(x)) \ {x} : ~Live(y)

CreateNamed(r, p) ==
    /\ p.op = "create"
    /\ Unused(p.x)
    /\ p.mark = "yes" => NameIsFree(p.x)
    /\ Start(r, p, "commit")

UpdateNamed(r, p) ==
    /\ p.op = "update"
    /\ Live(p.x)
    /\ p.mark = "yes" => NameIsFree(p.x)
    /\ Start(r, p, "commit")

CreateChannel(r, p) == CreateNamed(r, p)
UpdateChannel(r, p) == UpdateNamed(r, p)

CreateModel(r, p) == CreateNamed(r, p)
UpdateModel(r, p) == UpdateNamed(r, p)

CreateQuota(r, p) == CreateNamed(r, p)

\* create_rule leaves a second rule for one subject to the index.
CreateRule(r, p) ==
    /\ p.op = "create"
    /\ Unused(p.x)
    /\ Start(r, p, "commit")

\* update_quota and update_rule set no column of the index.
UpdateRule(r, p) ==
    /\ p.op = "update"
    /\ p.mark = "unset"
    /\ Live(p.x)
    /\ Start(r, p, "commit")

\* Mutant: only the deployments of a model count.
CountModelDeployments(x) == Cardinality({d \in Deployments : Active(d) /\ x = model[d]})

\* An active deployment keeps its channel and its model alive.
CountActiveDeployments(x) ==
    Cardinality({d \in Deployments : Active(d) /\ x \in {chan[d], model[d]}})

DeleteChannel(r, p) ==
    /\ p.op = "delete"
    /\ Live(p.x)
    /\ CountActiveDeployments(p.x) = 0
    /\ Start(r, p, "commit")

DeleteModel(r, p) ==
    /\ p.op = "delete"
    /\ Live(p.x)
    /\ CountActiveDeployments(p.x) = 0
    /\ Start(r, p, "commit")

\* Rows nothing keeps alive: a key, a deployment, a grant, a rule.
DeleteRow(r, p) ==
    /\ p.op = "delete"
    /\ Live(p.x)
    /\ Start(r, p, "commit")

\* A key is put on a channel that is there, active or not.
CreateKey(r, p) ==
    /\ p.op = "create"
    /\ Unused(p.x)
    /\ Live(p.c)
    /\ Start(r, p, "commit")

\* update_key and rotate_key.
UpdateKey(r, p) ==
    /\ p.op \in {"update", "rotate"}
    /\ Live(p.x)
    /\ p.c # None => Live(p.c)
    /\ Start(r, p, "commit")

\* Mutant: a disabled deployment is overlooked.
DeploymentIsUniqueActive(x, c, m) ==
    \A d \in Deployments \ {x} : ~(Active(d) /\ chan[d] = c /\ model[d] = m)

DeploymentIsUnique(x, c, m) ==
    \A d \in Deployments \ {x} : ~(Live(d) /\ chan[d] = c /\ model[d] = m)

CreateDeployment(r, p) ==
    /\ p.op = "create"
    /\ Unused(p.x)
    /\ Active(p.m) /\ Active(p.c)
    /\ DeploymentIsUnique(p.x, p.c, p.m)
    /\ Start(r, p, "commit")

Or(a, b) == IF a # None THEN a ELSE b

\* A change of status alone checks neither the channel nor the model.
UpdateDeployment(r, p) ==
    /\ p.op = "update"
    /\ Live(p.x)
    /\ p.m # None => Active(p.m)
    /\ p.c # None => Active(p.c)
    /\ p.flip \/ DeploymentIsUnique(p.x, Or(p.c, chan[p.x]), Or(p.m, model[p.x]))
    /\ Start(r, p, "commit")

\* The subject exists, the model is not deleted, and is not granted yet.
CreateGrant(r, p) ==
    /\ p.op = "create"
    /\ Unused(p.x)
    /\ Live(p.m)
    /\ \A g \in Grants : ~(Live(g) /\ model[g] = p.m)
    /\ Start(r, p, IF p.mark = "yes" THEN "clear" ELSE "commit")

\* Mutant: the default is cleared whatever is_default is set to.
UpdateGrantClearing(r, p) ==
    /\ p.op = "update"
    /\ Live(p.x)
    /\ Start(r, p, IF p.x \notin default THEN "clear" ELSE "commit")

UpdateGrant(r, p) ==
    /\ p.op = "update"
    /\ Live(p.x)
    /\ Start(r, p, IF p.mark = "yes" /\ p.x \notin default THEN "clear" ELSE "commit")

CurrentDefault == {g \in default : Live(g)}

\* _clear_default: SELECT the default FOR UPDATE.  One that waited for the lock
\* and finds the row no longer the default gets no row, not the new default.
ClearDefault(r) ==
    LET q == req[r] IN
    /\ \/ /\ q.stage = "clear"
          /\ IF \E g \in CurrentDefault : lock[g] # None
             THEN /\ req' = [req EXCEPT ![r].stage = "wait", ![r].cleared = CurrentDefault]
                  /\ UNCHANGED lock
             ELSE /\ req' = [req EXCEPT ![r].stage = "commit", ![r].cleared = CurrentDefault]
                  /\ lock' = [g \in Grants |-> IF g \in CurrentDefault THEN r ELSE lock[g]]
       \/ /\ q.stage = "wait"
          /\ \A g \in q.cleared : lock[g] = None
          /\ req' = [req EXCEPT ![r].stage = "commit",
                                ![r].cleared = @ \cap CurrentDefault]
          /\ lock' = [g \in Grants |->
                        IF g \in q.cleared \cap CurrentDefault THEN r ELSE lock[g]]
    /\ UNCHANGED <<columns, raced, dozed, commits>>

-----------------------------------------------------------------------------
(* Commit and rollback.                                                    *)

\* Mutant: a request that ends leaves its lock behind.
ReleaseNone(r) == lock

Release(r) == [g \in Grants |-> IF lock[g] = r THEN None ELSE lock[g]]

StatusAfter(q, x) ==
    IF x # q.p.x THEN row[x]
    ELSE CASE q.p.op = "create" -> IF q.status = "same" THEN "active" ELSE q.status
           [] q.p.op = "delete" -> "deleted"
           [] OTHER -> IF q.status # "same" /\ Live(x) THEN q.status ELSE row[x]

\* Columns after the flush.
MarkAfter(S, p) ==
    CASE p.mark = "yes" -> S \cup {p.x}
      [] p.mark = "no"  -> S \ {p.x}
      [] OTHER          -> S

ColumnAfter(f, p, v) ==
    [x \in DOMAIN f |-> IF x = p.x /\ v # None THEN v ELSE f[x]]

ContestedAfter(q) == IF q.p.x \in Named THEN MarkAfter(contested, q.p) ELSE contested

DefaultAfter(q) ==
    IF q.p.x \in Grants THEN MarkAfter(default \ q.cleared, q.p) ELSE default

\* The flush violates a unique index; deleted rows are only in that of the
\* rate-limit rules.
Collides(q) ==
    LET x == q.p.x
        others(T) == {y \in T \ {x} : Live(y)}
        c == ColumnAfter(chan, q.p, q.p.c)
        m == ColumnAfter(model, q.p, q.p.m)
    IN  /\ q.p.op = "create" \/ (q.p.op = "update" /\ Live(x))
        /\ \/ x \in Channels \cup Models \cup Quotas /\ q.p.mark = "yes"
                /\ others(TableOf(x)) \cap contested # {}
           \/ x \in Limits /\ q.p.mark = "yes" /\ (contested \cap Limits) \ {x} # {}
           \/ x \in Deployments
                /\ \E y \in others(Deployments) : <<c[x], m[x]>> = <<c[y], m[y]>>
           \/ x \in Grants
                /\ \/ \E y \in others(Grants) : m[x] = m[y]
                   \/ q.p.mark = "yes" /\ others(Grants) \cap (default \ q.cleared) # {}

\* Committing q pulls the ground from under a check that t has made.
Overtakes(q, t) ==
    /\ t.stage # "idle"
    /\ \/ TableOf(q.p.x) = TableOf(t.p.x)
       \/ q.p.op = "delete" /\ q.p.x \in {t.p.c, t.p.m}
       \/ t.p.op = "delete" /\ t.p.x \in {q.p.c, q.p.m}

Commit(r) ==
    LET q == req[r] IN
    /\ q.stage = "commit"
    /\ commits < MaxCommits
    /\ ~Collides(q)
    /\ row' = [x \in Rows |-> StatusAfter(q, x)]
    /\ contested' = ContestedAfter(q)
    /\ chan' = ColumnAfter(chan, q.p, q.p.c)
    /\ model' = ColumnAfter(model, q.p, q.p.m)
    /\ default' = DefaultAfter(q)
    /\ lock' = Release(r)
    /\ raced' = raced \cup (IF q.overtaken THEN {q.p.x, q.p.c, q.p.m} \ {None} ELSE {})
    /\ dozed' = dozed \cup (IF q.status = "disabled" THEN {q.p.x} ELSE {})
    /\ req' = [t \in Requests |->
                 IF t = r THEN IdleRequest
                 ELSE [req[t] EXCEPT !.overtaken = @ \/ Overtakes(q, req[t])]]
    /\ commits' = commits + 1

\* A refusal, an index that is violated, a deadlock the database breaks, or the
\* end of the process: the transaction is rolled back.
Refuse(r) ==
    /\ req[r].stage # "idle"
    /\ lock' = Release(r)
    /\ req' = [req EXCEPT ![r] = IdleRequest]
    /\ UNCHANGED <<columns, raced, dozed, commits>>

\* The routers.
ChannelRequest(r) ==
    \E p \in NamedPayloads(Channels) :
        CreateChannel(r, p) \/ UpdateChannel(r, p) \/ DeleteChannel(r, p)

ModelRequest(r) ==
    \E p \in NamedPayloads(Models) :
        CreateModel(r, p) \/ UpdateModel(r, p) \/ DeleteModel(r, p)

KeyRequest(r) ==
    \E p \in KeyPayloads : CreateKey(r, p) \/ UpdateKey(r, p) \/ DeleteRow(r, p)

DeploymentRequest(r) ==
    \E p \in DeploymentPayloads :
        CreateDeployment(r, p) \/ UpdateDeployment(r, p) \/ DeleteRow(r, p)

GrantRequest(r) ==
    \E p \in GrantPayloads : CreateGrant(r, p) \/ UpdateGrant(r, p) \/ DeleteRow(r, p)

QuotaRequest(r) ==
    \E p \in NamedPayloads(Quotas) :
        CreateQuota(r, p) \/ UpdateRule(r, p) \/ DeleteRow(r, p)

RateLimitRequest(r) ==
    \E p \in NamedPayloads(Limits) :
        CreateRule(r, p) \/ UpdateRule(r, p) \/ DeleteRow(r, p)

Receive(r) ==
    /\ req[r].stage = "idle"
    /\ commits < MaxCommits \/ \A t \in Requests : req[t].stage = "idle"
    /\ \/ ChannelRequest(r) \/ ModelRequest(r) \/ KeyRequest(r)
       \/ DeploymentRequest(r) \/ GrantRequest(r)
       \/ QuotaRequest(r) \/ RateLimitRequest(r)

Next == \E r \in Requests : Receive(r) \/ ClearDefault(r) \/ Commit(r) \/ Refuse(r)

Spec == Init /\ [][Next]_vars

-----------------------------------------------------------------------------
(* Properties.                                                             *)

\* Rows, references and requests are well formed, and a grant stays locked only
\* while the request that locked it is under way.
TypeOK ==
    /\ row \in [Rows -> {"none", "active", "disabled", "deleted"}]
    /\ contested \subseteq Named
    /\ chan \in [Placed -> Channels \cup {None}]
    /\ model \in [Deployments \cup Grants -> Models \cup {None}]
    /\ default \subseteq Grants
    /\ lock \in [Grants -> Requests \cup {None}]
    /\ \A g \in Grants : lock[g] # None => req[lock[g]].stage = "commit"
    /\ req \in [Requests -> [stage : {"idle", "clear", "wait", "commit"},
                             p : [op : {"none", "create", "update", "rotate", "delete"},
                                  x : Rows \cup {None}, c : Channels \cup {None},
                                  m : Models \cup {None}, mark : {"yes", "no", "unset"},
                                  flip : BOOLEAN],
                             status : {"same", "active", "disabled"},
                             cleared : SUBSET Grants, overtaken : BOOLEAN]]
    /\ raced \subseteq Rows
    /\ dozed \subseteq Rows
    /\ commits \in 0..MaxCommits

\* count_active_deployments and _require_active_channel/_model together keep the
\* channel and the model of an active deployment, unless the two requests
\* overlapped or the deployment was ever disabled (a disabled one keeps nothing
\* alive, and update_deployment activates it without looking again).
DeploymentsNeedRace ==
    \A d \in Deployments \ (dozed \cup raced) : Active(d) =>
        \A x \in {chan[d], model[d]} : Live(x) \/ x \in raced

\* The services look for exactly what the unique indexes forbid: a request that
\* nobody overtook is never refused by an index with 409.  (create_rule does
\* not look.)
IndexRefusesOnlyRaces ==
    \A r \in Requests :
        req[r].stage = "commit" /\ Collides(req[r])
            => req[r].overtaken \/ req[r].p.x \in Limits

\* The subject's default grant is handed over, not dropped: a commit leaves the
\* subject without one only by deleting or unsetting that very grant, or after
\* its checks were overtaken.
DefaultsHandedOver ==
    [][CurrentDefault # {} /\ CurrentDefault' = {} =>
         \E r \in Requests :
            /\ req[r].stage = "commit"
            /\ req'[r].stage = "idle"
            /\ \/ req[r].p.x \in default /\ (req[r].p.op = "delete" \/ req[r].p.mark = "no")
               \/ req[r].overtaken]_vars

=============================================================================
