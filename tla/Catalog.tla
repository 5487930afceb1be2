------------------------------ MODULE Catalog -------------------------------
(***************************************************************************)
(* The rows the API lists and finds: whose they are, what they are called, *)
(* and how a client walks through them page by page while others write.    *)
(*                                                                         *)
(* Containers and capsules share a table, and the check of unique names    *)
(* that goes over it; registries and images have their own.  A check of a  *)
(* name and the write it is for are two transactions, as are the reading   *)
(* of a marker and the page after it.                                      *)
(***************************************************************************)
EXTENDS Versions, Policy, FiniteSets

CONSTANTS MaxLimit,   \* CONF.api.max_limit
          MaxRows,    \* rows ever created
          RenameMinor,\* the last minor version that has rename (13)
          Programmes  \* initial rows, name scope, and what each client may ask

ASSUME RenameMinorAssumption == RenameMinor \in 1..(MaxMinor - 1)

VARIABLES rows,       \* id -> a row of the database, or what it was
          scope,      \* CONF.compute.unique_container_name_scope
          asks,       \* client -> the requests it may still choose from
          req,        \* client -> its request
          excused     \* pairs of rows whose writes the check could not compare

catalogVars == <<rows, scope, asks, req, excused>>

Ids == 1..MaxRows
Projects == {"p", "q"}
Kinds == {"container", "capsule", "registry", "image"}
Contexts == [project : Projects, admin : BOOLEAN]

\* Names: "a", "A" and "b", in the order the database sorts them; 0 is no name.
NoName == 0
Names == 1..3
lower(n) == IF n = 2 THEN 1 ELSE n

NoRow == [state |-> "none", kind |-> "container", project |-> "p",
          name |-> NoName, host |-> "h1"]

NoFilter == [key |-> "none", val |-> NoName]
Filters == {NoFilter, [key |-> "host", val |-> NoName]} \cup
           [key : {"name"}, val : Names]

NoReq == [op |-> "none", ctx |-> [project |-> "p", admin |-> FALSE],
          kind |-> "container", name |-> NoName, id |-> 0, val |-> NoName,
          header |-> [form |-> "absent"],
          all |-> FALSE, filter |-> NoFilter, limit |-> 1, key |-> "id",
          dir |-> "asc"]

\* What the client and the API keep of a request while it is answered.
Fresh == [pc |-> "idle", ask |-> NoReq, found |-> 0, others |-> {},
          marker |-> 0, at |-> NoName, seen |-> <<>>, pages |-> 0,
          moved |-> FALSE, lost |-> FALSE, stable |-> {}, result |-> "none"]

Clients == DOMAIN req

Live(i) == rows[i].state = "live"

InContainerTable(i) == rows[i].kind \in {"container", "capsule"}

(***************************************************************************)
(* Queries.                                                                *)
(***************************************************************************)
EitherFlag(ctx, all, i) == (ctx.admin \/ all) \/ rows[i].project = ctx.project

\* _add_project_filters: the flag all_projects is nothing without is_admin.
_add_project_filters(ctx, all, i) ==
    (ctx.admin /\ all) \/ rows[i].project = ctx.project

_add_filters(filter, i) ==
    CASE filter.key = "name" -> rows[i].name = filter.val
      [] filter.key = "host" -> rows[i].host = "h1"
      [] OTHER -> TRUE

\* A query of one kind: the table, and the container_type in the shared one.
Query(ctx, all, kind) ==
    {i \in Ids : Live(i) /\ rows[i].kind = kind /\ _add_project_filters(ctx, all, i)}

get_by_uuid(ctx, all, kind, id) == Query(ctx, all, kind) \cap {id}

\* get_container_by_name and get_registry_by_name: several may have the name.
get_by_name(ctx, all, kind, name) ==
    {i \in Query(ctx, all, kind) : rows[i].name = name}

\* get_resource: an admin looks in all projects.
get_resource(ctx, kind, id, name) ==
    IF id /= 0 THEN get_by_uuid(ctx, ctx.admin, kind, id)
               ELSE get_by_name(ctx, ctx.admin, kind, name)

RowBefore(key, i, j) ==
    \/ key = "name" /\ rows[i].name < rows[j].name
    \/ (key = "name" => rows[i].name = rows[j].name) /\ i < j

AfterOrEqual(r, i) ==
    LET name == IF r.ask.key = "name" THEN rows[i].name ELSE r.at
        up == r.at < name \/ (r.at = name /\ r.marker <= i)
        down == name < r.at \/ (name = r.at /\ i <= r.marker)
    IN  r.marker = 0 \/ IF r.ask.dir = "asc" THEN up ELSE down

\* The rows after the marker, whose values are those read with it.
AfterMarker(r, i) ==
    LET name == IF r.ask.key = "name" THEN rows[i].name ELSE r.at
        up == r.at < name \/ (r.at = name /\ r.marker < i)
        down == name < r.at \/ (name = r.at /\ i < r.marker)
    IN  r.marker = 0 \/ IF r.ask.dir = "asc" THEN up ELSE down

\* validate_limit: what the client asks for, within max_limit.
validate_limit(limit) == IF limit < MaxLimit THEN limit ELSE MaxLimit

\* _paginate_query: ordered by the sort key and then the id, both in sort_dir.
_paginate_query(r) ==
    LET ask == r.ask
        hits == {i \in Query(ask.ctx, ask.all, ask.kind) :
                     _add_filters(ask.filter, i) /\ AfterMarker(r, i)}
        order == SetToSortSeq(hits,
                     LAMBDA i, j : IF ask.dir = "asc" THEN RowBefore(ask.key, i, j)
                                                     ELSE RowBefore(ask.key, j, i))
        n == validate_limit(ask.limit)
    IN  SubSeq(order, 1, IF Len(order) < n THEN Len(order) ELSE n)

(***************************************************************************)
(* Reading one row.                                                        *)
(***************************************************************************)
Rule(kind, op) ==
    CASE kind = "container" ->
             [show |-> "container:get_one", delete |-> "container:delete",
              patch |-> "container:update", rename |-> "container:rename"][op]
      [] kind = "capsule" ->
             [show |-> "capsule:get", delete |-> "capsule:delete"][op]
      [] kind = "registry" ->
             [show |-> "registry:get_one", delete |-> "registry:delete",
              patch |-> "registry:update"][op]
      [] OTHER -> [show |-> "image:get_one", delete |-> "image:delete"][op]

\* The rules asked of a container already found (check_policy_on_container), and
\* those asked of no target before it is looked for.
OnContainer ==
    UNION {DOMAIN r : r \in {ContainerRunRules, ContainerReachRules}} \cup
    {"container:get_one", "container:update", "container:delete"}

OnNothing == {"container:actions"}

\* The rules under which a request by uuid comes to act on row i.
Reached(ctx, i) ==
    IF i \notin get_resource(ctx, "container", i, NoName) THEN {}
    ELSE {rule \in OnContainer : enforce(ctx, rule, rows[i].project)} \cup
         {rule \in OnNothing : enforce_own(ctx, rule)}

Done(t, result) == req' = [req EXCEPT ![t].pc = "done", ![t].result = result]

Go(t, i, pc) ==
    req' = [req EXCEPT ![t].pc = pc, ![t].found = i,
                       ![t].result = IF pc = "done" THEN "ok" ELSE "none"]

\* get_resource and check_policy_on_...: the row a request by uuid or name is
\* about, or the refusal that ends it.
Find(t, Then(_)) ==
    LET ask == req[t].ask
        hits == get_resource(ask.ctx, ask.kind, ask.id, ask.name)
    IN  IF hits = {} THEN Done(t, "not_found")
        ELSE IF Cardinality(hits) > 1 THEN Done(t, "ambiguous")
        ELSE \E i \in hits :
                 IF enforce(ask.ctx, Rule(ask.kind, ask.op), rows[i].project)
                 THEN Then(i)
                 ELSE Done(t, "forbidden")

Asked(t, op) == req[t].pc = "asked" /\ req[t].ask.op = op

Choose(t) ==
    /\ req[t].pc = "idle"
    /\ \E ask \in asks[t] : req' = [req EXCEPT ![t].pc = "asked", ![t].ask = ask]
    /\ UNCHANGED <<rows, scope, asks, excused, versionVars>>

\* GET of one resource.
get_one(t) ==
    /\ Asked(t, "show")
    /\ Find(t, LAMBDA i : Go(t, i, "done"))
    /\ UNCHANGED <<rows, scope, asks, excused, versionVars>>

(***************************************************************************)
(* Names.  Create a container: check, insert.  Create a capsule: insert    *)
(* without a name, check, update.  Registries and images are not checked.  *)
(***************************************************************************)
Unused == {i \in Ids : rows[i].state = "none"}

CreateRule(kind) ==
    CASE kind = "container" -> "container:create"
      [] kind = "capsule" -> "capsule:create"
      [] kind = "registry" -> "registry:create"
      [] OTHER -> "image:pull"

New(ask, name) ==
    [NoRow EXCEPT !.state = "live", !.kind = ask.kind,
                  !.project = ask.ctx.project, !.name = name]

\* POST of a resource, up to the check of its name.
Post(t) ==
    /\ Asked(t, "create")
    /\ LET ask == req[t].ask
       IN  \/ /\ ~enforce_own(ask.ctx, CreateRule(ask.kind))
              /\ Done(t, "forbidden") /\ UNCHANGED rows
           \/ /\ enforce_own(ask.ctx, CreateRule(ask.kind))
              /\ ask.kind /= "capsule"
              /\ Go(t, 0, IF ask.kind = "container" THEN "naming" ELSE "writing")
              /\ UNCHANGED rows
           \/ /\ enforce_own(ask.ctx, CreateRule(ask.kind))
              /\ ask.kind = "capsule" /\ Unused /= {}
              /\ LET i == CHOOSE k \in Unused : \A j \in Unused : k <= j
                 IN  /\ rows' = [rows EXCEPT ![i] = New(ask, NoName)]
                     /\ Go(t, i, "naming")
    /\ UNCHANGED <<scope, asks, excused, versionVars>>

\* POST rename, of the versions up to 1.13: the same name is a conflict.
rename(t) ==
    /\ Asked(t, "rename")
    /\ IF _route(req[t].ask.header, methods) = {} THEN Done(t, "not_acceptable")
       ELSE Find(t, LAMBDA i : IF rows[i].name = req[t].ask.val THEN Done(t, "same")
                               ELSE Go(t, i, "naming"))
    /\ UNCHANGED <<rows, scope, asks, excused, versionVars>>

\* PATCH of a name: only a changed one is among the values saved.
patch(t) ==
    /\ Asked(t, "patch")
    /\ Find(t, LAMBDA i : Go(t, i, CASE rows[i].name = req[t].ask.val -> "saving"
                                     [] rows[i].kind = "registry" -> "writing"
                                     [] OTHER -> "naming"))
    /\ UNCHANGED <<rows, scope, asks, excused, versionVars>>

\* The rows the check counts.  In scope "project" they are those of the caller's
\* project, whoever owns the row that is written.
SameName(ctx, name) ==
    {i \in Ids :
        /\ Live(i) /\ InContainerTable(i)
        /\ rows[i].name /= NoName /\ lower(rows[i].name) = lower(name)
        /\ scope = "global" \/ (scope = "project" /\ rows[i].project = ctx.project)}

NoLower(t) ==
    /\ req[t].pc = "naming"
    /\ LET r == req[t]
       IN  IF \E i \in SameName(r.ask.ctx, r.ask.val) : rows[i].name = r.ask.val
           THEN Done(t, "exists")
           ELSE Go(t, r.found, "writing")
    /\ UNCHANGED <<rows, scope, asks, excused, versionVars>>

\* _validate_unique_container_name, in a transaction of its own.  A capsule that
\* is refused its name keeps its row.
_validate_unique_container_name(t) ==
    /\ req[t].pc = "naming"
    /\ LET r == req[t]
       IN  IF SameName(r.ask.ctx, r.ask.val) /= {}
           THEN Done(t, "exists")
           ELSE Go(t, r.found, "writing")
    /\ UNCHANGED <<rows, scope, asks, excused, versionVars>>

\* What others may see of a write of row i by client t.
Told(t, i) ==
    [u \in Clients |->
        IF u = t THEN [req[u] EXCEPT !.pc = "done", !.result = "ok", !.found = i]
        ELSE [req[u] EXCEPT !.others = IF req[u].pc = "writing" THEN @ \cup {i} ELSE {},
                            !.stable = @ \ {i}]]

\* Pairs with row i whose names no check compares: the other was written between
\* this check and this write, or the check looked into another project.
Uncompared(t, i, project) ==
    {{i, j} : j \in IF scope = "project" /\ req[t].ask.ctx.project /= project
                    THEN Ids ELSE req[t].others}

\* create_container, create_registry and pull_image: the INSERT.
Insert(t) ==
    LET r == req[t]
        i == CHOOSE k \in Unused : \A j \in Unused : k <= j
    IN  /\ r.pc = "writing" /\ r.found = 0 /\ Unused /= {}
        /\ rows' = [rows EXCEPT ![i] = New(r.ask, r.ask.val)]
        /\ req' = Told(t, i)
        /\ excused' = excused \cup Uncompared(t, i, r.ask.ctx.project)
        /\ UNCHANGED <<scope, asks, versionVars>>

\* _do_update_container and _do_update_registry: the UPDATE of a row that may be
\* gone by now.
Update(t) ==
    LET r == req[t]
        i == r.found
    IN  /\ r.pc = "writing" /\ i /= 0
        /\ \/ /\ Live(i)
              /\ rows' = [rows EXCEPT ![i].name = r.ask.val]
              /\ req' = Told(t, i)
              /\ excused' = {e \in excused : i \notin e} \cup
                            Uncompared(t, i, rows[i].project)
           \/ /\ ~Live(i)
              /\ Done(t, "not_found")
              /\ UNCHANGED <<rows, excused>>
        /\ UNCHANGED <<scope, asks, versionVars>>

\* A save with nothing to change still looks for its row.
SaveNothing(t) ==
    /\ req[t].pc = "saving"
    /\ Done(t, IF Live(req[t].found) THEN "ok" ELSE "not_found")
    /\ UNCHANGED <<rows, scope, asks, excused, versionVars>>

\* DELETE of a row no host has, of a capsule, registry or image.
delete(t) ==
    /\ Asked(t, "delete")
    /\ Find(t, LAMBDA i : Go(t, i, "destroying"))
    /\ UNCHANGED <<rows, scope, asks, excused, versionVars>>

destroy(t) ==
    LET i == req[t].found IN
    /\ req[t].pc = "destroying"
    /\ IF Live(i)
       THEN /\ rows' = [rows EXCEPT ![i].state = "gone"]
            /\ req' = [u \in Clients |->
                         [req[u] EXCEPT !.stable = @ \ {i},
                                        !.pc = IF u = t THEN "done" ELSE @,
                                        !.result = IF u = t THEN "ok" ELSE @]]
       ELSE Done(t, "not_found") /\ UNCHANGED rows
    /\ UNCHANGED <<scope, asks, excused, versionVars>>

(***************************************************************************)
(* Listing.                                                                *)
(***************************************************************************)
\* What the controller of a kind refuses before it queries.
_get_containers_collection(ask) ==
    /\ enforce_own(ask.ctx, "container:get_all")
    /\ ask.all => enforce_own(ask.ctx, "container:get_all_all_projects")
    /\ ask.filter.key = "host" => can(ask.ctx, "container:get_one:host")

_get_capsules_collection(ask) == enforce_own(ask.ctx, "capsule:get_all")

_get_registries_collection(ask) ==
    /\ enforce_own(ask.ctx, "registry:get_all")
    /\ ask.all => enforce_own(ask.ctx, "registry:get_all_all_projects")

_get_images_collection(ask) == enforce_own(ask.ctx, "image:get_all")

Admitted(ask) ==
    CASE ask.kind = "container" -> _get_containers_collection(ask)
      [] ask.kind = "capsule" -> _get_capsules_collection(ask)
      [] ask.kind = "registry" -> _get_registries_collection(ask)
      [] OTHER -> _get_images_collection(ask)

\* GET of a collection, up to its query.  Capsules and images take no filters,
\* and images no all_projects: such parameters are not read.
get_all(t) ==
    /\ Asked(t, "list")
    /\ LET ask == req[t].ask
           taken == [ask EXCEPT !.all = @ /\ ask.kind /= "image",
                                !.filter = IF ask.kind \in {"container", "registry"}
                                           THEN @ ELSE NoFilter]
       IN  IF ~Admitted(ask) THEN Done(t, "forbidden")
           ELSE IF ask.limit <= 0 THEN Done(t, "invalid")
           ELSE req' = [req EXCEPT ![t].ask = taken, ![t].pc = "querying",
                                   ![t].stable = {i \in Ids : Live(i)}]
    /\ UNCHANGED <<rows, scope, asks, excused, versionVars>>

\* A full page is taken to have another after it.
has_next(page, limit) == Len(page) = limit /\ Len(page) > 0

\* The query, and the link to the next page: it names the marker, limit, sort key
\* and direction, and neither all_projects nor the filters.
convert_with_links(t) ==
    LET r == req[t]
        page == _paginate_query(r)
        seen == r.seen \o [k \in DOMAIN page |-> [id |-> page[k], name |-> rows[page[k]].name]]
    IN  /\ r.pc = "querying"
        /\ IF has_next(page, validate_limit(r.ask.limit))
           THEN req' = [req EXCEPT ![t].seen = seen, ![t].pc = "linked",
                                   ![t].marker = page[Len(page)],
                                   ![t].pages = @ + 1]
           ELSE req' = [req EXCEPT ![t].seen = seen, ![t].pc = "done",
                                   ![t].result = "ok", ![t].pages = @ + 1]
        /\ UNCHANGED <<rows, scope, asks, excused, versionVars>>

\* The client follows the link: the marker is looked up in the caller's projects.
get_next(t) ==
    LET r == req[t]
        marker == get_by_uuid(r.ask.ctx, FALSE, r.ask.kind, r.marker)
        plain == [r.ask EXCEPT !.all = FALSE, !.filter = NoFilter]
    IN  /\ r.pc = "linked"
        /\ IF marker = {} THEN Done(t, "not_found")
           ELSE req' = [req EXCEPT
                          ![t].ask = plain, ![t].pc = "querying",
                          ![t].at = IF r.ask.key = "name" THEN rows[r.marker].name
                                                          ELSE NoName,
                          ![t].lost = @ \/ r.ask /= plain,
                          ![t].moved = @ \/ (r.ask.key = "name" /\
                              r.seen[Len(r.seen)].name /= rows[r.marker].name)]
        /\ UNCHANGED <<rows, scope, asks, excused, versionVars>>

(***************************************************************************)
(* The specification.                                                      *)
(***************************************************************************)
Init ==
    \E pr \in Programmes :
        /\ rows \in pr.rows
        /\ scope \in pr.scopes
        /\ asks = pr.asks
        /\ methods = pr.methods
        /\ loaded = TRUE
        /\ req = [t \in DOMAIN pr.asks |-> Fresh]
        /\ excused = {}

\* The class is loaded before any request is served.
Load ==
    /\ Clients = {}
    /\ Len(methods) < 3
    /\ \E m \in Interval : api_version(m)
    /\ UNCHANGED catalogVars

Next ==
    \/ Load
    \/ \E t \in Clients :
        \/ Choose(t) \/ get_one(t) \/ Post(t) \/ rename(t) \/ patch(t)
        \/ _validate_unique_container_name(t) \/ Insert(t) \/ Update(t) \/ SaveNothing(t)
        \/ delete(t) \/ destroy(t)
        \/ get_all(t) \/ convert_with_links(t) \/ get_next(t)

vars == <<catalogVars, versionVars>>

Spec == Init /\ [][Next]_vars

(***************************************************************************)
(* Properties.                                                             *)
(***************************************************************************)
TypeOK ==
    /\ rows \in [Ids -> [state : {"none", "live", "gone"}, kind : Kinds,
                         project : Projects, name : Names \cup {NoName},
                         host : {"h1", "h2"}]]
    /\ scope \in {"", "project", "global"}
    /\ \A t \in Clients :
        /\ req[t].found \in Ids \cup {0}
        /\ req[t].pc \in {"idle", "asked", "naming", "writing", "saving", "destroying",
                          "querying", "linked", "done"}
        /\ req[t].pc = "naming" => req[t].ask.kind \in {"container", "capsule"}
        /\ req[t].stable \subseteq Ids /\ req[t].others \subseteq Ids
    /\ \A e \in excused : e \subseteq Ids
    /\ methods \in Seq(Interval) /\ loaded \in BOOLEAN

\* Two rows of the table of containers have the same name, letter case aside,
\* within the configured scope only when the check could not compare them: each
\* counts in a transaction before its write, so one of two writes that overlap
\* is missed, and an admin who renames another project's container is checked
\* against his own project (_validate_unique_container_name).
NamesUnique ==
    \A i, j \in Ids :
        (/\ i /= j /\ Live(i) /\ Live(j) /\ InContainerTable(i) /\ InContainerTable(j)
         /\ rows[i].name /= NoName /\ lower(rows[i].name) = lower(rows[j].name)
         /\ \/ scope = "global"
            \/ scope = "project" /\ rows[i].project = rows[j].project)
        => {i, j} \in excused

\* A caller who is no admin is only ever shown, and only ever comes to act on,
\* rows of his own project, whatever flags he passes, by every operation on a
\* container, also those that ask the policy before the row is known
\* (_add_project_filters, check_policy_on_container).
OwnOnly ==
    /\ \A t \in Clients :
        ~req[t].ask.ctx.admin =>
            \A i \in {req[t].found} \cup {req[t].seen[k].id : k \in DOMAIN req[t].seen} :
                i /= 0 => rows[i].project = req[t].ask.ctx.project
    /\ \A ctx \in Contexts, i \in Ids :
        (~ctx.admin /\ ctx.project /= rows[i].project) => Reached(ctx, i) = {}

\* A client who follows the links to the last page has been given every row that
\* was there all the while and kept its name, once, however many others came,
\* went or were renamed; not when a marker was renamed under a walk sorted by
\* name, or the link lost a filter or all_projects (_paginate_query, get_next).
WalkComplete ==
    \A t \in Clients :
        LET r == req[t] IN
        (r.ask.op = "list" /\ r.result = "ok" /\ ~r.moved /\ ~r.lost) =>
            \A i \in r.stable :
                Cardinality({k \in DOMAIN r.seen : r.seen[k].id = i}) =
                    IF i \in Query(r.ask.ctx, r.ask.all, r.ask.kind) /\ _add_filters(r.ask.filter, i)
                    THEN 1 ELSE 0
=============================================================================
