----------------------------- MODULE Scheduling -----------------------------
(***************************************************************************)
(* From a request to a host: the quota check of the API, the row, the      *)
(* candidates of Placement, the filters of FilterScheduler, the claim of   *)
(* an allocation with its retries, the cast to zun-compute, and the way    *)
(* back: the allocation released by a failed claim or by a delete.  Beside *)
(* it what scheduling looks at: services with their heartbeats, the node's *)
(* usage, the trait of a disabled node, quotas and quota classes.          *)
(*                                                                         *)
(* Every request to Placement, every query that decides something and      *)
(* every save is a step of its own.  CPU stands for the resources: a       *)
(* container's cpu is counted in halves of a core, while Placement counts  *)
(* whole ones.  What the row goes through besides is in ContainerManager,  *)
(* the account of the node in ResourceTracker, the report of inventories   *)
(* and traits in Placement.                                                *)
(***************************************************************************)
EXTENDS Integers, FiniteSets, FiniteSetsExt

CONSTANTS
    Containers, Hosts, NoHost,
    Cpu,          \* halves of a core a container asks for, 0 for none
    DefaultCpu,   \* [DEFAULT] default_cpu, in halves
    Cpus,         \* the cores of a host
    Ratio,        \* the allocation ratio of every inventory
    Asks,         \* zone, runtime and label hint of a request, "" for none
    Has,          \* zone, runtimes and labels of a host
    Wanted,       \* hosts a request may name, NoHost for none
    CPUFilter,    \* CPUFilter, not among the defaults, is enabled
    ConfLimit,    \* [quota] containers and cpu
    Limits,       \* limits an administrator may set, -1 for no limit
    Workers,      \* requests the API serves at a time
    MaxTries,     \* attempts of @retries, 4 in the code
    Faults,       \* "claim", "image", "prepare", "docker", "release"
    Removable,    \* the containers a user deletes
    MaxEvents     \* bound on faults and administrative acts together

Resources == {"containers", "cpu"}

Unset == -2

ASSUME SchedulingAssumption ==
    /\ NoHost \notin Hosts
    /\ Cpu \in [Containers -> Nat] /\ Cpus \in [Hosts -> Nat]
    /\ DefaultCpu \in Nat /\ Ratio \in Nat
    /\ Asks \in [Containers -> [zone : STRING, runtime : STRING, label : STRING]]
    /\ CPUFilter \in BOOLEAN
    /\ Workers \in Nat \ {0} /\ MaxTries \in Nat \ {0}
    /\ Limits \subseteq Int /\ Unset \notin Limits
    /\ ConfLimit \in [Resources -> Int]
    /\ IsFiniteSet(Containers) /\ Containers # {} /\ IsFiniteSet(Limits)

VARIABLES
    row,     \* the container's row: status and host
    req,     \* the API's thread that creates the container
    mk, rm,  \* the threads that create and delete it
    alloc,   \* Placement: the hosts a consumer holds and its generation
    node,    \* who is in the node's usage
    svc,     \* the services: rows and processes
    trait,   \* nodes with COMPUTE_STATUS_DISABLED in Placement
    quota,   \* rows of quotas and quota classes
    used     \* faults and acts so far, and whether an image was refused

vars == <<row, req, mk, rm, alloc, node, svc, trait, quota, used>>

NoRow == [status |-> "none", host |-> NoHost]

\* open is history: the hosts in service at some time of the scheduling.
IdleReq == [pc |-> "idle", todo |-> {}, at |-> NoHost, try |-> 1,
            want |-> NoHost, open |-> {}]

IdleJob == [pc |-> "idle", at |-> NoHost, gen |-> 0]

Init ==
    /\ row = [c \in Containers |-> NoRow]
    /\ req = [c \in Containers |-> IdleReq]
    /\ mk = [c \in Containers |-> IdleJob]
    /\ rm = [c \in Containers |-> IdleJob]
    /\ alloc = [c \in Containers |-> [hosts |-> {}, gen |-> 0]]
    /\ node = [c \in Containers |-> NoHost]
    /\ svc = [h \in Hosts |-> [exists |-> TRUE, disabled |-> FALSE, forced |-> FALSE,
                               up |-> TRUE, alive |-> TRUE, ref |-> TRUE]]
    /\ trait = {}
    /\ quota = [project |-> [r \in Resources |-> Unset], class |-> [r \in Resources |-> Unset]]
    /\ used = [n |-> 0, image |-> FALSE]

Fault(f) ==
    /\ f \in Faults /\ used.n < MaxEvents
    /\ used' = [n |-> used.n + 1, image |-> used.image \/ f = "image"]

-----------------------------------------------------------------------------
(* Quota                                                                    *)

Rows == {c \in Containers : row[c] # NoRow}

\* count_usage: rows of the project, whatever their status.
CountUsage(r) ==
    IF r = "containers" THEN Cardinality(Rows) ELSE MapThenSumSet(LAMBDA c : Cpu[c], Rows)

Delta(c, r) == IF r = "containers" THEN 1 ELSE Cpu[c]

\* _process_quotas: the project's row, the default class, the configuration.
Limit(r) ==
    CASE quota.project[r] # Unset -> quota.project[r]
      [] quota.project[r] = Unset /\ quota.class[r] # Unset -> quota.class[r]
      [] OTHER -> ConfLimit[r]

OverQuota_CreatedOnly(c) ==
    \E r \in Resources :
        /\ Limit(r) >= 0
        /\ Limit(r) < Delta(c, r) +
                      Cardinality({x \in Rows : row[x].status = "Created"})

\* limit_check.
OverQuota(c) ==
    \E r \in Resources : Limit(r) >= 0 /\ Limit(r) < CountUsage(r) + Delta(c, r)

Administer == used.n < MaxEvents /\ used' = [used EXCEPT !.n = @ + 1]

\* quota_create, quota_update: of the rows of a resource the last is read.
SetProjectQuota(limits) == quota' = [quota EXCEPT !.project = limits]

\* quota_class_update, quota_class_create.
SetClassQuota(r, v) == quota' = [quota EXCEPT !.class[r] = v]

\* PUT /quotas: create, or update what is there.
PutQuota(r, v) ==
    /\ Administer /\ SetProjectQuota([quota.project EXCEPT ![r] = v])
    /\ UNCHANGED <<row, req, mk, rm, alloc, node, svc, trait>>

\* DELETE /quotas.
DeleteQuotas ==
    /\ Administer /\ SetProjectQuota([r \in Resources |-> Unset])
    /\ UNCHANGED <<row, req, mk, rm, alloc, node, svc, trait>>

\* PUT /quota_classes/default.
PutQuotaClass(r, v) ==
    /\ Administer /\ SetClassQuota(r, v)
    /\ UNCHANGED <<row, req, mk, rm, alloc, node, svc, trait>>

-----------------------------------------------------------------------------
(* The request, up to the row                                               *)

Active(c) == req[c].pc \notin {"idle", "done"}

Request(c, r) == req' = [req EXCEPT ![c] = r]

Answer(c) == Request(c, [IdleReq EXCEPT !.pc = "done"])

\* _check_container_quotas: over the limits the request is refused.
CheckQuota(c) ==
    /\ req[c].pc = "idle" /\ Cardinality({x \in Containers : Active(x)}) < Workers
    /\ \E h \in Wanted[c] :
          IF OverQuota(c) THEN Answer(c)
          ELSE Request(c, [req[c] EXCEPT !.pc = "create", !.want = h])
    /\ UNCHANGED <<row, mk, rm, alloc, node, svc, trait, quota, used>>

CreateRow(c) ==
    /\ req[c].pc = "create"
    /\ row' = [row EXCEPT ![c] = [status |-> "Creating", host |-> NoHost]]
    /\ Request(c, [req[c] EXCEPT !.pc = "validate"])
    /\ UNCHANGED <<mk, rm, alloc, node, svc, trait, quota, used>>

\* Service rows that ComputeFilter accepts: service_is_up and not disabled.
InService(s) == s.exists /\ ~s.disabled /\ ~s.forced /\ s.up

\* _validate_host: without the node's row the container's row goes again.
ValidateHost(c) ==
    /\ req[c].pc = "validate"
    /\ IF req[c].want \in Hosts \cup {NoHost}
       THEN /\ Request(c, [req[c] EXCEPT !.pc = "candidates",
                                         !.open = {h \in Hosts : InService(svc[h])}])
            /\ UNCHANGED row
       ELSE row' = [row EXCEPT ![c] = NoRow] /\ Answer(c)
    /\ UNCHANGED <<mk, rm, alloc, node, svc, trait, quota, used>>

\* A save of the copy: nothing is left to write to when the row is gone.
Save(c, status, host) ==
    row' = IF row[c] = NoRow THEN row
           ELSE [row EXCEPT ![c] = [status |-> status, host |-> host]]

\* NoValidHost, or any other exception of the scheduler: the row is ERROR.
Unscheduled(c) == Save(c, "Error", row[c].host) /\ Answer(c)

-----------------------------------------------------------------------------
(* Placement's side of an allocation                                        *)

\* resources_from_request_spec: cores are rounded up, and at least one.
Ask ==
    [c \in Containers |->
        LET cpu == IF Cpu[c] = 0 THEN DefaultCpu ELSE Cpu[c]
        IN IF cpu <= 2 THEN 1 ELSE (cpu + 1) \div 2]

Allocated(h) == MapThenSumSet(LAMBDA c : Ask[c], {c \in Containers : h \in alloc[c].hosts})

HasRoom(c, h) == Allocated(h) + Ask[c] <= Cpus[h] * Ratio

\* PUT /allocations/{consumer}: a consumer that holds nothing is no more,
\* and its generation is none (0).
Write(c, hosts) ==
    alloc' = [alloc EXCEPT ![c] =
                [hosts |-> hosts,
                 gen |-> IF hosts = {} THEN 0 ELSE alloc[c].gen + 1]]

-----------------------------------------------------------------------------
(* Scheduling                                                               *)

\* The one group of the request: amount, wanted provider, forbidden traits.
RequestGroup(c) ==
    [amount |-> Ask[c], in_tree |-> IF req[c].want = NoHost THEN Hosts ELSE {req[c].want},
     forbidden |-> trait]

\* get_allocation_candidates: what Placement finds for the group.
Candidates(c) ==
    LET group == RequestGroup(c)
    IN {h \in group.in_tree \ group.forbidden : HasRoom(c, h)}

GetAllocationCandidates(c) ==
    /\ req[c].pc = "candidates"
    /\ \/ /\ Candidates(c) # {}
          /\ Request(c, [req[c] EXCEPT !.pc = "filter", !.todo = Candidates(c)])
          /\ UNCHANGED <<row, used>>
       \/ Candidates(c) = {} /\ Unscheduled(c) /\ UNCHANGED used
       \/ Fault("claim") /\ Unscheduled(c)
    /\ UNCHANGED <<mk, rm, alloc, node, svc, trait, quota>>

\* HostState, from the node's row: what its containers use.
NodeUsed(h) == MapThenSumSet(LAMBDA c : Cpu[c], {c \in Containers : node[c] = h})

AvailabilityZoneFilter(c, h) == Asks[c].zone \in {"", Has[h].zone}

RuntimeFilter(c, h) == Asks[c].runtime \in {""} \cup Has[h].runtimes

LabelFilter(c, h) == Asks[c].label \in {""} \cup Has[h].labels

\* A container may have all the cores that are not used yet, and the limit
\* its claim is tested with is the host's cores.
CPUFilterPasses(c, h) == (CPUFilter /\ Cpu[c] # 0) => 2 * Cpus[h] - NodeUsed(h) >= Cpu[c]

HostPasses_Trait(c, h) ==
    /\ svc[h].exists /\ CPUFilterPasses(c, h)
    /\ AvailabilityZoneFilter(c, h) /\ RuntimeFilter(c, h) /\ LabelFilter(c, h)

\* get_filtered_objects: the enabled filters, one after the other; a node
\* without a service is none.
HostPasses(c, h) ==
    /\ InService(svc[h]) /\ CPUFilterPasses(c, h)
    /\ AvailabilityZoneFilter(c, h) /\ RuntimeFilter(c, h) /\ LabelFilter(c, h)

GetFilteredHosts(c) ==
    /\ req[c].pc = "filter"
    /\ LET hosts == {h \in req[c].todo : HostPasses(c, h)}
       IN IF hosts = {} THEN Unscheduled(c)
          ELSE Request(c, [req[c] EXCEPT !.pc = "next", !.todo = hosts]) /\ UNCHANGED row
    /\ UNCHANGED <<mk, rm, alloc, node, svc, trait, quota, used>>

\* The loop of _schedule over the hosts, in the order of the node's rows.
NextHost(c) ==
    /\ req[c].pc = "next"
    /\ \/ /\ req[c].todo = {} /\ Unscheduled(c)
       \/ \E h \in req[c].todo :
             /\ Request(c, [req[c] EXCEPT !.pc = "put", !.at = h, !.todo = @ \ {h}, !.try = 1])
             /\ UNCHANGED row
    /\ UNCHANGED <<mk, rm, alloc, node, svc, trait, quota, used>>

Retry_Forever(c) == Request(c, [req[c] EXCEPT !.try = (@ % MaxTries) + 1])

\* Retry of @retries: once more, and False after the last attempt.
Retry(c) ==
    Request(c, IF req[c].try < MaxTries
               THEN [req[c] EXCEPT !.try = @ + 1]
               ELSE [req[c] EXCEPT !.pc = "next"])

\* claim_resources: the GET finds nothing that a new consumer holds, so the
\* PUT names no generation and asks for this host alone.
ClaimResources(c) ==
    /\ req[c].pc = "put"
    /\ \/ \* 204
          /\ HasRoom(c, req[c].at) /\ Write(c, {req[c].at})
          /\ Request(c, [req[c] EXCEPT !.pc = "image"])
          /\ UNCHANGED <<row, used>>
       \/ \* 409, no room any more: the next host
          /\ ~HasRoom(c, req[c].at) /\ Request(c, [req[c] EXCEPT !.pc = "next"])
          /\ UNCHANGED <<row, alloc, used>>
       \/ \* 409, another consumer changed the provider meanwhile
          /\ Retry(c) /\ UNCHANGED <<row, alloc, used>>
       \/ \* no answer, to a request that may have been carried out
          /\ Fault("claim") /\ Request(c, [req[c] EXCEPT !.pc = "lost"]) /\ UNCHANGED row
          /\ UNCHANGED alloc \/ (HasRoom(c, req[c].at) /\ Write(c, {req[c].at}))
    /\ UNCHANGED <<mk, rm, node, svc, trait, quota>>

\* The exception of the lost request leaves select_destinations.
ClaimLost(c) ==
    /\ req[c].pc = "lost" /\ Unscheduled(c)
    /\ UNCHANGED <<mk, rm, alloc, node, svc, trait, quota, used>>

\* The image is looked for on the host; only a malformed name is an error,
\* and leaves the row as it is.
ValidateImage(c) ==
    /\ req[c].pc = "image"
    /\ \/ Request(c, [req[c] EXCEPT !.pc = "cast"]) /\ UNCHANGED used
       \/ Fault("image") /\ Answer(c)
    /\ UNCHANGED <<row, mk, rm, alloc, node, svc, trait, quota>>

CastCreate(c) ==
    /\ req[c].pc = "cast" /\ Answer(c)
    /\ mk' = [mk EXCEPT ![c] = [IdleJob EXCEPT !.pc = "queued", !.at = req[c].at]]
    /\ UNCHANGED <<row, rm, alloc, node, svc, trait, quota, used>>

-----------------------------------------------------------------------------
(* zun-compute                                                              *)

Job(t, c, pc) ==
    [t EXCEPT ![c] = IF pc = "idle" THEN IdleJob
                     ELSE [t[c] EXCEPT !.pc = pc, !.gen = 0]]

\* synchronized(container.uuid)
Free(t, c) == t[c].pc \in {"idle", "queued", "hostless"}

\* What do_container_create does before it claims: volumes, disk quota.
PrepareFails(c) ==
    /\ mk[c].pc = "queued" /\ Free(rm, c) /\ Fault("prepare")
    /\ Save(c, "Error", NoHost) /\ mk' = Job(mk, c, "idle")
    /\ UNCHANGED <<req, rm, alloc, node, svc, trait, quota>>

\* Claim._claim_test: the limit is the one the filter left in host_state.
Exceeds(c, h) == CPUFilter /\ Cpu[c] # 0 /\ NodeUsed(h) + Cpu[c] > 2 * Cpus[h]

\* container_claim: the host is saved and the usage counted; a claim that
\* does not fit fails the container and gives its allocation back.
ContainerClaim(c) ==
    LET h == mk[c].at
    IN /\ mk[c].pc = "queued" /\ Free(rm, c)
       /\ IF Exceeds(c, h)
          THEN /\ Save(c, "Error", NoHost)
               /\ mk' = Job(mk, c, IF row[c] = NoRow THEN "idle" ELSE "get")
               /\ UNCHANGED node
          ELSE IF row[c] = NoRow
          THEN mk' = Job(mk, c, "idle") /\ UNCHANGED <<row, node>>
          ELSE /\ Save(c, row[c].status, h) /\ mk' = Job(mk, c, "docker")
               /\ node' = [node EXCEPT ![c] = h]
       /\ UNCHANGED <<req, rm, alloc, svc, trait, quota, used>>

\* _do_container_create_base: a failed pull keeps the host, a failed creation
\* does not; the claim is aborted by both, and so when the row is gone.
DockerCreate(c) ==
    /\ mk[c].pc = "docker" /\ mk' = Job(mk, c, "idle")
    /\ \/ /\ Save(c, "Created", mk[c].at) /\ UNCHANGED used
          /\ node' = IF row[c] = NoRow THEN [node EXCEPT ![c] = NoHost] ELSE node
       \/ /\ Fault("docker") /\ node' = [node EXCEPT ![c] = NoHost]
          /\ \E h \in {mk[c].at, NoHost} : Save(c, "Error", h)
    /\ UNCHANGED <<req, rm, alloc, svc, trait, quota>>

\* DELETE /containers/{c}: a copy without host is destroyed by the API.
DeleteContainer(c) ==
    /\ c \in Removable /\ row[c] # NoRow /\ rm[c].pc = "idle"
    /\ rm' = [rm EXCEPT ![c] =
                [IdleJob EXCEPT !.pc = IF row[c].host = NoHost THEN "hostless" ELSE "queued",
                                !.at = row[c].host]]
    /\ UNCHANGED <<row, req, mk, alloc, node, svc, trait, quota, used>>

DestroyHostless(c) ==
    /\ rm[c].pc = "hostless" /\ rm' = Job(rm, c, "idle")
    /\ row' = [row EXCEPT ![c] = NoRow]
    /\ UNCHANGED <<req, mk, alloc, node, svc, trait, quota, used>>

\* _do_container_delete: the driver, then remove_usage_from_container.
DoContainerDelete(c) ==
    /\ rm[c].pc = "queued" /\ Free(mk, c)
    /\ \/ /\ rm' = Job(rm, c, "get") /\ node' = [node EXCEPT ![c] = NoHost]
          /\ UNCHANGED <<row, used>>
       \/ /\ Fault("docker") /\ Save(c, "Error", row[c].host)
          /\ rm' = Job(rm, c, "idle") /\ UNCHANGED node
    /\ UNCHANGED <<req, mk, alloc, svc, trait, quota>>

-----------------------------------------------------------------------------
(* delete_allocation_for_container, in the thread t of either kind          *)

\* The GET: nothing held is False, which is no error.
ReadAllocation(t, c, ok) ==
    /\ t[c].pc = "get"
    /\ \/ /\ UNCHANGED used
          /\ IF alloc[c].hosts = {} THEN t' = Job(t, c, ok)
             ELSE t' = [t EXCEPT ![c] = [t[c] EXCEPT !.pc = "put",
                                                     !.gen = alloc[c].gen]]
       \/ Fault("release") /\ t' = Job(t, c, "idle")
    /\ UNCHANGED alloc

DeleteAllocation_Ignored(t, c, ok) ==
    /\ t[c].pc = "put" /\ t' = Job(t, c, ok)
    /\ \/ t[c].gen = alloc[c].gen /\ Write(c, {}) /\ UNCHANGED used
       \/ Fault("release") /\ UNCHANGED alloc

\* The PUT: whatever is not 204 is AllocationDeleteFailed.
DeleteAllocation(t, c, ok) ==
    /\ t[c].pc = "put"
    /\ \/ /\ t[c].gen = alloc[c].gen /\ Write(c, {}) /\ t' = Job(t, c, ok)
          /\ UNCHANGED used
       \/ /\ t[c].gen # alloc[c].gen /\ t' = Job(t, c, "idle")
          /\ UNCHANGED <<alloc, used>>
       \/ /\ Fault("release") /\ t' = Job(t, c, "idle")
          /\ UNCHANGED alloc \/ (t[c].gen = alloc[c].gen /\ Write(c, {}))

ReleaseFailedClaim(c) ==
    /\ ReadAllocation(mk, c, "idle") \/ DeleteAllocation(mk, c, "idle")
    /\ UNCHANGED <<row, req, rm, node, svc, trait, quota>>

ReleaseDeleted(c) ==
    /\ ReadAllocation(rm, c, "destroy") \/ DeleteAllocation(rm, c, "destroy")
    /\ UNCHANGED <<row, req, mk, node, svc, trait, quota>>

\* Only when the allocation is gone from Placement the row is destroyed.
DestroyRow(c) ==
    /\ rm[c].pc = "destroy" /\ rm' = Job(rm, c, "idle")
    /\ row' = [row EXCEPT ![c] = NoRow]
    /\ UNCHANGED <<req, mk, alloc, node, svc, trait, quota, used>>

\* An operator deletes an allocation by hand.
OperatorReleases(c) ==
    /\ Administer /\ alloc[c].hosts # {} /\ row[c].status # "Creating" /\ Write(c, {})
    /\ UNCHANGED <<row, req, mk, rm, node, svc, trait, quota>>

-----------------------------------------------------------------------------
(* Services                                                                 *)

\* A service's row changes; the history notes who is in service now.
Serve(h, s) ==
    /\ svc' = [svc EXCEPT ![h] = s]
    /\ req' = [c \in Containers |->
                 IF InService(s) /\ Active(c) THEN [req[c] EXCEPT !.open = @ \cup {h}] ELSE req[c]]
    /\ UNCHANGED <<row, mk, rm, alloc, node, trait, quota>>

\* report_state_up: the count rises and with it last_seen_up.
ReportStateUp(s) == [s EXCEPT !.exists = TRUE, !.ref = TRUE, !.up = TRUE]

\* update_zun_service: the row is read or created once per process; a row
\* deleted after that is not found by the update, and not created again.
Heartbeat(h) ==
    /\ svc[h].alive /\ (svc[h].exists \/ ~svc[h].ref)
    /\ ReportStateUp(svc[h]) # svc[h] /\ Serve(h, ReportStateUp(svc[h]))
    /\ UNCHANGED used

\* service_down_time passes without a report.
HeartbeatLost(h) ==
    /\ svc[h].exists /\ svc[h].up /\ Administer
    /\ Serve(h, [svc[h] EXCEPT !.up = FALSE])

\* zun-compute stops, or is started again.
Process(h) ==
    /\ Administer
    /\ Serve(h, [svc[h] EXCEPT !.alive = ~@, !.ref = FALSE])

\* PUT /services/enable, /services/disable.
EnableOrDisable(h, disabled) ==
    /\ svc[h].exists /\ svc[h].disabled # disabled /\ Administer
    /\ Serve(h, [svc[h] EXCEPT !.disabled = disabled])

\* PUT /services/force_down.
UpdateForcedDown(h, forced) ==
    /\ svc[h].exists /\ svc[h].forced # forced /\ Administer
    /\ Serve(h, [svc[h] EXCEPT !.forced = forced])

\* DELETE /services.
DeleteService(h) ==
    /\ svc[h].exists /\ Administer
    /\ Serve(h, [svc[h] EXCEPT !.exists = FALSE, !.disabled = FALSE, !.forced = FALSE, !.up = FALSE])

\* _sync_compute_service_disabled_trait, at the next report of the node.
ReportTrait(h) ==
    /\ svc[h].alive /\ svc[h].exists /\ svc[h].disabled # (h \in trait)
    /\ trait' = IF svc[h].disabled THEN trait \cup {h} ELSE trait \ {h}
    /\ UNCHANGED <<row, req, mk, rm, alloc, node, svc, quota, used>>

-----------------------------------------------------------------------------

\* One step of the thread that serves the request.
Serving(c) ==
    \/ CreateRow(c) \/ ValidateHost(c) \/ GetAllocationCandidates(c) \/ GetFilteredHosts(c)
    \/ NextHost(c) \/ ClaimResources(c) \/ ClaimLost(c) \/ ValidateImage(c) \/ CastCreate(c)

\* One step of a thread of zun-compute.
Computing(c) ==
    \/ PrepareFails(c) \/ ContainerClaim(c) \/ DockerCreate(c) \/ ReleaseFailedClaim(c)
    \/ DoContainerDelete(c) \/ ReleaseDeleted(c) \/ DestroyRow(c) \/ DestroyHostless(c)

Next ==
    \/ \E c \in Containers :
          CheckQuota(c) \/ Serving(c) \/ Computing(c) \/ DeleteContainer(c) \/ OperatorReleases(c)
    \/ \E h \in Hosts :
          \/ Heartbeat(h) \/ HeartbeatLost(h) \/ Process(h) \/ DeleteService(h) \/ ReportTrait(h)
          \/ \E b \in BOOLEAN : EnableOrDisable(h, b) \/ UpdateForcedDown(h, b)
    \/ \E r \in Resources, v \in Limits : PutQuota(r, v) \/ PutQuotaClass(r, v)
    \/ DeleteQuotas

Spec == Init /\ [][Next]_vars

\* Threads run on: a request is served to its end, and what was cast to
\* zun-compute is taken up.
FairSpec == Spec /\ \A c \in Containers : WF_vars(Serving(c)) /\ WF_vars(Computing(c))

-----------------------------------------------------------------------------
(* Properties                                                               *)

Pcs == {"idle", "create", "validate", "candidates", "filter", "next", "put",
        "lost", "image", "cast", "done"}

JobPcs == {"idle", "queued", "hostless", "docker", "get", "put", "destroy"}

RowType == [status : {"none", "Creating", "Created", "Error"},
            host : Hosts \cup {NoHost}]

ReqType == [pc : Pcs, todo : SUBSET Hosts, at : Hosts \cup {NoHost},
            try : 1..MaxTries,
            want : (UNION {Wanted[c] : c \in Containers}) \cup {NoHost},
            open : SUBSET Hosts]

JobType == [pc : JobPcs, at : Hosts \cup {NoHost}, gen : Nat]

AllocType == [hosts : SUBSET Hosts, gen : Nat]

Quotas == [Resources -> Limits \cup {Unset}]

QuotaType == [project : Quotas, class : Quotas]

\* Every variable holds a value of its kind.
TypeOK ==
    /\ row \in [Containers -> RowType]
    /\ req \in [Containers -> ReqType]
    /\ mk \in [Containers -> JobType]
    /\ rm \in [Containers -> JobType]
    /\ alloc \in [Containers -> AllocType]
    /\ node \in [Containers -> Hosts \cup {NoHost}]
    /\ trait \in SUBSET Hosts
    /\ quota \in QuotaType

\* The quota is checked against a count that other requests change before the
\* row is created: where no limit is switched off, the requests the API serves
\* at the same time are all that may exceed the largest limit ever in force.
QuotaOverrun ==
    \A r \in Resources :
        Limits \cup {ConfLimit[r]} \subseteq Nat =>
            CountUsage(r) <= Max(Limits \cup {ConfLimit[r]})
                             + (Workers - 1) * Max({Delta(c, r) : c \in Containers})

\* A host gets an allocation and a container only if its service was there,
\* enabled and up at some moment since the request came to be scheduled,
\* however old the answers are that the scheduler puts together.
InServiceWhenChosen ==
    \A c \in Containers :
        Active(c) => alloc[c].hosts \subseteq req[c].open

\* Every request is answered, whatever conflicts Placement reports, and the
\* row it made does not stay CREATING for a request that was not refused for
\* the name of its image: it gets a host, fails or goes.
RequestEnds ==
    \A c \in Containers :
        (Active(c) \/ row[c].status = "Creating") ~>
            (~Active(c) /\ (row[c].status # "Creating" \/ used.image))

\* Allocations, rows and threads as the abstract specification sees them.
Stage(c) ==
    CASE row[c] = NoRow /\ req[c].pc \in {"idle", "create"} -> "new"
      [] row[c] = NoRow /\ req[c].pc \notin {"idle", "create"} -> "gone"
      [] row[c] # NoRow /\ rm[c].pc = "hostless" -> "leaving"
      [] row[c] # NoRow /\ rm[c].pc # "hostless" /\ row[c].host # NoHost -> "placed"
      [] row[c] # NoRow /\ rm[c].pc # "hostless" /\ row[c].host = NoHost /\ row[c].status = "Error"
            -> "failed"
      [] OTHER -> "waiting"

Promise == INSTANCE Assignment WITH
    stage <- [c \in Containers |-> Stage(c)],
    host <- [c \in Containers |-> row[c].host],
    held <- [c \in Containers |-> alloc[c].hosts],
    Need <- Ask,
    Room <- [h \in Hosts |-> Cpus[h] * Ratio]

\* Scheduling and deletion implement Assignment: resources are taken once and
\* from one host that has room, a container comes to a host only with that
\* host's resources, and its row goes only after they are given back.
KeepsPromise == Promise!Spec
=============================================================================
