----------------------------- MODULE PciDevices -----------------------------
(***************************************************************************)
(* The PCI devices of one compute host (zun/pci, objects/pci_device.py)    *)
(* and the part of the resource tracker that claims, frees and saves them. *)
(*                                                                         *)
(* A container that asks for SR-IOV ports gets one device per port: a      *)
(* physical function (PF) for a direct-physical port, a virtual function   *)
(* (VF) otherwise.  The tracker keeps every device in memory, the free     *)
(* ones also in pools; it claims and frees under the resource semaphore    *)
(* and then saves the node, reports to placement and saves the devices row *)
(* by row.  zun-compute may stop between any two of those writes; the next *)
(* process reads the rows back and compares them with what the host lists. *)
(*                                                                         *)
(* All containers ask for the same memory and CPUs, so that one number     *)
(* stands for the usage recorded in the compute node.                      *)
(***************************************************************************)
EXTENDS Integers, Sequences, FiniteSets, SequencesExt

CONSTANTS
    Containers,     \* containers scheduled to this host
    Addresses,      \* the devices of the host in the order of their addresses
    Parent,         \* Parent[v]: the PF of the VF v; its domain are the VFs
    Nets,           \* physical networks
    Whitelists,     \* the values of [pci]passthrough_whitelist considered
    Asks,           \* the sequences of ports a container may come with
    CanFail,        \* the calls that may fail: see Outcomes
    SafeRemoval,    \* devices disappear one at a time, and no call fails
                    \* while a removed device awaits its save
    NoContainer,    \* the owner of a device nobody holds
    MaxCrashes,     \* stops of zun-compute
    MaxFails,       \* failed calls
    MaxChanges      \* changes of the host's devices or of the whitelist

Devices == Range(Addresses)
VFs     == DOMAIN Parent
Types   == {"type-PF", "type-VF"}
Held    == {"claimed", "allocated"}
Status  == Held \cup {"available", "unclaimable", "unavailable", "removed"}
Index(d) == CHOOSE i \in DOMAIN Addresses : Addresses[i] = d

ASSUME PciAssumption ==
    /\ IsInjective(Addresses)
    /\ Parent \in [VFs -> Devices \ VFs]
    /\ \A v \in VFs : Index(Parent[v]) < Index(v)
    /\ NoContainer \notin Containers
    /\ CanFail \subseteq {"host", "node", "placement", "save", "lspci", "create"}
    /\ SafeRemoval \in BOOLEAN
    /\ {MaxCrashes, MaxFails, MaxChanges} \subseteq Nat

VARIABLES
    present,    \* the devices lspci lists
    whitelist,  \* the sequence of device specs of the configuration
    tracker,    \* PciDevTracker of the running process
    rows,       \* the pci_device table: a function on the devices with a row
    node,       \* the compute node in memory: usage and published pools
    nodeRow,    \* the compute_node row
    old,        \* old_resources of this host
    tracked,    \* the keys of tracked_containers
    hosted,     \* the containers whose row has this host
    cont,       \* per container: step, requests and pci_devices
    job,        \* the holder of the resource semaphore, and what it has left
    up,         \* zun-compute runs
    used        \* the bounded events used up

vars == <<present, whitelist, tracker, rows, node, nodeRow, old, tracked,
          hosted, cont, job, up, used>>

-----------------------------------------------------------------------------
(* The whitelist.  A device spec matches a device by vendor and product    *)
(* (ids) and by address (addrs); the address of a PF also matches its VFs. *)

Type(d) == IF d \in VFs THEN "type-VF" ELSE "type-PF"

AddressMatches(spec, d) ==
    \/ spec.pf /\ d \in VFs /\ Parent[d] \in spec.addrs
    \/ d \in spec.addrs

SpecMatches(spec, d) == d \in spec.ids /\ AddressMatches(spec, d)

Assignable(list, d) == \E i \in DOMAIN list : SpecMatches(list[i], d)

DevSpec(list, d) == SelectInSeq(list, LAMBDA s : SpecMatches(s, d))

(* The key of the pool a device belongs to, if a device spec matches it.   *)
Keys == Types \X Nets

PoolKey(d) == <<Type(d), whitelist[DevSpec(whitelist, d)].net>>

-----------------------------------------------------------------------------
(* The pools.  Every operator on a tracker also says whether it raised; a  *)
(* loop stops at the first exception and keeps what was done before it.    *)

Each(Op(_, _), t, seq) ==
    FoldLeft(LAMBDA s, d : IF s.raised THEN s ELSE Op(s, d), t, seq)

Raise(t) == [t EXCEPT !.raised = TRUE]

AddDevice(t, d) ==
    IF Assignable(whitelist, d)
    THEN [t EXCEPT !.pools[PoolKey(d)] = Append(@, d)] ELSE t

RemoveDevice(t, d) ==
    IF ~Assignable(whitelist, d) THEN t
    ELSE IF ~Contains(t.pools[PoolKey(d)], d) THEN Raise(t)
    ELSE [t EXCEPT !.pools[PoolKey(d)] = RemoveFirst(@, d)]

FreeDevs(t) == UNION {Range(t.pools[k]) : k \in Keys}

(* _build_device_tree links the devices that are not removed.              *)
Linked(t, d) == d \in DOMAIN t.devs /\ t.devs[d].status # "removed"

HasParent_Unlinked(t, v) == FALSE

HasParent(t, v) == v \in VFs /\ Linked(t, Parent[v])

ChildDevices(t, p) ==
    SelectSeq(Addresses, LAMBDA v : v \in VFs /\ Linked(t, v) /\ Parent[v] = p)

HandleDeviceDependents(t, d) ==
    IF d \notin VFs THEN Each(RemoveDevice, t, ChildDevices(t, d))
    ELSE IF HasParent(t, d) /\ Parent[d] \in FreeDevs(t)
    THEN RemoveDevice(t, Parent[d]) ELSE t

(* Every SR-IOV port makes one request for one device: a PF for a          *)
(* direct-physical port, otherwise any device that is no PF.               *)
SriovVnics == {"direct", "macvtap", "direct-physical", "virtio-forwarder"}

DeviceTypeFor(vnic) == IF vnic = "direct-physical" THEN "type-PF" ELSE "type-VF"

CreatePciRequests(ports) ==
    LET sriov == SelectSeq(ports, LAMBDA q : q.vnic \in SriovVnics)
    IN [i \in DOMAIN sriov |-> [type |-> DeviceTypeFor(sriov[i].vnic), net |-> sriov[i].net]]

(* The pools that meet a request.  support_requests counts free devices    *)
(* and forgets about their dependents.                                     *)
Matching(r) == <<r.type, r.net>>

SupportRequests(count, reqs) ==
    \A k \in Keys : Cardinality({i \in DOMAIN reqs : Matching(reqs[i]) = k}) <= count[k]

PoolCounts(t) == [k \in Keys |-> Len(t.pools[k])]

ConsumeOne(t, r) ==
    LET k == Matching(r)
        d == Last(t.pools[k])
    IN [HandleDeviceDependents([t EXCEPT !.pools[k] = Front(@)], d)
            EXCEPT !.got = Append(@, d)]

(* The devices taken so far go back alone: the dependents stay out.        *)
Unassign(t) == [Each(AddDevice, t, Reverse(t.got)) EXCEPT !.got = <<>>, !.short = TRUE]

ConsumeRequests(t, reqs) ==
    Each(LAMBDA s, r : IF s.short THEN s
                       ELSE IF s.pools[Matching(r)] = <<>> THEN Unassign(s)
                       ELSE ConsumeOne(s, r),
         [t EXCEPT !.got = <<>>, !.short = FALSE], reqs)

-----------------------------------------------------------------------------
(* A device's life.                                                        *)

SetStatus(t, D, s) ==
    [t EXCEPT !.devs = [d \in DOMAIN t.devs |->
        IF d \in D /\ t.devs[d].status # s
        THEN [t.devs[d] EXCEPT !.status = s, !.dirty = TRUE] ELSE t.devs[d]]]

Own(t, d, s, c) ==
    [SetStatus(t, {d}, s) EXCEPT !.devs[d].owner = c, !.devs[d].dirty = TRUE]

AllIn(t, D, S) == \A d \in D : t.devs[d].status \in S

ParentOk == {"available", "unclaimable", "unavailable"}

Claim(t, d, c) ==
    LET vfs == Range(ChildDevices(t, d)) IN
    IF t.devs[d].status # "available" THEN Raise(t)
    ELSE IF d \notin VFs
    THEN IF ~AllIn(t, vfs, {"available"}) THEN Raise(t)
         ELSE Own(SetStatus(t, vfs, "unclaimable"), d, "claimed", c)
    ELSE IF ~HasParent(t, d) THEN Own(t, d, "claimed", c)
    ELSE IF t.devs[Parent[d]].status \notin ParentOk THEN Raise(t)
    ELSE Own(IF t.devs[Parent[d]].status = "available"
             THEN SetStatus(t, {Parent[d]}, "unclaimable") ELSE t, d, "claimed", c)

Allocate(t, d, c) ==
    LET vfs == Range(ChildDevices(t, d)) IN
    IF t.devs[d].status \notin {"available", "claimed"} THEN Raise(t)
    ELSE IF t.devs[d].status = "claimed" /\ t.devs[d].owner # c THEN Raise(t)
    ELSE IF d \notin VFs
    THEN IF ~AllIn(t, vfs, {"available", "unclaimable"}) THEN Raise(t)
         ELSE Own(SetStatus(t, vfs, "unavailable"), d, "allocated", c)
    ELSE IF ~HasParent(t, d) THEN Own(t, d, "allocated", c)
    ELSE IF t.devs[Parent[d]].status \notin ParentOk THEN Raise(t)
    ELSE Own(SetStatus(t, {Parent[d]}, "unavailable"), d, "allocated", c)

(* free() reads the id of every VF of the parent, which a device found by  *)
(* this process does not have.                                             *)
Free(t, d) ==
    LET vfs   == Range(ChildDevices(t, IF d \in VFs THEN Parent[d] ELSE d))
        last  == HasParent(t, d) /\ AllIn(t, vfs \ {d}, {"available"})
        freed == IF d \notin VFs THEN ChildDevices(t, d)
                 ELSE IF last THEN <<Parent[d]>> ELSE <<>>
    IN IF HasParent(t, d) /\ \E v \in vfs : t.devs[v].fresh THEN Raise(t)
       ELSE Each(AddDevice,
                 Own(SetStatus(t, Range(freed), "available"), d, "available", NoContainer),
                 Append(freed, d))

-----------------------------------------------------------------------------
(* PciDevTracker.                                                          *)

Pop(t, field, c) == [t EXCEPT ![field][c] = <<>>]

ClaimContainer(t, c, reqs) ==
    LET taken   == ConsumeRequests(t, reqs)
        claimed == Each(LAMBDA s, d : Claim(s, d, c), taken, taken.got)
    IN IF claimed.raised \/ claimed.got = <<>> THEN claimed
       ELSE [claimed EXCEPT !.claims[c] = claimed.got]

AllocateContainer(t, c) ==
    LET devs == t.claims[c]
        s    == Each(LAMBDA x, d : Allocate(x, d, c), Pop(t, "claims", c), devs)
    IN IF s.raised THEN s ELSE [s EXCEPT !.allocations[c] = @ \o devs]

(* Both branches free what the container holds, claimed or allocated.      *)
FreeAll(t, c) ==
    Each(LAMBDA s, d : IF d \in DOMAIN s.devs /\ s.devs[d].status \in Held
                          /\ s.devs[d].owner = c
                       THEN Free(s, d) ELSE s, t, Addresses)

FreeContainer(t, c) ==
    IF t.allocations[c] # <<>> THEN FreeAll(Pop(t, "allocations", c), c)
    ELSE IF t.claims[c] # <<>> THEN FreeAll(Pop(t, "claims", c), c)
    ELSE t

(* Loading the rows: the devices a container holds under its uuid, the     *)
(* available ones in the pools.                                            *)
InStatus(D, s, c) ==
    SelectSeq(Addresses, LAMBDA d : d \in DOMAIN D /\ D[d].status = s /\ D[d].owner = c)

Empty == [devs |-> <<>>, pools |-> [k \in Keys |-> <<>>],
          claims |-> [c \in Containers |-> <<>>],
          allocations |-> [c \in Containers |-> <<>>],
          got |-> <<>>, short |-> FALSE, raised |-> FALSE]

Load ==
    Each(AddDevice,
         [Empty EXCEPT
            !.devs = [d \in DOMAIN rows |-> [status |-> rows[d].status,
                        owner |-> rows[d].owner, fresh |-> FALSE, dirty |-> FALSE]],
            !.claims = [c \in Containers |-> InStatus(rows, "claimed", c)],
            !.allocations = [c \in Containers |-> InStatus(rows, "allocated", c)]],
         InStatus(rows, "available", NoContainer))

(* A device that is gone is removed, by force if somebody holds it.        *)
RemoveGone(t, d) ==
    IF t.devs[d].status = "available"
    THEN RemoveDevice(SetStatus(t, {d}, "removed"), d)
    ELSE SetStatus(t, {d}, "removed")

NewDevice == [status |-> "available", owner |-> NoContainer, fresh |-> TRUE, dirty |-> TRUE]

Discover(t, d) ==
    AddDevice([t EXCEPT !.devs = [x \in DOMAIN t.devs \cup {d} |->
        IF x = d THEN NewDevice ELSE t.devs[x]]], d)

SetHvdevs(t, listed) ==
    LET known == DOMAIN t.devs
        gone  == SelectSeq(Addresses, LAMBDA d : d \in known \ listed)
        new   == SelectSeq(Addresses, LAMBDA d : d \in listed \ known)
    IN Each(Discover, Each(RemoveGone, t, gone), new)

Listed == {d \in present : Assignable(whitelist, d)}

-----------------------------------------------------------------------------
(* The resource tracker.  A job holds the semaphore from its first step to *)
(* its last; its kind is claim, abort, remove or audit.                    *)

NoJob == [kind |-> "none", c |-> NoContainer, step |-> "none", todo |-> <<>>]

RemovalPending == \E d \in DOMAIN tracker.devs : tracker.devs[d].status = "removed"

(* A call that may fail succeeds or not; each failure is counted.          *)
Outcomes(call) ==
    IF call \in CanFail /\ used.fails < MaxFails /\ ~(SafeRemoval /\ RemovalPending)
    THEN BOOLEAN ELSE {TRUE}

Count(ok) == used' = [used EXCEPT !.fails = IF ok THEN @ ELSE @ + 1]

Settle(t) == [t EXCEPT !.got = <<>>, !.short = FALSE, !.raised = FALSE]

NoDevices == [step |-> "gone", reqs |-> <<>>, devices |-> <<>>]

Init ==
    /\ present = Devices
    /\ whitelist \in Whitelists
    /\ tracker = Empty /\ rows = <<>>
    /\ nodeRow = [usage |-> 0, pools |-> [k \in Keys |-> 0]]
    /\ node = nodeRow /\ old = {} /\ tracked = {} /\ hosted = {}
    /\ cont = [c \in Containers |-> [NoDevices EXCEPT !.step = "new"]]
    /\ job = NoJob /\ up = FALSE
    /\ used = [crashes |-> 0, fails |-> 0, changes |-> 0]

Step(c, s) == cont' = [cont EXCEPT ![c].step = s]

(* _update: nothing is written when the node equals the one of the last    *)
(* change; otherwise node, placement and devices, in this order.           *)
Update(kind, c, n) ==
    /\ node' = n
    /\ old' = {n}
    /\ job' = [kind |-> kind, c |-> c, todo |-> <<>>,
               step |-> IF old = {n} THEN "done" ELSE "node"]

(* The scheduler passes the host on the pools published in its node row.   *)
Schedule(c, ports) ==
    LET reqs == CreatePciRequests(ports) IN
    /\ cont[c].step = "new"
    /\ SupportRequests(nodeRow.pools, reqs)
    /\ cont' = [cont EXCEPT ![c] = [step |-> "asked", reqs |-> reqs, devices |-> <<>>]]
    /\ UNCHANGED <<present, whitelist, tracker, rows, node, nodeRow, old, tracked,
                   hosted, job, up, used>>

Ready(c, s) == up /\ job = NoJob /\ cont[c].step = s

(* ResourcesUnavailable: the container fails and its host is unset.        *)
ClaimRefused(c) ==
    /\ Ready(c, "asked")
    /\ ~SupportRequests(PoolCounts(tracker), cont[c].reqs)
    /\ Step(c, "stuck")
    /\ UNCHANGED <<present, whitelist, tracker, rows, node, nodeRow, old, tracked,
                   hosted, job, up, used>>

(* container_claim: the devices are claimed, the host is set, and the      *)
(* claimed devices become allocated.  An exception on the way leaves       *)
(* everything done before it; without devices the claim goes on.           *)
ContainerClaim(c) ==
    /\ Ready(c, "asked")
    /\ SupportRequests(PoolCounts(tracker), cont[c].reqs)
    /\ LET t == ClaimContainer(tracker, c, cont[c].reqs)
           a == AllocateContainer(t, c)
       IN \/ /\ t.raised
             /\ tracker' = Settle(t) /\ Step(c, "stuck")
             /\ UNCHANGED <<node, old, tracked, hosted, job, used>>
          \/ /\ ~t.raised
             /\ \E ok \in Outcomes("host") :
                  /\ Count(ok)
                  /\ IF ok
                     THEN /\ hosted' = hosted \cup {c} /\ tracked' = tracked \cup {c}
                          /\ cont' = [cont EXCEPT ![c].step = "claiming",
                                                  ![c].devices = a.allocations[c]]
                          /\ tracker' = Settle(a)
                          /\ Update("claim", c, [nodeRow EXCEPT !.usage = @ + 1])
                     ELSE /\ tracker' = Settle(t) /\ Step(c, "stuck")
                          /\ UNCHANGED <<node, old, tracked, hosted, job>>
    /\ UNCHANGED <<present, whitelist, rows, nodeRow, up>>

(* What an exception in the semaphore's section leaves of the container.   *)
Failed(j) ==
    IF j.kind \in {"claim", "abort", "remove"}
    THEN [cont EXCEPT ![j.c].step = "stuck"] ELSE cont

UpdateNode ==
    /\ job.step = "node"
    /\ \E ok \in Outcomes("node") :
         /\ Count(ok)
         /\ nodeRow' = IF ok THEN node ELSE nodeRow
         /\ job' = IF ok THEN [job EXCEPT !.step = "placement"] ELSE NoJob
         /\ cont' = IF ok THEN cont ELSE Failed(job)
    /\ UNCHANGED <<present, whitelist, tracker, rows, node, old, tracked, hosted, up>>

UpdatePlacement_Swallowed ==
    /\ job.step = "placement"
    /\ \E ok \in Outcomes("placement") :
         /\ Count(ok)
         /\ job' = [job EXCEPT !.step = IF ok THEN "save" ELSE "done",
                      !.todo = SelectSeq(Addresses, LAMBDA d : d \in DOMAIN tracker.devs)]
    /\ UNCHANGED <<present, whitelist, tracker, rows, node, nodeRow, old, tracked,
                   hosted, cont, up>>

(* The devices that save() goes through: the list as it is at its start.   *)
UpdatePlacement ==
    /\ job.step = "placement"
    /\ \E ok \in Outcomes("placement") :
         /\ Count(ok)
         /\ job' = IF ok THEN [job EXCEPT !.step = "save",
                                 !.todo = SelectSeq(Addresses, LAMBDA d : d \in DOMAIN tracker.devs)]
                   ELSE NoJob
         /\ cont' = IF ok THEN cont ELSE Failed(job)
    /\ UNCHANGED <<present, whitelist, tracker, rows, node, nodeRow, old, tracked,
                   hosted, up>>

Without(f, d) == [x \in DOMAIN f \ {d} |-> f[x]]

With(f, d, v) == [x \in DOMAIN f \cup {d} |-> IF x = d THEN v ELSE f[x]]

(* What the save of a device makes of the table.                           *)
SaveRow(d) ==
    LET dev == tracker.devs[d] IN
    IF dev.status = "removed" THEN Without(rows, d)
    ELSE IF dev.dirty THEN With(rows, d, [status |-> dev.status, owner |-> dev.owner])
    ELSE rows

(* One device of save().  A removed one leaves the table and the list that *)
(* is being walked, so that the walk misses the one behind it.             *)
SaveDevice ==
    /\ job.step = "save" /\ job.todo # <<>>
    /\ LET d    == Head(job.todo)
           gone == tracker.devs[d].status = "removed"
           rest == Tail(job.todo)
           next == IF gone /\ rest # <<>> THEN Tail(rest) ELSE rest
       IN \E ok \in IF tracker.devs[d].dirty THEN Outcomes("save") ELSE {TRUE} :
            /\ Count(ok)
            /\ rows' = IF ok THEN SaveRow(d) ELSE rows
            /\ tracker' = IF ok /\ gone THEN [tracker EXCEPT !.devs = Without(@, d)] ELSE tracker
            /\ job' = IF ok THEN [job EXCEPT !.todo = next] ELSE NoJob
            /\ cont' = IF ok THEN cont ELSE Failed(job)
    /\ UNCHANGED <<present, whitelist, node, nodeRow, old, tracked, hosted, up>>

(* The semaphore is released; what follows the call of the tracker.        *)
AfterJob(j) ==
    CASE j.kind = "claim"  -> "claimed"
      [] j.kind = "abort"  -> "stuck"
      [] j.kind = "remove" -> "gone"

EndJob ==
    /\ job.step = "done" \/ (job.step = "save" /\ job.todo = <<>>)
    /\ job' = NoJob
    /\ IF job.kind = "audit" THEN UNCHANGED <<cont, hosted>>
       ELSE /\ Step(job.c, AfterJob(job))
            /\ hosted' = IF job.kind = "remove" THEN hosted \ {job.c} ELSE hosted
    /\ UNCHANGED <<present, whitelist, tracker, rows, node, nodeRow, old, tracked,
                   up, used>>

Bindable_Unchecked(c) == Range(cont[c].devices) \subseteq Listed

(* The port of each request is bound to the container's device for it: a   *)
(* request without a device, and a device that no device spec matches (or  *)
(* that is not there), fail the creation, as anything else may.            *)
Bindable(c) ==
    /\ Len(cont[c].devices) = Len(cont[c].reqs)
    /\ Range(cont[c].devices) \subseteq Listed

Create(c) ==
    /\ up /\ cont[c].step = "claimed"
    /\ Bindable(c)
    /\ Step(c, "created")
    /\ UNCHANGED <<present, whitelist, tracker, rows, node, nodeRow, old, tracked,
                   hosted, job, up, used>>

CreateFails(c) ==
    /\ up /\ cont[c].step = "claimed"
    /\ \/ ~Bindable(c) /\ UNCHANGED used
       \/ FALSE \in Outcomes("create") /\ Count(FALSE)
    /\ hosted' = hosted \ {c}
    /\ Step(c, "abort")
    /\ UNCHANGED <<present, whitelist, tracker, rows, node, nodeRow, old, tracked,
                   job, up>>

(* update_pci_for_container(sign=-1) of a container that is tracked.       *)
RemoveUsage(kind, c, n) ==
    LET t == IF c \in tracked THEN FreeContainer(tracker, c) ELSE tracker IN
    /\ tracked' = tracked \ {c}
    /\ tracker' = Settle(t)
    /\ IF t.raised THEN Step(c, "stuck") /\ UNCHANGED <<node, old, job>>
       ELSE /\ UNCHANGED cont
            /\ Update(kind, c, IF c \in tracked THEN [n EXCEPT !.usage = @ - 1] ELSE n)
    /\ UNCHANGED <<present, whitelist, rows, nodeRow, hosted, up, used>>

(* The abort works on the node in memory, the removal on the row.          *)
AbortClaim(c) == Ready(c, "abort") /\ RemoveUsage("abort", c, node)

RemoveUsageFromContainer(c) ==
    Ready(c, "removing") /\ RemoveUsage("remove", c, nodeRow)

(* Docker has removed the container; or the container has no host and the  *)
(* API removes its row without asking anybody.                             *)
Delete(c) ==
    /\ cont[c].step \in {"created", "stuck"}
    /\ IF c \in hosted THEN up /\ Step(c, "removing")
       ELSE cont' = [cont EXCEPT ![c] = NoDevices]
    /\ UNCHANGED <<present, whitelist, tracker, rows, node, nodeRow, old, tracked,
                   hosted, job, up, used>>

(* The audit counts the containers of this host anew.  A container it had  *)
(* not tracked takes the devices it has claimed.                           *)
AuditOf(t) ==
    /\ tracked' = hosted
    /\ tracker' = Settle(Each(AllocateContainer, t, SetToSeq(hosted)))

Audit ==
    /\ up /\ job = NoJob
    /\ AuditOf(tracker)
    /\ Update("audit", NoContainer, [nodeRow EXCEPT !.usage = Cardinality(hosted)])
    /\ UNCHANGED <<present, whitelist, rows, nodeRow, hosted, cont, up, used>>

(* zun-compute starts: the tracker is built from the rows and what lspci   *)
(* lists, the pools are published with the first update of the node.  If   *)
(* lspci fails the tracker stays as the rows say, for the whole process.   *)
Start ==
    /\ ~up /\ up' = TRUE
    /\ \E ok \in Outcomes("lspci") :
         /\ Count(ok)
         /\ LET t == IF ok THEN SetHvdevs(Load, Listed) ELSE Load IN
            IF ok
            THEN /\ AuditOf(t)
                 /\ Update("audit", NoContainer,
                           [usage |-> Cardinality(hosted), pools |-> PoolCounts(t)])
            ELSE /\ tracker' = Settle(t)
                 /\ UNCHANGED <<tracked, node, old, job>>
    /\ UNCHANGED <<present, whitelist, rows, nodeRow, hosted, cont>>

(* zun-compute stops: what it kept in memory is gone; a container it was   *)
(* working on is left as it is, and can be deleted.                        *)
Crash ==
    /\ up /\ up' = FALSE
    /\ used.crashes < MaxCrashes /\ used' = [used EXCEPT !.crashes = @ + 1]
    /\ tracker' = Empty /\ tracked' = {} /\ old' = {} /\ job' = NoJob /\ node' = nodeRow
    /\ cont' = [c \in Containers |->
                  IF cont[c].step \in {"claiming", "claimed", "abort", "removing"}
                  THEN [cont[c] EXCEPT !.step = "stuck"] ELSE cont[c]]
    /\ UNCHANGED <<present, whitelist, rows, nodeRow, hosted>>

InUse(c) == IF cont[c].step = "created" THEN Range(cont[c].devices) ELSE {}

AllInUse == UNION {InUse(c) : c \in Containers}

(* Devices come and go, and the whitelist is edited, while the service is  *)
(* down; a device that a container uses stays.                             *)
Change ==
    /\ ~up /\ used.changes < MaxChanges /\ used' = [used EXCEPT !.changes = @ + 1]
    /\ present' \in SUBSET Devices /\ whitelist' \in Whitelists
    /\ <<present', whitelist'>> # <<present, whitelist>>
    /\ \A d \in AllInUse : d \in present' /\ Assignable(whitelist', d)
    /\ SafeRemoval => Cardinality(DOMAIN rows \ Listed') <= 1
    /\ UNCHANGED <<tracker, rows, node, nodeRow, old, tracked, hosted, cont, job, up>>

Next ==
    \/ \E c \in Containers : \/ \E ports \in Asks : Schedule(c, ports)
                             \/ ClaimRefused(c) \/ ContainerClaim(c)
                             \/ Create(c) \/ CreateFails(c)
                             \/ AbortClaim(c) \/ RemoveUsageFromContainer(c)
                             \/ Delete(c)
    \/ UpdateNode \/ UpdatePlacement \/ SaveDevice \/ EndJob
    \/ Audit \/ Start \/ Crash \/ Change

Spec == Init /\ [][Next]_vars

-----------------------------------------------------------------------------
(* The type invariant.  A pooled device is one the tracker has, and the    *)
(* table never holds a removed one (PciDevice.save destroys its row).      *)
DeviceRecord == [status : Status, owner : Containers \cup {NoContainer}]

Steps == {"new", "asked", "claiming", "claimed", "created", "abort", "stuck",
          "removing", "gone"}

TypeOK ==
    /\ present \subseteq Devices /\ whitelist \in Whitelists
    /\ DOMAIN tracker.devs \subseteq Devices
    /\ \A d \in DOMAIN tracker.devs :
         tracker.devs[d] \in [status : Status, owner : Containers \cup {NoContainer},
                              fresh : BOOLEAN, dirty : BOOLEAN]
    /\ DOMAIN tracker.pools = Keys /\ FreeDevs(tracker) \subseteq DOMAIN tracker.devs
    /\ DOMAIN rows \subseteq Devices
    /\ \A d \in DOMAIN rows : rows[d] \in DeviceRecord /\ rows[d].status # "removed"
    /\ nodeRow \in [usage : -1 .. Cardinality(Containers), pools : [Keys -> Nat]]
    /\ tracked \subseteq Containers /\ hosted \subseteq Containers
    /\ \A c \in Containers : cont[c].step \in Steps
    /\ job.kind \in {"none", "claim", "abort", "remove", "audit"}

(* No two containers run with the same device, nor one with a PF and       *)
(* another with one of its VFs: the checks of claim() and allocate() hold  *)
(* it up whatever the pools contain, also after a restart.                 *)
UsedExclusive ==
    \A c, o \in Containers : c # o =>
        \A d \in InUse(c), e \in InUse(o) :
            /\ d # e
            /\ d \in VFs => Parent[d] # e

(* A device that a container runs with is recorded as its own in the       *)
(* database, whatever failed or was interrupted in _update and save(): the *)
(* next process builds its tracker from these rows.                        *)
UsedIsRecorded ==
    \A c \in Containers : \A d \in InUse(c) :
        d \in DOMAIN rows /\ rows[d] = [status |-> "allocated", owner |-> c]

(* A container runs with one device of the right kind for each of its      *)
(* SR-IOV ports, although container_claim goes on when consume_requests    *)
(* found none: the binding of the port has to stop it.                     *)
UsedAsRequested ==
    \A c \in Containers : cont[c].step = "created" =>
        /\ Len(cont[c].devices) = Len(cont[c].reqs) /\ IsInjective(cont[c].devices)
        /\ \A i \in DOMAIN cont[c].reqs : Type(cont[c].devices[i]) = cont[c].reqs[i].type
=============================================================================
