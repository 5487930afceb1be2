------------------------------ MODULE Placement ------------------------------
(***************************************************************************)
(* The report of a compute node to the Placement service: the tracker's    *)
(* _update_to_placement, the report client (SchedulerReportClient) with    *)
(* its cache of providers (ProviderTree), and the other writers of the     *)
(* same providers.                                                         *)
(*                                                                         *)
(* Placement keeps for a provider a generation that every write increments *)
(* and every write of the client has to name.  The client reads inventory, *)
(* aggregates and traits of a provider with three requests and keeps one   *)
(* generation, that of the last answer.  One thread reports (the tracker   *)
(* holds COMPUTE_RESOURCE_SEMAPHORE); every request is a step.             *)
(*                                                                         *)
(* A provider is the node's (Root), one that the driver nests below it     *)
(* (Kids; the driver of the repository nests none) or a sharing provider   *)
(* of another tree (Sharers).  Of an inventory the model keeps the total   *)
(* and the allocation ratio.  A reshape is not modelled: no caller passes  *)
(* allocations to update_from_provider_tree.                               *)
(***************************************************************************)
EXTENDS Integers, FiniteSets

CONSTANTS
    Root, Kids, Sharers,
    Shared,       \* the aggregate through which the sharers share
    Custom,       \* traits set externally, that no driver owns
    Totals,       \* what the host may have
    Ratios,       \* allocation ratios an administrator may set
    ConfRatio,    \* [compute] allocation_ratio, 0 when it is not set
    Faults,       \* requests that may fail: "get", "put", "lost"
    MaxTries,     \* attempts of _update_to_placement, 4 in the code
    MaxWrites,    \* bound on the writes of others
    MaxFaults     \* bound on the failures

Providers == {Root} \cup Kids \cup Sharers

ASSUME PlacementAssumption ==
    /\ Root \notin Kids \cup Sharers /\ Kids \cap Sharers = {}
    /\ Totals \subseteq Nat \ {0} /\ Totals # {} /\ Ratios \subseteq Nat \ {0}
    /\ ConfRatio \in Nat /\ MaxTries \in Nat \ {0}
    /\ MaxWrites \in Nat /\ MaxFaults \in Nat
    /\ Custom \cap {"disabled", "sharing"} = {}

VARIABLES
    rp,       \* Placement: the providers, None or a record
    cache,    \* the client's ProviderTree, None or a record
    fresh,    \* the providers of the node's tree that are not stale
    node,     \* the host, the service's row and what the driver nests
    changed,  \* the compute node differs from old_resources
    th,       \* the thread of the tracker
    agg,      \* a caller of aggregate_add_host or aggregate_remove_host
    used      \* what is used of the bounds

vars == <<rp, cache, fresh, node, changed, th, agg, used>>

None == [gen |-> -1]

NoInventory == [total |-> 0, ratio |-> 0]

InitialRatio == 1

\* "disabled" is CUSTOM_ZUN_COMPUTE_STATUS_DISABLED.
Traits == Custom \cup {"disabled", "sharing"}

Inventories == [total : {0} \cup Totals, ratio : {0, InitialRatio, ConfRatio} \cup Ratios]

Tree == {Root} \cup Kids

\* get_provider_uuids_in_tree: a provider with all of its tree.
TreeOf(p) == IF p \in Tree THEN Tree ELSE {p}

\* get_provider_uuids: a provider and what is below it.
Below(p) == IF p = Root THEN Tree ELSE {p}

Known(t) == {p \in Providers : t[p] # None}

\* remove: a provider leaves the tree with all that is below it.
Remove(t, ps) == [p \in Providers |-> IF p \in ps THEN None ELSE t[p]]

\* _Provider.from_dict: associations are not part of a provider's record.
Bare(g) == [gen |-> g, inv |-> NoInventory, aggs |-> {}, traits |-> {}]

\* populate_from_iterable: each provider replaces the one in the tree, and
\* takes what was below that one with it.
Populate(t, ps) ==
    [p \in Providers |->
        CASE p \in ps -> Bare(rp[p].gen)
          [] p \notin ps /\ \E q \in ps : p \in Below(q) -> None
          [] OTHER -> t[p]]

\* A provider with one field replaced, and the generation that goes with it.
With(r, field, value, g) ==
    CASE field = "inv" -> [r EXCEPT !.inv = value, !.gen = g]
      [] field = "aggs" -> [r EXCEPT !.aggs = value, !.gen = g]
      [] field = "traits" -> [r EXCEPT !.traits = value, !.gen = g]
      [] field = "used" -> [r EXCEPT !.used = value, !.gen = g]

\* update_inventory, update_aggregates, update_traits: the value and, whatever
\* it belongs to, the generation of the answer it came with.
Update(t, p, field, value, g) == [t EXCEPT ![p] = With(t[p], field, value, g)]

\* has_inventory_changed, have_aggregates_changed, have_traits_changed.
Changed(p, field, value) == cache[p][field] # value

Idle == [pc |-> "idle", try |-> 1, back |-> "driver", p |-> Root, at |-> Root, cur |-> Root,
         todo |-> {}, share |-> {}, new |-> [p \in Providers |-> None],
         add |-> {}, del |-> {}]

Init ==
    /\ rp = [p \in Providers |->
                IF p \in Sharers
                THEN [gen |-> 0, inv |-> NoInventory, aggs |-> {Shared},
                      traits |-> {"sharing"}, used |-> FALSE]
                ELSE None]
    /\ cache = [p \in Providers |-> None]
    /\ fresh = {}
    /\ node = [total |-> CHOOSE t \in Totals : TRUE, disabled |-> FALSE, kids |-> Kids]
    /\ changed = TRUE
    /\ th = Idle
    /\ agg = [pc |-> "idle", add |-> TRUE, aggs |-> {}, gen |-> 0, try |-> 1]
    /\ used = [writes |-> 0, faults |-> 0]

-----------------------------------------------------------------------------
(* Requests                                                                 *)

MayFail(kind) == kind \in Faults /\ used.faults < MaxFaults

Fails(kind) == MayFail(kind) /\ used' = [used EXCEPT !.faults = @ + 1]

\* The exception leaves _update_to_placement: the report is given up.
Escape == th' = Idle /\ UNCHANGED <<cache, fresh>>

Clear_Generation(p) ==
    /\ cache' = IF cache[p] = None \/ rp[p] = None THEN cache
                ELSE [cache EXCEPT ![p].gen = rp[p].gen]
    /\ UNCHANGED fresh

\* _clear_provider_cache_for_tree: the tree's providers and their times.
Clear(p) ==
    IF cache[p] = None THEN UNCHANGED <<cache, fresh>>
    ELSE cache' = Remove(cache, TreeOf(p)) /\ fresh' = fresh \ TreeOf(p)

\* An exception of a helper inside catch_all: ResourceProviderSyncFailed.
SyncFailed(p) == Clear(p) /\ th' = Idle

\* ResourceProviderUpdateConflict: the whole of _update_to_placement again.
Redrive ==
    th' = IF th.try < MaxTries
          THEN [Idle EXCEPT !.pc = "ensure", !.try = th.try + 1] ELSE Idle

Conflict(p) == Clear(p) /\ Redrive

\* A failed retrieval: catch_all is only around update_from_provider_tree.
Unread == IF th.back = "driver" THEN Escape ELSE SyncFailed(th.p)

\* Placement answers with an error: nothing is written.
PutFails(p) == Fails("put") /\ SyncFailed(p) /\ UNCHANGED rp

-----------------------------------------------------------------------------
(* get_provider_tree_and_ensure_root and _ensure_resource_provider          *)

\* _update: the node is compared with what was reported last, and taken as
\* reported before it is.
Audit ==
    /\ th.pc = "idle" /\ changed
    /\ changed' = FALSE
    /\ th' = [Idle EXCEPT !.pc = "ensure"]
    /\ UNCHANGED <<rp, cache, fresh, node, agg, used>>

Stale_Never(p) == FALSE

\* _associations_stale, for an interval that is not zero.
Stale(p) == p \notin fresh

\* A provider in the cache that is not stale: only what is stale below it is
\* refreshed.
EnsureCached ==
    /\ th.pc = "ensure" /\ cache[th.p] # None /\ ~Stale(th.p)
    /\ th' = [th EXCEPT !.todo = {q \in Known(cache) \cap Below(th.p) : Stale(q)},
                        !.pc = "refresh"]
    /\ UNCHANGED <<rp, cache, fresh, node, changed, agg, used>>

\* GET in_tree: the providers of the tree replace those of the cache.
EnsureRead ==
    /\ th.pc = "ensure" /\ (cache[th.p] = None \/ Stale(th.p))
    /\ \/ /\ rp[th.p] # None
          /\ LET found == Known(rp) \cap TreeOf(th.p)
             IN /\ cache' = Populate(cache, found)
                /\ th' = [th EXCEPT !.todo = found, !.pc = "refresh"]
          /\ UNCHANGED <<fresh, used>>
       \/ /\ rp[th.p] = None
          /\ th' = [th EXCEPT !.pc = "create"]
          /\ UNCHANGED <<cache, fresh, used>>
       \/ Fails("get") /\ Unread
    /\ UNCHANGED <<rp, node, changed, agg>>

\* POST of a provider; a kid needs its parent.  ResourceProviderCreationFailed
\* is none of the exceptions catch_all knows.  (The answer for a nested
\* provider is not lost: see the README on what the next report would do.)
CreateResourceProvider ==
    LET parent == th.p \notin Kids \/ rp[Root] # None
        created == [rp EXCEPT ![th.p] =
                      [gen |-> 0, inv |-> NoInventory, aggs |-> {}, traits |-> {},
                       used |-> FALSE]]
    IN /\ th.pc = "create"
       /\ \/ /\ parent
             /\ rp' = created
             /\ fresh' = fresh \cup {th.p}
             /\ cache' = [q \in Providers |->
                            CASE q = th.p -> Bare(0)
                              [] q # th.p /\ q \in Below(th.p) -> None
                              [] OTHER -> cache[q]]
             /\ th' = [th EXCEPT !.todo = {}, !.pc = "refresh"]
             /\ UNCHANGED used
          \/ ~parent /\ Escape /\ UNCHANGED <<rp, used>>
          \/ Fails("put") /\ Escape /\ UNCHANGED rp
          \/ th.p = Root /\ Fails("lost") /\ Escape /\ rp' = created
       /\ UNCHANGED <<node, changed, agg>>

-----------------------------------------------------------------------------
(* _refresh_associations of th.at, and of the sharing providers it finds;   *)
(* th.cur is the one whose associations are read                            *)

\* The next provider to refresh, or the end of _ensure_resource_provider.
RefreshNext ==
    /\ th.pc = "refresh"
    /\ \/ \E p \in th.todo :
            th' = [th EXCEPT !.todo = @ \ {p}, !.at = p, !.cur = p,
                             !.pc = "inventories"]
       \/ th.todo = {} /\ th' = [th EXCEPT !.pc = th.back]
    /\ UNCHANGED <<rp, cache, fresh, node, changed, agg, used>>

\* A failed answer is not an error: the cached inventory stays as it is.
GetInventory ==
    /\ th.pc = "inventories"
    /\ th' = [th EXCEPT !.pc = "aggregates"]
    /\ \/ /\ rp[th.cur] # None
          /\ cache' = Update(cache, th.cur, "inv", rp[th.cur].inv, rp[th.cur].gen)
          /\ UNCHANGED used
       \/ rp[th.cur] = None /\ UNCHANGED <<cache, used>>
       \/ Fails("get") /\ UNCHANGED cache
    /\ UNCHANGED <<rp, fresh, node, changed, agg>>

GetProviderAggregates ==
    /\ th.pc = "aggregates"
    /\ \/ /\ rp[th.cur] # None
          /\ cache' = Update(cache, th.cur, "aggs", rp[th.cur].aggs, rp[th.cur].gen)
          /\ th' = [th EXCEPT !.pc = "traits"]
          /\ UNCHANGED <<fresh, used>>
       \/ rp[th.cur] = None /\ Unread /\ UNCHANGED used
       \/ Fails("get") /\ Unread
    /\ UNCHANGED <<rp, node, changed, agg>>

\* After the traits the sharing providers, unless this is one of them.
GetProviderTraits ==
    /\ th.pc = "traits"
    /\ \/ /\ rp[th.cur] # None
          /\ cache' = Update(cache, th.cur, "traits", rp[th.cur].traits, rp[th.cur].gen)
          /\ th' = [th EXCEPT !.pc = IF th.cur = th.at THEN "sharing" ELSE "share"]
          /\ UNCHANGED <<fresh, used>>
       \/ rp[th.cur] = None /\ Unread /\ UNCHANGED used
       \/ Fails("get") /\ Unread
    /\ UNCHANGED <<rp, node, changed, agg>>

\* _get_sharing_providers, asked for the aggregates just read.
GetSharingProviders ==
    /\ th.pc = "sharing"
    /\ \/ /\ th' = [th EXCEPT !.pc = "share",
                      !.share = {<<s, rp[s].gen>> : s \in
                                    {s \in Sharers \cap Known(rp) :
                                        rp[s].aggs \cap cache[th.at].aggs # {}}}]
          /\ UNCHANGED <<cache, fresh, used>>
       \/ cache[th.at].aggs # {} /\ Fails("get") /\ Unread
    /\ UNCHANGED <<rp, node, changed, agg>>

\* Each of them becomes a root of the cache and is refreshed; then the time of
\* the refresh is noted.
RefreshSharing ==
    /\ th.pc = "share"
    /\ \/ \E s \in th.share :
            /\ cache' = IF cache[s[1]] = None
                        THEN [cache EXCEPT ![s[1]] = Bare(s[2])] ELSE cache
            /\ th' = [th EXCEPT !.share = @ \ {s}, !.cur = s[1],
                                !.pc = "inventories"]
            /\ UNCHANGED fresh
       \/ /\ th.share = {}
          /\ fresh' = fresh \cup {th.at}
          /\ th' = [th EXCEPT !.pc = "refresh"]
          /\ UNCHANGED cache
    /\ UNCHANGED <<rp, node, changed, agg, used>>

-----------------------------------------------------------------------------
(* The driver's changes and update_from_provider_tree                       *)

\* _get_allocation_ratios: the configured ratio, else the inventory's own.
AllocationRatio(inv) ==
    CASE ConfRatio # 0 -> ConfRatio
      [] ConfRatio = 0 /\ inv = NoInventory -> InitialRatio
      [] OTHER -> inv.ratio

\* update_provider_tree of the driver, on a copy of the cache: the inventory of
\* the node, and the providers it nests.
DriverTree(t) ==
    [p \in Providers |->
        CASE p = Root -> [t[p] EXCEPT !.inv = [total |-> node.total,
                                               ratio |-> AllocationRatio(@)]]
          [] p \in node.kids ->
                [(IF t[p] = None THEN Bare(0) ELSE t[p]) EXCEPT
                    !.inv = [total |-> node.total, ratio |-> InitialRatio]]
          [] p \in Kids \ node.kids -> None
          [] OTHER -> t[p]]

\* _get_traits: those of the tree (CAPABILITY_TRAITS_MAP is empty), with or
\* without the trait that says that the service is disabled.
GetTraits(ts) ==
    IF node.disabled THEN ts \cup {"disabled"} ELSE ts \ {"disabled"}

DriverUpdate ==
    LET copy == DriverTree(cache)
        new == [copy EXCEPT ![Root].traits = GetTraits(@)]
    IN /\ th.pc = "driver"
       /\ th' = [th EXCEPT !.new = new, !.pc = "add", !.back = "add",
                           !.add = Known(new) \ Known(cache),
                           !.del = Known(cache) \ Known(new)]
       /\ UNCHANGED <<rp, cache, fresh, node, changed, agg, used>>

\* The providers the driver added are created, parents first.
AddProviders ==
    /\ th.pc = "add"
    /\ \/ \E p \in th.add :
            th' = [th EXCEPT !.add = @ \ {p}, !.p = p, !.pc = "ensure"]
       \/ th.add = {} /\ th' = [th EXCEPT !.pc = "remove", !.todo = Known(th.new)]
    /\ UNCHANGED <<rp, cache, fresh, node, changed, agg, used>>

\* _delete_provider of those the driver dropped: 404 is as good as a deletion,
\* 409 is ResourceProviderInUse.
DeleteProvider ==
    /\ th.pc = "remove"
    /\ \/ /\ th.del = {}
          /\ th' = [th EXCEPT !.pc = "write"]
          /\ UNCHANGED <<rp, cache, fresh, used>>
       \/ \E p \in th.del :
            \/ /\ rp[p] = None \/ ~rp[p].used
               /\ rp' = Remove(rp, {p})
               /\ cache' = Remove(cache, Below(p)) /\ fresh' = fresh \ {p}
               /\ th' = [th EXCEPT !.del = @ \ {p}]
               /\ UNCHANGED used
            \/ rp[p] # None /\ rp[p].used /\ SyncFailed(p) /\ UNCHANGED <<rp, used>>
            \/ PutFails(p)
    /\ UNCHANGED <<node, changed, agg>>

\* The providers are written bottom-up.
WriteNext ==
    /\ th.pc = "write"
    /\ \/ \E p \in th.todo :
            /\ th.todo \cap Below(p) = {p}
            /\ th' = [th EXCEPT !.todo = @ \ {p}, !.p = p, !.pc = "set_inventory"]
       \/ th.todo = {} /\ th' = Idle
    /\ UNCHANGED <<rp, cache, fresh, node, changed, agg, used>>

\* A PUT names the generation of the cache; on success the cache takes over
\* what was written and the generation of the answer.
Put(field, value, Refused, next) ==
    LET p == th.p
        written == Update(rp, p, field, value, rp[p].gen + 1)
    IN \/ /\ rp[p] # None /\ rp[p].gen = cache[p].gen
          /\ rp' = written
          /\ cache' = Update(cache, p, field, value, cache[p].gen + 1)
          /\ th' = [th EXCEPT !.pc = next]
          /\ UNCHANGED <<fresh, used>>
       \/ /\ rp[p] # None /\ rp[p].gen # cache[p].gen
          /\ Refused /\ UNCHANGED <<rp, used>>
       \/ rp[p] = None /\ SyncFailed(p) /\ UNCHANGED <<rp, used>>
       \/ PutFails(p)
       \/ /\ rp[p] # None /\ rp[p].gen = cache[p].gen
          /\ Fails("lost") /\ Escape /\ rp' = written

\* Nothing is sent for what the cache says is there already.
Skip(next) ==
    th' = [th EXCEPT !.pc = next] /\ UNCHANGED <<rp, cache, fresh, used>>

SetInventoryForProvider ==
    /\ th.pc = "set_inventory"
    /\ IF ~Changed(th.p, "inv", th.new[th.p].inv) THEN Skip("set_aggregates")
       ELSE Put("inv", th.new[th.p].inv, Conflict(th.p), "set_aggregates")
    /\ UNCHANGED <<node, changed, agg>>

\* The aggregates of the copy: no driver changes them.  A conflict takes the
\* provider out of the cache before catch_all looks for its tree there.
SetAggregatesForProvider ==
    /\ th.pc = "set_aggregates"
    /\ IF ~Changed(th.p, "aggs", th.new[th.p].aggs) THEN Skip("set_traits")
       ELSE Put("aggs", th.new[th.p].aggs,
                /\ cache' = Remove(cache, Below(th.p)) /\ fresh' = fresh \ {th.p}
                /\ Redrive,
                "set_traits")
    /\ UNCHANGED <<node, changed, agg>>

SetTraitsForProvider ==
    /\ th.pc = "set_traits"
    /\ IF ~Changed(th.p, "traits", th.new[th.p].traits) THEN Skip("write")
       ELSE Put("traits", th.new[th.p].traits, Conflict(th.p), "write")
    /\ UNCHANGED <<node, changed, agg>>

-----------------------------------------------------------------------------
(* The other writers, the host and the process                              *)

Writes == used.writes < MaxWrites /\ used' = [used EXCEPT !.writes = @ + 1]

\* A write of another client, which retries until its generation is the right
\* one.
Write(p, field, value) ==
    /\ rp[p] # None /\ rp[p][field] # value
    /\ rp' = Update(rp, p, field, value, rp[p].gen + 1)

AdminSetsRatio ==
    /\ Writes
    /\ rp[Root] # None /\ rp[Root].inv # NoInventory
    /\ \E r \in Ratios : Write(Root, "inv", [rp[Root].inv EXCEPT !.ratio = r])
    /\ UNCHANGED <<cache, fresh, node, changed, th, agg>>

\* Custom traits come and go; nobody is kept from touching the service's.
AdminSetsTraits ==
    /\ Writes
    /\ rp[Root] # None
    /\ \E t \in Custom \cup {"disabled"} :
          \/ Write(Root, "traits", rp[Root].traits \cup {t})
          \/ Write(Root, "traits", rp[Root].traits \ {t})
    /\ UNCHANGED <<cache, fresh, node, changed, th, agg>>

\* Allocations of a consumer are written or removed.
Allocate ==
    /\ Writes
    /\ \E p \in Tree, b \in BOOLEAN : Write(p, "used", b)
    /\ UNCHANGED <<cache, fresh, node, changed, th, agg>>

\* delete_resource_provider, of a provider with nothing below it.
DeleteResourceProvider ==
    /\ Writes
    /\ Known(rp) \cap Tree = {Root} /\ ~rp[Root].used
    /\ rp' = Remove(rp, {Root})
    /\ UNCHANGED <<cache, fresh, node, changed, th, agg>>

\* aggregate_add_host and aggregate_remove_host, by a process of its own: the
\* aggregates are read, then written with the generation that was read.
AggregateHost ==
    /\ agg.pc = "idle" /\ Writes
    /\ \E b \in BOOLEAN : agg' = [agg EXCEPT !.pc = "read", !.add = b, !.try = 1]
    /\ UNCHANGED <<rp, cache, fresh, node, changed, th>>

AggregateRead ==
    /\ agg.pc = "read"
    /\ agg' = IF rp[Root] = None \/ agg.add = (Shared \in rp[Root].aggs)
              THEN [agg EXCEPT !.pc = "idle"]
              ELSE [agg EXCEPT !.pc = "write", !.aggs = rp[Root].aggs,
                               !.gen = rp[Root].gen]
    /\ UNCHANGED <<rp, cache, fresh, node, changed, th, used>>

AggregateWrite ==
    LET new == IF agg.add THEN agg.aggs \cup {Shared} ELSE agg.aggs \ {Shared}
    IN /\ agg.pc = "write"
       /\ \/ /\ rp[Root] # None /\ rp[Root].gen = agg.gen
             /\ Write(Root, "aggs", new)
             /\ agg' = [agg EXCEPT !.pc = "idle"]
          \/ /\ rp[Root] # None /\ rp[Root].gen # agg.gen
             /\ agg' = IF agg.try < MaxTries
                       THEN [agg EXCEPT !.pc = "read", !.try = @ + 1]
                       ELSE [agg EXCEPT !.pc = "idle"]
             /\ UNCHANGED rp
          \/ rp[Root] = None /\ agg' = [agg EXCEPT !.pc = "idle"] /\ UNCHANGED rp
       /\ UNCHANGED <<cache, fresh, node, changed, th, used>>

\* The host gets or loses what it has.
HostChange ==
    /\ Writes
    /\ \E t \in Totals \ {node.total} : node' = [node EXCEPT !.total = t]
    /\ changed' = TRUE
    /\ UNCHANGED <<rp, cache, fresh, th, agg>>

\* Another field of the compute node changes, such as the memory in use, which
\* the next audit will see.
NodeChange ==
    /\ th.pc = "idle" /\ ~changed /\ changed' = TRUE
    /\ UNCHANGED <<rp, cache, fresh, node, th, agg, used>>

\* The service is disabled or enabled, or the driver nests other providers: no
\* field of the compute node changes.
ServiceChange ==
    /\ Writes
    /\ \/ node' = [node EXCEPT !.disabled = ~@]
       \/ \E ks \in SUBSET Kids \ {node.kids} : node' = [node EXCEPT !.kids = ks]
    /\ UNCHANGED <<rp, cache, fresh, changed, th, agg>>

\* resource_provider_association_refresh has passed; the times are looked at
\* by _ensure_resource_provider alone.
Expire(p) ==
    /\ th.pc \in {"idle", "ensure"} /\ p \in fresh
    /\ fresh' = fresh \ {p}
    /\ UNCHANGED <<rp, cache, node, changed, th, agg, used>>

\* The process is lost and started again: the cache and old_resources are empty.
Restart ==
    /\ Writes
    /\ cache' = [p \in Providers |-> None] /\ fresh' = {} /\ changed' = TRUE
    /\ th' = Idle
    /\ UNCHANGED <<rp, node, agg>>

-----------------------------------------------------------------------------
Report ==
    \/ Audit \/ EnsureCached \/ EnsureRead \/ CreateResourceProvider
    \/ RefreshNext \/ GetInventory \/ GetProviderAggregates \/ GetProviderTraits
    \/ GetSharingProviders \/ RefreshSharing \/ DriverUpdate \/ AddProviders
    \/ DeleteProvider \/ WriteNext \/ SetInventoryForProvider
    \/ SetAggregatesForProvider \/ SetTraitsForProvider

Others ==
    \/ AdminSetsRatio \/ AdminSetsTraits \/ Allocate \/ DeleteResourceProvider
    \/ AggregateHost \/ AggregateRead \/ AggregateWrite
    \/ HostChange \/ NodeChange \/ ServiceChange \/ Restart
    \/ \E p \in Tree : Expire(p)

Next == Report \/ Others

Spec == Init /\ [][Next]_vars

\* The periodic task comes round and ends, the readings of the host (its memory
\* in use, above all) keep changing, and an interval passes however often it is
\* not looked at.
Fairness ==
    /\ WF_vars(Report)
    /\ WF_vars(NodeChange)
    /\ \A p \in Tree : SF_vars(Expire(p))

FairSpec == Spec /\ Fairness

-----------------------------------------------------------------------------
(* Properties                                                               *)

Entry == [gen : Nat, inv : Inventories, aggs : SUBSET {Shared}, traits : SUBSET Traits]

Provider == [gen : Nat, inv : Inventories, aggs : SUBSET {Shared}, traits : SUBSET Traits,
             used : BOOLEAN]

Reading == {"inventories", "aggregates", "traits"}

Writing == {"set_inventory", "set_aggregates", "set_traits"}

Thread == [pc : {"idle", "ensure", "create", "refresh", "sharing", "share", "driver",
                 "add", "remove", "write"} \cup Reading \cup Writing,
           try : 1..MaxTries, back : {"driver", "add"},
           p : Providers, at : Tree, cur : Providers,
           todo : SUBSET Providers, share : SUBSET (Sharers \X Nat),
           new : [Providers -> {None} \cup Entry],
           add : SUBSET Providers, del : SUBSET Providers]

Caller == [pc : {"idle", "read", "write"}, add : BOOLEAN, aggs : SUBSET {Shared},
           gen : Nat, try : 1..MaxTries]

\* The type invariant.
TypeOK ==
    /\ rp \in [Providers -> {None} \cup Provider]
    /\ cache \in [Providers -> {None} \cup Entry]
    /\ fresh \subseteq Tree
    /\ node \in [total : Totals, disabled : BOOLEAN, kids : SUBSET Kids]
    /\ changed \in BOOLEAN
    /\ th \in Thread
    /\ agg \in Caller
    /\ used \in [writes : Nat, faults : Nat]

\* "But at both t1 and t2 there is a CUSTOM_VENDOR_TRAIT_X which we can't touch
\* because it was set externally on the provider": no report adds or removes a
\* custom trait, however stale what it was computed from.
CustomTraitsKept ==
    [][\A p \in Tree : rp[p] # None /\ rp'[p] # None =>
          rp[p].traits \cap Custom = rp'[p].traits \cap Custom \/ AdminSetsTraits]_vars

\* Once others are done, Placement has what the host has and says whether the
\* service is disabled: a conflict, a failure or a change behind the cache's
\* back is redriven.  Only a provider the driver dropped and a container still
\* uses holds the report up, for as long as it is used.
Reported ==
    <>[](\/ \E p \in Kids \ node.kids : rp[p] # None /\ rp[p].used
         \/ /\ rp[Root] # None
            /\ rp[Root].inv.total = node.total
            /\ ("disabled" \in rp[Root].traits) <=> node.disabled)

=============================================================================
