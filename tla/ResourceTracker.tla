--------------------------- MODULE ResourceTracker ---------------------------
(***************************************************************************)
(* The resource tracker of one zun-compute: claims of containers being     *)
(* created, claims of updates, their aborts, the usage given back by a     *)
(* delete, and the periodic audit that replaces the tracker's ComputeNode  *)
(* object outside the compute_resources lock and recounts under it.        *)
(*                                                                         *)
(* One resource stands for cpu, memory and disk, which the code treats     *)
(* alike.  A step is what a green thread does between two waits for the    *)
(* database, Docker or a lock.                                             *)
(***************************************************************************)
EXTENDS Integers, FiniteSets, FiniteSetsExt

CONSTANTS
    Containers,   \* the containers cast to this host
    Demand,       \* what each asks for; 0 for no resource
    Dedicated,    \* those that may be asked for with cpu_policy dedicated
    Sizes,        \* what updates ask for
    Limit,        \* limits[resource] of the claims
    Faults,       \* the external calls that may fail
    MaxEvents     \* bound on deletes, updates and losses of zun-compute

\* "pull": the image; "create": Docker create; "docker": Docker delete and
\* update; "placement": what _update tells placement, and its allocations.
AllFaults == {"pull", "create", "docker", "placement"}

ASSUME DemandAssumption ==
    /\ IsFiniteSet(Containers)
    /\ Demand \in [Containers -> Nat]
    /\ Dedicated \subseteq Containers
    /\ Sizes \subseteq Nat
    /\ Limit \in Nat
ASSUME FaultsAssumption == Faults \subseteq AllFaults
ASSUME BoundsAssumption == MaxEvents \in Nat

VARIABLES
    rows,     \* the containers' rows
    db,       \* the usage column of the compute node's row
    node,     \* self.compute_node
    sent,     \* self.old_resources
    tracked,  \* self.tracked_containers
    th,       \* the threads of container_create, by container
    ops,      \* deletes and updates in progress
    audit,    \* update_available_resources
    count     \* how much of each bound is spent, and what happened so far

vars == <<rows, db, node, sent, tracked, th, ops, audit, count>>

-----------------------------------------------------------------------------
(* The tracker's state                                                      *)

Rows == [exists : BOOLEAN, host : BOOLEAN,
         status : {"creating", "created", "deleting", "error"}, cpu : Nat]

\* A ComputeNode object; dirty: the usage is among its changed fields.
Nodes == [known : BOOLEAN, used : Int, dirty : BOOLEAN]

NoNode == [known |-> FALSE, used |-> 0, dirty |-> FALSE]

\* _get_compute_node.
Fresh == [known |-> TRUE, used |-> db, dirty |-> FALSE]

\* _update_usage, with its sign.
UpdateUsage(n, d) == [n EXCEPT !.used = @ + d, !.dirty = TRUE]

\* _update: nothing when _resource_change sees no change (moved: a figure of the
\* host other than the usage changed), else the changed fields are written.
Update(n, moved) ==
    IF moved \/ ~sent.known \/ sent.used # n.used
    THEN /\ sent' = [n EXCEPT !.dirty = FALSE]
         /\ db' = IF n.dirty THEN n.used ELSE db
         /\ node' = [n EXCEPT !.dirty = FALSE]
    ELSE /\ node' = n
         /\ UNCHANGED <<sent, db>>

\* _update_usage_from_container with is_removed: a container that is not
\* tracked counts as new, and is added.
RemoveUsage(n, c, cpu) ==
    /\ tracked' = IF c \in tracked THEN tracked \ {c} ELSE tracked \cup {c}
    /\ \E moved \in BOOLEAN :
          Update(UpdateUsage(n, IF c \in tracked THEN -cpu ELSE cpu), moved)

\* The compute_resources lock: only container_claim waits while it holds it.
LockFree == \A c \in Containers : th[c] # "use"

Goto(c, pc) == th' = [th EXCEPT ![c] = pc]

\* save() of a copy; a row that is gone makes it raise.
SaveRow(c, host, status) ==
    rows' = IF rows[c].exists
            THEN [rows EXCEPT ![c].host = host, ![c].status = status]
            ELSE rows

-----------------------------------------------------------------------------
(* container_create: the claim and what it is held for                      *)

Threads == {"claim", "use", "body", "abort", "done"}

\* No memory, cpu or disk: a NopClaim, without host and usage.
NopClaim(c) ==
    /\ th[c] = "claim" /\ LockFree
    /\ Demand[c] = 0
    /\ Goto(c, "body")
    /\ UNCHANGED <<rows, db, node, sent, tracked, ops, audit, count>>

\* _claim_test refuses: ResourcesUnavailable.
ClaimRefused(c) ==
    /\ th[c] = "claim" /\ LockFree
    /\ Demand[c] # 0 /\ Demand[c] > Limit - db
    /\ node' = Fresh
    /\ SaveRow(c, FALSE, "error")
    /\ Goto(c, "done")
    /\ UNCHANGED <<db, sent, tracked, ops, audit, count>>

\* claim_cpuset_mem_for_container: set() of the number of a NUMA node is a
\* TypeError, which no handler in _do_container_create expects.
ClaimDedicated(c) ==
    /\ th[c] = "claim" /\ LockFree
    /\ Demand[c] # 0 /\ Demand[c] <= Limit - db
    /\ c \in Dedicated
    /\ node' = Fresh
    /\ Goto(c, "done")
    /\ UNCHANGED <<rows, db, sent, tracked, ops, audit, count>>

\* Mutant: the container is not tagged as belonging to this host.
ClaimTest_NoHost(c) ==
    /\ th[c] = "claim" /\ LockFree
    /\ Demand[c] # 0 /\ Demand[c] <= Limit - db
    /\ node' = Fresh
    /\ Goto(c, IF rows[c].exists THEN "use" ELSE "done")
    /\ UNCHANGED <<rows, db, sent, tracked, ops, audit, count>>

\* The claim fits; _set_container_host saves the host, and the thread waits for
\* that with the lock held.
ClaimTest(c) ==
    /\ th[c] = "claim" /\ LockFree
    /\ Demand[c] # 0 /\ Demand[c] <= Limit - db
    /\ node' = Fresh
    /\ SaveRow(c, TRUE, rows[c].status)
    /\ Goto(c, IF rows[c].exists THEN "use" ELSE "done")
    /\ UNCHANGED <<db, sent, tracked, ops, audit, count>>

\* Mutant: the changes to the compute node are not persisted.
ClaimUse_NotSaved(c) ==
    /\ th[c] = "use"
    /\ tracked' = tracked \cup {c}
    /\ node' = UpdateUsage(node, Demand[c])
    /\ Goto(c, "body")
    /\ UNCHANGED <<rows, db, sent, ops, audit, count>>

\* The usage goes to the object self.compute_node names by now.  An error of
\* placement leaves the claim without an abort.
ClaimUse(c) ==
    /\ th[c] = "use"
    /\ tracked' = tracked \cup {c}
    /\ \E moved \in BOOLEAN :
          Update(IF c \in tracked THEN node ELSE UpdateUsage(node, Demand[c]),
                 moved)
    /\ \/ Goto(c, "body")
       \/ "placement" \in Faults /\ Goto(c, "done")
    /\ UNCHANGED <<rows, ops, audit, count>>

AfterBody(c) == IF Demand[c] = 0 THEN "done" ELSE "abort"

\* _do_container_create_base, under the claim.
Body(c) ==
    /\ th[c] = "body"
    /\ SaveRow(c, rows[c].host, "created")
    /\ Goto(c, IF rows[c].exists THEN "done" ELSE AfterBody(c))
    /\ UNCHANGED <<db, node, sent, tracked, ops, audit, count>>

\* A failed create takes the host away, a failed pull does not.
BodyFails(c, fault) ==
    /\ th[c] = "body" /\ fault \in Faults
    /\ SaveRow(c, rows[c].host /\ fault = "pull", "error")
    /\ Goto(c, AfterBody(c))
    /\ UNCHANGED <<db, node, sent, tracked, ops, audit, count>>

\* abort_container_claim.
AbortClaim(c) ==
    /\ th[c] = "abort" /\ LockFree
    /\ RemoveUsage(node, c, Demand[c])
    /\ Goto(c, "done")
    /\ UNCHANGED <<rows, ops, audit, count>>

ThreadStep(c) ==
    \/ NopClaim(c) \/ ClaimRefused(c) \/ ClaimDedicated(c) \/ ClaimTest(c)
    \/ ClaimUse(c) \/ Body(c) \/ AbortClaim(c)
    \/ \E fault \in {"pull", "create"} : BodyFails(c, fault)

-----------------------------------------------------------------------------
(* Deletes and updates                                                      *)

\* host, old: of the copy the API read; new: what an update asks for.
Ops == [id : 1..MaxEvents, op : {"delete", "update"}, c : Containers,
        phase : {"api", "cast", "run", "destroy", "apply", "abort"},
        host : BOOLEAN, old : Nat, new : Nat]

Request(c, op, new) ==
    [id |-> count.ops + 1, op |-> op, c |-> c,
     phase |-> IF op = "delete" THEN "api" ELSE "cast",
     host |-> rows[c].host, old |-> rows[c].cpu, new |-> new]

Drop(o) == ops' = ops \ {o}

Advance(o, phase) == ops' = (ops \ {o}) \cup {[o EXCEPT !.phase = phase]}

\* delete, and patch or resize_container of a container of this host.
ApiRequest(c) ==
    /\ rows[c].exists /\ count.ops + count.crashes < MaxEvents
    /\ \/ /\ ops' = ops \cup {Request(c, "delete", 0)}
          /\ count' = [count EXCEPT !.ops = @ + 1]
       \/ /\ rows[c].status = "created" /\ rows[c].host
          /\ \E new \in Sizes : ops' = ops \cup {Request(c, "update", new)}
          /\ count' = [count EXCEPT !.ops = @ + 1, !.resized = TRUE]
    /\ UNCHANGED <<rows, db, node, sent, tracked, th, audit>>

\* A copy without host makes the API destroy the row.
ApiDelete(o) ==
    /\ o.phase = "api"
    /\ IF o.host THEN Advance(o, "cast") /\ UNCHANGED rows
       ELSE Drop(o) /\ rows' = [rows EXCEPT ![o.c].exists = FALSE]
    /\ UNCHANGED <<db, node, sent, tracked, th, audit, count>>

\* The delete thread has the container's lock and saves DELETING with its task
\* state.
DeleteBegin(o) ==
    /\ o.op = "delete" /\ o.phase = "cast"
    /\ th[o.c] = "done"
    /\ \A p \in ops : p.c = o.c => p.phase \notin {"run", "destroy"}
    /\ SaveRow(o.c, rows[o.c].host, "deleting")
    /\ IF rows[o.c].exists THEN Advance(o, "run") ELSE Drop(o)
    /\ UNCHANGED <<db, node, sent, tracked, th, audit, count>>

DeleteFails(o) ==
    /\ o.phase = "run" /\ "docker" \in Faults
    /\ SaveRow(o.c, rows[o.c].host, "error")
    /\ Drop(o)
    /\ UNCHANGED <<db, node, sent, tracked, th, audit, count>>

\* remove_usage_from_container, on a node read again and with the usage of the
\* API's copy.
DeleteUsage(o) ==
    /\ o.phase = "run" /\ LockFree
    /\ RemoveUsage(Fresh, o.c, o.old)
    /\ \/ Advance(o, "destroy")
       \/ "placement" \in Faults /\ Drop(o)
    /\ UNCHANGED <<rows, th, audit, count>>

DeleteRow(o) ==
    /\ o.phase = "destroy"
    /\ \/ rows' = [rows EXCEPT ![o.c].exists = FALSE]
       \/ "placement" \in Faults /\ UNCHANGED rows
    /\ Drop(o)
    /\ UNCHANGED <<db, node, sent, tracked, th, audit, count>>

\* container_update up to the claim: rt.compute_node may be None; an update to
\* the same size is a NopClaim; a larger one may be refused.
UpdateClaim(o) ==
    /\ o.op = "update" /\ o.phase = "cast"
    /\ IF o.new = o.old \/ ~node.known
       THEN /\ IF node.known THEN Advance(o, "apply") ELSE Drop(o)
            /\ UNCHANGED <<db, node, sent, tracked>>
       ELSE /\ LockFree
            /\ IF o.new - o.old > Limit - db
               THEN /\ node' = Fresh
                    /\ Drop(o)
                    /\ UNCHANGED <<db, sent, tracked>>
               ELSE /\ tracked' = tracked \cup {o.c}
                    /\ \E moved \in BOOLEAN :
                          Update(UpdateUsage(Fresh, o.new - o.old), moved)
                    /\ \/ Advance(o, "apply")
                       \/ "placement" \in Faults /\ Drop(o)
    /\ UNCHANGED <<rows, th, audit, count>>

\* driver.update and save; an error of either aborts the claim.
UpdateApply(o) ==
    /\ o.phase = "apply"
    /\ LET failed == IF o.new = o.old THEN Drop(o) ELSE Advance(o, "abort")
       IN \/ /\ rows[o.c].exists
             /\ rows' = IF o.new = o.old THEN rows
                        ELSE [rows EXCEPT ![o.c].cpu = o.new]
             /\ Drop(o)
          \/ /\ ~rows[o.c].exists \/ "docker" \in Faults
             /\ failed
             /\ UNCHANGED rows
    /\ UNCHANGED <<db, node, sent, tracked, th, audit, count>>

\* abort_container_update_claim: the object is put back, and the call of _update
\* that would save it lacks an argument.
UpdateAbort(o) ==
    /\ o.phase = "abort" /\ LockFree
    /\ tracked' = tracked \cup {o.c}
    /\ node' = UpdateUsage(node, o.old - o.new)
    /\ Drop(o)
    /\ UNCHANGED <<rows, db, sent, th, audit, count>>

OpStep(o) ==
    \/ ApiDelete(o) \/ DeleteBegin(o) \/ DeleteUsage(o) \/ DeleteRow(o)
    \/ DeleteFails(o) \/ UpdateClaim(o) \/ UpdateApply(o) \/ UpdateAbort(o)

-----------------------------------------------------------------------------
(* The audit, and the loss of zun-compute                                   *)

\* update_available_resources reads the node's row, and _copy_resources writes
\* the driver's figures over it: a cpu_used of 0.
AuditRead ==
    /\ audit.pc = "idle"
    /\ audit' = [pc |-> "swap", node |-> UpdateUsage(Fresh, -db)]
    /\ UNCHANGED <<rows, db, node, sent, tracked, th, ops, count>>

\* self.compute_node = node: the lock is only taken after that, so a thread that
\* has a claim, or gives one back, may find the node exchanged.
AuditSwap ==
    /\ audit.pc = "swap"
    /\ node' = audit.node
    /\ audit' = [audit EXCEPT !.pc = "run"]
    /\ count' = [count EXCEPT !.swapped =
                    @ \/ \E c \in Containers : th[c] \in {"use", "body", "abort"}]
    /\ UNCHANGED <<rows, db, sent, tracked, th, ops>>

\* list_by_host.
Listed == {c \in Containers : rows[c].exists /\ rows[c].host}

Usage(S) == MapThenSumSet(LAMBDA c : rows[c].cpu, S)

\* Mutant: containers in ERROR, which their host keeps, are left out.
AuditRun_NoErrors(moved) ==
    LET healthy == {c \in Listed : rows[c].status # "error"}
    IN /\ audit.pc = "run" /\ LockFree
       /\ audit' = [pc |-> "idle", node |-> NoNode]
       /\ tracked' = healthy
       /\ Update(UpdateUsage(UpdateUsage(node, -node.used), Usage(healthy)), moved)
       /\ UNCHANGED <<rows, th, ops, count>>

\* _update_available_resource: the usage starts from 0 and every listed
\* container is added as new.
AuditRun(moved) ==
    /\ audit.pc = "run" /\ LockFree
    /\ audit' = [pc |-> "idle", node |-> NoNode]
    /\ tracked' = Listed
    /\ Update(UpdateUsage(UpdateUsage(node, -node.used), Usage(Listed)), moved)
    /\ UNCHANGED <<rows, th, ops, count>>

AuditStep ==
    AuditRead \/ AuditSwap \/ \E moved \in BOOLEAN : AuditRun(moved)

\* zun-compute is lost and started again: init_containers gives up what was
\* being created here and does interrupted deletes again; casts may be lost.
Crash ==
    /\ count.ops + count.crashes < MaxEvents
    /\ count' = [count EXCEPT !.crashes = @ + 1]
    /\ rows' = [c \in Containers |->
                  IF rows[c].host /\ rows[c].status = "creating"
                  THEN [rows[c] EXCEPT !.status = "error"] ELSE rows[c]]
    /\ node' = NoNode /\ sent' = NoNode /\ tracked' = {}
    /\ audit' = [pc |-> "idle", node |-> NoNode]
    /\ \E lost \in SUBSET Containers :
          th' = [c \in Containers |->
                   IF th[c] = "claim" /\ c \notin lost THEN "claim" ELSE "done"]
    /\ \E lost \in SUBSET {o \in ops : o.phase = "cast"} :
          ops' = {o \in ops \ lost : o.phase \in {"api", "cast"}}
                   \cup {[o EXCEPT !.phase = "cast", !.old = rows[o.c].cpu] :
                           o \in {p \in ops : p.phase \in {"run", "destroy"}}}
    /\ UNCHANGED db

-----------------------------------------------------------------------------

\* zun-compute has started, and its first audit is over.
Init ==
    /\ rows = [c \in Containers |-> [exists |-> TRUE, host |-> FALSE,
                                     status |-> "creating", cpu |-> Demand[c]]]
    /\ db = 0
    /\ node = Fresh /\ sent = Fresh
    /\ tracked = {}
    /\ th = [c \in Containers |-> "claim"]
    /\ ops = {}
    /\ audit = [pc |-> "idle", node |-> NoNode]
    /\ count = [ops |-> 0, crashes |-> 0, resized |-> FALSE, swapped |-> FALSE]

Next ==
    \/ \E c \in Containers : ThreadStep(c) \/ ApiRequest(c)
    \/ \E o \in ops : OpStep(o)
    \/ AuditStep
    \/ Crash

Spec == Init /\ [][Next]_vars

\* Green threads run on, a lock that is free is taken, the audit comes round.
Fairness ==
    /\ \A c \in Containers : WF_vars(ThreadStep(c))
    /\ WF_vars(\E o \in ops : OpStep(o))
    /\ WF_vars(AuditStep)

FairSpec == Spec /\ Fairness

-----------------------------------------------------------------------------
(* Properties                                                               *)

\* The type invariant.
TypeOK ==
    /\ rows \in [Containers -> Rows]
    /\ db \in Int
    /\ node \in Nodes /\ sent \in Nodes
    /\ tracked \subseteq Containers
    /\ th \in [Containers -> Threads]
    /\ ops \subseteq Ops
    /\ audit \in [pc : {"idle", "swap", "run"}, node : Nodes]
    /\ count \in [ops : 0..MaxEvents, crashes : 0..MaxEvents,
                resized : BOOLEAN, swapped : BOOLEAN]

\* A claim is not lost while its container is being created: whatever the audit,
\* deletes and updates do, the tracker has the container and its row has the
\* host by which the next audit finds it ("so the resource claim will not be
\* lost if the audit process starts").
ClaimHeld ==
    \A c \in Containers :
        th[c] = "body" /\ Demand[c] # 0 /\ rows[c].exists
            => c \in tracked /\ rows[c].host

\* The node's row says what the rows of this host add up to.
UsageAccurate == db = Usage(Listed)

\* The drift that stale copies, aborts and lost threads leave in the node's row
\* ends: the audits (update_available_resources) bring it to the sum.
EventuallyAccurate == <>[]UsageAccurate

\* Containers that are being created with a claim or were created with one.
Holders ==
    {c \in Containers : /\ rows[c].exists /\ rows[c].host
                        /\ rows[c].status \in {"creating", "created"}}

\* What containers of this host hold stays within the limits their claims were
\* tested against ("Dict of oversubscription limits for memory, disk, and
\* CPUs"), until an audit replaces the node under a claim or a size is changed.
ClaimsFit == ~count.swapped /\ ~count.resized => Usage(Holders) <= Limit

=============================================================================
