------------------------------ MODULE Capsules ------------------------------
(***************************************************************************)
(* Capsules, a sandbox with init containers and containers in it, made by  *)
(* the CRI driver or by the Docker driver, and containers of the Docker    *)
(* driver with the network driver zun_cni, on one compute host.  Both are  *)
(* plugged by the daemon of module CniDaemon: containerd sends it ADD and  *)
(* DEL for the CRI driver, the network driver does for the Docker driver.  *)
(*                                                                         *)
(* One thread serves a uuid at a time.  A DELETE carries the copy of the   *)
(* capsule that the API read, which no state check delays.                 *)
(***************************************************************************)
EXTENDS Integers, CniDaemon, Sequences, SequencesExt, FiniteSetsExt

CONSTANTS
    Capsules,       \* the uuids of the capsules
    Boxes,          \* the uuids of the Docker containers with zun_cni
    Templates,      \* the templates users post
    Ops,            \* the operations users ask of a container
    MaxFaults,      \* bound: failing calls of a behaviour, a crash included
    MaxRequests     \* bound: requests of users

ASSUME CapsulesAssumption ==
    /\ Uuids = Capsules \cup Boxes /\ Capsules \cap Boxes = {}
    /\ Ops \subseteq {"start", "stop", "reboot", "rebuild", "delete"}
    /\ {MaxNs, MaxCid, MaxLate, MaxFaults, MaxRequests} \subseteq Nat
    /\ IsFiniteSet(Templates) /\ Templates # {}
    /\ \A t \in Templates :
          {t.containers, t.initContainers} \subseteq Seq([image : BOOLEAN, cpu : Nat])

VARIABLES
    driver,     \* CONF.capsule_driver
    pods,       \* the runtime's id of the sandbox or container, 0 if none
    inner,      \* what the runtime knows of the containers in a capsule
    thr,        \* the thread that serves a uuid
    todo,       \* the copy that a cast DELETE of a capsule carries
    spoilt,     \* the uuids that met what the code does not recover from
    used        \* how far the bounds are used up

podVars == <<driver, pods, inner, thr, todo, spoilt, used>>

vars == <<cniVars, podVars>>

-----------------------------------------------------------------------------
(* Templates *)

NoTemplate == [kind |-> "none", containers |-> <<>>, initContainers |-> <<>>,
               volumes |-> <<>>]

check_capsule_template(t) == t.kind \in {"capsule", "Capsule"}

capsule_get_container_spec(t) ==
    /\ t.containers # <<>>
    /\ \A c \in ToSet(t.containers) \cup ToSet(t.initContainers) : c.image

\* A volume is an existing one or has a size; only Cinder provides it.
capsule_get_volume_spec(t) ==
    \A v \in ToSet(t.volumes) : v.name /\ v.cinder /\ v.volumeID # v.size

\* What the capsule is scheduled and claimed with: its containers together,
\* or the init container that needs most.
capsule_need_cpu(t) ==
    Max({FoldLeft(LAMBDA a, c : a + c.cpu, 0, t.containers)}
           \cup {c.cpu : c \in ToSet(t.initContainers)})

\* The init containers come first.
Merged(t) == t.initContainers \o t.containers

IsInit(t, i) == i <= Len(t.initContainers)

-----------------------------------------------------------------------------
(* Records *)

Statuses == {"none", "Creating", "Created", "Running", "Stopped", "Error",
             "Deleted"}

MaxInner == Max({Len(Merged(t)) : t \in Templates})

NoRow == [exists |-> FALSE, host |-> FALSE, status |-> "none", cid |-> 0,
          pid |-> 0, vif |-> "none", tpl |-> NoTemplate, cpu |-> 0,
          ids |-> {}]

NoCopy == [cid |-> -1, ids |-> {}]

Idle == [pc |-> "idle", op |-> "none", i |-> 0, ns |-> 0]

Kind(u) == IF u \in Capsules THEN driver ELSE "container"

\* The containers were created and started earlier, the capsules are not
\* there yet.
Running == [NoRow EXCEPT !.exists = TRUE, !.host = TRUE, !.status = "Running",
                         !.cid = 1, !.pid = 1, !.vif = "down"]

Init ==
    /\ rows = [u \in Uuids |-> IF u \in Boxes THEN Running ELSE NoRow]
    /\ netns = [u \in Uuids |-> rows[u].pid]
    /\ wired = netns
    /\ port = [u \in Uuids |-> IF u \in Boxes THEN "active" ELSE "none"]
    /\ registry = [u \in Uuids |-> [NoEntry EXCEPT !.cid = rows[u].cid,
                                                    !.active = u \in Boxes]]
    /\ CniInit
    /\ driver \in {"cri", "docker"}
    /\ pods = [u \in Uuids |-> rows[u].cid]
    /\ inner = [u \in Uuids |-> [i \in 1..MaxInner |-> "none"]]
    /\ thr = [u \in Uuids |-> Idle]
    /\ todo = [u \in Uuids |-> NoCopy]
    /\ spoilt = {}
    /\ used = [requests |-> 0, faults |-> 0, ns |-> netns, cid |-> pods]

TypeOK ==
    /\ CniTypeOK
    /\ rows \in [Uuids -> [exists : BOOLEAN, host : BOOLEAN,
                           status : Statuses, cid : 0..MaxCid, pid : 0..MaxNs,
                           vif : Vifs, tpl : Templates \cup {NoTemplate},
                           cpu : Nat, ids : SUBSET (1..MaxInner)]]
    /\ driver \in {"cri", "docker"}
    /\ pods \in [Uuids -> 0..MaxCid]
    /\ inner \in [Uuids -> [1..MaxInner -> {"none", "running", "exited"}]]
    /\ \A u \in Uuids : thr[u].i \in 0..(MaxInner + 1) /\ thr[u].ns \in 0..MaxNs
    /\ \A u \in Uuids : todo[u].cid \in -1..MaxCid
    /\ spoilt \subseteq Uuids

-----------------------------------------------------------------------------
(* Helpers *)

Request == /\ used.requests < MaxRequests
           /\ used' = [used EXCEPT !.requests = @ + 1]

Fault == /\ used.faults < MaxFaults
         /\ used' = [used EXCEPT !.faults = @ + 1]

At(u, pc) == thr[u].pc = pc

\* The client's answer is taken note of.
Heard(u) == answer' = [answer EXCEPT ![u] = "none"]

Goto(u, pc) == thr' = [thr EXCEPT ![u].pc = pc]

End(u) == thr' = [thr EXCEPT ![u] = Idle]

\* _fail_container(unset_host=True): a host-less row is the API's to delete.
FailWith(u, ids) ==
    /\ rows' = [rows EXCEPT ![u].status = "Error", ![u].host = FALSE,
                            ![u].cid = pods[u], ![u].ids = ids]
    /\ spoilt' = spoilt \cup {u}
    /\ End(u)

FailCreate(u) == FailWith(u, rows[u].ids)

\* The containers with the given numbers are removed.
Without(u, ids) ==
    [inner EXCEPT ![u] = [i \in 1..MaxInner |-> IF i \in ids THEN "none"
                                                ELSE @[i]]]

\* The foreign key of the containers' rows deletes them with the capsule's.
destroy(u) == [rows EXCEPT ![u] = [NoRow EXCEPT !.status = "Deleted"]]

-----------------------------------------------------------------------------
(* The API *)

netQuiet == UNCHANGED <<netns, registry, wired, port, calls, answer, watcher,
                        late>>

\* _do_post up to the creation of the row; a bad template is refused.
PostCapsule(u, t) ==
    /\ Request
    /\ rows[u].status = "none" /\ At(u, "idle")
    /\ check_capsule_template(t)
    /\ capsule_get_container_spec(t)
    /\ capsule_get_volume_spec(t)
    /\ rows' = [rows EXCEPT ![u] = [NoRow EXCEPT !.exists = TRUE,
                                                 !.status = "Creating",
                                                 !.tpl = t]]
    /\ Goto(u, "networks")
    /\ netQuiet /\ UNCHANGED <<driver, pods, inner, todo, spoilt>>

\* build_requested_networks raises: the row stays, for users to delete.
PostNetworks(u) ==
    /\ At(u, "networks")
    /\ \/ /\ Goto(u, "volumes") /\ UNCHANGED used
       \/ /\ Fault /\ End(u)
    /\ netQuiet /\ UNCHANGED <<rows, driver, pods, inner, todo, spoilt>>

\* The containers' rows and _build_requested_volumes, whose failure, a volume
\* no container mounts for one, takes the rows back.  The request of a capsule
\* that was deleted meanwhile fails at its next write.
_build_requested_volumes(u) ==
    /\ At(u, "volumes")
    /\ IF ~rows[u].exists
       THEN /\ End(u)
            /\ UNCHANGED <<rows, used>>
       ELSE \/ /\ \A v \in ToSet(rows[u].tpl.volumes) : v.mounted
               /\ rows' = [rows EXCEPT ![u].cpu = capsule_need_cpu(rows[u].tpl)]
               /\ Goto(u, "schedule")
               /\ UNCHANGED used
            \/ /\ rows[u].tpl.volumes # <<>>
               /\ \/ Fault
                  \/ /\ \E v \in ToSet(rows[u].tpl.volumes) : ~v.mounted
                     /\ UNCHANGED used
               /\ rows' = destroy(u)
               /\ End(u)
    /\ netQuiet /\ UNCHANGED <<driver, pods, inner, todo, spoilt>>

\* compute_api.container_create: a host and the cast, or ERROR.
Schedule(u) ==
    /\ At(u, "schedule")
    /\ IF ~rows[u].exists
       THEN /\ End(u)
            /\ UNCHANGED <<rows, used>>
       ELSE \/ /\ rows' = [rows EXCEPT ![u].host = TRUE]
               /\ Goto(u, "attach")
               /\ UNCHANGED used
            \/ /\ Fault
               /\ rows' = [rows EXCEPT ![u].status = "Error"]
               /\ End(u)
    /\ netQuiet /\ UNCHANGED <<driver, pods, inner, todo, spoilt>>

\* DELETE asks for no state: a capsule still being made is cast as it is now,
\* one without host is destroyed here.
DeleteCapsule(u) ==
    /\ Request
    /\ rows[u].exists /\ todo[u] = NoCopy
    /\ IF rows[u].host
       THEN /\ todo' = [todo EXCEPT ![u] = [cid |-> rows[u].cid,
                                            ids |-> rows[u].ids]]
            /\ UNCHANGED rows
       ELSE /\ rows' = destroy(u)
            /\ UNCHANGED todo
    /\ spoilt' = IF At(u, "idle") THEN spoilt ELSE spoilt \cup {u}
    /\ netQuiet /\ UNCHANGED <<driver, pods, inner, thr>>

-----------------------------------------------------------------------------
(* The manager and the drivers: creation *)

\* A failed attach fails the row of the container in the capsule only: the
\* capsule stays CREATING.
_attach_volumes_for_capsule(u) ==
    /\ At(u, "attach")
    /\ \/ /\ thr' = [thr EXCEPT ![u].pc = "pull", ![u].op = "start"]
          /\ UNCHANGED <<used, spoilt>>
       \/ /\ Fault /\ rows[u].tpl.volumes # <<>>
          /\ spoilt' = spoilt \cup {u}
          /\ End(u)
    /\ netQuiet /\ UNCHANGED <<rows, driver, pods, inner, todo>>

\* The image, of the sandbox for a capsule; the host is kept on failure.
PullImage(u) ==
    /\ At(u, "pull")
    /\ \/ /\ Goto(u, "create") /\ UNCHANGED <<rows, used>>
       \/ /\ Fault
          /\ rows' = [rows EXCEPT ![u].status = "Error"]
          /\ End(u)
    /\ netQuiet /\ UNCHANGED <<driver, pods, inner, todo, spoilt>>

\* create_or_update_port and neutron_to_osvif_vif: the VIF says what the
\* port's status was.
Vif(u) == IF port[u] = "active" THEN "active" ELSE "down"

Port(u) == [port EXCEPT ![u] = IF @ = "none" THEN "down" ELSE @]

\* CriDriver._write_cni_metadata.
_write_cni_metadata(u) ==
    /\ At(u, "create") /\ Kind(u) = "cri"
    /\ port' = Port(u)
    /\ \/ /\ rows' = [rows EXCEPT ![u].vif = Vif(u)]
          /\ Goto(u, "sandbox")
          /\ UNCHANGED <<used, spoilt>>
       \/ /\ Fault /\ FailCreate(u)
    /\ UNCHANGED <<netns, registry, wired, calls, answer, watcher, late,
                   driver, pods, inner, todo>>

\* containerd makes the sandbox and its namespace and sends ADD.
RunPodSandbox(u) ==
    /\ At(u, "sandbox")
    /\ used.ns[u] < MaxNs
    /\ used' = [used EXCEPT !.ns[u] = @ + 1, !.cid[u] = @ + 1]
    /\ netns' = [netns EXCEPT ![u] = used.ns[u] + 1]
    /\ pods' = [pods EXCEPT ![u] = used.cid[u] + 1]
    /\ _make_request(u, "ADD", used.cid[u] + 1, used.ns[u] + 1)
    /\ thr' = [thr EXCEPT ![u].pc = "plug", ![u].ns = used.ns[u] + 1]
    /\ UNCHANGED <<rows, registry, wired, port, watcher, late, driver, inner,
                   todo, spoilt>>

\* Without network there is no sandbox: containerd sends DEL and fails.
SandboxPlugged(u) ==
    /\ At(u, "plug") /\ Kind(u) = "cri" /\ answer[u] # "none"
    /\ IF answer[u] = "ok"
       THEN /\ thr' = [thr EXCEPT ![u].pc = "inner", ![u].i = 1]
            /\ Heard(u) /\ UNCHANGED calls
       ELSE /\ _make_request(u, "DEL", pods[u], thr[u].ns)
            /\ Goto(u, "teardown")
    /\ UNCHANGED <<rows, netns, registry, wired, port, watcher, late, driver,
                   pods, inner, todo, spoilt, used>>

SandboxFails(u) ==
    /\ At(u, "teardown") /\ answer[u] # "none"
    /\ netns' = [netns EXCEPT ![u] = 0]
    /\ pods' = [pods EXCEPT ![u] = 0]
    /\ rows' = [rows EXCEPT ![u].status = "Error", ![u].host = FALSE]
    /\ spoilt' = spoilt \cup {u}
    /\ End(u) /\ Heard(u)
    /\ UNCHANGED <<registry, wired, port, calls, watcher, late, driver,
                   inner, todo, used>>

\* DockerDriver.create with ZunCNI.process_networking_config: the metadata is
\* written anew, so the recorded pid is gone.
DockerCreate(u) ==
    /\ At(u, "create") /\ Kind(u) # "cri"
    /\ port' = Port(u)
    /\ \/ /\ used.cid[u] < MaxCid
          /\ used' = [used EXCEPT !.cid[u] = @ + 1]
          /\ pods' = [pods EXCEPT ![u] = used.cid[u] + 1]
          /\ rows' = [rows EXCEPT ![u].vif = Vif(u), ![u].pid = 0,
                                  ![u].cid = used.cid[u] + 1,
                                  ![u].status = "Created"]
          /\ Goto(u, "start")
          /\ UNCHANGED spoilt
       \/ /\ Fault /\ FailCreate(u) /\ UNCHANGED pods
    /\ UNCHANGED <<netns, registry, wired, calls, answer, watcher, late,
                   driver, inner, todo>>

-----------------------------------------------------------------------------
(* The Docker driver: start, and ZunCNI.on_container_started *)

\* docker.start or docker.restart: a new process, a new namespace.
DockerStart(u) ==
    /\ At(u, "start")
    /\ used.ns[u] < MaxNs
    /\ used' = [used EXCEPT !.ns[u] = @ + 1]
    /\ netns' = [netns EXCEPT ![u] = used.ns[u] + 1]
    /\ Goto(u, "inspect")
    /\ UNCHANGED <<rows, registry, wired, port, calls, answer, watcher, late,
                   driver, pods, inner, todo, spoilt>>

\* What follows a start that came to its end, well or not.
Started(u, status) ==
    /\ rows' = [rows EXCEPT ![u].status = status]
    /\ thr' = [thr EXCEPT ![u] = IF Kind(u) = "container"
                                 THEN Idle
                                 ELSE [@ EXCEPT !.pc = "inner", !.i = 1]]

\* A failed start stops the container; a failed reboot leaves it running.
NetworkFailed(u) ==
    IF thr[u].op = "reboot"
    THEN /\ rows' = [rows EXCEPT ![u].status = "Error"]
         /\ End(u)
         /\ UNCHANGED netns
    ELSE /\ netns' = [netns EXCEPT ![u] = 0]
         /\ Started(u, "Stopped")

\* The pid is compared with the one recorded; a process that is gone has
\* none, which equals none recorded.
on_container_started(u) ==
    /\ At(u, "inspect")
    /\ IF netns[u] = rows[u].pid
       THEN Started(u, "Running") /\ UNCHANGED <<calls, answer>>
       ELSE /\ IF rows[u].pid # 0
               THEN _make_request(u, "DEL", pods[u], rows[u].pid)
               ELSE _make_request(u, "ADD", pods[u], netns[u])
            /\ thr' = [thr EXCEPT
                   ![u].pc = IF rows[u].pid # 0 THEN "unplug" ELSE "plug",
                   ![u].ns = netns[u]]
            /\ UNCHANGED rows
    /\ UNCHANGED <<netns, registry, wired, port, watcher, late, driver, pods,
                   inner, todo, spoilt, used>>

\* The old namespace is unplugged: the record without pid, then ADD.
\* Without a process (ns = 0) the ADD names a namespace that is not there.
OldUnplugged(u) ==
    /\ At(u, "unplug") /\ answer[u] # "none"
    /\ IF answer[u] = "ok" /\ thr[u].ns # 0
       THEN /\ rows' = [rows EXCEPT ![u].pid = 0]
            /\ _make_request(u, "ADD", pods[u], thr[u].ns)
            /\ Goto(u, "plug")
            /\ UNCHANGED netns
       ELSE /\ NetworkFailed(u)
            /\ Heard(u) /\ UNCHANGED calls
    /\ UNCHANGED <<registry, wired, port, watcher, late, driver, pods, inner,
                   todo, spoilt, used>>

\* A failed ADD leaves no pid in the record, so that the on_container_stopped
\* called then sends no DEL.  The pid is saved before the ready file is made.
ContainerPlugged(u) ==
    /\ At(u, "plug") /\ Kind(u) # "cri" /\ answer[u] # "none"
    /\ IF answer[u] = "ok"
       THEN /\ rows' = [rows EXCEPT ![u].pid = thr[u].ns]
            /\ Goto(u, "touch")
            /\ UNCHANGED netns
       ELSE NetworkFailed(u)
    /\ Heard(u)
    /\ UNCHANGED <<registry, wired, port, calls, watcher, late, driver,
                   pods, inner, todo, spoilt, used>>

\* The ready file lets the container's command start; it cannot be made in a
\* container that is down.
TouchReady(u) ==
    /\ At(u, "touch")
    /\ \/ /\ netns[u] # 0
          /\ Started(u, "Running")
          /\ UNCHANGED <<netns, calls, answer>>
       \/ /\ netns[u] = 0 /\ thr[u].op # "reboot"
          /\ _make_request(u, "DEL", pods[u], thr[u].ns)
          /\ Goto(u, "cleanup")
          /\ UNCHANGED <<rows, netns>>
       \/ /\ netns[u] = 0 /\ thr[u].op = "reboot"
          /\ rows' = [rows EXCEPT ![u].status = "Error"]
          /\ End(u)
          /\ UNCHANGED <<netns, calls, answer>>
    /\ UNCHANGED <<registry, wired, port, watcher, late, driver, pods, inner,
                   todo, spoilt, used>>

\* on_container_stopped: the record without pid is saved after a DEL that
\* worked, and the container is STOPPED either way.
Unplugged(u) ==
    /\ thr[u].pc \in {"cleanup", "stopping"} /\ answer[u] # "none"
    /\ rows' = [rows EXCEPT
           ![u].pid = IF answer[u] = "ok" THEN 0 ELSE @,
           ![u].status = "Stopped"]
    /\ thr' = [thr EXCEPT ![u] = IF At(u, "stopping") \/ Kind(u) = "container"
                                 THEN Idle
                                 ELSE [@ EXCEPT !.pc = "inner", !.i = 1]]
    /\ Heard(u)
    /\ UNCHANGED <<netns, registry, wired, port, calls, watcher, late,
                   driver, pods, inner, todo, spoilt, used>>

-----------------------------------------------------------------------------
(* The containers in a capsule *)

\* What follows a started container: the wait for it, or the next one.
NextInner(u) ==
    LET i == thr[u].i
        init == IsInit(rows[u].tpl, i)
    IN  thr' = [thr EXCEPT ![u].pc = IF init THEN "init" ELSE "inner",
                           ![u].i = IF init THEN i ELSE i + 1]

\* CRI: pull, create, save of the id, start.  The sandbox has to be up.
_create_container(u) ==
    LET i == thr[u].i
    IN  /\ At(u, "inner") /\ Kind(u) = "cri" /\ i <= Len(Merged(rows[u].tpl))
        /\ \/ /\ netns[u] # 0
              /\ inner' = [inner EXCEPT ![u][i] = "running"]
              /\ rows' = [rows EXCEPT ![u].ids = @ \cup {i}]
              /\ NextInner(u)
              /\ UNCHANGED <<used, spoilt>>
           \/ /\ \/ Fault
                 \/ netns[u] = 0 /\ UNCHANGED used
              /\ \E ids \in {{}, {i}} : FailWith(u, rows[u].ids \cup ids)
              /\ UNCHANGED inner
        /\ netQuiet /\ UNCHANGED <<driver, pods, todo>>

\* Docker: pull, load, create, start, and only then the save of the id.
_create_container_in_capsule(u) ==
    LET i == thr[u].i
    IN  /\ At(u, "inner") /\ Kind(u) = "docker"
        /\ i <= Len(Merged(rows[u].tpl))
        /\ \/ /\ netns[u] # 0
              /\ inner' = [inner EXCEPT ![u][i] = "running"]
              /\ rows' = [rows EXCEPT ![u].ids = @ \cup {i}]
              /\ NextInner(u)
              /\ UNCHANGED <<used, spoilt>>
           \/ /\ Fault /\ netns[u] # 0
              /\ inner' = [inner EXCEPT ![u][i] = "running"]
              /\ FailCreate(u)
           \/ /\ \/ Fault
                 \/ netns[u] = 0 /\ UNCHANGED used
              /\ FailCreate(u)
              /\ UNCHANGED inner
        /\ netQuiet /\ UNCHANGED <<driver, pods, todo>>

\* The status of a container as the runtime reports it.
_show_container(u, i) ==
    CASE inner[u][i] = "exited" -> "Stopped"
      [] inner[u][i] = "running" -> "Running"
      [] OTHER -> "Unknown"

\* Mutant: a running init container is enough.
_wait_for_init_container_Runs(u) ==
    /\ At(u, "init")
    /\ thr' = [thr EXCEPT ![u].pc = "inner", ![u].i = @ + 1]
    /\ netQuiet
    /\ UNCHANGED <<rows, driver, pods, inner, todo, spoilt, used>>

\* Until the init container has exited, whatever its exit code, or an hour
\* has passed.
_wait_for_init_container(u) ==
    /\ At(u, "init")
    /\ \/ /\ _show_container(u, thr[u].i) = "Stopped"
          /\ thr' = [thr EXCEPT ![u].pc = "inner", ![u].i = @ + 1]
          /\ UNCHANGED <<rows, spoilt>>
       \/ /\ _show_container(u, thr[u].i) # "Stopped"
          /\ FailCreate(u)
    /\ netQuiet /\ UNCHANGED <<driver, pods, inner, todo, used>>

\* The id of a CRI sandbox is saved with the capsule's status, at the end.
CapsuleCreated(u) ==
    /\ At(u, "inner") /\ thr[u].i > Len(Merged(rows[u].tpl))
    /\ rows' = [rows EXCEPT
           ![u].status = IF Kind(u) = "cri" THEN "Running" ELSE @,
           ![u].cid = pods[u]]
    /\ End(u)
    /\ netQuiet /\ UNCHANGED <<driver, pods, inner, todo, spoilt, used>>

\* An init container ends; that the others may end too changes nothing here.
InnerExits(u, i) ==
    /\ inner[u][i] = "running" /\ IsInit(rows[u].tpl, i)
    /\ inner' = [inner EXCEPT ![u][i] = "exited"]
    /\ netQuiet /\ UNCHANGED <<rows, driver, pods, thr, todo, spoilt, used>>

-----------------------------------------------------------------------------
(* Operations on a container *)

ValidState(op) ==
    CASE op = "stop" -> {"Running"}
      [] op \in {"start", "delete"} -> {"Created", "Stopped", "Error"}
      [] OTHER -> {"Created", "Running", "Stopped", "Error"}

\* What Docker answers about a container it does not hold, and what init_host
\* does to containers after a crash, is module ContainerManager.
CanBegin(u, op) ==
    /\ Request
    /\ op \in Ops
    /\ rows[u].exists /\ At(u, "idle")
    /\ rows[u].status \in ValidState(op)
    /\ op \in {"rebuild", "delete"} \/ pods[u] # 0
    /\ u \notin spoilt

\* start and reboot; a reboot ends the process first.
BeginStart(u, op) ==
    /\ op \in {"start", "reboot"} /\ CanBegin(u, op)
    /\ used.ns[u] < MaxNs
    /\ thr' = [thr EXCEPT ![u] = [Idle EXCEPT !.pc = "start", !.op = op]]
    /\ netQuiet /\ UNCHANGED <<rows, driver, pods, inner, todo, spoilt>>

BeginStop(u) ==
    /\ CanBegin(u, "stop")
    /\ netns' = [netns EXCEPT ![u] = 0]
    /\ IF rows[u].pid # 0
       THEN /\ _make_request(u, "DEL", pods[u], rows[u].pid)
            /\ thr' = [thr EXCEPT ![u] = [Idle EXCEPT !.pc = "stopping"]]
            /\ UNCHANGED rows
       ELSE /\ rows' = [rows EXCEPT ![u].status = "Stopped"]
            /\ UNCHANGED <<calls, answer, thr>>
    /\ UNCHANGED <<registry, wired, port, watcher, late, driver, pods, inner,
                   todo, spoilt>>

\* Docker's container goes without a DEL, the port stays for the new one.
BeginRebuild(u) ==
    /\ CanBegin(u, "rebuild")
    /\ used.ns[u] < MaxNs /\ used.cid[u] < MaxCid
    /\ netns' = [netns EXCEPT ![u] = 0]
    /\ pods' = [pods EXCEPT ![u] = 0]
    /\ thr' = [thr EXCEPT ![u] = [Idle EXCEPT !.pc = "pull", !.op = "start"]]
    /\ UNCHANGED <<rows, registry, wired, port, calls, answer, watcher, late,
                   driver, inner, todo, spoilt>>

\* DockerDriver.delete with disconnect_container_from_network: the port and
\* the container go, again without a DEL.
DeleteContainer(u) ==
    /\ CanBegin(u, "delete")
    /\ netns' = [netns EXCEPT ![u] = 0]
    /\ pods' = [pods EXCEPT ![u] = 0]
    /\ port' = [port EXCEPT ![u] = IF rows[u].host THEN "none" ELSE @]
    /\ rows' = destroy(u)
    /\ UNCHANGED <<registry, wired, calls, answer, watcher, late, driver,
                   inner, thr, todo, spoilt>>

\* The process ends by itself; the periodic sync sees it.
Exit(u) ==
    /\ u \in Boxes
    /\ netns[u] # 0
    /\ Fault
    /\ netns' = [netns EXCEPT ![u] = 0]
    /\ rows' = [rows EXCEPT ![u].status =
                   IF At(u, "idle") /\ @ = "Running" THEN "Stopped" ELSE @]
    /\ UNCHANGED <<registry, wired, port, calls, answer, watcher, late, driver,
                   pods, inner, thr, todo, spoilt>>

-----------------------------------------------------------------------------
(* Deletion of a capsule *)

\* CriDriver.delete_capsule: a copy without id is taken for a capsule without
\* sandbox.  StopPodSandbox ends the containers and sends DEL.
CriDelete(u) ==
    /\ At(u, "idle") /\ todo[u] # NoCopy /\ Kind(u) = "cri"
    /\ IF todo[u].cid = 0
       THEN /\ rows' = destroy(u)
            /\ todo' = [todo EXCEPT ![u] = NoCopy]
            /\ UNCHANGED <<calls, answer, inner, thr>>
       ELSE /\ inner' = [inner EXCEPT ![u] = [i \in 1..MaxInner |->
                             IF @[i] = "running" THEN "exited" ELSE @[i]]]
            /\ _make_request(u, "DEL", pods[u], used.ns[u])
            /\ thr' = [thr EXCEPT ![u] = [Idle EXCEPT !.pc = "stopsandbox"]]
            /\ UNCHANGED <<rows, todo>>
    /\ UNCHANGED <<netns, registry, wired, port, watcher, late, driver, pods,
                   spoilt, used>>

\* Mutant: a failed StopPodSandbox is only logged.
SandboxStopped_Logs(u) ==
    /\ At(u, "stopsandbox") /\ answer[u] # "none"
    /\ rows' = destroy(u)
    /\ todo' = [todo EXCEPT ![u] = NoCopy]
    /\ End(u) /\ Heard(u)
    /\ UNCHANGED <<netns, pods, inner, port, registry, wired, calls, watcher,
                   late, driver, spoilt, used>>

\* RemovePodSandbox, the port, the row; or ERROR with the host kept.
SandboxStopped(u) ==
    /\ At(u, "stopsandbox") /\ answer[u] # "none"
    /\ IF answer[u] = "ok"
       THEN /\ netns' = [netns EXCEPT ![u] = 0]
            /\ pods' = [pods EXCEPT ![u] = 0]
            /\ inner' = Without(u, 1..MaxInner)
            /\ port' = [port EXCEPT ![u] = "none"]
            /\ rows' = destroy(u)
       ELSE /\ rows' = [rows EXCEPT ![u].status = "Error"]
            /\ UNCHANGED <<netns, pods, inner, port>>
    /\ todo' = [todo EXCEPT ![u] = NoCopy]
    /\ End(u) /\ Heard(u)
    /\ UNCHANGED <<registry, wired, calls, watcher, late, driver,
                   spoilt, used>>

\* DockerDriver.delete_capsule: the containers the copy knows, the sandbox,
\* its port.  There is no DEL, and no sandbox to stop in a copy without id.
DockerDelete(u) ==
    /\ At(u, "idle") /\ todo[u] # NoCopy /\ Kind(u) = "docker"
    /\ todo' = [todo EXCEPT ![u] = NoCopy]
    /\ \/ /\ todo[u].cid # 0
          /\ netns' = [netns EXCEPT ![u] = 0]
          /\ pods' = [pods EXCEPT ![u] = 0]
          /\ inner' = Without(u, todo[u].ids)
          /\ port' = [port EXCEPT ![u] = "none"]
          /\ rows' = destroy(u)
          /\ UNCHANGED used
       \/ /\ \/ todo[u].cid = 0 /\ UNCHANGED used
             \/ todo[u].cid # 0 /\ Fault
          /\ rows' = [rows EXCEPT ![u].status = IF rows[u].exists
                                                THEN "Error" ELSE @]
          /\ UNCHANGED <<netns, pods, inner, port>>
    /\ UNCHANGED <<registry, wired, calls, answer, watcher, late, driver, thr,
                   spoilt>>

-----------------------------------------------------------------------------
\* zun-compute is restarted: init_host looks at containers, not at capsules.
\* The daemon, containerd and Docker go on.
Crash ==
    /\ Fault
    /\ \E u \in Uuids : thr[u].pc \notin {"idle", "networks", "volumes", "schedule"}
    /\ thr' = [u \in Uuids |-> IF thr[u].pc \in {"networks", "volumes",
                                                 "schedule"}
                               THEN thr[u] ELSE Idle]
    /\ rows' = [u \in Uuids |->
           IF u \in Boxes /\ rows[u].status = "Creating"
           THEN [rows[u] EXCEPT !.status = "Error"]
           ELSE rows[u]]
    /\ todo' = [u \in Uuids |-> NoCopy]
    /\ spoilt' = spoilt \cup {u \in Uuids : thr[u] # Idle}
    /\ netQuiet /\ UNCHANGED <<driver, pods, inner>>

CapsuleStep(u) ==
    \/ PostNetworks(u) \/ _build_requested_volumes(u) \/ Schedule(u)
    \/ _attach_volumes_for_capsule(u) \/ PullImage(u)
    \/ _write_cni_metadata(u) \/ RunPodSandbox(u) \/ SandboxPlugged(u)
    \/ SandboxFails(u) \/ DockerCreate(u) \/ DockerStart(u)
    \/ on_container_started(u) \/ OldUnplugged(u) \/ ContainerPlugged(u)
    \/ TouchReady(u) \/ Unplugged(u)
    \/ _create_container(u) \/ _create_container_in_capsule(u)
    \/ _wait_for_init_container(u)
    \/ CapsuleCreated(u) \/ CriDelete(u) \/ SandboxStopped(u)
    \/ DockerDelete(u)

Next ==
    \/ CniStep /\ UNCHANGED podVars
    \/ \E u \in Uuids : CapsuleStep(u) \/ Exit(u)
    \/ \E u \in Capsules :
          \/ \E t \in Templates : PostCapsule(u, t)
          \/ DeleteCapsule(u)
          \/ \E i \in 1..MaxInner : InnerExits(u, i)
    \/ \E u \in Boxes :
          \/ BeginStop(u) \/ BeginRebuild(u) \/ DeleteContainer(u)
          \/ \E op \in {"start", "reboot"} : BeginStart(u, op)
    \/ Crash

Spec == Init /\ [][Next]_vars

-----------------------------------------------------------------------------
(* Properties *)

(***************************************************************************)
(* No container of a capsule is started before every init container has    *)
(* ended: _wait_for_init_container holds the creation up, whatever becomes *)
(* of the sandbox, the database row or zun-compute meanwhile.              *)
(***************************************************************************)
InitBeforeApp ==
    \A u \in Capsules : \A i, j \in 1..MaxInner :
        LET t == rows[u].tpl
        IN  /\ rows[u].exists
            /\ IsInit(t, i) /\ ~IsInit(t, j) /\ inner[u][j] # "none"
            => inner[u][i] = "exited"

(***************************************************************************)
(* What runs in a capsule at one time never needs more than the capsule    *)
(* was scheduled and claimed with, the sum of its containers or the        *)
(* largest init container (_do_post).                                      *)
(***************************************************************************)
ClaimCovers ==
    \A u \in Capsules :
        LET running == {i \in DOMAIN Merged(rows[u].tpl) :
                           inner[u][i] = "running"}
        IN  MapThenSumSet(LAMBDA i : Merged(rows[u].tpl)[i].cpu, running)
               <= rows[u].cpu

(***************************************************************************)
(* A sandbox, or a container in one, whose row is gone was lost in a way   *)
(* the code does not recover from: its creation failed and took the host   *)
(* away, it was deleted while it was being made (the copy has no id yet),  *)
(* or zun-compute was restarted in the middle.  No other order of CNI      *)
(* answers, timeouts and deletions loses one.                              *)
(***************************************************************************)
PodAccounted ==
    \A u \in Uuids :
        /\ pods[u] # 0 \/ \E i \in 1..MaxInner : inner[u][i] # "none"
        /\ ~rows[u].exists
        => u \in spoilt

(***************************************************************************)
(* What the record says of a running container's network is so: the        *)
(* namespace whose pid on_container_started saved is the one that is       *)
(* plugged, and the daemon's entry is of this container and not marked as  *)
(* unplugged.  A DEL that its client gave up may still come between.       *)
(***************************************************************************)
WiredAsRecorded ==
    \A u \in Boxes :
        /\ rows[u].exists /\ At(u, "idle") /\ rows[u].status = "Running"
        /\ rows[u].pid # 0
        /\ u \notin spoilt /\ \A cmd \in {"ADD", "DEL"} : <<u, cmd>> \notin late
        => /\ wired[u] = rows[u].pid
           /\ registry[u].cid = rows[u].cid /\ ~registry[u].vif_unplugged

(***************************************************************************)
(* An ADD that waits for its port finds its own entry: neither the watcher *)
(* with an old list of rows nor the DEL of an earlier container takes it   *)
(* away, unless that DEL's client had given up.                            *)
(***************************************************************************)
AddFindsEntry ==
    \A c \in calls :
        /\ c.cmd = "ADD" /\ c.pc = "wait" /\ c.heard
        /\ \A cmd \in {"ADD", "DEL"} : <<c.u, cmd>> \notin late
        /\ c.u \notin spoilt
        => registry[c.u].cid = c.cid

\* Init containers run first, which is why the largest of them, or the sum of
\* the others, is enough to claim for a capsule.
InitFirst == InitBeforeApp /\ ClaimCovers

\* The network of a container is the one its record and the CNI registry say,
\* while it is plugged and after.
NetworkAsRecorded == WiredAsRecorded /\ AddFindsEntry

=============================================================================
