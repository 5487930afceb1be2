-------------------------- MODULE ContainerManager --------------------------
(***************************************************************************)
(* The life of one container: its database row, the Docker container the   *)
(* row stands for, the API handlers that validate a request against a      *)
(* snapshot of the row and cast that snapshot to zun-compute, the threads  *)
(* of zun-compute that carry a cast out under the container's lock, the    *)
(* periodic tasks that write the row without that lock, and the loss and   *)
(* restart of zun-compute.                                                 *)
(*                                                                         *)
(* Rows of different containers share nothing this module speaks of, so    *)
(* one row is modelled.  Every handler works on its own copy of the row:   *)
(* a copy is the row as read plus the set of fields assigned since (the    *)
(* versioned object's changes, which travel with it over RPC); save()      *)
(* writes these fields and no other.                                       *)
(***************************************************************************)
EXTENDS Naturals, FiniteSets

CONSTANTS
    Ops,           \* the requests users make, a subset of AllOps
    Faults,        \* the external calls that may fail, a subset of AllFaults
    AutoRemove,    \* the values of auto_remove that are asked for
    AutoHeal,      \* Container.auto_heal
    HasResources,  \* the container asks for memory, cpu, disk or PCI devices
    ResumeState,   \* CONF.compute.resume_container_state
    SyncEnabled,   \* CONF.sync_container_state_interval is not negative
    MaxRequests,   \* bound on the requests users make
    MaxIds,        \* bound on the Docker containers ever created
    MaxCrashes,    \* bound on the losses of the zun-compute process
    MaxVanish      \* bound on removals of the Docker container by others

Statuses == {"Error", "Running", "Stopped", "Paused", "Unknown", "Creating",
             "Created", "Deleted", "Deleting", "Rebuilding", "Dead",
             "Restarting"}

NoTask == "none"

Tasks == {NoTask, "container_creating", "container_starting",
          "container_deleting", "container_stopping", "container_rebooting",
          "container_pausing", "container_unpausing", "container_killing",
          "sg_adding", "sg_removing", "network_attaching",
          "network_detaching", "container_rebuilding"}

\* Requests that act on an existing container; "create" is made by Post.
AllOps == {"start", "stop", "pause", "unpause", "kill", "reboot", "rebuild",
           "delete", "delete_force", "delete_after_stop",
           "add_security_group", "remove_security_group", "network_attach",
           "network_detach", "show"}

\* "schedule": no valid host, or the claim is refused there; "volume": Cinder;
\* "pull": the image; "create": Docker create or the networks of the new
\* container; "docker": any other call to Docker or Neutron; "network": what
\* the network driver does once a container runs; "placement": the allocation.
AllFaults == {"schedule", "volume", "pull", "create", "docker", "network",
              "placement"}

ASSUME OpsAssumption == Ops \subseteq AllOps
ASSUME FaultsAssumption == Faults \subseteq AllFaults
ASSUME FlagsAssumption ==
    AutoRemove \subseteq BOOLEAN /\ AutoHeal \in BOOLEAN /\ HasResources \in BOOLEAN
        /\ ResumeState \in BOOLEAN /\ SyncEnabled \in BOOLEAN
ASSUME BoundsAssumption ==
    MaxRequests \in Nat \ {0} /\ MaxIds \in Nat /\ MaxCrashes \in Nat
        /\ MaxVanish \in Nat

VARIABLES
    row,      \* the row in the database
    docker,   \* the Docker container named zun-<uuid>
    calls,    \* API handlers in progress and casts not yet taken by a thread
    worker,   \* the thread holding the container's lock, or Idle
    sync,     \* the sync_container_state periodic task
    svc,      \* zun-compute: down, running init_containers, or up
    initial,  \* the copy init_containers read
    used,     \* how much of each bound is spent
    auto_remove  \* Container.auto_remove, given at the creation

\* What steps change.
changing == <<row, docker, calls, worker, sync, svc, initial, used>>

vars == <<row, docker, calls, worker, sync, svc, initial, used, auto_remove>>

-----------------------------------------------------------------------------
(* Rows and copies                                                          *)

Fields == {"status", "task", "host", "cid"}

\* host: TRUE for this compute host, FALSE for NULL. cid: 0 for NULL.
Rows == [exists : BOOLEAN, status : Statuses, task : Tasks, host : BOOLEAN,
         cid : 0..MaxIds]

Copies == [status : Statuses, task : Tasks, host : BOOLEAN, cid : 0..MaxIds,
           dirty : SUBSET Fields]

\* Any copy will do where there is nothing to remember.
NoCopy == [status |-> "Creating", task |-> NoTask, host |-> FALSE, cid |-> 0,
           dirty |-> {}]

\* get_by_uuid, list: a copy with no changes.
Snapshot ==
    [status |-> row.status, task |-> row.task, host |-> row.host,
     cid |-> row.cid, dirty |-> {}]

\* Assignment to a field: the object lists it among its changes, also when the
\* value is the one it had (the setter of a versioned object, external).
SetStatus(c, s) == [c EXCEPT !.status = s, !.dirty = @ \cup {"status"}]

SetTask(c, t) == [c EXCEPT !.task = t, !.dirty = @ \cup {"task"}]

SetHost(c, h) == [c EXCEPT !.host = h, !.dirty = @ \cup {"host"}]

SetCid(c, i) == [c EXCEPT !.cid = i, !.dirty = @ \cup {"cid"}]

\* What save() makes of the row: the changed columns and no other.
Saved(c) ==
    [exists |-> TRUE,
     status |-> IF "status" \in c.dirty THEN c.status ELSE row.status,
     task |-> IF "task" \in c.dirty THEN c.task ELSE row.task,
     host |-> IF "host" \in c.dirty THEN c.host ELSE row.host,
     cid |-> IF "cid" \in c.dirty THEN c.cid ELSE row.cid]

\* What save() makes of the copy.
Clean(c) == [c EXCEPT !.dirty = {}]

Gone == [row EXCEPT !.exists = FALSE]

-----------------------------------------------------------------------------
(* Docker (external)                                                        *)

DockerStates == {"absent", "created", "running", "paused", "exited", "dead"}

\* id tells one Docker container from the one a rebuild puts in its place.
Dockers == [state : DockerStates, id : 0..MaxIds]

\* A container that ran and ended; Docker removes it when auto_remove is set.
Ended(d) ==
    [d EXCEPT !.state = IF auto_remove THEN "absent" ELSE "exited"]

\* The container a copy's container_id names is there.
Found(c, d) == c.cid # 0 /\ d.id = c.cid /\ d.state # "absent"

\* Mutant: a container that ended keeps its status.
ListStatus_KeepsExited(s, d) ==
    CASE d.state = "paused" -> "Paused"
      [] d.state = "running" -> "Running"
      [] d.state = "dead" -> "Dead"
      [] OTHER -> s

\* _populate_container_state on the string state of a list entry.
ListStatus(s, d) ==
    CASE d.state = "paused" -> "Paused"
      [] d.state = "running" -> "Running"
      [] d.state = "dead" -> "Dead"
      [] d.state = "exited" -> "Stopped"
      [] d.state = "created" /\ s = "Creating" -> "Created"
      [] d.state = "created"
            /\ s \in {"Created", "Restarting", "Error", "Rebuilding"} -> s
      [] OTHER -> "Unknown"

\* _populate_container_state on the state record of an inspected container; one
\* that was created and not started has its status assigned only once.
Inspected(c, d) ==
    CASE d.state = "paused" -> SetStatus(c, "Paused")
      [] d.state = "running" -> SetStatus(c, "Running")
      [] d.state = "dead" -> SetStatus(c, "Dead")
      [] d.state = "exited" -> SetStatus(c, "Stopped")
      [] d.state = "created" /\ c.status = "Creating" -> SetStatus(c, "Created")
      [] OTHER -> c

\* Mutant: handle_not_found writes a status the model does not know.
MissingStatus_Unlisted(c) ==
    IF c.status = "Deleting" THEN c ELSE SetStatus(c, "Missing")

\* handle_not_found: the status a container missing in Docker is given.
MissingStatus(c) ==
    IF c.status = "Deleting" THEN c
    ELSE SetStatus(c, IF auto_remove THEN "Deleted" ELSE "Error")

-----------------------------------------------------------------------------
(* Requests                                                                 *)

CallOps == (AllOps \ {"delete_force", "delete_after_stop"}) \cup {"create"}

\* phase "api": the handler read the row and has yet to act on it; "cast": the
\* message is queued or its thread waits for the lock; "save": container_show
\* looked at Docker and has yet to save.  id 0 marks a thread that zun-compute
\* spawned itself.
Calls == [id : 0..(MaxRequests + 1), op : CallOps, force : BOOLEAN,
          run : BOOLEAN, phase : {"api", "cast", "save"}, copy : Copies]

Call(id, op, phase, c) ==
    [id |-> id, op |-> op, force |-> FALSE, run |-> FALSE, phase |-> phase,
     copy |-> c]

Forced(c) == [c EXCEPT !.force = TRUE]

VALID_STATES ==
    [delete |-> {"Created", "Error", "Stopped", "Deleted", "Dead"},
     delete_force |-> {"Created", "Creating", "Error", "Running", "Stopped",
                       "Unknown", "Deleted", "Dead", "Restarting",
                       "Rebuilding", "Deleting"},
     delete_after_stop |-> {"Running", "Created", "Error", "Stopped",
                            "Deleted", "Dead"},
     start |-> {"Created", "Stopped", "Error"},
     stop |-> {"Running"},
     reboot |-> {"Created", "Running", "Stopped", "Error"},
     rebuild |-> {"Created", "Running", "Stopped", "Error"},
     pause |-> {"Running"},
     unpause |-> {"Paused"},
     kill |-> {"Running"},
     add_security_group |-> {"Created", "Running", "Stopped", "Paused"},
     remove_security_group |-> {"Created", "Running", "Stopped", "Paused"},
     network_attach |-> Statuses,
     network_detach |-> Statuses,
     show |-> Statuses]

NextId == used.requests + 1

\* A handler reads the row, validates it and, unless it has more to do with the
\* row first, casts the copy it read.
ApiRequest(op) ==
    /\ row.exists
    /\ used.requests < MaxRequests
    /\ row.status \in VALID_STATES[op]
    /\ op = "show" => row.host
    /\ used' = [used EXCEPT !.requests = @ + 1]
    /\ LET c == Call(NextId, op, "cast", Snapshot)
           d == Call(NextId, "delete", "api", Snapshot)
       IN calls' = calls \cup
              CASE op = "delete" -> {d}
                [] op = "delete_force" -> {Forced(d)}
                [] op = "delete_after_stop" ->
                     {d} \cup IF row.status = "Running"
                              THEN {[c EXCEPT !.op = "stop"]} ELSE {}
                [] op = "rebuild" ->
                     {[c EXCEPT !.phase = "api", !.run = row.status = "Running"]}
                [] op = "reboot" -> {[c EXCEPT !.phase = "api"]}
                [] OTHER -> {c}
    /\ UNCHANGED <<row, docker, worker, sync, svc, initial>>

Drop(c) == calls' = calls \ {c}

Replace(c, d) == calls' = (calls \ {c}) \cup {d}

\* compute API container_create: the scheduler finds a host and the create is
\* cast to it, or it finds none and the row says so, or the host that was asked
\* for does not exist and the row is destroyed.
ApiCreate(c) ==
    /\ c.op = "create" /\ c.phase = "api"
    /\ \/ /\ Replace(c, [c EXCEPT !.phase = "cast"])
          /\ UNCHANGED row
       \/ /\ "schedule" \in Faults
          /\ row' \in {Gone, IF row.exists
                             THEN Saved(SetStatus(c.copy, "Error")) ELSE row}
          /\ Drop(c)
    /\ UNCHANGED <<docker, worker, sync, svc, initial, used>>

\* delete: DELETING is set on the copy only, and travels with the cast; a row
\* without a host is destroyed here; the cast is refused when the host's
\* service is not seen up.
ApiDelete(c) ==
    /\ c.op = "delete" /\ c.phase = "api"
    /\ \/ /\ c.copy.host
          /\ Replace(c, [c EXCEPT !.phase = "cast",
                                  !.copy = SetStatus(@, "Deleting")])
          /\ UNCHANGED row
       \/ /\ c.copy.host /\ svc # "up"
          /\ Drop(c)
          /\ UNCHANGED row
       \/ /\ ~c.copy.host
          /\ row' = Gone
          /\ Drop(c)
    /\ UNCHANGED <<docker, worker, sync, svc, initial, used>>

\* rebuild and reboot save a transitional status before they cast.
ApiTransition(c) ==
    /\ c.op \in {"rebuild", "reboot"} /\ c.phase = "api"
    /\ LET d == SetStatus(c.copy, IF c.op = "rebuild" THEN "Rebuilding"
                                  ELSE "Restarting")
       IN IF row.exists
          THEN /\ row' = Saved(d)
               /\ Replace(c, [c EXCEPT !.phase = "cast", !.copy = Clean(d)])
          ELSE /\ Drop(c)
               /\ UNCHANGED row
    /\ UNCHANGED <<docker, worker, sync, svc, initial, used>>

-----------------------------------------------------------------------------
(* The thread that holds the container's lock                               *)

TaskOf ==
    [create |-> "container_creating", start |-> "container_starting",
     stop |-> "container_stopping", pause |-> "container_pausing",
     unpause |-> "container_unpausing", kill |-> "container_killing",
     reboot |-> "container_rebooting", rebuild |-> "container_rebuilding",
     delete |-> "container_deleting", add_security_group |-> "sg_adding",
     remove_security_group |-> "sg_removing",
     network_attach |-> "network_attaching",
     network_detach |-> "network_detaching"]

WorkerOps == DOMAIN TaskOf

Pcs == {"idle", "claim", "begin", "pull", "create", "createSave", "rebuilt",
        "remove", "docker", "started", "notfound", "fail", "finish",
        "destroy"}

\* own: this thread assigned the task state and will reset it; unset: the
\* failure also takes the host away; failed: an exception is being raised.
Workers == [pc : Pcs, op : WorkerOps, force : BOOLEAN, run : BOOLEAN,
            own : BOOLEAN, unset : BOOLEAN, failed : BOOLEAN, copy : Copies]

Idle == [pc |-> "idle", op |-> "create", force |-> FALSE, run |-> FALSE,
         own |-> FALSE, unset |-> FALSE, failed |-> FALSE, copy |-> NoCopy]

\* save() and go on as w, or end with ContainerNotFound: every handler of that
\* exception saves again, so it leaves the thread without another effect.
SaveAndGo(c, w) ==
    IF row.exists
    THEN /\ row' = Saved(c)
         /\ worker' = IF w.pc = "idle" THEN Idle
                      ELSE [w EXCEPT !.copy = Clean(c)]
    ELSE /\ worker' = Idle
         /\ UNCHANGED row

Goto(pc) == [worker EXCEPT !.pc = pc]

\* spawn_n of a handler's closure, once the lock is free.
WorkerTake(c) ==
    /\ svc = "up" /\ worker.pc = "idle"
    /\ c.phase = "cast" /\ c.op \in WorkerOps
    /\ worker' = [Idle EXCEPT !.pc = IF c.op = "create" THEN "claim" ELSE "begin",
                              !.op = c.op, !.force = c.force, !.run = c.run,
                              !.copy = c.copy]
    /\ Drop(c)
    /\ UNCHANGED <<row, docker, sync, svc, initial, used>>

\* container_create up to the claim: waiting for and attaching volumes, the
\* disk quota check, the claim.  A container that asks for no resource gets a
\* NopClaim, and no host.
Claim ==
    /\ worker.pc = "claim"
    /\ \/ /\ Faults \cap {"schedule", "volume"} # {}
          /\ SaveAndGo(SetHost(SetStatus(worker.copy, "Error"), FALSE), Idle)
       \/ /\ HasResources
          /\ SaveAndGo(SetHost(worker.copy, TRUE), Goto("begin"))
       \/ /\ ~HasResources
          /\ worker' = Goto("begin")
          /\ UNCHANGED row
    /\ UNCHANGED <<docker, calls, sync, svc, initial, used>>

\* Where a handler goes once _update_task_state has yielded.
BodyOf(op) ==
    CASE op = "create" -> "pull"
      [] op \in {"rebuild", "delete"} -> "remove"
      [] OTHER -> "docker"

\* _update_task_state, up to its yield: it is skipped when the copy, read by the
\* API before, already has a task state.
Begin ==
    /\ worker.pc = "begin"
    /\ IF worker.copy.task # NoTask
       THEN /\ worker' = Goto(BodyOf(worker.op))
            /\ UNCHANGED row
       ELSE SaveAndGo(SetTask(worker.copy, TaskOf[worker.op]),
                      [Goto(BodyOf(worker.op)) EXCEPT !.own = TRUE])
    /\ UNCHANGED <<docker, calls, sync, svc, initial, used>>

\* The image: container.image_driver is saved, or the container fails and keeps
\* its host.
Pull ==
    /\ worker.pc = "pull"
    /\ \/ /\ "pull" \in Faults
          /\ worker' = Goto("fail")
          /\ UNCHANGED row
       \/ SaveAndGo(worker.copy, Goto("create"))
    /\ UNCHANGED <<docker, calls, sync, svc, initial, used>>

\* Mutant: the id Docker answered with is not recorded.
Create_NoId ==
    /\ worker.pc = "create"
    /\ docker.state = "absent" /\ used.ids < MaxIds
    /\ used' = [used EXCEPT !.ids = @ + 1]
    /\ docker' = [state |-> "created", id |-> used.ids + 1]
    /\ worker' = [Goto("createSave") EXCEPT !.copy = SetStatus(@, "Created")]
    /\ UNCHANGED <<row, calls, sync, svc, initial>>

\* driver.create.  The name is taken while another Docker container has it; the
\* networks are set up after Docker created the container.
Create ==
    /\ worker.pc = "create"
    /\ \/ /\ docker.state # "absent" \/ "create" \in Faults
          /\ worker' = [Goto("fail") EXCEPT !.unset = TRUE]
          /\ UNCHANGED <<docker, used>>
       \/ /\ docker.state = "absent" /\ used.ids < MaxIds
          /\ used' = [used EXCEPT !.ids = @ + 1]
          /\ docker' = [state |-> "created", id |-> used.ids + 1]
          /\ LET c == SetCid(worker.copy, used.ids + 1)
             IN \/ worker' = [Goto("createSave") EXCEPT
                       !.copy = Inspected(c, docker')]
                \/ /\ "create" \in Faults
                   /\ worker' = [Goto("fail") EXCEPT !.unset = TRUE, !.copy = c]
    /\ UNCHANGED <<row, calls, sync, svc, initial>>

CreateSave ==
    /\ worker.pc = "createSave"
    /\ SaveAndGo(worker.copy,
                 Goto(IF worker.op = "rebuild" THEN "rebuilt" ELSE "finish"))
    /\ UNCHANGED <<docker, calls, sync, svc, initial, used>>

\* The end of a rebuild: CREATED, and started again if it ran.
Rebuilt ==
    /\ worker.pc = "rebuilt"
    /\ SaveAndGo(SetStatus(worker.copy, "Created"),
                 Goto(IF worker.run THEN "docker" ELSE "finish"))
    /\ UNCHANGED <<docker, calls, sync, svc, initial, used>>

\* Mutant: an error of Docker counts as a removal.
Remove_Ignores ==
    /\ worker.pc = "remove"
    /\ worker' = Goto(IF worker.op = "rebuild" THEN "pull" ELSE "finish")
    /\ docker' \in {docker, [docker EXCEPT !.state = "absent"]}
    /\ UNCHANGED <<row, calls, sync, svc, initial, used>>

\* driver.delete, for a delete and for the first half of a rebuild, and the
\* detaching of volumes.  Docker is asked to remove the container the COPY
\* names; one it does not know counts as removed.
Remove ==
    /\ worker.pc = "remove"
    /\ LET forced == worker.force \/ worker.op = "rebuild"
           found == Found(worker.copy, docker)
           refused == found /\ ~forced /\ docker.state \in {"running", "paused"}
           next == Goto(IF worker.op = "rebuild" THEN "pull" ELSE "finish")
       IN \/ /\ refused \/ "docker" \in Faults
             /\ worker' = Goto("fail")
             /\ \/ UNCHANGED docker
                \/ /\ found /\ ~refused
                   /\ docker' = [docker EXCEPT !.state = "dead"]
          \/ /\ ~refused
             /\ docker' = IF found THEN [docker EXCEPT !.state = "absent"]
                          ELSE docker
             /\ \/ worker' = next
                \/ /\ "volume" \in Faults /\ ~forced
                   /\ worker' = [next EXCEPT !.failed = TRUE]
    /\ UNCHANGED <<row, calls, sync, svc, initial, used>>

\* Operations of the driver that go to Neutron and leave the status alone.
NetworkOps == {"add_security_group", "remove_security_group",
               "network_attach", "network_detach"}

\* The driver operation this thread performs; a rebuild ends with a start.
DriverOp == IF worker.op = "rebuild" THEN "start" ELSE worker.op

\* The states from which Docker accepts an operation (external); Neutron does
\* not look at them.
Accepts(op) ==
    CASE op \in {"start", "reboot"} -> {"created", "exited", "running"}
      [] op = "stop" -> {"created", "exited", "running", "paused"}
      [] op = "kill" -> {"running", "paused"}
      [] op = "pause" -> {"running"}
      [] op = "unpause" -> {"paused"}
      [] OTHER -> DockerStates

\* What a driver operation makes of the Docker container and of the copy's
\* status.  A start whose networks fail is stopped again, if that works; a
\* signal need not end the container.
Effects(op) ==
    LET running == [docker EXCEPT !.state = "running"]
        ended == IF docker.state \in {"running", "paused"} THEN Ended(docker)
                 ELSE docker
    IN CASE op = "start" ->
              {<<running, "Running">>}
                \cup IF "network" \in Faults
                     THEN {<<Ended(running), "Stopped">>, <<running, "Stopped">>}
                     ELSE {}
         [] op = "stop" -> {<<ended, "Stopped">>}
         [] op = "kill" -> {<<ended, "Stopped">>, <<docker, "Stopped">>}
         [] op = "pause" -> {<<[docker EXCEPT !.state = "paused"], "Paused">>}
         [] op \in {"unpause", "reboot"} -> {<<running, "Running">>}
         [] OTHER -> {<<docker, worker.copy.status>>}

\* Only operations on Docker assign the status.
Performed(c, s) == IF DriverOp \in NetworkOps THEN c ELSE SetStatus(c, s)

\* An exception out of the driver: start fails the container, the others leave
\* it as it is.
Raise == [Goto(IF DriverOp = "start" THEN "fail" ELSE "finish")
             EXCEPT !.failed = TRUE]

\* driver.start, stop, pause, ...: check_container_id, wrap_docker_error and
\* the call itself.
DriverCall ==
    /\ worker.pc = "docker"
    /\ LET neutron == DriverOp \in NetworkOps
           here == IF neutron THEN TRUE ELSE Found(worker.copy, docker)
           accepted == docker.state \in Accepts(DriverOp)
       IN \/ /\ worker.copy.cid = 0 /\ ~neutron
             /\ worker' = Raise
             /\ UNCHANGED docker
          \/ /\ worker.copy.cid # 0 /\ ~here
             /\ worker' = Goto("notfound")
             /\ UNCHANGED docker
          \/ /\ here
             /\ ~accepted \/ "docker" \in Faults
             /\ worker' = Raise
             /\ UNCHANGED docker
          \/ /\ here /\ accepted
             /\ \E e \in Effects(DriverOp) :
                   /\ docker' = e[1]
                   /\ worker' = [Goto(IF DriverOp = "start" THEN "started"
                                      ELSE "finish")
                                   EXCEPT !.copy = Performed(@, e[2])]
    /\ UNCHANGED <<row, calls, sync, svc, initial, used>>

\* _do_container_start saves before the task state is reset.
Started ==
    /\ worker.pc = "started"
    /\ SaveAndGo(worker.copy, Goto("finish"))
    /\ UNCHANGED <<docker, calls, sync, svc, initial, used>>

\* handle_not_found, and the exception it raises.
NotFound ==
    /\ worker.pc = "notfound"
    /\ SaveAndGo(MissingStatus(worker.copy), Raise)
    /\ UNCHANGED <<docker, calls, sync, svc, initial, used>>

\* Mutant: the failure is not recorded in the row.
Fail_KeepsStatus ==
    /\ worker.pc = "fail"
    /\ SaveAndGo(worker.copy,
                 [Goto("finish") EXCEPT
                    !.failed = ~(worker.op = "delete" /\ worker.force)])
    /\ UNCHANGED <<docker, calls, sync, svc, initial, used>>

\* _fail_container.  A forced delete goes on.
Fail ==
    /\ worker.pc = "fail"
    /\ LET c == SetStatus(worker.copy, "Error")
       IN SaveAndGo(IF worker.unset THEN SetHost(c, FALSE) ELSE c,
                    [Goto("finish") EXCEPT
                       !.failed = ~(worker.op = "delete" /\ worker.force)])
    /\ UNCHANGED <<docker, calls, sync, svc, initial, used>>

\* Where a thread goes once its task state is reset.
AfterTask ==
    CASE worker.failed -> Idle
      [] worker.op = "delete" -> [Goto("destroy") EXCEPT !.own = FALSE]
      [] worker.op = "create" /\ worker.run ->
           [Goto("begin") EXCEPT !.op = "start", !.own = FALSE]
      [] OTHER -> Idle

\* Mutant: no finally - an exception leaves the task state behind.
Finish_NoFinally ==
    /\ worker.pc = "finish"
    /\ IF worker.own /\ ~worker.failed
       THEN SaveAndGo(SetTask(worker.copy, NoTask), AfterTask)
       ELSE worker' = AfterTask /\ UNCHANGED row
    /\ UNCHANGED <<docker, calls, sync, svc, initial, used>>

\* The finally clause of _update_task_state, for a thread that assigned it.
Finish ==
    /\ worker.pc = "finish"
    /\ IF worker.own
       THEN SaveAndGo(SetTask(worker.copy, NoTask), AfterTask)
       ELSE worker' = AfterTask /\ UNCHANGED row
    /\ UNCHANGED <<docker, calls, sync, svc, initial, used>>

\* The end of a delete: usage, allocation, row.
Destroy ==
    /\ worker.pc = "destroy"
    /\ worker' = Idle
    /\ \/ row' = Gone
       \/ "placement" \in Faults /\ UNCHANGED row
    /\ UNCHANGED <<docker, calls, sync, svc, initial, used>>

WorkerStep ==
    \/ Claim \/ Begin \/ Pull \/ Create \/ CreateSave \/ Rebuilt \/ Remove
    \/ DriverCall \/ Started \/ NotFound \/ Fail \/ Finish \/ Destroy

-----------------------------------------------------------------------------
(* What writes the row without the lock                                     *)

\* container_show: inspect, then save what changed.
ShowInspect(c) ==
    /\ c.op = "show" /\ c.phase = "cast" /\ svc = "up"
    /\ LET missing == MissingStatus(c.copy)
           seen == Inspected(c.copy, docker)
       IN CASE c.copy.cid = 0 -> Drop(c) /\ UNCHANGED row
            [] c.copy.cid # 0 /\ ~Found(c.copy, docker) ->
                 /\ row' = IF row.exists THEN Saved(missing) ELSE row
                 /\ Drop(c)
            [] OTHER ->
                 /\ UNCHANGED row
                 /\ IF c.copy.task = NoTask
                    THEN Replace(c, [c EXCEPT !.phase = "save", !.copy = seen])
                    ELSE Drop(c)
    /\ UNCHANGED <<docker, worker, sync, svc, initial, used>>

ShowSave(c) ==
    /\ c.phase = "save" /\ svc = "up"
    /\ row' = IF row.exists THEN Saved(c.copy) ELSE row
    /\ Drop(c)
    /\ UNCHANGED <<docker, worker, sync, svc, initial, used>>

\* sync_container_state: all is the copy read first, local the one that list()
\* reads after it has asked Docker and populates from what Docker said.
Syncs == [pc : {"idle", "docker", "local", "write", "missing"}, all : Copies,
          local : Copies, seen : Dockers, missing : BOOLEAN]

NoDocker == [state |-> "absent", id |-> 0]

SyncIdle == [pc |-> "idle", all |-> NoCopy, local |-> NoCopy,
             seen |-> NoDocker, missing |-> FALSE]

SyncRead ==
    /\ SyncEnabled
    /\ svc = "up" /\ sync.pc = "idle" /\ row.exists
    /\ sync' = [SyncIdle EXCEPT !.pc = "docker", !.all = Snapshot]
    /\ UNCHANGED <<row, docker, calls, worker, svc, initial, used>>

SyncDocker ==
    /\ sync.pc = "docker"
    /\ sync' = [sync EXCEPT !.pc = "local", !.seen = docker]
    /\ UNCHANGED <<row, docker, calls, worker, svc, initial, used>>

\* Statuses list() does not populate.
Unstable == {"Creating", "Deleting", "Deleted"}

SyncLocal ==
    /\ sync.pc = "local"
    /\ LET listed == row.exists /\ (row.host \/ sync.seen.state # "absent")
           missing == row.status \notin Unstable /\ ~Found(Snapshot, sync.seen)
           populated == row.status \notin Unstable /\ ~missing /\ row.task = NoTask
       IN sync' =
            IF ~listed THEN SyncIdle
            ELSE [sync EXCEPT !.pc = "write", !.missing = missing,
                    !.local = IF populated
                              THEN SetStatus(Snapshot,
                                             ListStatus(row.status, sync.seen))
                              ELSE Snapshot]
    /\ UNCHANGED <<row, docker, calls, worker, svc, initial, used>>

\* A status or a host that differs from what this host sees is assigned.
Synced(c, s) ==
    LET d == IF c.status = s THEN c ELSE SetStatus(c, s)
    IN IF d.host THEN d ELSE SetHost(d, TRUE)

\* update_containers_states, the containers known by the same id in both lists:
\* status first, then host (one step here: the same thread writes both, from
\* copies it has already read).
SyncWrite ==
    /\ sync.pc = "write"
    /\ LET same == sync.all.cid # 0 /\ sync.all.cid = sync.local.cid
           c == Synced(sync.all, sync.local.status)
           rest == IF sync.missing /\ sync.local.host
                   THEN [sync EXCEPT !.pc = "missing"] ELSE SyncIdle
       IN IF same /\ c.dirty # {}
          THEN IF row.exists THEN row' = Saved(c) /\ sync' = rest
               ELSE sync' = SyncIdle /\ UNCHANGED row
          ELSE sync' = rest /\ UNCHANGED row
    /\ UNCHANGED <<docker, calls, worker, svc, initial, used>>

\* A container of this host that Docker does not have: auto_remove marks it
\* deleted, and heal_with_rebuilding_container calls container_rebuild without
\* its run argument - a TypeError that is logged - or sets ERROR.
SyncMissing ==
    /\ sync.pc = "missing"
    /\ sync' = SyncIdle
    /\ LET c == sync.local
           heals == AutoHeal /\ c.status \in VALID_STATES.rebuild
       IN row' = IF ~row.exists THEN row
                 ELSE IF auto_remove THEN Saved(SetStatus(c, "Deleted"))
                 ELSE IF c.cid = 0 \/ heals THEN row
                 ELSE Saved(SetStatus(c, "Error"))
    /\ UNCHANGED <<docker, calls, worker, svc, initial, used>>

SyncStep == SyncRead \/ SyncDocker \/ SyncLocal \/ SyncWrite \/ SyncMissing

\* Mutant: the filter asks for the wrong status.
DeleteUnused_Deleting ==
    /\ svc = "up" /\ auto_remove
    /\ row.exists /\ row.status = "Deleting" /\ row.task = NoTask
    /\ calls' = calls \cup {Forced(Call(0, "delete", "cast", Snapshot))}
    /\ UNCHANGED <<row, docker, worker, sync, svc, initial, used>>

\* delete_unused_containers.
DeleteUnused ==
    /\ svc = "up" /\ auto_remove
    /\ row.exists /\ row.status = "Deleted" /\ row.task = NoTask
    /\ LET c == Forced(Call(0, "delete", "cast", Snapshot))
       IN /\ c \notin calls
          /\ calls' = calls \cup {c}
    /\ UNCHANGED <<row, docker, worker, sync, svc, initial, used>>

-----------------------------------------------------------------------------
(* zun-compute is lost and started again                                    *)

\* Threads die with the process; a cast may still be queued at the broker.
Crash ==
    /\ svc # "down" /\ used.crashes < MaxCrashes
    /\ LET cast == {c \in calls : c.phase = "cast"}
           queued == {c \in cast : c.id # 0}
           threads == {c \in calls : c.phase = "save"} \cup (cast \ queued)
       IN \E lost \in SUBSET queued : calls' = calls \ (threads \cup lost)
    /\ svc' = "down"
    /\ worker' = Idle
    /\ sync' = SyncIdle
    /\ initial' = NoCopy
    /\ used' = [used EXCEPT !.crashes = @ + 1]
    /\ UNCHANGED <<row, docker>>

\* init_containers lists the containers of this host; NoCopy stands for none.
StartService ==
    /\ svc = "down"
    /\ svc' = "init"
    /\ initial' = IF row.exists /\ row.host THEN Snapshot ELSE NoCopy
    /\ UNCHANGED <<row, docker, calls, worker, sync, used>>

\* Task states after which _init_container gives the container up.
GivenUp == {"container_creating", "network_attaching", "network_detaching",
            "sg_adding", "sg_removing"}

\* Mutant: an interrupted stop is not done again.
Retried_NoStop == {"reboot", "start", "pause", "unpause"}

\* The operations _init_container starts again.
Retried == {"reboot", "stop", "start", "pause", "unpause"}

\* _init_container up to the spawning of a thread: the operation it starts
\* again, if any.
RetryOf(c) ==
    CASE c.status = "Deleting" \/ c.task = "container_deleting" -> {"delete"}
      [] OTHER -> {op \in Retried : TaskOf[op] = c.task}

\* restore_running_container: whether Docker stopped a container recorded as
\* running.
Restores(c) ==
    /\ ResumeState
    /\ c.status = "Running" /\ c.task = NoTask
    /\ Found(c, docker) /\ docker.state = "exited"

\* A thread that init_containers spawns works on the object it was given.
Spawned(op, c) ==
    [Call(0, op, "cast", c) EXCEPT !.force = op = "delete"]

\* One container of init_containers, after which the service takes casts.  A
\* container that was being killed raises a TypeError (container_kill without
\* its signal), and a save may find the row gone: the service does not start.
\* Remounting the volumes may fail the container after that.
InitContainer ==
    /\ svc = "init"
    /\ initial' = NoCopy
    /\ LET givenUp == initial.status = "Creating" \/ initial.task \in GivenUp
           retry == RetryOf(initial)
           killed == retry = {} /\ initial.task = "container_killing"
           c == IF retry = {} THEN initial ELSE SetTask(initial, NoTask)
           failed == SetStatus(c, "Error")
       IN \/ /\ ~initial.host
             /\ svc' = "up"
             /\ UNCHANGED <<row, calls>>
          \/ /\ initial.host /\ givenUp
             /\ IF row.exists
                THEN /\ svc' = "up"
                     /\ row' = Saved(SetStatus(SetTask(initial, NoTask), "Error"))
                ELSE svc' = "down" /\ UNCHANGED row
             /\ UNCHANGED calls
          \/ /\ initial.host /\ ~givenUp /\ killed
             /\ svc' = "down"
             /\ UNCHANGED <<row, calls>>
          \/ /\ initial.host /\ ~givenUp /\ ~killed
             /\ svc' = "up"
             /\ calls' = calls \cup {Spawned(op, c) : op \in retry}
                              \cup IF Restores(c) THEN {Spawned("start", c)}
                                   ELSE {}
             /\ UNCHANGED row
          \/ /\ initial.host /\ ~givenUp /\ ~killed
             /\ "volume" \in Faults
             /\ IF row.exists
                THEN /\ svc' = "up"
                     /\ row' = Saved(failed)
                     /\ calls' = calls \cup
                                  {Spawned(op, Clean(failed)) : op \in retry}
                ELSE svc' = "down" /\ UNCHANGED <<row, calls>>
    /\ UNCHANGED <<docker, worker, sync, used>>

-----------------------------------------------------------------------------
(* Docker on its own (external)                                             *)

\* The process of the container ends.
DockerExit ==
    /\ docker.state = "running"
    /\ docker' = Ended(docker)
    /\ UNCHANGED <<row, calls, worker, sync, svc, initial, used>>

\* Someone else removes the Docker container.
DockerVanish ==
    /\ docker.state # "absent" /\ used.vanish < MaxVanish
    /\ docker' = [docker EXCEPT !.state = "absent"]
    /\ used' = [used EXCEPT !.vanish = @ + 1]
    /\ UNCHANGED <<row, calls, worker, sync, svc, initial>>

-----------------------------------------------------------------------------

\* _do_post has created the row and is about to schedule it.
Init ==
    /\ row = [exists |-> TRUE, status |-> "Creating", task |-> NoTask,
              host |-> FALSE, cid |-> 0]
    /\ docker = NoDocker
    /\ \E run \in BOOLEAN :
         calls = {[Call(1, "create", "api", NoCopy) EXCEPT !.run = run]}
    /\ worker = Idle
    /\ sync = SyncIdle
    /\ svc = "up"
    /\ initial = NoCopy
    /\ used = [requests |-> 1, ids |-> 0, crashes |-> 0, vanish |-> 0]
    /\ auto_remove \in AutoRemove

ApiStep(c) == ApiCreate(c) \/ ApiDelete(c) \/ ApiTransition(c)

ShowStep(c) == ShowInspect(c) \/ ShowSave(c)

\* No handler, thread or cast is left, and no periodic task has work.
Terminated ==
    /\ ~row.exists \/ ~SyncEnabled
    /\ calls = {} /\ worker = Idle /\ sync = SyncIdle
    /\ svc = "up"
    /\ UNCHANGED changing

Step ==
    \/ \E op \in Ops : ApiRequest(op)
    \/ \E c \in calls : ApiStep(c) \/ WorkerTake(c) \/ ShowStep(c)
    \/ WorkerStep
    \/ SyncStep
    \/ DeleteUnused
    \/ Crash \/ StartService \/ InitContainer
    \/ DockerExit \/ DockerVanish
    \/ Terminated

Next == Step /\ UNCHANGED auto_remove

Spec == Init /\ [][Next]_vars

\* An API handler ends; a free lock is taken; a thread runs on; the periodic
\* tasks come round; a service that is down is started again.
Fairness ==
    /\ WF_changing(\E c \in calls : ApiStep(c))
    /\ WF_changing(\E c \in calls : WorkerTake(c))
    /\ WF_changing(\E c \in calls : ShowStep(c))
    /\ WF_changing(WorkerStep)
    /\ WF_changing(SyncStep)
    /\ WF_changing(DeleteUnused)
    /\ WF_changing(StartService \/ InitContainer)

FairSpec == Spec /\ Fairness

-----------------------------------------------------------------------------
(* Properties                                                               *)

\* The type invariant.
TypeOK ==
    /\ row \in Rows
    /\ docker \in Dockers
    /\ calls \subseteq Calls
    /\ worker \in Workers
    /\ sync \in Syncs
    /\ svc \in {"down", "init", "up"}
    /\ initial \in Copies
    /\ used \in [requests : 0..MaxRequests, ids : 0..MaxIds,
                  crashes : 0..MaxCrashes, vanish : 0..MaxVanish]
    /\ auto_remove \in AutoRemove

\* A thread that assigned the task state keeps it until it resets it, whatever
\* the unlocked writers of the row and threads with stale copies do; and as long
\* as zun-compute has not been lost, no task state is in the row without the
\* thread that will reset it.
TaskStateOwned ==
    /\ worker.own /\ row.exists => row.task = TaskOf[worker.op]
    /\ used.crashes = 0 /\ row.exists /\ row.task # NoTask => worker.own

\* The row is destroyed only when the Docker container its delete knows of is
\* gone, unless a forced delete went on after Docker failed it.
RemovedBeforeDestroy ==
    worker.pc = "destroy" /\ worker.copy.status # "Error"
        => ~Found(worker.copy, docker)

\* A status that lets users operate the container comes with the id of a Docker
\* container: status and container_id are written by different savers.
OperableHasId ==
    row.status \in {"Created", "Running", "Stopped", "Paused", "Dead"}
        => row.cid # 0

\* The row says what Docker says, unless the sync leaves it alone: a row with a
\* task state (one that a crash left, too) or a status in between.
StatusAgrees ==
    row.exists /\ row.task = NoTask /\ row.status \notin Unstable /\ row.cid # 0
        => /\ Found(row, docker) =>
                /\ docker.state = "running" <=> row.status = "Running"
                /\ docker.state = "paused" <=> row.status = "Paused"
                /\ docker.state = "exited" => row.status = "Stopped"
                /\ docker.state = "dead" => row.status = "Dead"
           /\ ~Found(row, docker) /\ row.host => row.status = "Error" \/ AutoHeal

\* Once requests and losses end, the periodic sync brings the row to what Docker
\* says: "If they are inconsistent, Zun will update the database according to
\* the actual container state".
EventuallyConsistent == <>[]StatusAgrees

\* A task state does not outlive the thread that assigned it: the thread resets
\* it, or init_containers gives the container up or does the operation again.
TaskStateEnds == []<>(row.task = NoTask \/ ~row.exists)

\* A row that a loss of zun-compute left DELETING does not stay so: the restart
\* does the delete again.
DeletingEnds ==
    svc # "up" /\ row.exists /\ row.status = "Deleting"
        ~> ~row.exists \/ row.status # "Deleting"

\* zun-compute comes up again, whatever it finds in the rows of its host.
ServiceComesUp == []<>(svc = "up")

\* No row stays DELETED: delete_unused_containers removes what auto_remove left.
DeletedEnds == []<>(~row.exists \/ row.status # "Deleted")

\* A delete that reached zun-compute ends with the row gone or in ERROR, unless
\* the process is lost, which may lose the cast with it.
DeleteAnswered ==
    (\E c \in calls : c.op = "delete" /\ c.phase = "cast")
        ~> ~row.exists \/ row.status = "Error" \/ used.crashes > 0

\* What a restart promises: the service starts, and neither a task state nor a
\* DELETING that the lost process left behind stays.
RestartRecovers == TaskStateEnds /\ DeletingEnds /\ ServiceComesUp

=============================================================================
