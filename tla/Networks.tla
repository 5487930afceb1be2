------------------------------ MODULE Networks ------------------------------
(***************************************************************************)
(* The networks of the containers of one compute host with the Kuryr       *)
(* driver: the Docker network made on demand for a Neutron network, with   *)
(* the table row by which concurrent requests agree on its maker, and the  *)
(* Neutron ports and the security group of every container, from its       *)
(* creation through attach, detach and rebuild to its deletion.            *)
(*                                                                         *)
(* One thread serves a container at a time (the lock on its uuid); threads *)
(* of different containers, and the calls of the networks API, interleave  *)
(* between any two calls of Docker, Neutron and the database.  A request   *)
(* carries the copy of the container that the API read.                    *)
(***************************************************************************)
EXTENDS Integers, Sequences, FiniteSets, SequencesExt, Functions

CONSTANTS
    Containers,     \* the containers, one thread each
    Nets,           \* the Neutron networks, each with a usable subnet
    External,       \* those of them that are external and not shared
    UserPorts,      \* the ports that users made beforehand
    NetOf,          \* UserPorts -> Nets
    ProjectOf,      \* the project of every container and of the administrator
    Exposed,        \* the containers created with exposed_ports
    CanFail,        \* the calls that may fail (members of AllFaults)
    MaxFaults,      \* bound: failing calls of a behaviour
    MaxRequests,    \* bound: requests about every container and network
    MaxEvents,      \* bound: requests and failing calls together
    Wishes,         \* bound: the networks asked for a container
    MaxNets,        \* bound: networks a container is created with
    MaxPorts,       \* bound: ports Zun makes
    MaxIds          \* bound: fresh ids per network and per container

Admin == "admin"

Threads == Containers \cup {Admin}

AllFaults == {"subnets", "mknet", "rule", "port", "create", "connect",
              "disconnect", "crash"}

ASSUME NetworksAssumption ==
    /\ {Admin, "none"} \cap Containers = {}
    /\ IsFiniteSet(Nets)
    /\ External \subseteq Nets
    /\ NetOf \in [UserPorts -> Nets]
    /\ Threads \subseteq DOMAIN ProjectOf
    /\ Exposed \subseteq Containers
    /\ CanFail \subseteq AllFaults
    /\ {MaxFaults, MaxEvents, MaxPorts, MaxIds} \subseteq Nat
    /\ MaxRequests \in [Threads -> Nat]
    /\ Wishes \in [Containers -> SUBSET Nets]
    /\ MaxNets \in [Containers -> 1..2]
    /\ UserPorts \cap 0..MaxPorts = {}

VARIABLES
    dnet,       \* the Docker networks of every Neutron network, by Id
    netrow,     \* the row of every Neutron network, for this host
    port,       \* the ports Neutron knows
    group,      \* the security groups Zun made that still exist
    docker,     \* the containers Docker holds, with the networks they joined
    row,        \* the containers' rows
    queue,      \* the casts on their way to zun-compute
    job,        \* what every thread is doing
    spoilt,     \* containers that met what the code does not recover from
    used        \* how far the bounds are used up

vars == <<dnet, netrow, port, group, docker, row, queue, job, spoilt, used>>

-----------------------------------------------------------------------------
(* Records *)

NoPort == 0

Ports == UserPorts \cup 1..MaxPorts

\* container.addresses: per network a port and its preserve_on_delete flag.
NoAddress == [port |-> NoPort, keep |-> FALSE]

Addresses == [Nets -> [port : Ports \cup {NoPort}, keep : BOOLEAN]]

NoAddresses == [n \in Nets |-> NoAddress]

Attached(addr) == {n \in Nets : addr[n].port # NoPort}

PortsOf(addr) == {addr[n].port : n \in Attached(addr)}

Requested == [net : Nets, port : Ports \cup {NoPort}, keep : BOOLEAN]

Ops == {"create", "attach", "detach", "add_group", "remove_group", "rebuild",
        "delete"}

\* What a cast carries: the copy of the container and the arguments.
Message(op, c, nets) ==
    [op |-> op, c |-> c, nets |-> nets, addr |-> row[c].addr,
     groups |-> row[c].groups, cid |-> row[c].cid]

NoJob == [pc |-> "idle", op |-> "none", nets |-> <<>>, i |-> 1,
          addr |-> NoAddresses, groups |-> <<>>, cid |-> FALSE, left |-> {},
          try |-> 1, uuid |-> 0, id |-> 0, new |-> NoAddress, error |-> "no",
          dirty |-> FALSE, unset |-> FALSE]

NoRow == [uuid |-> 0, id |-> 0, project |-> "none"]

\* Fresh ids, for the rows and the Docker networks of a Neutron network and for
\* the groups of a container.
NextId(x) == used.ids[x] + 1

UseId(x) == [used EXCEPT !.ids[x] = @ + 1]

Events == FoldFunction(+, used.faults, used.requests)

Fault(f) ==
    /\ f \in CanFail
    /\ used.faults < MaxFaults /\ Events < MaxEvents
    /\ used' = [used EXCEPT !.faults = @ + 1]

Accept(t) ==
    /\ used.requests[t] < MaxRequests[t] /\ Events < MaxEvents
    /\ used' = [used EXCEPT !.requests[t] = @ + 1]

-----------------------------------------------------------------------------
(* The API *)

\* NeutronAPI.ensure_neutron_port_usable: nobody's device.
ensure_neutron_port_usable(p) == port[p].exists /\ port[p].device = "none"

\* An external network that is not shared is refused to everyone without the
\* policy for it.
check_external_network_attach(n) == n \notin External

\* The request a user's argument becomes: a port is preserved when the
\* container goes, a network gets a port of Zun's own.
build_requested_networks(c) ==
    {r \in {[net |-> NetOf[p], port |-> p, keep |-> TRUE] :
              p \in {q \in UserPorts : ensure_neutron_port_usable(q)}}
           \cup {[net |-> n, port |-> NoPort, keep |-> FALSE] : n \in Nets} :
       r.net \in Wishes[c] /\ check_external_network_attach(r.net)}

Pending(c) == job[c].pc # "idle" \/ \E m \in queue : m.c = c

Cast(op, c, nets) ==
    /\ Accept(c)
    /\ queue' = queue \cup {Message(op, c, nets)}
    /\ spoilt' = IF Pending(c) THEN spoilt \cup {c} ELSE spoilt
    /\ UNCHANGED <<dnet, netrow, port, group, docker, job>>

\* POST /containers with one network or two.
Post(c) ==
    /\ row[c].st = "none"
    /\ \E a, b \in build_requested_networks(c) :
          /\ a # b => MaxNets[c] > 1
          /\ Cast("create", c, IF a = b THEN <<a>> ELSE <<a, b>>)
          /\ row' = [row EXCEPT ![c].st = "creating", ![c].host = TRUE]

\* POST /containers/<c>/network_attach
NetworkAttach(c) ==
    /\ row[c].st \in {"created", "error"} /\ row[c].addr # NoAddresses
    /\ \E r \in build_requested_networks(c) :
          /\ r.net \notin Attached(row[c].addr)
          /\ Cast("attach", c, <<r>>)
    /\ UNCHANGED row

\* POST /containers/<c>/network_detach, by network or by port.
NetworkDetach(c) ==
    /\ row[c].st \in {"created", "error"}
    /\ \E n \in Attached(row[c].addr) :
          Cast("detach", c, <<[net |-> n, port |-> row[c].addr[n].port,
                               keep |-> FALSE]>>)
    /\ UNCHANGED row

\* The user's security group, one for everybody.
UserGroup == MaxIds + 1

AddSecurityGroup(c) ==
    /\ row[c].st = "created"
    /\ ~Contains(row[c].groups, UserGroup)
    /\ Cast("add_group", c, <<>>)
    /\ UNCHANGED row

RemoveSecurityGroup(c) ==
    /\ row[c].st = "created"
    /\ Contains(row[c].groups, UserGroup)
    /\ Cast("remove_group", c, <<>>)
    /\ UNCHANGED row

Rebuild(c) ==
    /\ row[c].st \in {"created", "error"}
    /\ Cast("rebuild", c, <<>>)
    /\ UNCHANGED row

\* DELETE /containers/<c>: without a host only the row goes.
Delete(c) ==
    /\ row[c].st \in {"created", "error"}
    /\ IF row[c].host
       THEN Cast("delete", c, <<>>) /\ UNCHANGED row
       ELSE /\ row' = [row EXCEPT ![c].st = "gone"]
            /\ UNCHANGED <<dnet, netrow, port, group, docker, queue, job,
                           spoilt, used>>

\* POST /networks and DELETE /networks/<n>, answered by this host; the row to
\* delete is read by the API.
AdminRequest(op, n) ==
    /\ job[Admin].pc = "idle"
    /\ Accept(Admin)
    /\ job' = [job EXCEPT ![Admin] =
                 [NoJob EXCEPT !.op = op, !.uuid = netrow[n].uuid,
                    !.nets = <<[net |-> n, port |-> NoPort, keep |-> FALSE]>>,
                    !.pc = IF op = "net_create" THEN "subnets" ELSE "rmnet"]]
    /\ UNCHANGED <<dnet, netrow, port, group, docker, row, queue, spoilt>>

NetworkPost(n) == AdminRequest("net_create", n)

NetworkDelete(n) == netrow[n].uuid # 0 /\ AdminRequest("net_delete", n)

ApiStep ==
    \/ \E c \in Containers :
          \/ Post(c) \/ NetworkAttach(c) \/ NetworkDetach(c)
          \/ AddSecurityGroup(c) \/ RemoveSecurityGroup(c)
          \/ Rebuild(c) \/ Delete(c)
    \/ \E n \in Nets : NetworkPost(n) \/ NetworkDelete(n)

-----------------------------------------------------------------------------
(* The threads of zun-compute *)

Net(t) == job[t].nets[job[t].i].net

Set(t, j) == job' = [job EXCEPT ![t] = j]

Goto(t, pc) == Set(t, [job[t] EXCEPT !.pc = pc])

Done(t) == Set(t, NoJob)

Finishes == {"create", "rebuild", "delete"}

\* An exception: creation, rebuild and deletion fail the container, the rest
\* leaves the row as it was.
Raised(t, unset) ==
    IF job[t].op \in Finishes
    THEN [job[t] EXCEPT !.pc = "fail", !.unset = unset]
    ELSE NoJob

Raise(t) == Set(t, Raised(t, TRUE))

FirstPc(m) ==
    CASE m.op \in {"create", "attach"} -> "check"
      [] m.op \in {"detach", "delete"} -> "leave"
      [] OTHER -> m.op

\* A thread takes the lock on the container's uuid.
Take(c) ==
    /\ job[c].pc = "idle"
    /\ \E m \in queue :
          /\ m.c = c
          /\ queue' = queue \ {m}
          /\ Set(c, [NoJob EXCEPT
                !.op = m.op, !.nets = m.nets, !.addr = m.addr,
                !.groups = m.groups, !.cid = m.cid, !.pc = FirstPc(m),
                !.left = IF m.op = "detach" THEN {m.nets[1].net}
                         ELSE Attached(m.addr)])
    /\ UNCHANGED <<dnet, netrow, port, group, docker, row, spoilt, used>>

\* When the Docker network for nets[i] is there: the next one, or what the
\* networks are for.
Provisioned(t) ==
    LET j == job[t] IN
    IF j.i < Len(j.nets) THEN [j EXCEPT !.i = @ + 1, !.pc = "check"]
    ELSE IF j.op \in {"create", "rebuild"} THEN [j EXCEPT !.pc = "expose"]
    ELSE IF j.op = "attach" THEN [j EXCEPT !.i = 1, !.pc = "connect"]
    ELSE NoJob

\* KuryrNetwork.get_or_create_network asks Docker first.
get_or_create_network(t) ==
    /\ job[t].pc = "check"
    /\ IF job[t].nets = <<>> THEN Goto(t, "expose")
       ELSE Set(t, IF dnet[Net(t)] # {} THEN Provisioned(t)
                   ELSE [job[t] EXCEPT !.pc = "subnets", !.try = 1])
    /\ UNCHANGED <<dnet, netrow, port, group, docker, row, queue, spoilt, used>>

\* KuryrNetwork.create_network reads the network and its subnets.
create_network(t) ==
    /\ job[t].pc = "subnets"
    /\ \/ Goto(t, "attempt") /\ UNCHANGED used
       \/ Fault("subnets") /\ Raise(t)
    /\ UNCHANGED <<dnet, netrow, port, group, docker, row, queue, spoilt>>

\* ZunNetwork.list filters by the project of the context.
Visible(t, r) == r.uuid # 0 /\ (t = Admin \/ r.project = ProjectOf[t])

\* Mutant: the loser of the race takes the winner's row for granted.
CreateRow_NotUnique(t) ==
    /\ job[t].pc = "attempt"
    /\ NextId(Net(t)) <= MaxIds
    /\ used' = UseId(Net(t))
    /\ netrow' = [netrow EXCEPT ![Net(t)] =
                    [uuid |-> NextId(Net(t)), id |-> 0, project |-> ProjectOf[t]]]
    /\ Set(t, [job[t] EXCEPT !.pc = "mknet", !.uuid = NextId(Net(t))])
    /\ UNCHANGED <<dnet, port, group, docker, row, queue, spoilt>>

\* The database's create_network, which the unique constraint guards.
InsertNetwork(t) ==
    netrow' = [netrow EXCEPT ![Net(t)] =
                 [uuid |-> NextId(Net(t)), id |-> 0, project |-> ProjectOf[t]]]

\* _create_network_attempt: the row is unique per network and host, so that
\* its creator alone goes on to Docker.
CreateRow(t) ==
    /\ job[t].pc = "attempt"
    /\ netrow[Net(t)].uuid = 0
    /\ NextId(Net(t)) <= MaxIds
    /\ used' = UseId(Net(t))
    /\ InsertNetwork(t)
    /\ Set(t, [job[t] EXCEPT !.pc = "mknet", !.uuid = NextId(Net(t))])
    /\ UNCHANGED <<dnet, port, group, docker, row, queue, spoilt>>

MaxAttempts == 3

\* NetworkAlreadyExists: either the row and Docker agree, or another request
\* may be about to make the network, and this one tries again.
AlreadyExists(t) ==
    LET r == netrow[Net(t)] IN
    /\ job[t].pc = "attempt"
    /\ r.uuid # 0
    /\ Set(t, IF Visible(t, r) /\ r.id # 0 /\ r.id \in dnet[Net(t)]
              THEN Provisioned(t)
              ELSE IF job[t].try < MaxAttempts
                   THEN [job[t] EXCEPT !.try = @ + 1]
                   ELSE Raised(t, TRUE))
    /\ UNCHANGED <<dnet, netrow, port, group, docker, row, queue, spoilt, used>>

\* destroy_network: by uuid.
DestroyRow(n, uuid) ==
    netrow' = IF netrow[n].uuid = uuid THEN [netrow EXCEPT ![n] = NoRow]
              ELSE netrow

\* docker.create_network; on an error the row goes.
MakeNetwork(t) ==
    /\ job[t].pc = "mknet"
    /\ \/ /\ NextId(Net(t)) <= MaxIds
          /\ used' = UseId(Net(t))
          /\ dnet' = [dnet EXCEPT ![Net(t)] = @ \cup {NextId(Net(t))}]
          /\ Set(t, [job[t] EXCEPT !.pc = "saveid", !.id = NextId(Net(t))])
          /\ UNCHANGED netrow
       \/ /\ Fault("mknet")
          /\ DestroyRow(Net(t), job[t].uuid)
          /\ Raise(t)
          /\ UNCHANGED dnet
    /\ UNCHANGED <<port, group, docker, row, queue, spoilt>>

\* The database's update_network, by uuid.
UpdateNetwork(t) == netrow' = [netrow EXCEPT ![Net(t)].id = job[t].id]

\* network.save: NetworkNotFound when the row was deleted meanwhile.
SaveNetworkId(t) ==
    /\ job[t].pc = "saveid"
    /\ IF netrow[Net(t)].uuid = job[t].uuid
       THEN UpdateNetwork(t) /\ Set(t, Provisioned(t))
       ELSE Raise(t) /\ UNCHANGED netrow
    /\ UNCHANGED <<dnet, port, group, docker, row, queue, spoilt, used>>

\* remove_network: Docker's network by name, which Docker refuses when there
\* is none, or when a container that runs uses it, ...
RemoveNetwork(t) ==
    LET busy == \E c \in Containers : Net(t) \in docker[c].joined IN
    /\ job[t].pc = "rmnet"
    /\ \/ /\ dnet[Net(t)] = {} \/ busy
          /\ Done(t) /\ UNCHANGED dnet
       \/ /\ dnet[Net(t)] # {}
          /\ dnet' = [dnet EXCEPT ![Net(t)] = @ \ {CHOOSE i \in @ : TRUE}]
          /\ Goto(t, "rmrow")
    /\ UNCHANGED <<netrow, port, group, docker, row, queue, spoilt, used>>

\* ... then the row the API read.
RemoveNetworkRow(t) ==
    /\ job[t].pc = "rmrow"
    /\ DestroyRow(Net(t), job[t].uuid)
    /\ Done(t)
    /\ UNCHANGED <<dnet, port, group, docker, row, queue, spoilt, used>>

NetworkStep(t) ==
    \/ get_or_create_network(t) \/ create_network(t) \/ CreateRow(t)
    \/ AlreadyExists(t) \/ MakeNetwork(t) \/ SaveNetworkId(t)
    \/ RemoveNetwork(t) \/ RemoveNetworkRow(t)

-----------------------------------------------------------------------------
(* Ports and security groups of a container *)

\* expose_ports: a group of the container's own; when a rule cannot be made
\* the group goes again.
_process_exposed_ports(c) ==
    /\ job[c].pc = "expose"
    /\ IF c \notin Exposed THEN Goto(c, "first") /\ UNCHANGED <<group, used>>
       ELSE \/ /\ NextId(c) <= MaxIds
               /\ used' = UseId(c)
               /\ group' = [group EXCEPT ![c] = @ \cup {NextId(c)}]
               /\ Set(c, [job[c] EXCEPT !.pc = "first",
                                        !.groups = Append(@, NextId(c))])
            \/ Fault("rule") /\ Raise(c) /\ UNCHANGED group
    /\ UNCHANGED <<dnet, netrow, port, docker, row, queue, spoilt>>

\* network_attach and create pass the groups of their copy on.
PortGroups(c) == ToSet(job[c].groups)

\* utils.get_security_group_ids: every group the container names is there.
GroupsFound(c) == ToSet(job[c].groups) \subseteq group[c] \cup {UserGroup}

FreePorts == {p \in 1..MaxPorts : ~port[p].exists /\ port[p].maker = "none"}

\* NeutronAPI.create_or_update_port: a given port gets the container as its
\* device, whoever had it; otherwise a new one is made.
PortFor(c, r, p) ==
    /\ IF r.port # NoPort
       THEN /\ p = r.port /\ port[p].exists
            /\ port' = [port EXCEPT ![p].device = c]
       ELSE /\ FreePorts # {}
            /\ p = CHOOSE q \in FreePorts : \A o \in FreePorts : q <= o
            /\ port' = [port EXCEPT ![p] = [exists |-> TRUE, device |-> c,
                          maker |-> c, groups |-> PortGroups(c)]]

\* A port that is gone cannot be updated, and Neutron may refuse.
PortFails(c, r) ==
    /\ \/ /\ GroupsFound(c) => r.port # NoPort /\ ~port[r.port].exists
          /\ UNCHANGED used
       \/ Fault("port")
    /\ Raise(c)
    /\ UNCHANGED port

\* process_networking_config, for the last network of the request: the
\* addresses start afresh.
process_networking_config(c) ==
    LET r == Last(job[c].nets) IN
    /\ job[c].pc = "first"
    /\ \/ job[c].nets = <<>> /\ Raise(c) /\ UNCHANGED <<port, used>>
       \/ job[c].nets # <<>> /\ PortFails(c, r)
       \/ /\ job[c].nets # <<>> /\ GroupsFound(c)
          /\ \E p \in Ports :
                /\ PortFor(c, r, p)
                /\ Set(c, [job[c] EXCEPT !.pc = "create", !.dirty = TRUE,
                     !.addr = [NoAddresses EXCEPT
                                 ![r.net] = [port |-> p, keep |-> r.keep]]])
          /\ UNCHANGED used
    /\ UNCHANGED <<dnet, netrow, group, docker, row, queue, spoilt>>

\* docker.create_container, connected to that network; Docker refuses a name
\* it has already.
CreateContainer(c) ==
    /\ job[c].pc = "create"
    /\ \/ Fault("create") /\ Raise(c) /\ UNCHANGED docker
       \/ /\ UNCHANGED used
          /\ IF docker[c].exists THEN Raise(c) /\ UNCHANGED docker
             ELSE /\ docker' = [docker EXCEPT ![c] =
                       [exists |-> TRUE, joined |-> {Last(job[c].nets).net}]]
                  /\ Set(c, [job[c] EXCEPT !.pc = "connect", !.i = 1,
                               !.cid = TRUE, !.nets = Front(@)])
    /\ UNCHANGED <<dnet, netrow, port, group, row, queue, spoilt>>

\* connect_container_to_network, first half: the port.  A creation skips a
\* network the container is on; an attach would raise, but the API saw to it.
connect_container_to_network(c) ==
    LET j == job[c]
        r == j.nets[j.i]
    IN
    /\ j.pc = "connect"
    /\ IF j.i > Len(j.nets) THEN Goto(c, "save") /\ UNCHANGED <<port, used>>
       ELSE IF r.net \in Attached(j.addr)
       THEN Set(c, [j EXCEPT !.i = @ + 1]) /\ UNCHANGED <<port, used>>
       ELSE \/ PortFails(c, r)
            \/ /\ GroupsFound(c)
               /\ \E p \in Ports :
                     /\ PortFor(c, r, p)
                     /\ Set(c, [j EXCEPT !.pc = "join",
                                  !.new = [port |-> p, keep |-> r.keep]])
               /\ UNCHANGED used
    /\ UNCHANGED <<dnet, netrow, group, docker, row, queue, spoilt>>

NoDevice(p) == [port EXCEPT ![p].device = "none"]

NoSuchPort(p) == [port EXCEPT ![p].exists = FALSE, ![p].device = "none"]

\* delete_or_unbind_ports: a port that is already gone is not an error.
Unplugged(a) == IF ~port[a.port].exists THEN port
                ELSE IF a.keep THEN NoDevice(a.port) ELSE NoSuchPort(a.port)

\* Mutant: the port of a failed connection stays.
do_port_cleanup_Forgets(a) == port' = port

\* do_port_cleanup, after Docker refused the connection.
do_port_cleanup(a) == port' = Unplugged(a)

\* Second half: Docker.
Join(c) ==
    LET j == job[c]
        n == j.nets[j.i].net
    IN
    /\ j.pc = "join"
    /\ \/ /\ docker[c].exists /\ dnet[n] # {}
          /\ docker' = [docker EXCEPT ![c].joined = @ \cup {n}]
          /\ Set(c, [j EXCEPT !.pc = "connect", !.i = @ + 1,
                              !.addr[n] = j.new])
          /\ UNCHANGED <<port, used>>
       \/ /\ \/ (~docker[c].exists \/ dnet[n] = {}) /\ UNCHANGED used
             \/ Fault("connect")
          /\ do_port_cleanup(j.new)
          /\ Raise(c)
          /\ UNCHANGED docker
    /\ UNCHANGED <<dnet, netrow, group, row, queue, spoilt>>

\* The addresses are saved; a creation also saves the group it made.
SaveAddresses(c) ==
    /\ job[c].pc = "save"
    /\ row' = IF row[c].st = "gone" THEN row ELSE
              [row EXCEPT ![c].addr = job[c].addr, ![c].cid = job[c].cid,
                 ![c].st = IF job[c].op \in Finishes THEN "created" ELSE @,
                 ![c].groups = IF job[c].op = "create" THEN job[c].groups
                               ELSE @]
    /\ Done(c)
    /\ UNCHANGED <<dnet, netrow, port, group, docker, queue, spoilt, used>>

\* _fail_container saves the fields that were assigned.
FailContainer(c) ==
    LET j == job[c] IN
    /\ j.pc = "fail"
    /\ row' = IF row[c].st = "gone" THEN row ELSE
              [row EXCEPT ![c].st = "error",
                 ![c].addr = IF j.dirty THEN j.addr ELSE @,
                 ![c].cid = IF j.dirty THEN j.cid ELSE @,
                 ![c].groups = IF j.op = "create" THEN j.groups ELSE @,
                 ![c].host = @ /\ ~j.unset]
    /\ Done(c)
    /\ UNCHANGED <<dnet, netrow, port, group, docker, queue, spoilt, used>>

PlugStep(c) ==
    \/ _process_exposed_ports(c) \/ process_networking_config(c)
    \/ CreateContainer(c) \/ connect_container_to_network(c) \/ Join(c)
    \/ SaveAddresses(c) \/ FailContainer(c)

-----------------------------------------------------------------------------
\* Mutant: a rebuild removes the container without marking its ports.
Preserved_NotMarked(addr) == addr

\* A rebuild marks every port of its copy before it removes the container.
Preserved(addr) == [n \in Nets |-> IF n \in Attached(addr)
                                   THEN [addr[n] EXCEPT !.keep = TRUE]
                                   ELSE addr[n]]

\* _get_network_info, check_container_exist: the networks and the ports the
\* copy names are requested again.
RebuildBegin(c) ==
    LET j == job[c] IN
    /\ j.pc = "rebuild"
    /\ IF \E p \in PortsOf(j.addr) : ~port[p].exists
       THEN Set(c, Raised(c, FALSE))
       ELSE \E s \in SetToSeqs(Attached(j.addr)) :
              LET again == [k \in DOMAIN s |->
                              [net |-> s[k], port |-> j.addr[s[k]].port,
                               keep |-> j.addr[s[k]].keep]]
                  found == j.cid /\ docker[c].exists
              IN Set(c, [j EXCEPT !.nets = again,
                           !.addr = IF found THEN Preserved(@) ELSE @,
                           !.pc = IF found THEN "leave" ELSE "check"])
    /\ UNCHANGED <<dnet, netrow, port, group, docker, row, queue, spoilt, used>>

\* Where a driver call that ended leads.
Left(c, n) ==
    IF job[c].op = "detach"
    THEN [job[c] EXCEPT !.addr[n] = NoAddress, !.pc = "save"]
    ELSE [job[c] EXCEPT !.left = @ \ {n}]

\* driver.delete takes an unknown container, or one that is not on the
\* network, for removed; a detach ends with an error.
NotThere(c) ==
    CASE job[c].op = "detach" -> NoJob
      [] job[c].op = "delete" -> [job[c] EXCEPT !.pc = "destroy"]
      [] OTHER -> [job[c] EXCEPT !.pc = "check"]

\* disconnect_container_from_network: Docker, then, whatever Docker says, the
\* ports.
disconnect_container_from_network(c) ==
    LET j == job[c] IN
    /\ j.pc = "leave"
    /\ \E n \in j.left :
          /\ port' = IF j.addr[n].port = NoPort THEN port
                     ELSE Unplugged(j.addr[n])
          /\ \/ /\ ~j.cid \/ (docker[c].exists /\ n \in docker[c].joined)
                /\ docker' = [docker EXCEPT ![c].joined = @ \ {n}]
                /\ Set(c, Left(c, n))
                /\ UNCHANGED <<used, spoilt>>
             \/ /\ j.cid /\ ~(docker[c].exists /\ n \in docker[c].joined)
                /\ Set(c, NotThere(c))
                /\ UNCHANGED <<docker, used, spoilt>>
             \/ /\ j.cid
                /\ Fault("disconnect")
                /\ Set(c, Raised(c, FALSE))
                /\ spoilt' = spoilt \cup {c}
                /\ UNCHANGED docker
    /\ UNCHANGED <<dnet, netrow, group, row, queue>>

\* _cleanup_exposed_ports: the first group the container names.
_cleanup_exposed_ports(c) ==
    /\ job[c].pc = "leave" /\ job[c].left = {}
    /\ group' = IF c \in Exposed /\ job[c].groups # <<>>
                THEN [group EXCEPT ![c] = @ \ {Head(job[c].groups)}]
                ELSE group
    /\ Goto(c, "remove")
    /\ UNCHANGED <<dnet, netrow, port, docker, row, queue, spoilt, used>>

\* docker.remove_container, when the copy has an id.
RemoveContainer(c) ==
    /\ job[c].pc = "remove"
    /\ docker' = IF job[c].cid
                 THEN [docker EXCEPT ![c] = [exists |-> FALSE, joined |-> {}]]
                 ELSE docker
    /\ Goto(c, IF job[c].op = "delete" THEN "destroy" ELSE "check")
    /\ UNCHANGED <<dnet, netrow, port, group, row, queue, spoilt, used>>

DestroyContainer(c) ==
    /\ job[c].pc = "destroy"
    /\ row' = [row EXCEPT ![c].st = "gone"]
    /\ Done(c)
    /\ UNCHANGED <<dnet, netrow, port, group, docker, queue, spoilt, used>>

\* The ports of the copy that Neutron still lists.
Listed(c) == {p \in PortsOf(job[c].addr) : port[p].exists}

Regrouped(ps, g, add) ==
    [p \in Ports |-> IF p \notin ps THEN port[p]
                     ELSE [port[p] EXCEPT !.groups =
                             IF add THEN @ \cup {g} ELSE @ \ {g}]]

\* add_security_groups_to_ports, then the row.
add_security_groups_to_ports(c) ==
    /\ job[c].pc = "add_group"
    /\ port' = Regrouped(Listed(c), UserGroup, TRUE)
    /\ row' = [row EXCEPT ![c].groups = Append(job[c].groups, UserGroup)]
    /\ Done(c)
    /\ UNCHANGED <<dnet, netrow, group, docker, queue, spoilt, used>>

\* remove_security_groups_from_ports stops with an error at a port that does
\* not have the group, after any of the others.  The groups left go through a
\* set, and come in any order.
remove_security_groups_from_ports(c) ==
    LET having == {p \in Listed(c) : UserGroup \in port[p].groups} IN
    /\ job[c].pc = "remove_group"
    /\ IF having = Listed(c)
       THEN /\ port' = Regrouped(having, UserGroup, FALSE)
            /\ \E gs \in SetToSeqs(ToSet(job[c].groups) \ {UserGroup}) :
                  row' = [row EXCEPT ![c].groups = gs]
            /\ UNCHANGED spoilt
       ELSE /\ \E ps \in SUBSET having :
                  port' = Regrouped(ps, UserGroup, FALSE)
            /\ spoilt' = spoilt \cup {c}
            /\ UNCHANGED row
    /\ Done(c)
    /\ UNCHANGED <<dnet, netrow, group, docker, queue, used>>

UnplugStep(c) ==
    \/ RebuildBegin(c) \/ disconnect_container_from_network(c)
    \/ _cleanup_exposed_ports(c) \/ RemoveContainer(c) \/ DestroyContainer(c)
    \/ add_security_groups_to_ports(c) \/ remove_security_groups_from_ports(c)

-----------------------------------------------------------------------------
(* The specification *)

Busy == {c \in Containers : job[c].pc # "idle"}

\* zun-compute is lost with its threads.  At its start _init_container fails
\* the containers it was working on and deletes again those it was deleting.
Crash ==
    /\ Fault("crash")
    /\ job' = [t \in Threads |-> NoJob]
    /\ spoilt' = spoilt \cup Busy
    /\ row' = [c \in Containers |->
                 IF c \in Busy /\ job[c].op # "rebuild" /\ row[c].st # "gone"
                 THEN [row[c] EXCEPT !.st = "error"] ELSE row[c]]
    /\ queue' = queue \cup {Message("delete", c, <<>>) :
                              c \in {d \in Busy : job[d].op = "delete"}}
    /\ UNCHANGED <<dnet, netrow, port, group, docker>>

Init ==
    /\ dnet = [n \in Nets |-> {}]
    /\ netrow = [n \in Nets |-> NoRow]
    /\ port = [p \in Ports |-> [exists |-> p \in UserPorts, device |-> "none",
                                maker |-> "none", groups |-> {}]]
    /\ group = [c \in Containers |-> {}]
    /\ docker = [c \in Containers |-> [exists |-> FALSE, joined |-> {}]]
    /\ row = [c \in Containers |-> [st |-> "none", addr |-> NoAddresses,
                groups |-> <<>>, host |-> FALSE, cid |-> FALSE]]
    /\ queue = {}
    /\ job = [t \in Threads |-> NoJob]
    /\ spoilt = {}
    /\ used = [requests |-> [t \in Threads |-> 0], faults |-> 0, ids |-> [x \in Nets \cup Containers |-> 0]]

ThreadStep(t) ==
    \/ NetworkStep(t)
    \/ t \in Containers /\ (Take(t) \/ PlugStep(t) \/ UnplugStep(t))

Next == ApiStep \/ Crash \/ \E t \in Threads : ThreadStep(t)

Spec == Init /\ [][Next]_vars

-----------------------------------------------------------------------------
(* Properties *)

Pcs == {"idle", "check", "subnets", "attempt", "mknet", "saveid", "rmnet",
        "rmrow", "expose", "first", "create", "connect", "join", "save",
        "fail", "rebuild", "leave", "remove", "destroy", "add_group",
        "remove_group"}

TypeOK ==
    /\ dnet \in [Nets -> SUBSET (1..MaxIds)]
    /\ \A n \in Nets : netrow[n].uuid \in 0..MaxIds /\ netrow[n].id \in 0..MaxIds
    /\ \A p \in Ports : /\ port[p].device \in Containers \cup {"none"}
                        /\ port[p].groups \subseteq 1..UserGroup
    /\ \A c \in Containers :
          /\ group[c] \subseteq 1..MaxIds
          /\ docker[c].joined # {} => docker[c].exists
          /\ row[c].st \in {"none", "creating", "created", "error", "gone"}
          /\ row[c].addr \in Addresses
          /\ row[c].groups \in Seq(1..UserGroup)
    /\ \A t \in Threads : job[t].pc \in Pcs /\ job[t].nets \in Seq(Requested)
    /\ \A m \in queue : m.op \in Ops /\ m.c \in Containers

\* The comment in _create_network_attempt: the unique row guarantees that one
\* of the concurrent requests makes the network.  Docker never holds two
\* networks for a Neutron network, also when a maker fails, is lost with its
\* row left behind, or is overtaken by a deletion.
OneDockerNetwork == \A n \in Nets : Cardinality(dnet[n]) <= 1

\* No one asks a thread to look at the container, and it was spared what the
\* code does not recover from: requests made on copies read before an earlier
\* one ended, a failing disconnection, a lost zun-compute, a failed creation
\* (which takes the host away, so that only the row is deleted).
Settled(c) == c \notin spoilt /\ ~Pending(c) /\ row[c].host

Theirs(c) == {p \in Ports : port[p].exists
                            /\ c \in {port[p].device, port[p].maker}}

\* What Zun made or took in Neutron for a container is in the container's row,
\* and when the row is gone it is given back: ports and groups do not leak
\* when an attach fails, and survive a rebuild.
Accounted ==
    \A c \in Containers :
       Settled(c) =>
          IF row[c].st = "gone" THEN Theirs(c) = {} /\ group[c] = {}
          ELSE /\ Theirs(c) \subseteq PortsOf(row[c].addr)
               /\ group[c] \subseteq ToSet(row[c].groups)

\* The ports Zun made for a container have the groups its row names, however
\* attachments and changes of the groups alternate.
GroupsAgree ==
    \A c \in Containers :
       Settled(c) /\ row[c].st = "created" =>
          \A p \in Theirs(c) \ UserPorts :
             port[p].groups = ToSet(row[c].groups)

\* A port a user made is never deleted, and a port in a row only by a detach,
\* by a deletion, or where Docker refused the connection: the removal of a
\* container for its rebuild keeps the addresses.
PortsKept ==
    [][\A p \in Ports :
          port[p].exists /\ ~port'[p].exists =>
             /\ p \notin UserPorts
             /\ \A c \in Containers :
                   p \in PortsOf(row[c].addr) /\ row[c].st # "gone" =>
                      \/ job[c].op \in {"detach", "delete"}
                      \/ job[c].pc = "join"]_vars

\* A rebuild that succeeds leaves a container with the ports it had, marked
\* as they were: those of the user to be preserved, the others not.
RebuildRestores ==
    [][\A c \in Containers :
          job[c].op = "rebuild" /\ job[c].pc = "save" /\ job'[c].pc = "idle"
          /\ c \notin spoilt' => row'[c].addr = row[c].addr]_vars

\* What Neutron has for a container and what its row says agree: the ports and
\* groups, and the groups of the ports.
NeutronAgrees == Accounted /\ GroupsAgree

\* A container keeps its addresses: no port is deleted under it, and a rebuild
\* gives it the ones it had (_build_requested_networks, PRESERVE_ON_DELETE).
AddressesKept == PortsKept /\ RebuildRestores

=============================================================================
