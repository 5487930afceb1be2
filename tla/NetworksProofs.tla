--------------------------- MODULE NetworksProofs ---------------------------
(***************************************************************************)
(* Proofs about Networks, for any containers, networks, ports, faults and  *)
(* bounds: Docker holds at most one network for a Neutron network, no port *)
(* is deleted under a container, a rebuild gives it the addresses it had,  *)
(* and what Neutron has for a container at rest is what its row says.      *)
(***************************************************************************)
EXTENDS Networks, Sums

-----------------------------------------------------------------------------
(* The inductive invariant                                                  *)

Groups == Seq(1..UserGroup)

Address == [port : Ports \cup {NoPort}, keep : BOOLEAN]

Shape == [pc : Pcs, op : Ops \cup {"none", "net_create", "net_delete"},
          nets : Seq(Requested), i : Nat, addr : Addresses, groups : Groups,
          cid : BOOLEAN, left : SUBSET Nets, try : Nat, uuid : Nat, id : Nat,
          new : Address, error : {"no"}, dirty : BOOLEAN, unset : BOOLEAN]

\* Where nets[i] is the network at work.
Providing == {"subnets", "attempt", "mknet", "saveid", "rmnet", "rmrow"}

Indexed(j) ==
    /\ j.i > 0
    /\ j.pc \in {"rebuild", "leave", "remove"} => j.i = 1
    /\ j.pc = "check" => j.nets = <<>> \/ j.i <= Len(j.nets)
    /\ j.pc \in Providing => j.i <= Len(j.nets)

Job == {j \in Shape : Indexed(j)}

Cargo == {m \in [op : Ops, c : Containers, nets : Seq(Requested), addr : Addresses,
                 groups : Groups, cid : BOOLEAN] :
            m.op = "detach" => m.nets # <<>>}

Row == [st : {"none", "creating", "created", "error", "gone"}, addr : Addresses,
        groups : Groups, host : BOOLEAN, cid : BOOLEAN]

Used == [requests : [Threads -> Nat], faults : Nat,
         ids : [Nets \cup Containers -> Nat]]

\* What requests, threads and rows are made of.
Typed ==
    /\ dnet \in [Nets -> SUBSET Nat]
    /\ netrow \in [Nets -> [uuid : Nat, id : Nat, project : {"none"} \cup Range(ProjectOf)]]
    /\ row \in [Containers -> Row]
    /\ queue \subseteq Cargo
    /\ job \in [Threads -> Job]
    /\ used \in Used

\* The thread is about to make the Docker network of n.
Maker(t, n) == job[t].pc = "mknet" /\ Net(t) = n

\* The thread has removed the Docker network of n and will destroy the row.
Remover(t, n) == job[t].pc = "rmrow" /\ Net(t) = n

Nobody(n) == dnet[n] = {} /\ \A t \in Threads : ~Maker(t, n)

\* The row of a network is there before the Docker network is, and as long.
RowLeads(n) ==
    /\ dnet[n] = {} \/ \E i \in Nat : dnet[n] = {i}
    /\ dnet[n] # {} => netrow[n].uuid # 0
    /\ netrow[n].uuid <= used.ids[n]

\* The maker has the row, alone, and there is no Docker network.
MakerAlone(n) ==
    \A t \in Threads :
        Maker(t, n) => /\ job[t].uuid # 0 /\ netrow[n].uuid = job[t].uuid
                       /\ dnet[n] = {}
                       /\ \A s \in Threads : Maker(s, n) => s = t

\* Whoever will destroy the row by its uuid has seen the Docker network of
\* that row: its maker is past it, and no uuid is given twice.
RemoverLate(n) ==
    \A t \in Threads :
        /\ job[t].pc \in {"rmnet", "rmrow"} /\ Net(t) = n => job[t].uuid <= used.ids[n]
        /\ Remover(t, n) /\ netrow[n].uuid = job[t].uuid => Nobody(n)

OneInv == \A n \in Nets : RowLeads(n) /\ MakerAlone(n) /\ RemoverLate(n)

IInv == Typed /\ OneInv

-----------------------------------------------------------------------------
(* Types                                                                    *)

Places == {"mknet", "rmnet", "rmrow"}

LEMMA Numbers == MaxIds \in Nat /\ UserGroup \in Nat /\ UserGroup \in 1..UserGroup
BY NetworksAssumption DEF UserGroup

LEMMA NoJobType == NoJob \in Job /\ NoJob.pc = "idle"
<1>1. NoAddress \in Address BY DEF NoAddress, Address
<1>2. NoAddresses \in Addresses BY <1>1 DEF NoAddresses, Addresses, Address
<1> QED BY <1>1, <1>2 DEF NoJob, Job, Shape, Indexed, Providing, Pcs, Groups

\* An address of a request goes to where it belongs.
LEMMA Addressed ==
    ASSUME NEW a \in Addresses, NEW n \in Nets, NEW p \in Ports \cup {NoPort}, NEW k \in BOOLEAN
    PROVE  /\ [port |-> p, keep |-> k] \in Address
           /\ [a EXCEPT ![n] = [port |-> p, keep |-> k]] \in Addresses
BY DEF Addresses, Address

LEMMA FaultType ==
    ASSUME Typed, NEW f, Fault(f)
    PROVE  used' \in Used /\ used'.ids = used.ids
BY DEF Typed, Fault, Used

LEMMA AcceptType ==
    ASSUME Typed, NEW t \in Threads, Accept(t)
    PROVE  used' \in Used /\ used'.ids = used.ids
BY DEF Typed, Accept, Used

LEMMA UseIdType ==
    ASSUME Typed, NEW x \in Nets \cup Containers, used' = UseId(x)
    PROVE  /\ used' \in Used /\ used'.ids[x] = used.ids[x] + 1
           /\ \A y \in Nets \cup Containers : y # x => used'.ids[y] = used.ids[y]
BY DEF Typed, UseId, Used

LEMMA RaisedType ==
    ASSUME Typed, NEW t \in Threads, NEW u \in BOOLEAN
    PROVE  Raised(t, u) \in Job /\ Raised(t, u).pc \notin Places
<1>1. PICK j \in Job : j = job[t] BY DEF Typed
<1>2. [j EXCEPT !.pc = "fail", !.unset = u] \in Job
      /\ [j EXCEPT !.pc = "fail", !.unset = u].pc = "fail"
  BY ZenonT(30) DEF Job, Shape, Indexed, Providing, Pcs
<1> QED BY <1>1, <1>2, NoJobType DEF Raised, Places

LEMMA ProvisionedType ==
    ASSUME Typed, NEW t \in Threads
    PROVE  Provisioned(t) \in Job /\ Provisioned(t).pc \notin Places
<1>1. PICK j \in Job : j = job[t] BY DEF Typed
<1>2. ASSUME j.i < Len(j.nets)
      PROVE /\ [j EXCEPT !.i = @ + 1, !.pc = "check"] \in Job
            /\ [j EXCEPT !.i = @ + 1, !.pc = "check"].pc = "check"
  <2>1. PICK k \in Nat : k = j.i + 1 BY DEF Job, Shape
  <2>2. PICK e : e = [j EXCEPT !.i = k, !.pc = "check"] OBVIOUS
  <2>3. e \in Shape /\ e.i = k /\ e.nets = j.nets /\ e.pc = "check" BY <2>2 DEF Job, Shape, Pcs
  <2>4. k > 0 /\ k <= Len(j.nets) BY <1>2, <2>1 DEF Job, Shape, Indexed
  <2>5. e \in Job BY <2>3, <2>4 DEF Job, Indexed, Providing
  <2> QED BY <2>1, <2>2, <2>3, <2>5
<1>3. /\ [j EXCEPT !.pc = "expose"] \in Job
      /\ [j EXCEPT !.pc = "expose"].pc = "expose"
  BY DEF Job, Shape, Indexed, Providing, Pcs
<1>4. /\ [j EXCEPT !.i = 1, !.pc = "connect"] \in Job
      /\ [j EXCEPT !.i = 1, !.pc = "connect"].pc = "connect"
  <2>1. PICK e : e = [j EXCEPT !.i = 1, !.pc = "connect"] OBVIOUS
  <2>2. e \in Shape /\ e.i = 1 /\ e.pc = "connect" BY <2>1 DEF Job, Shape, Pcs
  <2>3. Indexed(e) BY <2>2 DEF Indexed, Providing
  <2> QED BY <2>1, <2>2, <2>3 DEF Job
<1> QED BY <1>1, <1>2, <1>3, <1>4, NoJobType DEF Provisioned, Places

\* A thread goes from a place to one that asks no more of its networks.
LEMMA GotoType ==
    ASSUME Typed, NEW t \in Threads, NEW pc \in Pcs,
           \/ pc \notin {"rebuild", "leave", "remove", "check"} \cup Providing
           \/ pc \in Providing /\ job[t].pc \in Providing
           \/ pc = "remove" /\ job[t].pc = "leave"
           \/ pc = "check" /\ job[t].pc \in {"leave", "remove"}
    PROVE  LET j == [job[t] EXCEPT !.pc = pc]
           IN /\ j \in Job /\ j.pc = pc /\ j.nets = job[t].nets
              /\ j.i = job[t].i /\ j.uuid = job[t].uuid
<1>1. PICK j \in Job : j = job[t] BY DEF Typed
<1>2. PICK e : e = [j EXCEPT !.pc = pc] OBVIOUS
<1>3. e \in Shape /\ e.i = j.i /\ e.nets = j.nets /\ e.pc = pc /\ e.uuid = j.uuid
  BY <1>2 DEF Job, Shape
<1>4. Indexed(e)
  <2>1. j.nets = <<>> \/ 1 <= Len(j.nets) BY DEF Job, Shape
  <2> QED BY <1>1, <1>3, <2>1 DEF Job, Indexed, Providing
<1> QED BY <1>1, <1>2, <1>3, <1>4 DEF Job

\* The network at work.
LEMMA NetType ==
    ASSUME Typed, NEW t \in Threads, job[t].pc \in Providing
    PROVE  Net(t) \in Nets
<1>1. PICK j \in Job : j = job[t] BY DEF Typed
<1>2. j.nets \in Seq(Requested) /\ j.i \in 1..Len(j.nets) BY <1>1 DEF Job, Shape, Indexed
<1>3. j.nets[j.i] \in Requested BY <1>2
<1> QED BY <1>1, <1>3 DEF Net, Requested

-----------------------------------------------------------------------------
(* Steps that have no part in the life of a Docker network                  *)

LEMMA StillOne ==
    ASSUME IInv, UNCHANGED <<dnet, netrow>>, job' \in [Threads -> Job], used' \in Used,
           \A n \in Nets : used.ids[n] <= used'.ids[n],
           \A t \in Threads : job'[t] = job[t] \/ job'[t].pc \notin Places
    PROVE  OneInv'
<1>1. SUFFICES ASSUME NEW n \in Nets PROVE (RowLeads(n) /\ MakerAlone(n) /\ RemoverLate(n))'
  BY DEF OneInv
<1>2. RowLeads(n) /\ MakerAlone(n) /\ RemoverLate(n) BY DEF IInv, OneInv
<1>3. used.ids[n] \in Nat /\ used'.ids[n] \in Nat /\ netrow[n].uuid \in Nat
  BY DEF IInv, Typed, Used
<1>4. \A t \in Threads : Maker(t, n)' => Maker(t, n) /\ job'[t] = job[t]
  BY DEF Maker, Net, Places
<1>5. \A t \in Threads : Remover(t, n)' => Remover(t, n) /\ job'[t] = job[t]
  BY DEF Remover, Net, Places
<1>6. RowLeads(n)' BY <1>2, <1>3 DEF RowLeads
<1>7. MakerAlone(n)' BY <1>2, <1>4 DEF MakerAlone
<1>8. RemoverLate(n)'
  <2>1. ASSUME NEW t \in Threads, job'[t].pc \in {"rmnet", "rmrow"}, Net(t)' = n
        PROVE  job'[t].uuid <= used'.ids[n]
    <3>1. job'[t] = job[t] /\ Net(t) = n BY <2>1 DEF Places, Net
    <3>2. job[t].uuid <= used.ids[n] BY <1>2, <2>1, <3>1 DEF RemoverLate
    <3>3. job[t].uuid \in Nat BY DEF IInv, Typed, Job, Shape
    <3> QED BY <1>3, <3>1, <3>2, <3>3
  <2>2. ASSUME NEW t \in Threads, Remover(t, n)', netrow'[n].uuid = job'[t].uuid
        PROVE  Nobody(n)'
    <3>1. Nobody(n) BY <1>2, <1>5, <2>2 DEF RemoverLate
    <3> QED BY <1>4, <3>1 DEF Nobody
  <2> QED BY <2>1, <2>2 DEF RemoverLate
<1> QED BY <1>6, <1>7, <1>8

\* One thread goes on, elsewhere.
LEMMA Elsewhere ==
    ASSUME IInv, UNCHANGED <<dnet, netrow>>, NEW t \in Threads, NEW j \in Job,
           j.pc \notin Places, job' = [job EXCEPT ![t] = j],
           used' \in Used, \A n \in Nets : used.ids[n] <= used'.ids[n],
           row' \in [Containers -> Row], queue' \subseteq Cargo
    PROVE  IInv'
<1>1. job' \in [Threads -> Job] /\ \A s \in Threads : job'[s] = IF s = t THEN j ELSE job[s]
  BY DEF IInv, Typed
<1>2. OneInv' BY <1>1, StillOne
<1> QED BY <1>1, <1>2 DEF IInv, Typed

\* ... and changes nothing else.
LEMMA JustGoes ==
    ASSUME IInv, UNCHANGED <<dnet, netrow, row, queue>>, NEW t \in Threads, NEW j \in Job,
           j.pc \notin Places, job' = [job EXCEPT ![t] = j],
           UNCHANGED used \/ \E f : Fault(f)
    PROVE  IInv'
<1>1. used' \in Used /\ used'.ids = used.ids BY FaultType DEF IInv, Typed
<1>2. \A n \in Nets : used.ids[n] \in Nat BY DEF IInv, Typed, Used
<1>3. row' \in [Containers -> Row] /\ queue' \subseteq Cargo BY DEF IInv, Typed
<1>4. \A n \in Nets : used.ids[n] <= used'.ids[n] BY <1>1, <1>2
<1> QED BY <1>1, <1>3, <1>4, Elsewhere
-----------------------------------------------------------------------------
(* The API                                                                  *)

LEMMA RequestedType ==
    ASSUME NEW c \in Containers, NEW r \in build_requested_networks(c)
    PROVE  r \in Requested
<1>1. CASE \E p \in UserPorts : r = [net |-> NetOf[p], port |-> p, keep |-> TRUE]
  <2>1. PICK p \in UserPorts : r = [net |-> NetOf[p], port |-> p, keep |-> TRUE] BY <1>1
  <2>2. NetOf[p] \in Nets BY NetworksAssumption
  <2> QED BY <2>1, <2>2 DEF Requested, Ports
<1>2. CASE \E n \in Nets : r = [net |-> n, port |-> NoPort, keep |-> FALSE]
  BY <1>2 DEF Requested
<1> QED BY <1>1, <1>2 DEF build_requested_networks

LEMMA CastKeeps ==
    ASSUME IInv, NEW op \in Ops, NEW c \in Containers, NEW nets \in Seq(Requested),
           op = "detach" => nets # <<>>, Cast(op, c, nets), row' \in [Containers -> Row]
    PROVE  IInv'
<1>1. Accept(c) /\ queue' = queue \cup {Message(op, c, nets)} /\ c \in Threads
      /\ UNCHANGED <<dnet, netrow, job>>
  BY DEF Cast, Threads
<1>2. used' \in Used /\ used'.ids = used.ids BY <1>1, AcceptType DEF IInv
<1>3. \A n \in Nets : used.ids[n] <= used'.ids[n] BY <1>2 DEF IInv, Typed, Used
<1>4. PICK r \in Row : r = row[c] BY DEF IInv, Typed
<1>5. Message(op, c, nets) \in Cargo BY <1>4 DEF Message, Cargo, Row
<1>6. OneInv' BY <1>1, <1>2, <1>3, StillOne DEF IInv, Typed
<1> QED BY <1>1, <1>2, <1>5, <1>6 DEF IInv, Typed

LEMMA PostKeeps == ASSUME IInv, NEW c \in Containers, Post(c) PROVE IInv'
<1>1. PICK a, b \in build_requested_networks(c) :
        Cast("create", c, IF a = b THEN <<a>> ELSE <<a, b>>)
  BY DEF Post
<1>2. a \in Requested /\ b \in Requested BY RequestedType
<1>3. PICK s \in Seq(Requested) : s = IF a = b THEN <<a>> ELSE <<a, b>>
  <2>1. <<a>> \in Seq(Requested) /\ <<a, b>> \in Seq(Requested) BY <1>2
  <2>2. CASE a = b BY <2>1, <2>2
  <2>3. CASE a # b BY <2>1, <2>3
  <2> QED BY <2>2, <2>3
<1>4. row' = [row EXCEPT ![c].st = "creating", ![c].host = TRUE] BY DEF Post
<1>5. row' \in [Containers -> Row] BY <1>4, ZenonT(30) DEF IInv, Typed, Row
<1> QED BY <1>1, <1>3, <1>5, CastKeeps DEF Ops

LEMMA RequestsKeep ==
    ASSUME IInv, NEW c \in Containers,
           \/ NetworkAttach(c) \/ NetworkDetach(c) \/ AddSecurityGroup(c)
           \/ RemoveSecurityGroup(c) \/ Rebuild(c)
    PROVE  IInv'
<1>1. row' = row /\ row' \in [Containers -> Row]
  BY DEF IInv, Typed, NetworkAttach, NetworkDetach, AddSecurityGroup, RemoveSecurityGroup, Rebuild
<1>2. CASE NetworkAttach(c)
  <2>1. PICK r \in build_requested_networks(c) : Cast("attach", c, <<r>>)
    BY <1>2 DEF NetworkAttach
  <2>2. <<r>> \in Seq(Requested) BY RequestedType
  <2> QED BY <1>1, <2>1, <2>2, CastKeeps DEF Ops
<1>3. CASE NetworkDetach(c)
  <2>1. PICK n \in Attached(row[c].addr) :
          Cast("detach", c, <<[net |-> n, port |-> row[c].addr[n].port, keep |-> FALSE]>>)
    BY <1>3 DEF NetworkDetach
  <2>2. PICK a \in Addresses : a = row[c].addr BY DEF IInv, Typed, Row
  <2>3. PICK p \in Ports \cup {NoPort} : n \in Nets /\ p = row[c].addr[n].port
    BY <2>1, <2>2 DEF Attached, Addresses
  <2>4. [net |-> n, port |-> p, keep |-> FALSE] \in Requested BY <2>3 DEF Requested
  <2>5. <<[net |-> n, port |-> p, keep |-> FALSE]>> \in Seq(Requested) BY <2>4
  <2> QED BY <1>1, <2>1, <2>3, <2>5, CastKeeps DEF Ops
<1>4. <<>> \in Seq(Requested) OBVIOUS
<1>5. CASE AddSecurityGroup(c)
  <2>1. Cast("add_group", c, <<>>) BY <1>5 DEF AddSecurityGroup
  <2> QED BY <1>1, <1>4, <2>1, CastKeeps DEF Ops
<1>6. CASE RemoveSecurityGroup(c)
  <2>1. Cast("remove_group", c, <<>>) BY <1>6 DEF RemoveSecurityGroup
  <2> QED BY <1>1, <1>4, <2>1, CastKeeps DEF Ops
<1>7. CASE Rebuild(c)
  <2>1. Cast("rebuild", c, <<>>) BY <1>7 DEF Rebuild
  <2> QED BY <1>1, <1>4, <2>1, CastKeeps DEF Ops
<1> QED BY <1>2, <1>3, <1>5, <1>6, <1>7

LEMMA DeleteKeeps == ASSUME IInv, NEW c \in Containers, Delete(c) PROVE IInv'
<1>1. CASE Cast("delete", c, <<>>) /\ UNCHANGED row
  <2>1. row' \in [Containers -> Row] /\ <<>> \in Seq(Requested) BY <1>1 DEF IInv, Typed
  <2> QED BY <1>1, <2>1, CastKeeps DEF Ops
<1>2. CASE /\ row' = [row EXCEPT ![c].st = "gone"]
           /\ UNCHANGED <<dnet, netrow, port, group, docker, queue, job, spoilt, used>>
  <2>1. row' \in [Containers -> Row] BY <1>2 DEF IInv, Typed, Row
  <2>2. used' \in Used /\ job' \in [Threads -> Job]
        /\ (\A n \in Nets : used.ids[n] <= used'.ids[n])
    BY <1>2 DEF IInv, Typed, Used
  <2>3. OneInv' BY <1>2, <2>2, StillOne
  <2> QED BY <1>2, <2>1, <2>2, <2>3 DEF IInv, Typed
<1> QED BY <1>1, <1>2 DEF Delete

\* A request about a network of its own: a deletion knows a uuid that was given.
LEMMA AdminKeeps ==
    ASSUME IInv, NEW n \in Nets, NetworkPost(n) \/ NetworkDelete(n)
    PROVE  IInv'
<1>1. PICK op \in {"net_create", "net_delete"} : AdminRequest(op, n)
  BY DEF NetworkPost, NetworkDelete
<1>2. Admin \in Threads BY DEF Threads
<1>3. used' \in Used /\ used'.ids = used.ids BY <1>1, <1>2, AcceptType DEF IInv, AdminRequest
<1>4. PICK u \in Nat : u = netrow[n].uuid BY DEF IInv, Typed
<1>5. PICK pc \in Pcs : pc = IF op = "net_create" THEN "subnets" ELSE "rmnet" BY DEF Pcs
<1>6. PICK r \in Requested : r = [net |-> n, port |-> NoPort, keep |-> FALSE] BY DEF Requested
<1>7. PICK j : j = [NoJob EXCEPT !.op = op, !.uuid = u, !.nets = <<r>>, !.pc = pc] OBVIOUS
<1>8. j \in Job /\ j.pc = pc /\ j.uuid = u /\ j.nets = <<r>> /\ j.i = 1
  <2>1. <<r>> \in Seq(Requested) OBVIOUS
  <2>2. PICK k \in Job : k = NoJob /\ k.i = 1 BY NoJobType DEF NoJob
  <2>3. j = [k EXCEPT !.op = op, !.uuid = u, !.nets = <<r>>, !.pc = pc] BY <1>7, <2>2
  <2>4. j \in Shape /\ j.pc = pc /\ j.uuid = u /\ j.nets = <<r>> /\ j.i = 1
    BY <2>1, <2>2, <2>3 DEF Job, Shape
  <2>5. Len(<<r>>) = 1 OBVIOUS
  <2>6. j.i > 0 /\ j.i <= Len(j.nets) BY <2>4, <2>5
  <2> QED BY <1>5, <2>4, <2>6 DEF Job, Indexed, Providing
<1>9. job' = [job EXCEPT ![Admin] = j] BY <1>1, <1>4, <1>5, <1>6, <1>7 DEF AdminRequest
<1>10. job' \in [Threads -> Job] /\ \A s \in Threads : job'[s] = IF s = Admin THEN j ELSE job[s]
  BY <1>2, <1>8, <1>9 DEF IInv, Typed
<1>11. UNCHANGED <<dnet, netrow, row, queue>> BY <1>1 DEF AdminRequest
<1>12. ASSUME NEW m \in Nets PROVE (RowLeads(m) /\ MakerAlone(m) /\ RemoverLate(m))'
  <2>1. RowLeads(m) /\ MakerAlone(m) /\ RemoverLate(m) BY DEF IInv, OneInv
  <2>2. \A s \in Threads : Maker(s, m)' => Maker(s, m) /\ job'[s] = job[s]
    BY <1>5, <1>8, <1>10 DEF Maker, Net
  <2>3. \A s \in Threads : Remover(s, m)' => Remover(s, m) /\ job'[s] = job[s]
    BY <1>5, <1>8, <1>10 DEF Remover, Net
  <2>4. RowLeads(m)' BY <1>3, <1>11, <2>1 DEF RowLeads
  <2>5. MakerAlone(m)' BY <1>11, <2>1, <2>2 DEF MakerAlone
  <2>6. ASSUME NEW s \in Threads, job'[s].pc \in {"rmnet", "rmrow"}, Net(s)' = m
        PROVE  job'[s].uuid <= used'.ids[m]
    <3>1. CASE s = Admin
      <4>1. Net(s)' = n BY <1>6, <1>8, <1>10, <3>1 DEF Net
      <4> QED BY <1>3, <1>4, <1>8, <1>10, <2>1, <2>6, <3>1, <4>1 DEF RowLeads
    <3>2. CASE s # Admin BY <1>3, <1>10, <2>1, <2>6, <3>2 DEF RemoverLate, Net
    <3> QED BY <3>1, <3>2
  <2>7. ASSUME NEW s \in Threads, Remover(s, m)', netrow'[m].uuid = job'[s].uuid
        PROVE  Nobody(m)'
    BY <1>11, <2>1, <2>2, <2>3, <2>7 DEF RemoverLate, Nobody
  <2> QED BY <2>4, <2>5, <2>6, <2>7 DEF RemoverLate
<1> QED BY <1>3, <1>10, <1>11, <1>12 DEF IInv, Typed, OneInv

LEMMA ApiKeeps == ASSUME IInv, ApiStep PROVE IInv'
BY PostKeeps, RequestsKeep, DeleteKeeps, AdminKeeps DEF ApiStep
-----------------------------------------------------------------------------
(* The life of a Docker network                                             *)

\* A thread goes on with the network it is at.
LEMMA Moved ==
    ASSUME IInv, NEW t \in Threads, NEW j \in Job, job' = [job EXCEPT ![t] = j]
    PROVE  /\ job' \in [Threads -> Job] /\ job'[t] = j
           /\ \A s \in Threads : s # t => /\ job'[s] = job[s] /\ Net(s)' = Net(s)
                                          /\ \A n \in Nets : /\ Maker(s, n)' <=> Maker(s, n)
                                                             /\ Remover(s, n)' <=> Remover(s, n)
<1>1. job' \in [Threads -> Job] /\ job'[t] = j /\ \A s \in Threads : s # t => job'[s] = job[s]
  BY DEF IInv, Typed
<1> QED BY <1>1 DEF Net, Maker, Remover

LEMMA LookKeeps == ASSUME IInv, NEW t \in Threads, get_or_create_network(t) PROVE IInv'
<1>1. Typed /\ job[t].pc = "check" BY DEF IInv, get_or_create_network
<1>2. PICK j \in Job : j = job[t] BY <1>1 DEF Typed
<1>3. CASE job[t].nets = <<>> /\ Goto(t, "expose")
  <2>0. "expose" \in Pcs /\ "expose" \notin {"rebuild", "leave", "remove", "check"} \cup Providing
    BY DEF Pcs, Providing
  <2>1. LET e == [job[t] EXCEPT !.pc = "expose"] IN e \in Job /\ e.pc = "expose"
    BY <1>1, <2>0, GotoType
  <2> QED BY <1>3, <2>1, JustGoes DEF Goto, Set, Places, get_or_create_network
<1>4. CASE Set(t, Provisioned(t))
  BY <1>1, <1>4, ProvisionedType, JustGoes DEF Set, get_or_create_network
<1>5. CASE job[t].nets # <<>> /\ Set(t, [job[t] EXCEPT !.pc = "subnets", !.try = 1])
  <2>1. PICK e : e = [j EXCEPT !.pc = "subnets", !.try = 1] OBVIOUS
  <2>2. e \in Shape /\ e.pc = "subnets" /\ e.i = j.i /\ e.nets = j.nets
    BY <2>1 DEF Job, Shape, Pcs
  <2>3. e \in Job BY <1>1, <1>2, <1>5, <2>2 DEF Job, Indexed, Providing
  <2>4. job' = [job EXCEPT ![t] = e] BY <1>2, <1>5, <2>1 DEF Set
  <2> QED BY <2>2, <2>3, <2>4, JustGoes DEF Places, get_or_create_network
<1> QED BY <1>3, <1>4, <1>5 DEF get_or_create_network

LEMMA ReadKeeps == ASSUME IInv, NEW t \in Threads, create_network(t) PROVE IInv'
<1>1. Typed /\ job[t].pc = "subnets" /\ UNCHANGED <<dnet, netrow, row, queue>>
  BY DEF IInv, create_network
<1>2. CASE Goto(t, "attempt") /\ UNCHANGED used
  <2>0. "attempt" \in Pcs /\ "attempt" \in Providing /\ job[t].pc \in Providing
    BY <1>1 DEF Pcs, Providing
  <2>1. LET e == [job[t] EXCEPT !.pc = "attempt"] IN e \in Job /\ e.pc = "attempt"
    BY <1>1, <2>0, GotoType
  <2> QED BY <1>1, <1>2, <2>1, JustGoes DEF Goto, Set, Places
<1>3. CASE Fault("subnets") /\ Raise(t)
  BY <1>1, <1>3, RaisedType, JustGoes DEF Raise, Set
<1> QED BY <1>2, <1>3 DEF create_network

LEMMA ExistsKeeps == ASSUME IInv, NEW t \in Threads, AlreadyExists(t) PROVE IInv'
<1>1. Typed /\ job[t].pc = "attempt" /\ UNCHANGED <<dnet, netrow, row, queue, used>>
  BY DEF IInv, AlreadyExists
<1>2. PICK j \in Job : j = job[t] BY <1>1 DEF Typed
<1>3. CASE Set(t, Provisioned(t)) BY <1>1, <1>3, ProvisionedType, JustGoes DEF Set
<1>4. CASE Set(t, [job[t] EXCEPT !.try = @ + 1])
  <2>1. PICK k \in Nat : k = j.try + 1 BY DEF Job, Shape
  <2>2. PICK e : e = [j EXCEPT !.try = k] OBVIOUS
  <2>3. e \in Shape /\ e.pc = "attempt" /\ e.i = j.i /\ e.nets = j.nets
    BY <1>1, <1>2, <2>2 DEF Job, Shape
  <2>4. e \in Job BY <1>1, <1>2, <2>3 DEF Job, Indexed, Providing
  <2>5. job' = [job EXCEPT ![t] = e] BY <1>2, <1>4, <2>1, <2>2 DEF Set
  <2> QED BY <1>1, <2>3, <2>4, <2>5, JustGoes DEF Places
<1>5. CASE Set(t, Raised(t, TRUE)) BY <1>1, <1>5, RaisedType, JustGoes DEF Set
<1> QED BY <1>3, <1>4, <1>5 DEF AlreadyExists

\* The row is new, and so is its uuid.
LEMMA CreateRowKeeps == ASSUME IInv, NEW t \in Threads, CreateRow(t) PROVE IInv'
<1>1. /\ Typed /\ job[t].pc = "attempt" /\ UNCHANGED <<dnet, row, queue>>
      /\ netrow[Net(t)].uuid = 0 /\ used' = UseId(Net(t))
  BY DEF IInv, CreateRow
<1>2. PICK n \in Nets : n = Net(t) BY <1>1, NetType DEF Providing
<1>3. PICK u \in Nat : u = used.ids[n] + 1 BY <1>1 DEF Typed, Used
<1>4. PICK j \in Job : j = job[t] BY <1>1 DEF Typed
<1>5. PICK e : e = [j EXCEPT !.pc = "mknet", !.uuid = u] OBVIOUS
<1>6. e \in Shape /\ e.pc = "mknet" /\ e.i = j.i /\ e.nets = j.nets /\ e.uuid = u
  BY <1>5 DEF Job, Shape, Pcs
<1>7. e \in Job BY <1>1, <1>4, <1>6 DEF Job, Indexed, Providing
<1>8. job' = [job EXCEPT ![t] = e]
  BY <1>2, <1>3, <1>4, <1>5 DEF CreateRow, Set, NextId
<1>9. /\ used' \in Used /\ used'.ids[n] = u
      /\ \A y \in Nets : y # n => used'.ids[y] = used.ids[y]
  BY <1>1, <1>2, <1>3, UseIdType
<1>10. PICK p \in Range(ProjectOf) : p = ProjectOf[t] BY NetworksAssumption DEF Range
<1>11. netrow' = [netrow EXCEPT ![n] = [uuid |-> u, id |-> 0, project |-> p]]
  BY <1>2, <1>3, <1>10 DEF CreateRow, InsertNetwork, NextId
<1>12. /\ netrow' \in [Nets -> [uuid : Nat, id : Nat, project : {"none"} \cup Range(ProjectOf)]]
       /\ netrow'[n].uuid = u /\ u > 0
       /\ \A m \in Nets : m # n => netrow'[m] = netrow[m]
  BY <1>1, <1>3, <1>11 DEF Typed, Used
<1>13. /\ job' \in [Threads -> Job] /\ job'[t] = e
       /\ \A s \in Threads : s # t => /\ job'[s] = job[s] /\ Net(s)' = Net(s)
                                      /\ \A m \in Nets : /\ Maker(s, m)' <=> Maker(s, m)
                                                         /\ Remover(s, m)' <=> Remover(s, m)
  BY <1>7, <1>8, Moved
<1>14. Net(t)' = n BY <1>2, <1>4, <1>6, <1>13 DEF Net
<1>15. Typed' BY <1>1, <1>9, <1>12, <1>13 DEF Typed
<1>16. ASSUME NEW m \in Nets PROVE (RowLeads(m) /\ MakerAlone(m) /\ RemoverLate(m))'
  <2>1. RowLeads(m) /\ MakerAlone(m) /\ RemoverLate(m) BY DEF IInv, OneInv
  <2>2. CASE m # n
    <3>1. ~Maker(t, m)' /\ ~Remover(t, m)' BY <1>14, <2>2 DEF Maker, Remover
    <3>2. RowLeads(m)' BY <1>1, <1>9, <1>12, <2>1, <2>2 DEF RowLeads
    <3>3. MakerAlone(m)' BY <1>1, <1>12, <1>13, <2>1, <2>2, <3>1 DEF MakerAlone
    <3>4. RemoverLate(m)'
      BY <1>1, <1>9, <1>12, <1>13, <1>14, <2>1, <2>2, <3>1 DEF RemoverLate, Nobody
    <3> QED BY <3>2, <3>3, <3>4
  <2>3. CASE m = n
    <3>1. dnet[m] = {} /\ dnet' = dnet BY <1>1, <1>2, <2>1, <2>3 DEF RowLeads
    <3>2. \A s \in Threads : ~Maker(s, m) BY <1>1, <1>2, <2>1, <2>3 DEF MakerAlone
    <3>3. RowLeads(m)' BY <1>9, <1>12, <2>3, <3>1 DEF RowLeads
    <3>4. MakerAlone(m)' BY <1>6, <1>12, <1>13, <2>3, <3>1, <3>2 DEF MakerAlone
    <3>5. RemoverLate(m)'
      <4>1. ASSUME NEW s \in Threads, job'[s].pc \in {"rmnet", "rmrow"}, Net(s)' = m
            PROVE  job'[s].uuid <= used'.ids[m] /\ job'[s].uuid # netrow'[m].uuid
        <5>1. s # t BY <1>6, <1>13, <4>1
        <5>2. job[s].uuid <= used.ids[m] BY <1>13, <2>1, <4>1, <5>1 DEF RemoverLate
        <5>3. job[s].uuid \in Nat /\ used.ids[m] \in Nat BY <1>1 DEF Typed, Job, Shape, Used
        <5> QED BY <1>3, <1>9, <1>12, <1>13, <2>3, <5>1, <5>2, <5>3
      <4> QED BY <4>1 DEF RemoverLate, Remover
    <3> QED BY <3>3, <3>4, <3>5
  <2> QED BY <2>2, <2>3
<1> QED BY <1>15, <1>16 DEF IInv, OneInv

\* A row goes by its uuid: nobody is about to make its network.
LEMMA DestroyRowKeeps ==
    ASSUME IInv, NEW t \in Threads, NEW n \in Nets, NEW j \in Job,
           DestroyRow(n, job[t].uuid), job' = [job EXCEPT ![t] = j], j.pc \notin Places,
           Maker(t, n) \/ Remover(t, n), UNCHANGED <<dnet, row, queue>>,
           used' \in Used, used'.ids = used.ids
    PROVE  IInv'
<1>1. /\ job' \in [Threads -> Job] /\ job'[t] = j
      /\ \A s \in Threads : s # t => /\ job'[s] = job[s] /\ Net(s)' = Net(s)
                                     /\ \A m \in Nets : /\ Maker(s, m)' <=> Maker(s, m)
                                                        /\ Remover(s, m)' <=> Remover(s, m)
  BY Moved
<1>2. \A m \in Nets : ~Maker(t, m)' /\ ~Remover(t, m)' BY <1>1 DEF Maker, Remover, Places
<1>3. CASE netrow' = netrow
  <2>1. \A m \in Nets : used.ids[m] <= used'.ids[m] BY DEF IInv, Typed, Used
  <2>2. row' \in [Containers -> Row] /\ queue' \subseteq Cargo BY DEF IInv, Typed
  <2> QED BY <1>3, <2>1, <2>2, Elsewhere
<1>4. CASE netrow[n].uuid = job[t].uuid /\ netrow' = [netrow EXCEPT ![n] = NoRow]
  <2>1. /\ netrow' \in [Nets -> [uuid : Nat, id : Nat, project : {"none"} \cup Range(ProjectOf)]]
        /\ netrow'[n].uuid = 0
        /\ \A m \in Nets : m # n => netrow'[m] = netrow[m]
    BY <1>4 DEF IInv, Typed, NoRow
  <2>2. Typed' BY <1>1, <2>1 DEF IInv, Typed
  <2>3. dnet[n] = {} /\ \A s \in Threads : s # t => ~Maker(s, n)
    BY <1>4 DEF IInv, OneInv, MakerAlone, RemoverLate, Nobody
  <2>4. ASSUME NEW m \in Nets PROVE (RowLeads(m) /\ MakerAlone(m) /\ RemoverLate(m))'
    <3>1. RowLeads(m) /\ MakerAlone(m) /\ RemoverLate(m) BY DEF IInv, OneInv
    <3>2. used.ids[m] \in Nat BY DEF IInv, Typed, Used
    <3>3. RowLeads(m)' BY <2>1, <2>3, <3>1, <3>2 DEF RowLeads
    <3>4. MakerAlone(m)' BY <1>1, <1>2, <2>1, <2>3, <3>1 DEF MakerAlone
    <3>5. ASSUME NEW s \in Threads, job'[s].pc \in {"rmnet", "rmrow"}, Net(s)' = m
          PROVE  job'[s].uuid <= used'.ids[m]
      BY <1>1, <3>1, <3>5 DEF RemoverLate, Places
    <3>6. ASSUME NEW s \in Threads, Remover(s, m)', netrow'[m].uuid = job'[s].uuid
          PROVE  Nobody(m)'
      <4>1. s # t /\ Remover(s, m) /\ job'[s] = job[s] BY <1>1, <1>2, <3>6
      <4>2. CASE m = n BY <1>1, <1>2, <2>3, <4>2 DEF Nobody
      <4>3. CASE m # n BY <1>1, <1>2, <2>1, <3>1, <3>6, <4>1, <4>3 DEF Nobody, RemoverLate
      <4> QED BY <4>2, <4>3
    <3> QED BY <3>3, <3>4, <3>5, <3>6 DEF RemoverLate
  <2> QED BY <2>2, <2>4 DEF IInv, OneInv
<1> QED BY <1>3, <1>4 DEF DestroyRow

LEMMA MakeKeeps == ASSUME IInv, NEW t \in Threads, MakeNetwork(t) PROVE IInv'
<1>1. Typed /\ job[t].pc = "mknet" /\ UNCHANGED <<row, queue>> BY DEF IInv, MakeNetwork
<1>2. PICK n \in Nets : n = Net(t) BY <1>1, NetType DEF Providing
<1>3. Maker(t, n) BY <1>1, <1>2 DEF Maker
<1>4. CASE /\ Fault("mknet") /\ DestroyRow(Net(t), job[t].uuid) /\ Raise(t) /\ UNCHANGED dnet
  <2>1. used' \in Used /\ used'.ids = used.ids BY <1>1, <1>4, FaultType
  <2>2. PICK j \in Job : j = Raised(t, TRUE) /\ j.pc \notin Places BY <1>1, RaisedType
  <2>3. job' = [job EXCEPT ![t] = j] BY <1>4, <2>2 DEF Raise, Set
  <2>4. DestroyRow(n, job[t].uuid) BY <1>2, <1>4
  <2> QED BY <1>1, <1>3, <1>4, <2>1, <2>2, <2>3, <2>4, DestroyRowKeeps
<1>5. CASE /\ used' = UseId(Net(t)) /\ dnet' = [dnet EXCEPT ![Net(t)] = @ \cup {NextId(Net(t))}]
           /\ Set(t, [job[t] EXCEPT !.pc = "saveid", !.id = NextId(Net(t))])
           /\ UNCHANGED netrow
  <2>1. PICK u \in Nat : u = used.ids[n] + 1 BY <1>1 DEF Typed, Used
  <2>2. PICK j \in Job : j = job[t] BY <1>1 DEF Typed
  <2>3. PICK e : e = [j EXCEPT !.pc = "saveid", !.id = u] OBVIOUS
  <2>4. e \in Shape /\ e.pc = "saveid" /\ e.i = j.i /\ e.nets = j.nets
    BY <2>3 DEF Job, Shape, Pcs
  <2>5. e \in Job BY <1>1, <2>2, <2>4 DEF Job, Indexed, Providing
  <2>6. job' = [job EXCEPT ![t] = e] BY <1>2, <1>5, <2>1, <2>2, <2>3 DEF Set, NextId
  <2>7. /\ used' \in Used /\ used'.ids[n] = u
        /\ \A y \in Nets : y # n => used'.ids[y] = used.ids[y]
    BY <1>1, <1>2, <1>5, <2>1, UseIdType
  <2>8. /\ job' \in [Threads -> Job] /\ job'[t] = e
        /\ \A s \in Threads : s # t => /\ job'[s] = job[s] /\ Net(s)' = Net(s)
                                       /\ \A m \in Nets : /\ Maker(s, m)' <=> Maker(s, m)
                                                          /\ Remover(s, m)' <=> Remover(s, m)
    BY <2>5, <2>6, Moved
  <2>9. \A m \in Nets : ~Maker(t, m)' /\ ~Remover(t, m)' BY <2>4, <2>8 DEF Maker, Remover
  <2>10. dnet[n] = {} /\ netrow[n].uuid # 0 /\ \A s \in Threads : s # t => ~Maker(s, n)
    BY <1>3 DEF IInv, OneInv, MakerAlone
  <2>11. dnet' = [dnet EXCEPT ![n] = {u}] BY <1>2, <1>5, <2>1, <2>10 DEF NextId
  <2>12. dnet' \in [Nets -> SUBSET Nat] /\ dnet'[n] = {u}
         /\ \A m \in Nets : m # n => dnet'[m] = dnet[m]
    BY <1>1, <2>11 DEF Typed
  <2>13. Typed' BY <1>1, <1>5, <2>7, <2>8, <2>12 DEF Typed
  <2>14. ASSUME NEW m \in Nets PROVE (RowLeads(m) /\ MakerAlone(m) /\ RemoverLate(m))'
    <3>1. RowLeads(m) /\ MakerAlone(m) /\ RemoverLate(m) BY DEF IInv, OneInv
    <3>2. used.ids[m] \in Nat /\ netrow[m].uuid \in Nat BY <1>1 DEF Typed, Used
    <3>3. CASE m # n
      <4>1. RowLeads(m)' BY <1>5, <2>7, <2>12, <3>1, <3>3 DEF RowLeads
      <4>2. MakerAlone(m)' BY <1>5, <2>8, <2>9, <2>12, <3>1, <3>3 DEF MakerAlone
      <4>3. RemoverLate(m)'
        BY <1>5, <2>4, <2>7, <2>8, <2>9, <2>12, <3>1, <3>3 DEF RemoverLate, Nobody
      <4> QED BY <4>1, <4>2, <4>3
    <3>4. CASE m = n
      <4>1. RowLeads(m)' BY <1>5, <2>1, <2>7, <2>10, <2>12, <3>1, <3>2, <3>4 DEF RowLeads
      <4>2. MakerAlone(m)' BY <2>8, <2>9, <2>10, <3>4 DEF MakerAlone
      <4>3. ASSUME NEW s \in Threads, job'[s].pc \in {"rmnet", "rmrow"}, Net(s)' = m
            PROVE  job'[s].uuid <= used'.ids[m]
        <5>1. s # t BY <2>4, <2>8, <4>3
        <5>2. job[s].uuid <= used.ids[m] BY <2>8, <3>1, <4>3, <5>1 DEF RemoverLate
        <5>3. job[s].uuid \in Nat BY <1>1 DEF Typed, Job, Shape
        <5> QED BY <2>1, <2>7, <2>8, <3>2, <3>4, <5>1, <5>2, <5>3
      <4>4. ASSUME NEW s \in Threads, Remover(s, m)', netrow'[m].uuid = job'[s].uuid
            PROVE  FALSE
        <5>1. s # t /\ Remover(s, m) /\ netrow[m].uuid = job[s].uuid BY <1>5, <2>8, <2>9, <4>4
        <5> QED BY <1>3, <3>1, <3>4, <5>1 DEF RemoverLate, Nobody
      <4> QED BY <4>1, <4>2, <4>3, <4>4 DEF RemoverLate
    <3> QED BY <3>3, <3>4
  <2> QED BY <2>13, <2>14 DEF IInv, OneInv
<1> QED BY <1>4, <1>5 DEF MakeNetwork

LEMMA SaveIdKeeps == ASSUME IInv, NEW t \in Threads, SaveNetworkId(t) PROVE IInv'
<1>1. Typed /\ job[t].pc = "saveid" /\ UNCHANGED <<dnet, row, queue, used>>
  BY DEF IInv, SaveNetworkId
<1>2. PICK n \in Nets : n = Net(t) BY <1>1, NetType DEF Providing
<1>3. CASE Raise(t) /\ UNCHANGED netrow BY <1>1, <1>3, RaisedType, JustGoes DEF Raise, Set
<1>4. CASE UpdateNetwork(t) /\ Set(t, Provisioned(t))
  <2>1. PICK j \in Job : j = Provisioned(t) /\ j.pc \notin Places BY <1>1, ProvisionedType
  <2>2. job' = [job EXCEPT ![t] = j] BY <1>4, <2>1 DEF Set
  <2>3. PICK k \in Nat : k = job[t].id BY <1>1 DEF Typed, Job, Shape
  <2>4. netrow' = [netrow EXCEPT ![n].id = k] BY <1>2, <1>4, <2>3 DEF UpdateNetwork
  <2>5. /\ netrow' \in [Nets -> [uuid : Nat, id : Nat, project : {"none"} \cup Range(ProjectOf)]]
        /\ \A m \in Nets : netrow'[m].uuid = netrow[m].uuid
    BY <1>1, <2>4 DEF Typed
  <2>6. /\ job' \in [Threads -> Job] /\ job'[t] = j
        /\ \A s \in Threads : s # t => /\ job'[s] = job[s] /\ Net(s)' = Net(s)
                                       /\ \A m \in Nets : /\ Maker(s, m)' <=> Maker(s, m)
                                                          /\ Remover(s, m)' <=> Remover(s, m)
    BY <2>2, Moved
  <2>7. \A m \in Nets : ~Maker(t, m)' /\ ~Remover(t, m)' BY <2>1, <2>6 DEF Maker, Remover, Places
  <2>8. Typed' BY <1>1, <2>5, <2>6 DEF Typed
  <2>9. ASSUME NEW m \in Nets PROVE (RowLeads(m) /\ MakerAlone(m) /\ RemoverLate(m))'
    <3>1. RowLeads(m) /\ MakerAlone(m) /\ RemoverLate(m) BY DEF IInv, OneInv
    <3>2. RowLeads(m)' BY <1>1, <2>5, <3>1 DEF RowLeads
    <3>3. MakerAlone(m)' BY <1>1, <2>5, <2>6, <2>7, <3>1 DEF MakerAlone
    <3>4. RemoverLate(m)'
      BY <1>1, <2>1, <2>5, <2>6, <2>7, <3>1 DEF RemoverLate, Nobody, Places
    <3> QED BY <3>2, <3>3, <3>4
  <2> QED BY <2>8, <2>9 DEF IInv, OneInv
<1> QED BY <1>3, <1>4 DEF SaveNetworkId

\* The Docker network goes: it was the only one, and nobody is making another.
LEMMA RemoveKeeps == ASSUME IInv, NEW t \in Threads, RemoveNetwork(t) PROVE IInv'
<1>1. Typed /\ job[t].pc = "rmnet" /\ UNCHANGED <<netrow, row, queue, used>>
  BY DEF IInv, RemoveNetwork
<1>2. PICK n \in Nets : n = Net(t) BY <1>1, NetType DEF Providing
<1>3. CASE Done(t) /\ UNCHANGED dnet
  BY <1>1, <1>3, NoJobType, JustGoes DEF Done, Set, Places
<1>4. CASE /\ dnet[Net(t)] # {} /\ Goto(t, "rmrow")
           /\ dnet' = [dnet EXCEPT ![Net(t)] = @ \ {CHOOSE i \in @ : TRUE}]
  <2>1. "rmrow" \in Pcs /\ "rmrow" \in Providing /\ job[t].pc \in Providing
    BY <1>1 DEF Pcs, Providing
  <2>2. PICK e \in Job : /\ e = [job[t] EXCEPT !.pc = "rmrow"] /\ e.pc = "rmrow"
                         /\ e.nets = job[t].nets /\ e.i = job[t].i /\ e.uuid = job[t].uuid
    BY <1>1, <2>1, GotoType
  <2>3. job' = [job EXCEPT ![t] = e] BY <1>4, <2>2 DEF Goto, Set
  <2>4. /\ job' \in [Threads -> Job] /\ job'[t] = e
        /\ \A s \in Threads : s # t => /\ job'[s] = job[s] /\ Net(s)' = Net(s)
                                       /\ \A m \in Nets : /\ Maker(s, m)' <=> Maker(s, m)
                                                          /\ Remover(s, m)' <=> Remover(s, m)
    BY <2>3, Moved
  <2>5. Net(t)' = n /\ \A m \in Nets : ~Maker(t, m)' BY <1>2, <2>2, <2>4 DEF Net, Maker
  <2>6. PICK i \in Nat : dnet[n] = {i} BY <1>2, <1>4 DEF IInv, OneInv, RowLeads
  <2>7. (CHOOSE k \in dnet[n] : TRUE) = i BY <2>6
  <2>8. dnet' = [dnet EXCEPT ![n] = {}] BY <1>2, <1>4, <2>6, <2>7
  <2>9. /\ dnet' \in [Nets -> SUBSET Nat] /\ dnet'[n] = {}
        /\ \A m \in Nets : m # n => dnet'[m] = dnet[m]
    BY <1>1, <2>8 DEF Typed
  <2>10. Typed' BY <1>1, <2>4, <2>9 DEF Typed
  <2>11. \A s \in Threads : ~Maker(s, n) BY <2>6 DEF IInv, OneInv, MakerAlone
  <2>12. ASSUME NEW m \in Nets PROVE (RowLeads(m) /\ MakerAlone(m) /\ RemoverLate(m))'
    <3>1. RowLeads(m) /\ MakerAlone(m) /\ RemoverLate(m) BY DEF IInv, OneInv
    <3>2. RowLeads(m)' BY <1>1, <2>9, <3>1 DEF RowLeads
    <3>3. MakerAlone(m)' BY <1>1, <2>4, <2>5, <2>9, <3>1 DEF MakerAlone
    <3>4. ASSUME NEW s \in Threads, job'[s].pc \in {"rmnet", "rmrow"}, Net(s)' = m
          PROVE  job'[s].uuid <= used'.ids[m]
      <4>1. CASE s = t BY <1>1, <1>2, <2>2, <2>4, <2>5, <3>1, <3>4, <4>1 DEF RemoverLate
      <4>2. CASE s # t BY <1>1, <2>4, <3>1, <3>4, <4>2 DEF RemoverLate
      <4> QED BY <4>1, <4>2
    <3>5. ASSUME NEW s \in Threads, Remover(s, m)', netrow'[m].uuid = job'[s].uuid
          PROVE  Nobody(m)'
      <4>1. CASE m = n BY <2>4, <2>5, <2>9, <2>11, <4>1 DEF Nobody
      <4>2. CASE m # n
        <5>1. s # t BY <2>5, <3>5, <4>2 DEF Remover
        <5> QED BY <1>1, <2>4, <2>5, <2>9, <3>1, <3>5, <4>2, <5>1 DEF RemoverLate, Nobody
      <4> QED BY <4>1, <4>2
    <3> QED BY <3>2, <3>3, <3>4, <3>5 DEF RemoverLate
  <2> QED BY <2>10, <2>12 DEF IInv, OneInv
<1> QED BY <1>3, <1>4 DEF RemoveNetwork

LEMMA RemoveRowKeeps == ASSUME IInv, NEW t \in Threads, RemoveNetworkRow(t) PROVE IInv'
<1>1. /\ Typed /\ job[t].pc = "rmrow" /\ UNCHANGED <<dnet, row, queue, used>>
      /\ DestroyRow(Net(t), job[t].uuid) /\ job' = [job EXCEPT ![t] = NoJob]
  BY DEF IInv, RemoveNetworkRow, Done, Set
<1>2. PICK n \in Nets : n = Net(t) BY <1>1, NetType DEF Providing
<1>3. Remover(t, n) /\ DestroyRow(n, job[t].uuid) BY <1>1, <1>2 DEF Remover
<1>4. used' \in Used /\ used'.ids = used.ids BY <1>1 DEF Typed
<1>5. NoJob \in Job /\ NoJob.pc \notin Places BY NoJobType DEF Places
<1> QED BY <1>1, <1>3, <1>4, <1>5, DestroyRowKeeps

LEMMA NetworkKeeps == ASSUME IInv, NEW t \in Threads, NetworkStep(t) PROVE IInv'
BY LookKeeps, ReadKeeps, CreateRowKeeps, ExistsKeeps, MakeKeeps, SaveIdKeeps, RemoveKeeps,
   RemoveRowKeeps DEF NetworkStep
-----------------------------------------------------------------------------
(* The steps of a container's thread                                        *)

LEMMA ContainerThread == ASSUME NEW c \in Containers PROVE c \in Threads
BY DEF Threads

\* The place of a thread that waits for nothing of its networks.
LEMMA IndexedElse ==
    ASSUME NEW j \in Shape, j.i > 0,
           j.pc \notin {"rebuild", "leave", "remove", "check"} \cup Providing
    PROVE  j \in Job /\ j.pc \notin Places
BY DEF Job, Indexed, Providing, Places

LEMMA AppendType == ASSUME NEW S, NEW s \in Seq(S), NEW g \in S PROVE Append(s, g) \in Seq(S)
OBVIOUS

LEMMA IsSequence == ASSUME NEW S, NEW m \in Nat, NEW f \in [1..m -> S] PROVE f \in Seq(S)
OBVIOUS

LEMMA SeqIn ==
    ASSUME NEW S, NEW T, NEW s \in Seq(S), S \subseteq T
    PROVE  s \in Seq(T) /\ ToSet(s) \subseteq S
<1>1. DOMAIN s = 1..Len(s) /\ Len(s) \in Nat /\ s \in [1..Len(s) -> S] OBVIOUS
<1>2. s \in [1..Len(s) -> T] BY <1>1
<1>3. s \in Seq(T) BY <1>1, <1>2, IsSequence
<1>4. \A i \in DOMAIN s : s[i] \in S BY <1>1
<1> QED BY <1>3, <1>4 DEF ToSet

LEMMA TakeKeeps == ASSUME IInv, NEW c \in Containers, Take(c) PROVE IInv'
<1>1. c \in Threads /\ Typed /\ UNCHANGED <<dnet, netrow, row, used>>
  BY ContainerThread DEF IInv, Take
<1>2. PICK m \in queue :
        /\ queue' = queue \ {m}
        /\ Set(c, [NoJob EXCEPT
              !.op = m.op, !.nets = m.nets, !.addr = m.addr, !.groups = m.groups, !.cid = m.cid,
              !.pc = FirstPc(m),
              !.left = IF m.op = "detach" THEN {m.nets[1].net} ELSE Attached(m.addr)])
  BY DEF Take
<1>3. /\ m.op \in Ops /\ m.nets \in Seq(Requested) /\ m.addr \in Addresses
      /\ m.groups \in Groups /\ m.cid \in BOOLEAN /\ (m.op = "detach" => m.nets # <<>>)
  BY <1>1 DEF Typed, Cargo
<1>4. PICK pc \in Pcs : pc = FirstPc(m) /\ pc \notin Providing
  BY <1>3 DEF FirstPc, Ops, Pcs, Providing
<1>5. PICK left \in SUBSET Nets :
        left = IF m.op = "detach" THEN {m.nets[1].net} ELSE Attached(m.addr)
  <2>1. CASE m.op = "detach"
    <3>1. m.nets[1] \in Requested BY <1>3, <2>1
    <3> QED BY <2>1, <3>1 DEF Requested
  <2>2. CASE m.op # "detach" BY <2>2 DEF Attached
  <2> QED BY <2>1, <2>2
<1>6. PICK k \in Job : k = NoJob /\ k.i = 1 BY NoJobType DEF NoJob
<1>7. PICK j : j = [k EXCEPT !.op = m.op, !.nets = m.nets, !.addr = m.addr, !.groups = m.groups,
                             !.cid = m.cid, !.pc = pc, !.left = left]
  OBVIOUS
<1>8. j \in Shape /\ j.pc = pc /\ j.i = 1 /\ j.nets = m.nets
  BY <1>3, <1>6, <1>7 DEF Job, Shape
<1>9. j \in Job
  <2>1. m.nets = <<>> \/ 1 <= Len(m.nets) BY <1>3
  <2> QED BY <1>4, <1>8, <2>1 DEF Job, Indexed
<1>10. job' = [job EXCEPT ![c] = j] BY <1>2, <1>4, <1>5, <1>6, <1>7 DEF Set
<1>11. /\ used' \in Used /\ row' \in [Containers -> Row] /\ queue' \subseteq Cargo
       /\ \A n \in Nets : used.ids[n] <= used'.ids[n]
  BY <1>1, <1>2 DEF Typed, Used
<1>12. j.pc \notin Places BY <1>4, <1>8 DEF Places, Providing
<1> QED BY <1>1, <1>9, <1>10, <1>11, <1>12, Elsewhere

LEMMA RaiseKeeps ==
    ASSUME IInv, NEW c \in Containers, NEW u \in BOOLEAN, Set(c, Raised(c, u)),
           UNCHANGED <<dnet, netrow, row, queue>>, UNCHANGED used \/ \E f : Fault(f)
    PROVE  IInv'
BY ContainerThread, RaisedType, JustGoes DEF Set, IInv

\* A thread goes to a place that asks nothing of its networks.
LEMMA GoesKeeps ==
    ASSUME IInv, NEW c \in Containers, NEW pc \in Pcs, Goto(c, pc),
           \/ pc \notin {"rebuild", "leave", "remove", "check"} \cup Providing
           \/ pc = "remove" /\ job[c].pc = "leave"
           \/ pc = "check" /\ job[c].pc \in {"leave", "remove"},
           UNCHANGED <<dnet, netrow, row, queue, used>>
    PROVE  IInv'
<1>1. c \in Threads /\ Typed BY ContainerThread DEF IInv
<1>2. PICK e \in Job : e = [job[c] EXCEPT !.pc = pc] /\ e.pc = pc BY <1>1, GotoType
<1>3. job' = [job EXCEPT ![c] = e] BY <1>2 DEF Goto, Set
<1>4. pc \notin Places BY DEF Places, Providing
<1> QED BY <1>1, <1>2, <1>3, <1>4, JustGoes

\* Its work is done, with the row as it may be.
LEMMA DoneKeeps ==
    ASSUME IInv, NEW c \in Containers, Done(c), row' \in [Containers -> Row],
           UNCHANGED <<dnet, netrow, queue, used>>
    PROVE  IInv'
<1>1. NoJob \in Job /\ NoJob.pc \notin Places BY NoJobType DEF Places
<1>2. /\ used' \in Used /\ queue' \subseteq Cargo
      /\ \A n \in Nets : used.ids[n] <= used'.ids[n]
  BY DEF IInv, Typed, Used
<1> QED BY <1>1, <1>2, ContainerThread, Elsewhere DEF Done, Set

LEMMA ExposeKeeps == ASSUME IInv, NEW c \in Containers, _process_exposed_ports(c) PROVE IInv'
<1>1. c \in Threads /\ Typed /\ job[c].pc = "expose" /\ UNCHANGED <<dnet, netrow, row, queue>>
  BY ContainerThread DEF IInv, _process_exposed_ports
<1>2. CASE Goto(c, "first") /\ UNCHANGED used
  BY <1>1, <1>2, GoesKeeps DEF Pcs, Providing
<1>3. CASE Fault("rule") /\ Raise(c) BY <1>1, <1>3, RaiseKeeps DEF Raise
<1>4. CASE /\ NextId(c) <= MaxIds /\ used' = UseId(c)
           /\ Set(c, [job[c] EXCEPT !.pc = "first", !.groups = Append(@, NextId(c))])
  <2>1. PICK j \in Job : j = job[c] BY <1>1 DEF Typed
  <2>2. c \in Nets \cup Containers /\ used.ids[c] \in Nat BY <1>1 DEF Typed, Used
  <2>3. PICK g \in 1..UserGroup : g = NextId(c) BY <1>4, <2>2, Numbers DEF NextId, UserGroup
  <2>4. PICK gs \in Groups : gs = Append(j.groups, g)
    <3>1. j.groups \in Groups BY DEF Job, Shape
    <3> QED BY <3>1, AppendType DEF Groups
  <2>5. PICK e : e = [j EXCEPT !.pc = "first", !.groups = gs] OBVIOUS
  <2>6. e \in Shape /\ e.pc = "first" /\ e.i = j.i /\ j.i > 0
    BY <2>5 DEF Job, Shape, Pcs, Indexed
  <2>7. e \in Job /\ e.pc \notin Places BY <2>6, IndexedElse DEF Providing
  <2>8. job' = [job EXCEPT ![c] = e] BY <1>4, <2>1, <2>3, <2>4, <2>5 DEF Set
  <2>9. used' \in Used /\ \A n \in Nets : used.ids[n] <= used'.ids[n]
    <3>1. /\ used' \in Used /\ used'.ids[c] = used.ids[c] + 1
          /\ \A y \in Nets \cup Containers : y # c => used'.ids[y] = used.ids[y]
      BY <1>1, <1>4, <2>2, UseIdType
    <3>2. ASSUME NEW n \in Nets PROVE used.ids[n] <= used'.ids[n]
      <4>1. used.ids[n] \in Nat BY <1>1 DEF Typed, Used
      <4>2. CASE n = c BY <3>1, <4>1, <4>2
      <4>3. CASE n # c BY <3>1, <4>1, <4>3
      <4> QED BY <4>2, <4>3
    <3> QED BY <3>1, <3>2
  <2>10. row' \in [Containers -> Row] /\ queue' \subseteq Cargo BY <1>1 DEF Typed
  <2> QED BY <1>1, <2>7, <2>8, <2>9, <2>10, Elsewhere
<1> QED BY <1>2, <1>3, <1>4 DEF _process_exposed_ports

LEMMA PortFailsKeeps ==
    ASSUME IInv, NEW c \in Containers, NEW r, PortFails(c, r),
           UNCHANGED <<dnet, netrow, row, queue>>
    PROVE  IInv'
<1>1. Raise(c) /\ (UNCHANGED used \/ \E f : Fault(f)) BY DEF PortFails
<1> QED BY <1>1, RaiseKeeps DEF Raise

LEMMA FirstPortKeeps == ASSUME IInv, NEW c \in Containers, process_networking_config(c) PROVE IInv'
<1>1. c \in Threads /\ Typed /\ UNCHANGED <<dnet, netrow, row, queue>>
  BY ContainerThread DEF IInv, process_networking_config
<1>2. CASE Raise(c) /\ UNCHANGED used BY <1>1, <1>2, RaiseKeeps DEF Raise
<1>3. CASE PortFails(c, Last(job[c].nets)) BY <1>1, <1>3, PortFailsKeeps
<1>4. CASE /\ job[c].nets # <<>> /\ UNCHANGED used
           /\ \E p \in Ports :
                 Set(c, [job[c] EXCEPT !.pc = "create", !.dirty = TRUE,
                      !.addr = [NoAddresses EXCEPT
                         ![Last(job[c].nets).net] =
                             [port |-> p, keep |-> Last(job[c].nets).keep]]])
  <2>1. PICK j \in Job : j = job[c] BY <1>1 DEF Typed
  <2>2. PICK r \in Requested : r = Last(job[c].nets)
    <3>1. j.nets \in Seq(Requested) /\ j.nets # <<>> BY <1>4, <2>1 DEF Job, Shape
    <3>2. Len(j.nets) \in 1..Len(j.nets) BY <3>1
    <3>3. j.nets[Len(j.nets)] \in Requested BY <3>1, <3>2
    <3> QED BY <2>1, <3>3 DEF Last
  <2>3. PICK p \in Ports :
          Set(c, [job[c] EXCEPT !.pc = "create", !.dirty = TRUE,
               !.addr = [NoAddresses EXCEPT ![r.net] = [port |-> p, keep |-> r.keep]]])
    BY <1>4, <2>2
  <2>4. NoAddresses \in Addresses /\ r.net \in Nets /\ r.keep \in BOOLEAN
    BY <2>2 DEF NoAddresses, Addresses, NoAddress, Requested
  <2>5. PICK a \in Addresses : a = [NoAddresses EXCEPT ![r.net] = [port |-> p, keep |-> r.keep]]
    BY <2>4, Addressed
  <2>6. PICK e : e = [j EXCEPT !.pc = "create", !.dirty = TRUE, !.addr = a] OBVIOUS
  <2>7. e \in Shape /\ e.pc = "create" /\ e.i = j.i /\ j.i > 0
    BY <2>6 DEF Job, Shape, Pcs, Indexed
  <2>8. e \in Job /\ e.pc \notin Places BY <2>7, IndexedElse DEF Providing
  <2>9. job' = [job EXCEPT ![c] = e] BY <2>1, <2>3, <2>5, <2>6 DEF Set
  <2> QED BY <1>1, <1>4, <2>8, <2>9, JustGoes
<1> QED BY <1>2, <1>3, <1>4 DEF process_networking_config

LEMMA CreateKeeps == ASSUME IInv, NEW c \in Containers, CreateContainer(c) PROVE IInv'
<1>1. c \in Threads /\ Typed /\ UNCHANGED <<dnet, netrow, row, queue>>
  BY ContainerThread DEF IInv, CreateContainer
<1>2. CASE Raise(c) /\ (UNCHANGED used \/ \E f : Fault(f)) BY <1>1, <1>2, RaiseKeeps DEF Raise
<1>3. CASE /\ UNCHANGED used
           /\ Set(c, [job[c] EXCEPT !.pc = "connect", !.i = 1, !.cid = TRUE, !.nets = Front(@)])
  <2>1. PICK j \in Job : j = job[c] BY <1>1 DEF Typed
  <2>2. PICK s \in Seq(Requested) : s = Front(j.nets)
    <3>1. j.nets \in Seq(Requested) /\ Len(j.nets) \in Nat BY DEF Job, Shape
    <3>2. SubSeq(j.nets, 1, Len(j.nets) - 1) \in Seq(Requested) BY <3>1
    <3> QED BY <3>2 DEF Front
  <2>3. PICK e : e = [j EXCEPT !.pc = "connect", !.i = 1, !.cid = TRUE, !.nets = s] OBVIOUS
  <2>4. e \in Shape /\ e.pc = "connect" /\ e.i = 1 BY <2>3 DEF Job, Shape, Pcs
  <2>5. e \in Job /\ e.pc \notin Places BY <2>4, IndexedElse DEF Providing
  <2>6. job' = [job EXCEPT ![c] = e] BY <1>3, <2>1, <2>2, <2>3 DEF Set
  <2> QED BY <1>1, <1>3, <2>5, <2>6, JustGoes
<1> QED BY <1>2, <1>3 DEF CreateContainer

\* The thread comes to the next network.
LEMMA Onward ==
    ASSUME NEW j \in Job
    PROVE  j.i + 1 \in Nat /\ j.i + 1 > 0 /\ j.i > 0
BY DEF Job, Shape, Indexed

LEMMA ConnectKeeps == ASSUME IInv, NEW c \in Containers, connect_container_to_network(c) PROVE IInv'
<1>1. c \in Threads /\ Typed /\ job[c].pc = "connect" /\ UNCHANGED <<dnet, netrow, row, queue>>
  BY ContainerThread DEF IInv, connect_container_to_network
<1>2. PICK j \in Job : j = job[c] BY <1>1 DEF Typed
<1>3. CASE Goto(c, "save") /\ UNCHANGED used BY <1>1, <1>3, GoesKeeps DEF Pcs, Providing
<1>4. CASE Set(c, [job[c] EXCEPT !.i = @ + 1]) /\ UNCHANGED used
  <2>1. PICK k \in Nat : k = j.i + 1 /\ k > 0 BY Onward
  <2>2. PICK e : e = [j EXCEPT !.i = k] OBVIOUS
  <2>3. e \in Shape /\ e.pc = "connect" /\ e.i = k BY <1>1, <1>2, <2>2 DEF Job, Shape
  <2>4. e \in Job /\ e.pc \notin Places BY <2>1, <2>3, IndexedElse DEF Providing
  <2>5. job' = [job EXCEPT ![c] = e] BY <1>2, <1>4, <2>1, <2>2 DEF Set
  <2> QED BY <1>1, <1>4, <2>4, <2>5, JustGoes
<1>5. CASE PortFails(c, job[c].nets[job[c].i]) BY <1>1, <1>5, PortFailsKeeps
<1>6. CASE /\ ~(job[c].i > Len(job[c].nets)) /\ UNCHANGED used
           /\ \E p \in Ports :
                 Set(c, [job[c] EXCEPT !.pc = "join",
                           !.new = [port |-> p, keep |-> job[c].nets[job[c].i].keep]])
  <2>1. PICK p \in Ports : Set(c, [job[c] EXCEPT !.pc = "join",
                                !.new = [port |-> p, keep |-> job[c].nets[job[c].i].keep]])
    BY <1>6
  <2>2. j.nets \in Seq(Requested) /\ j.i \in 1..Len(j.nets)
    BY <1>2, <1>6 DEF Job, Shape, Indexed
  <2>3. j.nets[j.i] \in Requested BY <2>2
  <2>4. PICK a \in Address : a = [port |-> p, keep |-> job[c].nets[job[c].i].keep]
    BY <1>2, <2>3 DEF Address, Requested
  <2>5. PICK e : e = [j EXCEPT !.pc = "join", !.new = a] OBVIOUS
  <2>6. e \in Shape /\ e.pc = "join" /\ e.i = j.i /\ j.i > 0
    BY <2>5, Onward DEF Job, Shape, Pcs
  <2>7. e \in Job /\ e.pc \notin Places BY <2>6, IndexedElse DEF Providing
  <2>8. job' = [job EXCEPT ![c] = e] BY <1>2, <2>1, <2>4, <2>5 DEF Set
  <2> QED BY <1>1, <1>6, <2>7, <2>8, JustGoes
<1> QED BY <1>3, <1>4, <1>5, <1>6 DEF connect_container_to_network

LEMMA JoinKeeps == ASSUME IInv, NEW c \in Containers, Join(c) PROVE IInv'
<1>1. c \in Threads /\ Typed /\ UNCHANGED <<dnet, netrow, row, queue>>
  BY ContainerThread DEF IInv, Join
<1>2. CASE Raise(c) /\ (UNCHANGED used \/ \E f : Fault(f)) BY <1>1, <1>2, RaiseKeeps DEF Raise
<1>3. CASE /\ UNCHANGED used
           /\ Set(c, [job[c] EXCEPT !.pc = "connect", !.i = @ + 1,
                              !.addr[job[c].nets[job[c].i].net] = job[c].new])
  <2>1. PICK j \in Job : j = job[c] BY <1>1 DEF Typed
  <2>2. PICK n : n = j.nets[j.i].net OBVIOUS
  <2>3. PICK k \in Nat : k = j.i + 1 /\ k > 0 BY Onward
  <2>4. PICK a \in Addresses : a = [j.addr EXCEPT ![n] = j.new]
    <3>1. j.addr \in Addresses /\ j.new \in Address BY DEF Job, Shape
    <3> QED BY <3>1 DEF Addresses, Address
  <2>5. PICK e : e = [j EXCEPT !.pc = "connect", !.i = k, !.addr = a] OBVIOUS
  <2>6. e \in Shape /\ e.pc = "connect" /\ e.i = k BY <2>5 DEF Job, Shape, Pcs
  <2>7. e \in Job /\ e.pc \notin Places BY <2>3, <2>6, IndexedElse DEF Providing
  <2>8. job' = [job EXCEPT ![c] = e] BY <1>3, <2>1, <2>2, <2>3, <2>4, <2>5 DEF Set
  <2> QED BY <1>1, <1>3, <2>7, <2>8, JustGoes
<1> QED BY <1>2, <1>3 DEF Join

LEMMA SaveKeeps == ASSUME IInv, NEW c \in Containers, SaveAddresses(c) PROVE IInv'
<1>1. c \in Threads /\ Typed /\ Done(c) /\ UNCHANGED <<dnet, netrow, queue, used>>
  BY ContainerThread DEF IInv, SaveAddresses
<1>2. PICK j \in Job : j = job[c] BY <1>1 DEF Typed
<1>3. j.addr \in Addresses /\ j.cid \in BOOLEAN /\ j.groups \in Groups BY DEF Job, Shape
<1>4. row' \in [Containers -> Row]
  <2>1. CASE row' = row BY <1>1, <2>1 DEF Typed
  <2>2. CASE row' = [row EXCEPT ![c].addr = job[c].addr, ![c].cid = job[c].cid,
                       ![c].st = IF job[c].op \in Finishes THEN "created" ELSE @,
                       ![c].groups = IF job[c].op = "create" THEN job[c].groups ELSE @]
    <3>1. PICK r \in Row : r = row[c] BY <1>1 DEF Typed
    <3>2. PICK st \in {"none", "creating", "created", "error", "gone"} :
            st = IF job[c].op \in Finishes THEN "created" ELSE r.st
      BY DEF Row
    <3>3. PICK gs \in Groups : gs = IF job[c].op = "create" THEN job[c].groups ELSE r.groups
      BY <1>2, <1>3 DEF Row
    <3>4. PICK e : e = [r EXCEPT !.addr = j.addr, !.cid = j.cid, !.st = st, !.groups = gs] OBVIOUS
    <3>5. e \in Row BY <1>3, <3>4 DEF Row
    <3>6. row' = [row EXCEPT ![c] = e] BY <1>2, <2>2, <3>1, <3>2, <3>3, <3>4
    <3> QED BY <1>1, <3>5, <3>6 DEF Typed
  <2> QED BY <2>1, <2>2 DEF SaveAddresses
<1> QED BY <1>1, <1>4, DoneKeeps

LEMMA FailKeeps == ASSUME IInv, NEW c \in Containers, FailContainer(c) PROVE IInv'
<1>1. c \in Threads /\ Typed /\ Done(c) /\ UNCHANGED <<dnet, netrow, queue, used>>
  BY ContainerThread DEF IInv, FailContainer
<1>2. PICK j \in Job : j = job[c] BY <1>1 DEF Typed
<1>3. j.addr \in Addresses /\ j.cid \in BOOLEAN /\ j.groups \in Groups /\ j.unset \in BOOLEAN
  BY DEF Job, Shape
<1>4. row' \in [Containers -> Row]
  <2>1. CASE row' = row BY <1>1, <2>1 DEF Typed
  <2>2. CASE row' = [row EXCEPT ![c].st = "error",
                       ![c].addr = IF j.dirty THEN j.addr ELSE @,
                       ![c].cid = IF j.dirty THEN j.cid ELSE @,
                       ![c].groups = IF j.op = "create" THEN j.groups ELSE @,
                       ![c].host = @ /\ ~j.unset]
    <3>1. PICK r \in Row : r = row[c] BY <1>1 DEF Typed
    <3>2. PICK a \in Addresses : a = IF j.dirty THEN j.addr ELSE r.addr BY <1>3 DEF Row
    <3>3. PICK id \in BOOLEAN : id = IF j.dirty THEN j.cid ELSE r.cid BY <1>3 DEF Row
    <3>4. PICK gs \in Groups : gs = IF j.op = "create" THEN j.groups ELSE r.groups
      BY <1>3 DEF Row
    <3>5. PICK h \in BOOLEAN : h = (r.host /\ ~j.unset) BY <1>3 DEF Row
    <3>6. PICK e : e = [r EXCEPT !.st = "error", !.addr = a, !.cid = id, !.groups = gs, !.host = h]
      OBVIOUS
    <3>7. e \in Row BY <3>6 DEF Row
    <3>8. row' = [row EXCEPT ![c] = e] BY <2>2, <3>1, <3>2, <3>3, <3>4, <3>5, <3>6
    <3> QED BY <1>1, <3>7, <3>8 DEF Typed
  <2> QED BY <1>2, <2>1, <2>2 DEF FailContainer
<1> QED BY <1>1, <1>4, DoneKeeps

LEMMA PlugKeeps == ASSUME IInv, NEW c \in Containers, PlugStep(c) PROVE IInv'
BY ExposeKeeps, FirstPortKeeps, CreateKeeps, ConnectKeeps, JoinKeeps, SaveKeeps, FailKeeps
DEF PlugStep

\* Any order of a finite set is a sequence of its elements.
LEMMA OrderType ==
    ASSUME NEW S, IsFiniteSet(S), NEW s \in SetToSeqs(S)
    PROVE  s \in Seq(S)
<1>1. PICK k \in Nat : k = Cardinality(S) BY FS_CardinalityType
<1>2. s \in [1..k -> S] BY <1>1 DEF SetToSeqs
<1> QED BY <1>2

LEMMA RebuildKeeps == ASSUME IInv, NEW c \in Containers, RebuildBegin(c) PROVE IInv'
<1>1. /\ c \in Threads /\ Typed /\ job[c].pc = "rebuild"
      /\ UNCHANGED <<dnet, netrow, row, queue, used>>
  BY ContainerThread DEF IInv, RebuildBegin
<1>2. PICK j \in Job : j = job[c] BY <1>1 DEF Typed
<1>3. CASE Set(c, Raised(c, FALSE)) BY <1>1, <1>3, RaiseKeeps
<1>4. CASE \E s \in SetToSeqs(Attached(j.addr)), found \in BOOLEAN :
             Set(c, [j EXCEPT !.nets = [k \in DOMAIN s |->
                                          [net |-> s[k], port |-> j.addr[s[k]].port,
                                           keep |-> j.addr[s[k]].keep]],
                       !.addr = IF found THEN Preserved(@) ELSE @,
                       !.pc = IF found THEN "leave" ELSE "check"])
  <2>1. PICK s \in SetToSeqs(Attached(j.addr)), found \in BOOLEAN :
             Set(c, [j EXCEPT !.nets = [k \in DOMAIN s |->
                                          [net |-> s[k], port |-> j.addr[s[k]].port,
                                           keep |-> j.addr[s[k]].keep]],
                       !.addr = IF found THEN Preserved(@) ELSE @,
                       !.pc = IF found THEN "leave" ELSE "check"])
    BY <1>4
  <2>2. j.addr \in Addresses /\ j.i = 1 BY <1>1, <1>2 DEF Job, Shape, Indexed
  <2>3. IsFiniteSet(Attached(j.addr)) BY NetworksAssumption, FS_Subset DEF Attached
  <2>4. s \in Seq(Attached(j.addr)) BY <2>3, OrderType
  <2>5. PICK nets \in Seq(Requested) :
          nets = [k \in DOMAIN s |-> [net |-> s[k], port |-> j.addr[s[k]].port,
                                      keep |-> j.addr[s[k]].keep]]
    <3>1. DOMAIN s = 1..Len(s) /\ Len(s) \in Nat BY <2>4
    <3>2. ASSUME NEW k \in DOMAIN s
          PROVE  [net |-> s[k], port |-> j.addr[s[k]].port,
                  keep |-> j.addr[s[k]].keep] \in Requested
      <4>1. s[k] \in Nets BY <2>4 DEF Attached
      <4>2. j.addr[s[k]].port \in Ports \cup {NoPort} /\ j.addr[s[k]].keep \in BOOLEAN
        BY <2>2, <4>1 DEF Addresses
      <4> QED BY <4>1, <4>2 DEF Requested
    <3>3. PICK m \in Nat : DOMAIN s = 1..m BY <3>1
    <3>4. [k \in DOMAIN s |-> [net |-> s[k], port |-> j.addr[s[k]].port,
                               keep |-> j.addr[s[k]].keep]] \in [1..m -> Requested]
      BY <3>2, <3>3
    <3> QED BY <3>4, IsSequence
  <2>6. PICK a \in Addresses : a = IF found THEN Preserved(j.addr) ELSE j.addr
    <3>1. Preserved(j.addr) \in Addresses
      <4>1. ASSUME NEW n \in Nets PROVE [j.addr[n] EXCEPT !.keep = TRUE] \in Address
        BY <2>2 DEF Addresses, Address
      <4> QED BY <2>2, <4>1 DEF Preserved, Addresses, Address
    <3> QED BY <2>2, <3>1
  <2>7. PICK pc \in {"leave", "check"} : pc = IF found THEN "leave" ELSE "check" OBVIOUS
  <2>8. PICK e : e = [j EXCEPT !.nets = nets, !.addr = a, !.pc = pc] OBVIOUS
  <2>9. e \in Shape /\ e.pc = pc /\ e.i = 1 /\ e.nets = nets
    BY <2>2, <2>8 DEF Job, Shape, Pcs
  <2>10. nets = <<>> \/ 1 <= Len(nets) OBVIOUS
  <2>11. e \in Job /\ e.pc \notin Places BY <2>9, <2>10 DEF Job, Indexed, Providing, Places
  <2>12. job' = [job EXCEPT ![c] = e] BY <1>2, <2>1, <2>5, <2>6, <2>7, <2>8 DEF Set
  <2> QED BY <1>1, <2>11, <2>12, JustGoes
<1> QED BY <1>2, <1>3, <1>4 DEF RebuildBegin

LEMMA LeaveKeeps ==
    ASSUME IInv, NEW c \in Containers, disconnect_container_from_network(c)
    PROVE  IInv'
<1>1. c \in Threads /\ Typed /\ job[c].pc = "leave" /\ UNCHANGED <<dnet, netrow, row, queue>>
  BY ContainerThread DEF IInv, disconnect_container_from_network
<1>2. PICK j \in Job : j = job[c] BY <1>1 DEF Typed
<1>3. j.i = 1 /\ (j.nets = <<>> \/ 1 <= Len(j.nets)) BY <1>1, <1>2 DEF Job, Shape, Indexed
<1>4. PICK n \in Nets : \/ Set(c, Left(c, n)) /\ UNCHANGED used
                        \/ Set(c, NotThere(c)) /\ UNCHANGED used
                        \/ Fault("disconnect") /\ Set(c, Raised(c, FALSE))
  <2>1. j.left \subseteq Nets BY DEF Job, Shape
  <2> QED BY <1>2, <2>1 DEF disconnect_container_from_network
<1>5. CASE Set(c, Left(c, n)) /\ UNCHANGED used
  <2>1. PICK a \in Addresses : a = [j.addr EXCEPT ![n] = NoAddress]
    <3>1. j.addr \in Addresses BY DEF Job, Shape
    <3> QED BY <3>1 DEF Addresses, NoAddress
  <2>2. CASE job[c].op = "detach"
    <3>1. PICK e : e = [j EXCEPT !.addr = a, !.pc = "save"] OBVIOUS
    <3>2. e \in Shape /\ e.pc = "save" /\ e.i = 1 BY <1>3, <3>1 DEF Job, Shape, Pcs
    <3>3. e \in Job /\ e.pc \notin Places BY <3>2, IndexedElse DEF Providing
    <3>4. job' = [job EXCEPT ![c] = e] BY <1>2, <1>5, <2>1, <2>2, <3>1 DEF Set, Left
    <3> QED BY <1>1, <1>5, <3>3, <3>4, JustGoes
  <2>3. CASE job[c].op # "detach"
    <3>1. PICK left \in SUBSET Nets : left = j.left \ {n} BY DEF Job, Shape
    <3>2. PICK e : e = [j EXCEPT !.left = left] OBVIOUS
    <3>3. e \in Shape /\ e.pc = "leave" /\ e.i = 1 /\ e.nets = j.nets
      BY <1>1, <1>2, <1>3, <3>2 DEF Job, Shape
    <3>4. e \in Job /\ e.pc \notin Places BY <1>3, <3>3 DEF Job, Indexed, Providing, Places
    <3>5. job' = [job EXCEPT ![c] = e] BY <1>2, <1>5, <2>3, <3>1, <3>2 DEF Set, Left
    <3> QED BY <1>1, <1>5, <3>4, <3>5, JustGoes
  <2> QED BY <2>2, <2>3
<1>6. CASE Set(c, NotThere(c)) /\ UNCHANGED used
  <2>1. CASE job[c].op = "detach"
    BY <1>1, <1>6, <2>1, NoJobType, JustGoes DEF Set, NotThere, Places
  <2>2. CASE job[c].op = "delete"
    <3>1. Goto(c, "destroy") BY <1>6, <2>2 DEF Set, NotThere, Goto
    <3> QED BY <1>1, <1>6, <3>1, GoesKeeps DEF Pcs, Providing
  <2>3. CASE job[c].op \notin {"detach", "delete"}
    <3>1. Goto(c, "check") BY <1>6, <2>3 DEF Set, NotThere, Goto
    <3> QED BY <1>1, <1>6, <3>1, GoesKeeps DEF Pcs
  <2> QED BY <2>1, <2>2, <2>3
<1>7. CASE Fault("disconnect") /\ Set(c, Raised(c, FALSE)) BY <1>1, <1>7, RaiseKeeps
<1> QED BY <1>4, <1>5, <1>6, <1>7

LEMMA RemovesKeep ==
    ASSUME IInv, NEW c \in Containers,
           _cleanup_exposed_ports(c) \/ RemoveContainer(c) \/ DestroyContainer(c)
    PROVE  IInv'
<1>1. CASE _cleanup_exposed_ports(c)
  <2>1. /\ job[c].pc = "leave" /\ Goto(c, "remove")
        /\ UNCHANGED <<dnet, netrow, row, queue, used>>
    BY <1>1 DEF _cleanup_exposed_ports
  <2> QED BY <2>1, GoesKeeps DEF Pcs
<1>2. CASE RemoveContainer(c)
  <2>2. job[c].pc = "remove" /\ UNCHANGED <<dnet, netrow, row, queue, used>>
    BY <1>2 DEF RemoveContainer
  <2>3. CASE Goto(c, "destroy") BY <2>2, <2>3, GoesKeeps DEF Pcs, Providing
  <2>4. CASE Goto(c, "check") BY <2>2, <2>4, GoesKeeps DEF Pcs
  <2> QED BY <1>2, <2>3, <2>4 DEF RemoveContainer
<1>3. CASE DestroyContainer(c)
  <2>1. /\ Done(c) /\ row' = [row EXCEPT ![c].st = "gone"]
        /\ UNCHANGED <<dnet, netrow, queue, used>>
    BY <1>3 DEF DestroyContainer
  <2>2. row' \in [Containers -> Row] BY <2>1 DEF IInv, Typed, Row
  <2> QED BY <2>1, <2>2, DoneKeeps
<1> QED BY <1>1, <1>2, <1>3

LEMMA GroupsKeep ==
    ASSUME IInv, NEW c \in Containers,
           add_security_groups_to_ports(c) \/ remove_security_groups_from_ports(c)
    PROVE  IInv'
<1>1. Done(c) /\ UNCHANGED <<dnet, netrow, queue, used>>
  BY DEF add_security_groups_to_ports, remove_security_groups_from_ports
<1>2. c \in Threads /\ Typed BY ContainerThread DEF IInv
<1>3. PICK old \in Groups : old = job[c].groups BY <1>2 DEF Typed, Job, Shape
<1>4. ASSUME NEW gs \in Groups, row' = [row EXCEPT ![c].groups = gs]
      PROVE  row' \in [Containers -> Row]
  BY <1>2, <1>4 DEF Typed, Row
<1>5. CASE row' = row BY <1>1, <1>2, <1>5, DoneKeeps DEF Typed
<1>6. CASE row' = [row EXCEPT ![c].groups = Append(job[c].groups, UserGroup)]
  <2>1. PICK gs \in Groups : gs = Append(old, UserGroup) BY Numbers, AppendType DEF Groups
  <2> QED BY <1>1, <1>3, <1>4, <1>6, <2>1, DoneKeeps
<1>7. CASE \E gs \in SetToSeqs(ToSet(job[c].groups) \ {UserGroup}) :
              row' = [row EXCEPT ![c].groups = gs]
  <2>1. PICK gs \in SetToSeqs(ToSet(old) \ {UserGroup}) : row' = [row EXCEPT ![c].groups = gs]
    BY <1>3, <1>7
  <2>2. ToSet(old) \ {UserGroup} \subseteq 1..UserGroup BY SeqIn DEF Groups
  <2>3. IsFiniteSet(1..UserGroup) BY Numbers, FS_Interval
  <2>4. IsFiniteSet(ToSet(old) \ {UserGroup}) BY <2>2, <2>3, FS_Subset
  <2>5. gs \in Seq(ToSet(old) \ {UserGroup}) BY <2>4, OrderType
  <2>6. gs \in Groups BY <2>2, <2>5, SeqIn DEF Groups
  <2> QED BY <1>1, <1>4, <2>1, <2>6, DoneKeeps
<1> QED BY <1>5, <1>6, <1>7 DEF add_security_groups_to_ports, remove_security_groups_from_ports

LEMMA UnplugKeeps == ASSUME IInv, NEW c \in Containers, UnplugStep(c) PROVE IInv'
BY RebuildKeeps, LeaveKeeps, RemovesKeep, GroupsKeep DEF UnplugStep

-----------------------------------------------------------------------------
(* The theorem                                                              *)

LEMMA CrashKeeps == ASSUME IInv, Crash PROVE IInv'
<1>1. Typed /\ Fault("crash") /\ job' = [t \in Threads |-> NoJob] /\ UNCHANGED <<dnet, netrow>>
  BY DEF IInv, Crash
<1>2. used' \in Used /\ used'.ids = used.ids BY <1>1, FaultType
<1>3. job' \in [Threads -> Job] /\ \A t \in Threads : job'[t].pc \notin Places
  BY <1>1, NoJobType DEF Places
<1>4. \A n \in Nets : used.ids[n] <= used'.ids[n] BY <1>1, <1>2 DEF Typed, Used
<1>5. OneInv' BY <1>1, <1>2, <1>3, <1>4, StillOne
<1>6. row' \in [Containers -> Row]
  <2>1. ASSUME NEW c \in Containers PROVE [row[c] EXCEPT !.st = "error"] \in Row /\ row[c] \in Row
    BY <1>1 DEF Typed, Row
  <2> QED BY <2>1 DEF Crash
<1>7. queue' \subseteq Cargo
  <2>1. ASSUME NEW c \in Containers PROVE Message("delete", c, <<>>) \in Cargo
    <3>1. PICK r \in Row : r = row[c] BY <1>1 DEF Typed
    <3> QED BY <3>1 DEF Message, Cargo, Row, Ops
  <2> QED BY <1>1, <2>1 DEF Crash, Busy, Typed
<1> QED BY <1>1, <1>2, <1>3, <1>5, <1>6, <1>7 DEF IInv, Typed

LEMMA InitKeeps == Init => IInv
<1> SUFFICES ASSUME Init PROVE IInv OBVIOUS
<1>1. /\ dnet = [n \in Nets |-> {}] /\ netrow = [n \in Nets |-> NoRow] /\ queue = {}
      /\ job = [t \in Threads |-> NoJob]
      /\ used = [requests |-> [t \in Threads |-> 0], faults |-> 0,
                 ids |-> [x \in Nets \cup Containers |-> 0]]
  BY DEF Init
<1>2. used \in Used BY <1>1 DEF Used
<1>3. row \in [Containers -> Row]
  <2>1. NoAddresses \in Addresses BY DEF NoAddresses, Addresses, NoAddress
  <2>2. [st |-> "none", addr |-> NoAddresses, groups |-> <<>>, host |-> FALSE,
         cid |-> FALSE] \in Row
    BY <2>1 DEF Row, Groups
  <2> QED BY <2>2 DEF Init
<1>4. Typed BY <1>1, <1>2, <1>3, NoJobType DEF Typed, NoRow
<1>5. \A t \in Threads : job[t].pc = "idle" BY <1>1, NoJobType
<1>6. OneInv
  BY <1>1, <1>5 DEF OneInv, RowLeads, MakerAlone, RemoverLate, Maker, Remover, NoRow
<1> QED BY <1>4, <1>6 DEF IInv

LEMMA StepKeeps == IInv /\ [Next]_vars => IInv'
<1> SUFFICES ASSUME IInv, [Next]_vars PROVE IInv' OBVIOUS
<1>1. CASE UNCHANGED vars
  BY <1>1 DEF vars, IInv, Typed, OneInv, RowLeads, MakerAlone, RemoverLate, Nobody, Maker,
              Remover, Net
<1>2. CASE \E t \in Threads : ThreadStep(t)
  BY <1>2, NetworkKeeps, TakeKeeps, PlugKeeps, UnplugKeeps DEF ThreadStep
<1> QED BY <1>1, <1>2, ApiKeeps, CrashKeeps DEF Next

\* What the threads of create_network and remove_network know: the creator of
\* the row is alone and finds no Docker network, and whoever destroys the row
\* has removed the network that was made for it (_create_network_attempt,
\* KuryrNetwork.remove_network).
THEOREM MakersAlone == Spec => [](Typed /\ OneInv)
BY InitKeeps, StepKeeps, PTL DEF Spec, IInv

\* Docker never holds two networks for a Neutron network, whichever requests
\* race for it, fail, are lost or are overtaken by a deletion.
THEOREM NetworkMadeOnce == Spec => []OneDockerNetwork
<1>1. IInv => OneDockerNetwork
  <2> SUFFICES ASSUME IInv, NEW n \in Nets PROVE Cardinality(dnet[n]) <= 1
    BY DEF OneDockerNetwork
  <2>1. CASE dnet[n] = {} BY <2>1, FS_EmptySet
  <2>2. CASE \E i \in Nat : dnet[n] = {i}
    <3>1. PICK i \in Nat : dnet[n] = {i} BY <2>2
    <3>2. Cardinality({i}) = 1 BY FS_Singleton
    <3> QED BY <3>1, <3>2
  <2> QED BY <2>1, <2>2 DEF IInv, OneInv, RowLeads
<1> QED BY <1>1, MakersAlone, PTL DEF IInv


-----------------------------------------------------------------------------
(* Ports and addresses: the inductive invariant                             *)

Port == [exists : BOOLEAN, device : Containers \cup {"none"},
         maker : Containers \cup {"none"}, groups : SUBSET (1..UserGroup)]

\* An address, or a request for one, that c may have: a user's port is to be
\* preserved, another one was made for c.
Fits(c, a) ==
    /\ a.port \in UserPorts => a.keep
    /\ a.port \in 1..MaxPorts => port[a.port].maker = c

\* Where there is no port there is no address either.
Whole(addr) == \A n \in Nets : addr[n].port = NoPort => addr[n] = NoAddress

AddrFits(c, addr) == Whole(addr) /\ \A n \in Nets : Fits(c, addr[n])

\* A detach names its port only by the network.
NetsFit(c, op, nets) == op # "detach" => \A k \in 1..Len(nets) : Fits(c, nets[k])

\* What a thread has fits.
JobFits(c, j) ==
    /\ AddrFits(c, j.addr)
    /\ NetsFit(c, j.op, j.nets)
    /\ Fits(c, j.new)
    /\ j.pc = "join" => j.new.port # NoPort

\* Nothing is removed under a container that is rebuilt.
Spared(j) ==
    /\ j.op = "detach" => (j.pc = "leave" /\ j.left # {}) \/ j.pc = "save"
    /\ j.pc = "leave" =>
          \/ j.op \in {"detach", "delete"}
          \/ \A n \in Nets : j.addr[n].port # NoPort => j.addr[n].keep

\* The requests of a rebuild are addresses of the row, ...
AsInRow(a, nets) ==
    \A k \in 1..Len(nets) :
        /\ nets[k].net \in Attached(a)
        /\ nets[k].port = a[nets[k].net].port
        /\ nets[k].keep = a[nets[k].net].keep

\* ... at first all of them, ...
AllOfRow(a, nets) == \A n \in Attached(a) : \E k \in 1..Len(nets) : nets[k].net = n

\* ... and later every address is there or among those still to come.
Restored(a, j, from, to) ==
    \A n \in Nets :
        \/ j.addr[n] = a[n]
        \/ j.addr[n] = NoAddress /\ \E k \in from..to : j.nets[k].net = n

Before == {"leave", "remove", "check", "subnets", "attempt", "mknet", "saveid",
           "expose", "first"}

\* The way of a rebuild from the addresses a of the row back to them.
Restoring(a, j) ==
    /\ j.pc = "rebuild" => j.addr = a
    /\ j.pc \in Before => AsInRow(a, j.nets) /\ AllOfRow(a, j.nets)
    /\ j.pc = "create" => /\ AsInRow(a, j.nets) /\ j.nets # <<>>
                          /\ Restored(a, j, 1, Len(j.nets) - 1)
    /\ j.pc \in {"connect", "join"} =>
          AsInRow(a, j.nets) /\ Restored(a, j, j.i, Len(j.nets))
    /\ j.pc = "join" => /\ j.i <= Len(j.nets)
                        /\ j.new = a[j.nets[j.i].net]
    /\ j.pc = "save" => j.addr = a

\* Who was spared overlapping requests has one at a time, made of its row.
OneRequest(c) ==
    \A m \in queue :
        m.c = c => /\ m.addr = row[c].addr /\ job[c].pc = "idle"
                   /\ \A o \in queue : o.c = c => o = m

Kept(c) ==
    /\ AddrFits(c, row[c].addr)
    /\ JobFits(c, job[c])
    /\ Spared(job[c])
    /\ \A m \in queue : m.c = c => AddrFits(c, m.addr) /\ NetsFit(c, m.op, m.nets)
    /\ c \notin spoilt => /\ OneRequest(c)
                          /\ job[c].op = "rebuild" => Restoring(row[c].addr, job[c])

KeptInv == port \in [Ports -> Port] /\ \A c \in Containers : Kept(c)

\* What a step leaves of the ports.
PortsStay ==
    /\ port' \in [Ports -> Port]
    /\ \A p \in Ports : port[p].maker # "none" => port'[p].maker = port[p].maker

-----------------------------------------------------------------------------
(* What a step leaves alone                                                 *)

LEMMA PortNumbers ==
    /\ MaxPorts \in Nat /\ 1..MaxPorts \subseteq Ports /\ UserPorts \subseteq Ports
    /\ NoPort \notin Ports /\ UserPorts \cap 1..MaxPorts = {}
BY NetworksAssumption DEF Ports, NoPort

LEMMA FitsStays ==
    ASSUME PortsStay, NEW c \in Containers, NEW a, Fits(c, a)
    PROVE  Fits(c, a)'
<1>1. c # "none" BY NetworksAssumption
<1>2. a.port \in 1..MaxPorts => a.port \in Ports BY DEF Ports
<1> QED BY <1>1, <1>2 DEF Fits, PortsStay

LEMMA AddrStays ==
    ASSUME PortsStay, NEW c \in Containers, NEW addr, AddrFits(c, addr)
    PROVE  AddrFits(c, addr)'
BY FitsStays DEF AddrFits, Whole

LEMMA NetsStay ==
    ASSUME PortsStay, NEW c \in Containers, NEW op, NEW nets, NetsFit(c, op, nets)
    PROVE  NetsFit(c, op, nets)'
BY FitsStays DEF NetsFit

LEMMA JobStays ==
    ASSUME PortsStay, NEW c \in Containers, NEW j, JobFits(c, j)
    PROVE  JobFits(c, j)'
BY FitsStays, AddrStays, NetsStay DEF JobFits

\* Nothing of c is touched.
LEMMA KeptStays ==
    ASSUME PortsStay, NEW c \in Containers, Kept(c),
           row'[c].addr = row[c].addr, job'[c] = job[c], spoilt \subseteq spoilt',
           \A m \in queue' : m.c = c => m \in queue
    PROVE  Kept(c)'
<1>1. PICK a : a = row[c].addr OBVIOUS
<1>2. PICK j : j = job[c] OBVIOUS
<1>3. AddrFits(c, a) /\ JobFits(c, j) /\ Spared(j) BY <1>1, <1>2 DEF Kept
<1>4. AddrFits(c, a)' /\ JobFits(c, j)' BY <1>3, AddrStays, JobStays
<1>5. ASSUME NEW m \in queue', m.c = c
      PROVE  AddrFits(c, m.addr)' /\ NetsFit(c, m.op, m.nets)'
  <2>1. AddrFits(c, m.addr) /\ NetsFit(c, m.op, m.nets) BY <1>5 DEF Kept
  <2> QED BY <2>1, AddrStays, NetsStay
<1>6. ASSUME c \notin spoilt'
      PROVE  /\ OneRequest(c)'
             /\ j.op = "rebuild" => Restoring(a, j)
  <2>1. OneRequest(c) /\ (j.op = "rebuild" => Restoring(a, j)) BY <1>1, <1>2, <1>6 DEF Kept
  <2> QED BY <2>1 DEF OneRequest
<1>7. AddrFits(c, row[c].addr)' BY <1>1, <1>4 DEF AddrFits, Fits, Whole
<1>8. JobFits(c, job[c])' BY <1>2, <1>4 DEF JobFits, AddrFits, NetsFit, Fits, Whole
<1>9. ASSUME NEW m \in queue', m.c = c
      PROVE (AddrFits(c, m.addr) /\ NetsFit(c, m.op, m.nets))'
  BY <1>5, <1>9
<1>10. Spared(job[c])' BY <1>2, <1>3 DEF Spared
<1>11. ASSUME c \notin spoilt', job'[c].op = "rebuild" PROVE Restoring(row[c].addr, job[c])'
  <2>1. row'[c].addr = a /\ job'[c] = j /\ Restoring(a, j) BY <1>1, <1>2, <1>6, <1>11
  <2> QED BY <2>1 DEF Restoring, AsInRow, AllOfRow, Restored, Attached
<1> QED BY <1>6, <1>7, <1>8, <1>9, <1>10, <1>11 DEF Kept

\* The invariant after a step of t, in terms of what t is left with.
LEMMA Frame ==
    ASSUME KeptInv, PortsStay, NEW t,
           \A d \in Containers : d # t => row'[d].addr = row[d].addr /\ job'[d] = job[d],
           \A m \in queue' : m \in queue \/ m.c = t, spoilt \subseteq spoilt',
           t \in Containers => Kept(t)'
    PROVE  KeptInv'
<1>1. ASSUME NEW d \in Containers, d # t PROVE Kept(d)'
  <2>1. \A m \in queue' : m.c = d => m \in queue BY <1>1
  <2>2. Kept(d) /\ row'[d].addr = row[d].addr /\ job'[d] = job[d] BY <1>1 DEF KeptInv
  <2> QED BY <1>1, <2>1, <2>2, KeptStays
<1> QED BY <1>1 DEF KeptInv, PortsStay

\* A thread that had something to do goes on with e, and the row has addr.
LEMMA Moves ==
    ASSUME KeptInv, PortsStay, NEW t \in Threads, NEW e, NEW addr,
           job \in [Threads -> Job], job' = [job EXCEPT ![t] = e], job[t].pc # "idle",
           UNCHANGED queue, spoilt \subseteq spoilt',
           \A d \in Containers : d # t => row'[d].addr = row[d].addr,
           t \in Containers => /\ row'[t].addr = addr /\ AddrFits(t, addr)
                               /\ JobFits(t, e)' /\ Spared(e)
                               /\ t \notin spoilt' /\ e.op = "rebuild" => Restoring(addr, e)
    PROVE  KeptInv'
<1>1. job'[t] = e /\ \A d \in Containers : d # t => job'[d] = job[d] BY DEF Threads
<1>2. ASSUME t \in Containers PROVE Kept(t)'
  <2>1. Kept(t) BY <1>2 DEF KeptInv
  <2>2. AddrFits(t, addr)' BY <1>2, AddrStays
  <2>3. AddrFits(t, row[t].addr)' BY <1>2, <2>2 DEF AddrFits, Fits, Whole
  <2>4. JobFits(t, job[t])' BY <1>1, <1>2 DEF JobFits, AddrFits, NetsFit, Fits, Whole
  <2>5. Spared(job[t])' BY <1>1, <1>2 DEF Spared
  <2>6. ASSUME NEW m \in queue', m.c = t PROVE (AddrFits(t, m.addr) /\ NetsFit(t, m.op, m.nets))'
    <3>1. AddrFits(t, m.addr) /\ NetsFit(t, m.op, m.nets) BY <2>1, <2>6 DEF Kept
    <3> QED BY <1>2, <3>1, AddrStays, NetsStay
  <2>7. ASSUME t \notin spoilt' PROVE OneRequest(t)'
    BY <2>1, <2>7 DEF Kept, OneRequest
  <2>8. ASSUME t \notin spoilt', job'[t].op = "rebuild" PROVE Restoring(row[t].addr, job[t])'
    <3>1. job'[t] = e /\ row'[t].addr = addr /\ t \notin spoilt' /\ e.op = "rebuild"
      BY <1>1, <1>2, <2>8
    <3>2. Restoring(addr, e) BY <1>2, <3>1
    <3> QED BY <3>1, <3>2 DEF Restoring, AsInRow, AllOfRow, Restored, Attached
  <2> QED BY <2>3, <2>4, <2>5, <2>6, <2>7, <2>8 DEF Kept
<1> QED BY <1>1, <1>2, Frame

-----------------------------------------------------------------------------
(* Ends, errors and steps that leave the addresses                          *)

LEMMA NoJobFits ==
    ASSUME NEW c
    PROVE  JobFits(c, NoJob)' /\ Spared(NoJob) /\ NoJob.op = "none"
<1>1. NoJob.addr = NoAddresses /\ NoJob.nets = <<>> /\ NoJob.new = NoAddress
      /\ NoJob.pc = "idle" /\ NoJob.op = "none"
  BY DEF NoJob
<1>2. NoAddress.port = NoPort /\ \A n \in Nets : NoAddresses[n] = NoAddress
  BY DEF NoAddress, NoAddresses
<1>3. NoPort \notin UserPorts /\ NoPort \notin 1..MaxPorts BY PortNumbers
<1>4. Fits(c, NoAddress)' BY <1>2, <1>3 DEF Fits
<1>5. AddrFits(c, NoAddresses)' BY <1>2, <1>4 DEF AddrFits, Whole
<1>6. NetsFit(c, NoJob.op, NoJob.nets)' BY <1>1 DEF NetsFit
<1> QED BY <1>1, <1>4, <1>5, <1>6 DEF JobFits, Spared

\* A thread ends, with the addresses of the row or its own in the row.
LEMMA Ends ==
    ASSUME IInv, KeptInv, PortsStay, NEW t \in Threads, Done(t), job[t].pc # "idle",
           UNCHANGED queue, spoilt \subseteq spoilt',
           \A d \in Containers : d # t => row'[d].addr = row[d].addr,
           t \in Containers => row'[t].addr \in {row[t].addr, job[t].addr}
    PROVE  KeptInv'
<1>1. PICK addr : addr = row'[t].addr OBVIOUS
<1>2. job \in [Threads -> Job] /\ job' = [job EXCEPT ![t] = NoJob] BY DEF IInv, Typed, Done, Set
<1>3. t \in Containers => AddrFits(t, addr)
  <2>1. ASSUME t \in Containers PROVE AddrFits(t, row[t].addr) /\ AddrFits(t, job[t].addr)
    BY <2>1 DEF KeptInv, Kept, JobFits
  <2> QED BY <1>1, <2>1
<1> QED BY <1>1, <1>2, <1>3, NoJobFits, Moves

\* A thread goes on with the addresses and the requests it had.
LEMMA Along ==
    ASSUME IInv, KeptInv, PortsStay, NEW t \in Threads, NEW j, NEW e, j = job[t],
           job' = [job EXCEPT ![t] = e], j.pc # "idle", UNCHANGED <<queue, row>>,
           spoilt \subseteq spoilt',
           e.addr = j.addr, e.nets = j.nets, e.new = j.new, e.op = j.op,
           e.pc \notin {"join", "leave"}, t \in Containers => e.op # "detach",
           e.op = "rebuild" => \/ e.pc \in Before /\ j.pc \in Before
                               \/ e.pc \in {"fail", "destroy", "rmrow"}
    PROVE  KeptInv'
<1>1. PICK addr : addr = row[t].addr OBVIOUS
<1>2. job \in [Threads -> Job] BY DEF IInv, Typed
<1>3. ASSUME t \in Containers
      PROVE  /\ AddrFits(t, addr) /\ JobFits(t, e)' /\ Spared(e)
             /\ t \notin spoilt' /\ e.op = "rebuild" => Restoring(addr, e)
  <2>1. AddrFits(t, addr) /\ JobFits(t, j) BY <1>1, <1>3 DEF KeptInv, Kept
  <2>2. JobFits(t, j)' BY <1>3, <2>1, JobStays
  <2>3. JobFits(t, e)' BY <2>2 DEF JobFits
  <2>4. Spared(e) BY <1>3 DEF Spared
  <2>5. ASSUME t \notin spoilt', e.op = "rebuild" PROVE Restoring(addr, e)
    <3>1. Restoring(addr, j) BY <1>1, <1>3, <2>5 DEF KeptInv, Kept
    <3>2. CASE e.pc \in Before /\ j.pc \in Before BY <3>1, <3>2 DEF Restoring, Before
    <3>3. CASE e.pc \in {"fail", "destroy", "rmrow"} BY <3>3 DEF Restoring, Before
    <3> QED BY <2>5, <3>2, <3>3
  <2> QED BY <2>1, <2>3, <2>4, <2>5
<1>4. t \in Containers => row'[t].addr = addr BY <1>1
<1>5. \A d \in Containers : d # t => row'[d].addr = row[d].addr OBVIOUS
<1> QED BY <1>2, <1>3, <1>4, <1>5, Moves

LEMMA Raises ==
    ASSUME IInv, KeptInv, PortsStay, NEW t \in Threads, NEW u \in BOOLEAN, Set(t, Raised(t, u)),
           job[t].pc # "idle", UNCHANGED <<queue, row>>, spoilt \subseteq spoilt'
    PROVE  KeptInv'
<1>1. PICK j \in Job : j = job[t] BY DEF IInv, Typed
<1>2. CASE job[t].op \in Finishes
  <2>1. PICK e : e = [j EXCEPT !.pc = "fail", !.unset = u] OBVIOUS
  <2>2. /\ e.addr = j.addr /\ e.nets = j.nets /\ e.new = j.new /\ e.op = j.op
        /\ e.pc = "fail"
    BY <2>1 DEF Job, Shape
  <2>3. job' = [job EXCEPT ![t] = e] BY <1>1, <1>2, <2>1 DEF Set, Raised
  <2>4. e.op # "detach" BY <1>1, <1>2, <2>2 DEF Finishes
  <2> QED BY <1>1, <2>2, <2>3, <2>4, Along
<1>3. CASE job[t].op \notin Finishes
  <2>1. Done(t) BY <1>3 DEF Done, Set, Raised
  <2> QED BY <2>1, Ends
<1> QED BY <1>2, <1>3

LEMMA GoesAlong ==
    ASSUME IInv, KeptInv, PortsStay, NEW t \in Threads, NEW pc, Goto(t, pc), job[t].pc # "idle",
           UNCHANGED <<queue, row>>, spoilt \subseteq spoilt',
           pc \notin {"join", "leave"}, t \in Containers => job[t].op # "detach",
           job[t].op = "rebuild" => \/ pc \in Before /\ job[t].pc \in Before
                                    \/ pc \in {"fail", "destroy", "rmrow"}
    PROVE  KeptInv'
<1>1. PICK j \in Job : j = job[t] BY DEF IInv, Typed
<1>2. PICK e : e = [j EXCEPT !.pc = pc] OBVIOUS
<1>3. /\ e.addr = j.addr /\ e.nets = j.nets /\ e.new = j.new /\ e.op = j.op /\ e.pc = pc
  BY <1>2 DEF Job, Shape
<1>4. job' = [job EXCEPT ![t] = e] BY <1>1, <1>2 DEF Goto, Set
<1> QED BY <1>1, <1>3, <1>4, Along

LEMMA PortsSame == ASSUME KeptInv, UNCHANGED port PROVE PortsStay
BY DEF KeptInv, PortsStay

\* Only a detach does not go on to the networks.
LEMMA NoDetach ==
    ASSUME KeptInv, NEW c \in Containers, job[c].pc \notin {"leave", "save"}
    PROVE  job[c].op # "detach"
BY DEF KeptInv, Kept, Spared

LEMMA ProvisionedKept ==
    ASSUME IInv, KeptInv, NEW t \in Threads, Set(t, Provisioned(t)), UNCHANGED <<port, queue, row>>,
           spoilt \subseteq spoilt', job[t].pc \in {"check", "attempt", "saveid"}
    PROVE  KeptInv'
<1>1. PICK j \in Job : j = job[t] BY DEF IInv, Typed
<1>2. PortsStay /\ (t \in Containers => j.op # "detach") /\ j.pc \in Before
  BY <1>1, PortsSame, NoDetach DEF Before
<1>3. ASSUME NEW e, job' = [job EXCEPT ![t] = e], e.addr = j.addr, e.nets = j.nets, e.new = j.new,
             e.op = j.op, e.pc \in {"check", "expose"} \/ (j.op = "attach" /\ e.pc = "connect")
      PROVE  KeptInv'
  BY <1>1, <1>2, <1>3, Along DEF Before
<1>4. CASE j.i < Len(j.nets)
  <2>1. PICK k : k = j.i + 1 OBVIOUS
  <2>2. PICK e : e = [j EXCEPT !.i = k, !.pc = "check"] OBVIOUS
  <2>3. job' = [job EXCEPT ![t] = e] BY <1>1, <1>4, <2>1, <2>2 DEF Set, Provisioned
  <2> QED BY <1>3, <2>2, <2>3 DEF Job, Shape
<1>5. CASE ~(j.i < Len(j.nets)) /\ j.op \in {"create", "rebuild"}
  <2>2. PICK e : e = [j EXCEPT !.pc = "expose"] OBVIOUS
  <2>3. job' = [job EXCEPT ![t] = e] BY <1>1, <1>5, <2>2 DEF Set, Provisioned
  <2> QED BY <1>3, <2>2, <2>3 DEF Job, Shape
<1>6. CASE ~(j.i < Len(j.nets)) /\ j.op = "attach"
  <2>2. PICK e : e = [j EXCEPT !.i = 1, !.pc = "connect"] OBVIOUS
  <2>3. job' = [job EXCEPT ![t] = e] BY <1>1, <1>6, <2>2 DEF Set, Provisioned
  <2> QED BY <1>3, <1>6, <2>2, <2>3 DEF Job, Shape
<1>7. CASE ~(j.i < Len(j.nets)) /\ j.op \notin {"create", "rebuild", "attach"}
  <2>1. Done(t) BY <1>1, <1>7 DEF Set, Provisioned, Done
  <2> QED BY <1>1, <1>2, <2>1, Ends DEF Before
<1> QED BY <1>4, <1>5, <1>6, <1>7

LEMMA NetworkKept == ASSUME IInv, KeptInv, NEW t \in Threads, NetworkStep(t) PROVE KeptInv'
<1>1. PICK j \in Job : j = job[t] BY DEF IInv, Typed
<1>2. UNCHANGED <<port, row, queue, spoilt>>
  BY DEF NetworkStep, get_or_create_network, create_network, CreateRow, AlreadyExists, MakeNetwork,
         SaveNetworkId, RemoveNetwork, RemoveNetworkRow
<1>3. PortsStay BY <1>2, PortsSame
<1>4. j.pc \in {"check", "subnets", "attempt", "mknet", "saveid", "rmnet", "rmrow"}
  BY <1>1 DEF NetworkStep, get_or_create_network, create_network, CreateRow, AlreadyExists,
              MakeNetwork, SaveNetworkId, RemoveNetwork, RemoveNetworkRow
<1>5. t \in Containers => j.op # "detach" BY <1>1, <1>4, NoDetach
<1>6. CASE Set(t, Provisioned(t)) /\ j.pc \in {"check", "attempt", "saveid"}
  BY <1>1, <1>2, <1>6, ProvisionedKept
<1>7. CASE Raise(t) BY <1>1, <1>2, <1>3, <1>4, <1>7, Raises DEF Raise
<1>8. CASE Done(t) BY <1>1, <1>2, <1>3, <1>4, <1>8, Ends
<1>9. ASSUME NEW e, job' = [job EXCEPT ![t] = e], e.addr = j.addr, e.nets = j.nets, e.new = j.new,
             e.op = j.op,
             \/ j.pc \in Before /\ e.pc \in Before \ {"leave"}
             \/ e.pc = "rmrow"
      PROVE  KeptInv'
  <2>1. e.pc \notin {"join", "leave"} BY <1>9 DEF Before
  <2> QED BY <1>1, <1>2, <1>3, <1>4, <1>5, <1>9, <2>1, Along
<1>10. CASE get_or_create_network(t)
  <2>1. CASE Goto(t, "expose") /\ j.pc = "check"
    <3>1. PICK e : e = [j EXCEPT !.pc = "expose"] OBVIOUS
    <3>2. job' = [job EXCEPT ![t] = e] BY <1>1, <2>1, <3>1 DEF Goto, Set
    <3> QED BY <1>9, <2>1, <3>1, <3>2 DEF Job, Shape, Before
  <2>2. CASE Set(t, [job[t] EXCEPT !.pc = "subnets", !.try = 1]) /\ j.pc = "check"
    <3>1. PICK e : e = [j EXCEPT !.pc = "subnets", !.try = 1] OBVIOUS
    <3>2. job' = [job EXCEPT ![t] = e] BY <1>1, <2>2, <3>1 DEF Set
    <3> QED BY <1>9, <2>2, <3>1, <3>2 DEF Job, Shape, Before
  <2> QED BY <1>1, <1>6, <1>10, <2>1, <2>2 DEF get_or_create_network, Set
<1>11. CASE create_network(t)
  <2>1. CASE Goto(t, "attempt") /\ j.pc = "subnets"
    <3>1. PICK e : e = [j EXCEPT !.pc = "attempt"] OBVIOUS
    <3>2. job' = [job EXCEPT ![t] = e] BY <1>1, <2>1, <3>1 DEF Goto, Set
    <3> QED BY <1>9, <2>1, <3>1, <3>2 DEF Job, Shape, Before
  <2> QED BY <1>1, <1>7, <1>11, <2>1 DEF create_network
<1>12. CASE CreateRow(t)
  <2>1. PICK i : i = NextId(Net(t)) OBVIOUS
  <2>2. PICK e : e = [j EXCEPT !.pc = "mknet", !.uuid = i] OBVIOUS
  <2>3. job' = [job EXCEPT ![t] = e] /\ j.pc = "attempt"
    BY <1>1, <1>12, <2>1, <2>2 DEF CreateRow, Set
  <2> QED BY <1>9, <2>2, <2>3 DEF Job, Shape, Before
<1>13. CASE AlreadyExists(t)
  <2>1. j.pc = "attempt" BY <1>1, <1>13 DEF AlreadyExists
  <2>2. CASE Set(t, [job[t] EXCEPT !.try = @ + 1])
    <3>1. PICK k : k = j.try + 1 OBVIOUS
    <3>2. PICK e : e = [j EXCEPT !.try = k] OBVIOUS
    <3>3. job' = [job EXCEPT ![t] = e] BY <1>1, <2>2, <3>1, <3>2 DEF Set
    <3> QED BY <1>9, <2>1, <3>2, <3>3 DEF Job, Shape, Before
  <2> QED BY <1>6, <1>7, <1>13, <2>1, <2>2 DEF AlreadyExists, Raise, Set
<1>14. CASE MakeNetwork(t)
  <2>1. j.pc = "mknet" BY <1>1, <1>14 DEF MakeNetwork
  <2>2. CASE Set(t, [job[t] EXCEPT !.pc = "saveid", !.id = NextId(Net(t))])
    <3>1. PICK i : i = NextId(Net(t)) OBVIOUS
    <3>2. PICK e : e = [j EXCEPT !.pc = "saveid", !.id = i] OBVIOUS
    <3>3. job' = [job EXCEPT ![t] = e] BY <1>1, <2>2, <3>1, <3>2 DEF Set
    <3> QED BY <1>9, <2>1, <3>2, <3>3 DEF Job, Shape, Before
  <2> QED BY <1>7, <1>14, <2>2 DEF MakeNetwork
<1>15. CASE SaveNetworkId(t) BY <1>1, <1>6, <1>7, <1>15 DEF SaveNetworkId
<1>16. CASE RemoveNetwork(t)
  <2>1. CASE Goto(t, "rmrow")
    <3>1. PICK e : e = [j EXCEPT !.pc = "rmrow"] OBVIOUS
    <3>2. job' = [job EXCEPT ![t] = e] BY <1>1, <2>1, <3>1 DEF Goto, Set
    <3> QED BY <1>9, <3>1, <3>2 DEF Job, Shape
  <2> QED BY <1>8, <1>16, <2>1 DEF RemoveNetwork
<1>17. CASE RemoveNetworkRow(t) BY <1>8, <1>17 DEF RemoveNetworkRow
<1> QED BY <1>10, <1>11, <1>12, <1>13, <1>14, <1>15, <1>16, <1>17 DEF NetworkStep

-----------------------------------------------------------------------------
(* Ports                                                                    *)

\* The port of a request, taken or made.
LEMMA PortForType ==
    ASSUME IInv, KeptInv, NEW c \in Containers, NEW r \in Requested, NEW p \in Ports,
           Fits(c, r), PortFor(c, r, p)
    PROVE  /\ PortsStay
           /\ Fits(c, [port |-> p, keep |-> r.keep])'
           /\ r.port # NoPort => p = r.port
<1>1. port \in [Ports -> Port] BY DEF KeptInv
<1>2. CASE r.port # NoPort
  <2>1. p = r.port /\ port' = [port EXCEPT ![p].device = c] BY <1>2 DEF PortFor
  <2>2. port' \in [Ports -> Port] BY <1>1, <2>1 DEF Port
  <2>3. \A q \in Ports : port'[q].maker = port[q].maker BY <1>1, <2>1 DEF Port
  <2>4. PortsStay BY <2>2, <2>3 DEF PortsStay
  <2>5. Fits(c, [port |-> p, keep |-> r.keep]) BY <2>1 DEF Fits
  <2> QED BY <2>1, <2>4, <2>5, FitsStays
<1>3. CASE r.port = NoPort
  <2>1. PICK gs \in SUBSET (1..UserGroup) : gs = PortGroups(c)
    <3>1. PICK s \in Seq(1..UserGroup) : s = job[c].groups
      BY ContainerThread DEF IInv, Typed, Job, Shape, Groups
    <3>2. ToSet(s) \subseteq 1..UserGroup BY SeqIn
    <3> QED BY <3>1, <3>2 DEF PortGroups
  <2>2. /\ FreePorts # {} /\ p = CHOOSE q \in FreePorts : \A o \in FreePorts : q <= o
        /\ port' = [port EXCEPT ![p] = [exists |-> TRUE, device |-> c,
                                        maker |-> c, groups |-> gs]]
    BY <1>3, <2>1 DEF PortFor
  <2>3. p \in FreePorts
    <3>1. FreePorts \subseteq Nat BY PortNumbers DEF FreePorts
    <3>2. PICK q \in FreePorts : \A o \in FreePorts : q <= o
      BY <2>2, <3>1, LeastNumber
    <3> QED BY <2>2, <3>2
  <2>4. p \in 1..MaxPorts /\ port[p].maker = "none" BY <2>3 DEF FreePorts
  <2>5. port' \in [Ports -> Port] BY <1>1, <2>2 DEF Port
  <2>6. port'[p].maker = c /\ \A q \in Ports : q # p => port'[q].maker = port[q].maker
    BY <1>1, <2>2
  <2>7. PortsStay BY <2>4, <2>5, <2>6 DEF PortsStay
  <2>8. Fits(c, [port |-> p, keep |-> r.keep])' BY <2>4, <2>6, PortNumbers DEF Fits
  <2> QED BY <1>3, <2>7, <2>8
<1> QED BY <1>2, <1>3

LEMMA UnpluggedStays ==
    ASSUME KeptInv, NEW a, port' = Unplugged(a)
    PROVE  PortsStay /\ \A p \in Ports : port[p].exists /\ ~port'[p].exists => p = a.port /\ ~a.keep
<1>1. port \in [Ports -> Port] BY DEF KeptInv
<1>2. PICK p : p = a.port OBVIOUS
<1>3. CASE port' = port BY <1>1, <1>3 DEF PortsStay
<1>4. CASE a.keep /\ port' = [port EXCEPT ![p].device = "none"]
  <2>1. port' \in [Ports -> Port] BY <1>1, <1>4, ZenonT(30) DEF Port
  <2>2. \A q \in Ports : port'[q].maker = port[q].maker /\ port'[q].exists = port[q].exists
    BY <1>1, <1>4 DEF Port
  <2> QED BY <2>1, <2>2 DEF PortsStay
<1>5. CASE ~a.keep /\ port' = [port EXCEPT ![p].exists = FALSE, ![p].device = "none"]
  <2>1. PICK mid : mid = [port EXCEPT ![p].exists = FALSE] OBVIOUS
  <2>2. port' = [mid EXCEPT ![p].device = "none"] BY <1>5, <2>1
  <2>3. /\ mid \in [Ports -> Port]
        /\ \A q \in Ports : /\ mid[q].maker = port[q].maker
                            /\ q # p => mid[q].exists = port[q].exists
    BY <1>1, <2>1 DEF Port
  <2>4. /\ port' \in [Ports -> Port]
        /\ \A q \in Ports : /\ port'[q].maker = mid[q].maker
                            /\ q # p => port'[q].exists = mid[q].exists
    BY <2>2, <2>3, ZenonT(30) DEF Port
  <2> QED BY <1>2, <1>5, <2>3, <2>4 DEF PortsStay
<1> QED BY <1>2, <1>3, <1>4, <1>5 DEF Unplugged, NoDevice, NoSuchPort

LEMMA PortFailsKept ==
    ASSUME IInv, KeptInv, NEW c \in Containers, NEW r, PortFails(c, r), job[c].pc # "idle",
           UNCHANGED <<row, queue, spoilt>>
    PROVE  KeptInv'
<1>1. Raise(c) /\ UNCHANGED port BY DEF PortFails
<1> QED BY <1>1, ContainerThread, PortsSame, Raises DEF Raise

-----------------------------------------------------------------------------
(* The steps of a creation                                                  *)

LEMMA ExposeKept ==
    ASSUME IInv, KeptInv, NEW c \in Containers, _process_exposed_ports(c) PROVE KeptInv'
<1>1. /\ c \in Threads /\ job[c].pc = "expose" /\ UNCHANGED <<port, row, queue, spoilt>>
  BY ContainerThread DEF _process_exposed_ports
<1>2. PortsStay /\ job[c].op # "detach" BY <1>1, PortsSame, NoDetach
<1>3. CASE Goto(c, "first") BY <1>1, <1>2, <1>3, GoesAlong DEF Before
<1>4. CASE Raise(c) BY <1>1, <1>2, <1>4, Raises DEF Raise
<1>5. CASE Set(c, [job[c] EXCEPT !.pc = "first", !.groups = Append(@, NextId(c))])
  <2>1. PICK j \in Job : j = job[c] BY <1>1 DEF IInv, Typed
  <2>2. PICK gs : gs = Append(j.groups, NextId(c)) OBVIOUS
  <2>3. PICK e : e = [j EXCEPT !.pc = "first", !.groups = gs] OBVIOUS
  <2>4. /\ e.addr = j.addr /\ e.nets = j.nets /\ e.new = j.new /\ e.op = j.op /\ e.pc = "first"
    BY <2>3 DEF Job, Shape
  <2>5. job' = [job EXCEPT ![c] = e] BY <1>5, <2>1, <2>2, <2>3 DEF Set
  <2>6. e.pc \in Before /\ j.pc \in Before BY <1>1, <2>1, <2>4 DEF Before
  <2> QED BY <1>1, <1>2, <2>1, <2>4, <2>5, <2>6, Along
<1> QED BY <1>3, <1>4, <1>5 DEF _process_exposed_ports

LEMMA LastIn ==
    ASSUME NEW S, NEW s \in Seq(S), s # <<>>
    PROVE  Last(s) \in S /\ Len(s) \in 1..Len(s) /\ Last(s) = s[Len(s)]
<1>1. Len(s) \in 1..Len(s) OBVIOUS
<1> QED BY <1>1 DEF Last

\* The last network of the request comes first.
LEMMA FirstRestored ==
    ASSUME NEW a \in Addresses, Whole(a), NEW nets \in Seq(Requested), nets # <<>>,
           AsInRow(a, nets), AllOfRow(a, nets), NEW p, NEW r, r = Last(nets),
           r.port # NoPort => p = r.port,
           NEW j, j.nets = nets,
           j.addr = [NoAddresses EXCEPT ![r.net] = [port |-> p, keep |-> r.keep]]
    PROVE  Restored(a, j, 1, Len(nets) - 1)
<1>1. r = nets[Len(nets)] /\ Len(nets) \in 1..Len(nets) BY LastIn
<1>2. r.net \in Attached(a) /\ r.port = a[r.net].port /\ r.keep = a[r.net].keep
  BY <1>1 DEF AsInRow
<1>3. r.net \in Nets /\ r.port # NoPort BY <1>2 DEF Attached
<1>4. SUFFICES ASSUME NEW n \in Nets
               PROVE  \/ j.addr[n] = a[n]
                      \/ j.addr[n] = NoAddress /\ \E k \in 1..(Len(nets) - 1) : nets[k].net = n
  BY DEF Restored
<1>5. CASE n = r.net
  <2>1. j.addr[n] = [port |-> p, keep |-> r.keep] BY <1>3, <1>5 DEF NoAddresses
  <2>2. a[n] = [port |-> a[n].port, keep |-> a[n].keep] BY DEF Addresses
  <2> QED BY <1>2, <1>3, <1>5, <2>1, <2>2
<1>6. CASE n # r.net
  <2>1. j.addr[n] = NoAddress BY <1>6 DEF NoAddresses
  <2>2. CASE n \in Attached(a)
    <3>1. PICK k \in 1..Len(nets) : nets[k].net = n BY <2>2 DEF AllOfRow
    <3>2. k # Len(nets) BY <1>1, <1>6, <3>1
    <3>3. k \in 1..(Len(nets) - 1) BY <3>1, <3>2
    <3> QED BY <2>1, <3>1, <3>3
  <2>3. CASE n \notin Attached(a) BY <2>1, <2>3 DEF Attached, Whole
  <2> QED BY <2>2, <2>3
<1> QED BY <1>5, <1>6

LEMMA FirstPortKept ==
    ASSUME IInv, KeptInv, NEW c \in Containers, process_networking_config(c) PROVE KeptInv'
<1>1. c \in Threads /\ job[c].pc = "first" /\ UNCHANGED <<row, queue, spoilt>>
  BY ContainerThread DEF process_networking_config
<1>2. PICK j \in Job : j = job[c] BY <1>1 DEF IInv, Typed
<1>3. CASE Raise(c) /\ UNCHANGED port BY <1>1, <1>3, PortsSame, Raises DEF Raise
<1>4. CASE PortFails(c, Last(job[c].nets)) BY <1>1, <1>4, PortFailsKept
<1>5. CASE /\ j.nets # <<>>
           /\ \E p \in Ports :
                 /\ PortFor(c, Last(j.nets), p)
                 /\ Set(c, [j EXCEPT !.pc = "create", !.dirty = TRUE,
                      !.addr = [NoAddresses EXCEPT
                         ![Last(j.nets).net] = [port |-> p, keep |-> Last(j.nets).keep]]])
  <2>1. j.nets \in Seq(Requested) BY DEF Job, Shape
  <2>2. PICK r \in Requested : r = Last(j.nets) BY <1>5, <2>1, LastIn
  <2>3. PICK p \in Ports :
           /\ PortFor(c, r, p)
           /\ Set(c, [j EXCEPT !.pc = "create", !.dirty = TRUE,
                !.addr = [NoAddresses EXCEPT ![r.net] = [port |-> p, keep |-> r.keep]]])
    BY <1>5, <2>2
  <2>4. JobFits(c, j) /\ Spared(j) /\ AddrFits(c, row[c].addr) BY <1>2 DEF KeptInv, Kept
  <2>5. j.op # "detach" BY <1>1, <1>2, <2>4 DEF Spared
  <2>6. Fits(c, r)
    <3>1. Len(j.nets) \in 1..Len(j.nets) /\ r = j.nets[Len(j.nets)] BY <1>5, <2>1, <2>2, LastIn
    <3> QED BY <2>4, <2>5, <3>1 DEF JobFits, NetsFit
  <2>7. PICK new : new = [port |-> p, keep |-> r.keep] OBVIOUS
  <2>8. PortsStay /\ Fits(c, new)' /\ (r.port # NoPort => p = r.port)
    BY <2>3, <2>6, <2>7, PortForType
  <2>9. PICK a : a = [NoAddresses EXCEPT ![r.net] = new] OBVIOUS
  <2>10. PICK e : e = [j EXCEPT !.pc = "create", !.dirty = TRUE, !.addr = a] OBVIOUS
  <2>11. /\ e.pc = "create" /\ e.addr = a /\ e.nets = j.nets /\ e.op = j.op /\ e.new = j.new
    BY <2>10 DEF Job, Shape
  <2>12. job' = [job EXCEPT ![c] = e] /\ job \in [Threads -> Job]
    BY <1>2, <2>3, <2>7, <2>9, <2>10 DEF Set, IInv, Typed
  <2>13. JobFits(c, e)'
    <3>1. JobFits(c, j)' BY <2>4, <2>8, JobStays
    <3>2. Fits(c, NoAddress)' /\ NoAddress.port = NoPort
      BY PortNumbers DEF Fits, NoAddress
    <3>3. ASSUME NEW n \in Nets PROVE a[n] = NoAddress \/ a[n] = new
      BY <2>9 DEF NoAddresses
    <3>4. new.port # NoPort BY <2>7, PortNumbers
    <3>5. AddrFits(c, a)' BY <2>8, <3>2, <3>3, <3>4 DEF AddrFits, Whole
    <3> QED BY <2>11, <3>1, <3>5 DEF JobFits
  <2>14. Spared(e) BY <2>5, <2>11 DEF Spared
  <2>15. PICK addr \in Addresses : addr = row[c].addr BY DEF IInv, Typed, Row
  <2>16. ASSUME c \notin spoilt', e.op = "rebuild" PROVE Restoring(addr, e)
    <3>1. Restoring(addr, j) BY <1>1, <1>2, <2>11, <2>15, <2>16 DEF KeptInv, Kept
    <3>2. AsInRow(addr, j.nets) /\ AllOfRow(addr, j.nets)
      BY <1>1, <1>2, <3>1 DEF Restoring, Before
    <3>3. Whole(addr) BY <2>4, <2>15 DEF AddrFits
    <3>4. e.addr = [NoAddresses EXCEPT ![r.net] = [port |-> p, keep |-> r.keep]]
      BY <2>7, <2>9, <2>11
    <3>5. Restored(addr, e, 1, Len(j.nets) - 1)
      BY <1>5, <2>1, <2>2, <2>8, <2>11, <3>2, <3>3, <3>4, FirstRestored
    <3> QED BY <1>5, <2>11, <3>2, <3>5 DEF Restoring, Before
  <2>17. AddrFits(c, addr) /\ row'[c].addr = addr BY <1>1, <2>4, <2>15
  <2> QED BY <1>1, <1>2, <2>8, <2>12, <2>13, <2>14, <2>16, <2>17, Moves
<1> QED BY <1>2, <1>3, <1>4, <1>5 DEF process_networking_config

LEMMA FrontOf ==
    ASSUME NEW S, NEW s \in Seq(S), s # <<>>
    PROVE  /\ Front(s) \in Seq(S) /\ Len(Front(s)) = Len(s) - 1
           /\ \A k \in 1..(Len(s) - 1) : Front(s)[k] = s[k]
<1> DEFINE m == Len(s) - 1
<1>1. m \in Nat /\ m = Len(s) - 1 /\ m <= Len(s)
  <2>1. Len(s) \in Nat /\ Len(s) # 0 OBVIOUS
  <2> QED BY <2>1
<1> HIDE DEF m
<1>2. SubSeq(s, 1, m) \in Seq(S) /\ Len(SubSeq(s, 1, m)) = m BY <1>1
<1>3. ASSUME NEW k \in 1..m PROVE SubSeq(s, 1, m)[k] = s[k]
  <2>1. SubSeq(s, 1, m)[k] = s[1 + k - 1] BY <1>1
  <2>2. 1 + k - 1 = k OBVIOUS
  <2> QED BY <2>1, <2>2
<1> QED BY <1>1, <1>2, <1>3 DEF Front

LEMMA CreateKept == ASSUME IInv, KeptInv, NEW c \in Containers, CreateContainer(c) PROVE KeptInv'
<1>1. c \in Threads /\ job[c].pc = "create" /\ UNCHANGED <<port, row, queue, spoilt>>
  BY ContainerThread DEF CreateContainer
<1>2. PortsStay BY <1>1, PortsSame
<1>3. CASE Raise(c) BY <1>1, <1>2, <1>3, Raises DEF Raise
<1>4. CASE Set(c, [job[c] EXCEPT !.pc = "connect", !.i = 1, !.cid = TRUE, !.nets = Front(@)])
  <2>1. PICK j \in Job : j = job[c] BY <1>1 DEF IInv, Typed
  <2>2. PICK s : s = Front(j.nets) OBVIOUS
  <2>3. PICK e : e = [j EXCEPT !.pc = "connect", !.i = 1, !.cid = TRUE, !.nets = s] OBVIOUS
  <2>4. /\ e.pc = "connect" /\ e.addr = j.addr /\ e.nets = s /\ e.op = j.op /\ e.new = j.new
        /\ e.i = 1
    BY <2>3 DEF Job, Shape
  <2>5. job' = [job EXCEPT ![c] = e] /\ job \in [Threads -> Job]
    BY <1>4, <2>1, <2>2, <2>3 DEF Set, IInv, Typed
  <2>6. PICK addr : addr = row[c].addr OBVIOUS
  <2>7. AddrFits(c, addr) /\ JobFits(c, j) /\ Spared(j) BY <2>1, <2>6 DEF KeptInv, Kept
  <2>8. j.op # "detach" BY <1>1, <2>1, <2>7 DEF Spared
  <2>9. \A k \in 1..Len(s) : k \in 1..Len(j.nets) /\ s[k] = j.nets[k]
    <3>1. j.nets \in Seq(Requested) BY DEF Job, Shape
    <3>2. CASE j.nets # <<>>
      <4>1. Len(s) = Len(j.nets) - 1 /\ \A k \in 1..(Len(j.nets) - 1) : s[k] = j.nets[k]
        BY <2>2, <3>1, <3>2, FrontOf
      <4>2. Len(j.nets) \in Nat BY <3>1
      <4> QED BY <4>1, <4>2
    <3>3. CASE j.nets = <<>>
      <4>1. s = SubSeq(<< >>, 1, 0 - 1) BY <2>2, <3>3 DEF Front
      <4>2. Len(SubSeq(<< >>, 1, 0 - 1)) = 0 OBVIOUS
      <4> QED BY <4>1, <4>2
    <3> QED BY <3>2, <3>3
  <2>10. JobFits(c, e)'
    <3>1. JobFits(c, j)' BY <1>2, <2>7, JobStays
    <3>2. NetsFit(c, j.op, s)' BY <2>8, <2>9, <3>1 DEF JobFits, NetsFit
    <3> QED BY <2>4, <3>1, <3>2 DEF JobFits
  <2>11. Spared(e) BY <2>4, <2>8 DEF Spared
  <2>12. ASSUME c \notin spoilt', e.op = "rebuild" PROVE Restoring(addr, e)
    <3>1. Restoring(addr, j) BY <1>1, <2>1, <2>4, <2>6, <2>12 DEF KeptInv, Kept
    <3>2. AsInRow(addr, j.nets) /\ j.nets # <<>> /\ Restored(addr, j, 1, Len(j.nets) - 1)
      BY <1>1, <2>1, <3>1 DEF Restoring, Before
    <3>3. AsInRow(addr, s) BY <2>9, <3>2 DEF AsInRow
    <3>4. Len(s) = Len(j.nets) - 1
      <4>1. j.nets \in Seq(Requested) BY DEF Job, Shape
      <4> QED BY <2>2, <3>2, <4>1, FrontOf
    <3>5. Restored(addr, e, 1, Len(s))
      <4>1. ASSUME NEW n \in Nets
            PROVE \/ e.addr[n] = addr[n]
                  \/ e.addr[n] = NoAddress /\ \E k \in 1..Len(s) : s[k].net = n
        <5>1. CASE j.addr[n] = addr[n] BY <2>4, <5>1
        <5>2. CASE j.addr[n] = NoAddress /\ \E k \in 1..(Len(j.nets) - 1) : j.nets[k].net = n
          BY <2>4, <2>9, <3>4, <5>2
        <5> QED BY <3>2, <5>1, <5>2 DEF Restored
      <4> QED BY <2>4, <4>1 DEF Restored
    <3> QED BY <2>4, <3>3, <3>5 DEF Restoring, Before
  <2>13. row'[c].addr = addr BY <1>1, <2>6
  <2> QED BY <1>1, <1>2, <2>5, <2>7, <2>10, <2>11, <2>12, <2>13, Moves
<1> QED BY <1>3, <1>4 DEF CreateContainer

LEMMA AddrIsFcn == ASSUME NEW a \in Addresses, NEW b \in Addresses, \A n \in Nets : a[n] = b[n]
                   PROVE  a = b
BY DEF Addresses

LEMMA ConnectKept ==
    ASSUME IInv, KeptInv, NEW c \in Containers, connect_container_to_network(c) PROVE KeptInv'
<1>1. c \in Threads /\ job[c].pc = "connect" /\ UNCHANGED <<row, queue, spoilt>>
  BY ContainerThread DEF connect_container_to_network
<1>2. PICK j \in Job : j = job[c] BY <1>1 DEF IInv, Typed
<1>3. PICK addr \in Addresses : addr = row[c].addr BY DEF IInv, Typed, Row
<1>4. AddrFits(c, addr) /\ JobFits(c, j) /\ Spared(j) BY <1>2, <1>3 DEF KeptInv, Kept
<1>5. j.op # "detach" BY <1>1, <1>2, <1>4 DEF Spared
<1>6. /\ j.nets \in Seq(Requested) /\ j.i \in Nat /\ j.i > 0 /\ j.addr \in Addresses
      /\ Len(j.nets) \in Nat
  BY DEF Job, Shape, Indexed
<1>7. ASSUME c \notin spoilt', j.op = "rebuild"
      PROVE  AsInRow(addr, j.nets) /\ Restored(addr, j, j.i, Len(j.nets))
  <2>1. Restoring(addr, j) BY <1>1, <1>2, <1>3, <1>7 DEF KeptInv, Kept
  <2> QED BY <1>1, <1>2, <2>1 DEF Restoring
<1>8. row'[c].addr = addr /\ job \in [Threads -> Job] BY <1>1, <1>3 DEF IInv, Typed
<1>9. CASE j.i > Len(j.nets) /\ Goto(c, "save") /\ UNCHANGED port
  <2>1. PortsStay BY <1>9, PortsSame
  <2>2. PICK e : e = [j EXCEPT !.pc = "save"] OBVIOUS
  <2>3. e.pc = "save" /\ e.addr = j.addr /\ e.nets = j.nets /\ e.new = j.new /\ e.op = j.op
    BY <2>2 DEF Job, Shape
  <2>4. job' = [job EXCEPT ![c] = e] BY <1>2, <1>9, <2>2 DEF Goto, Set
  <2>5. JobFits(c, j)' BY <1>4, <2>1, JobStays
  <2>6. JobFits(c, e)' BY <2>3, <2>5 DEF JobFits
  <2>7. Spared(e) BY <1>5, <2>3 DEF Spared
  <2>8. ASSUME c \notin spoilt', e.op = "rebuild" PROVE Restoring(addr, e)
    <3>1. \A n \in Nets : j.addr[n] = addr[n] BY <1>6, <1>7, <1>9, <2>3, <2>8 DEF Restored
    <3>2. j.addr = addr BY <1>6, <3>1, AddrIsFcn
    <3> QED BY <2>3, <3>2 DEF Restoring, Before
  <2> QED BY <1>1, <1>2, <1>4, <1>8, <2>1, <2>4, <2>6, <2>7, <2>8, Moves
<1>10. CASE /\ ~(j.i > Len(j.nets)) /\ j.nets[j.i].net \in Attached(j.addr)
            /\ Set(c, [j EXCEPT !.i = @ + 1]) /\ UNCHANGED port
  <2>1. PortsStay BY <1>10, PortsSame
  <2>2. PICK i \in Nat : i = j.i + 1 BY <1>6
  <2>3. PICK e : e = [j EXCEPT !.i = i] OBVIOUS
  <2>4. /\ e.pc = "connect" /\ e.addr = j.addr /\ e.nets = j.nets /\ e.new = j.new
        /\ e.op = j.op /\ e.i = i
    BY <1>1, <1>2, <2>3 DEF Job, Shape
  <2>5. job' = [job EXCEPT ![c] = e] BY <1>2, <1>10, <2>2, <2>3 DEF Set
  <2>6. JobFits(c, j)' BY <1>4, <2>1, JobStays
  <2>7. JobFits(c, e)' BY <2>4, <2>6 DEF JobFits
  <2>8. Spared(e) BY <1>5, <2>4 DEF Spared
  <2>9. ASSUME c \notin spoilt', e.op = "rebuild" PROVE Restoring(addr, e)
    <3>1. AsInRow(addr, j.nets) /\ Restored(addr, j, j.i, Len(j.nets)) BY <1>7, <2>4, <2>9
    <3>2. ASSUME NEW n \in Nets
          PROVE  \/ j.addr[n] = addr[n]
                 \/ j.addr[n] = NoAddress /\ \E k \in i..Len(j.nets) : j.nets[k].net = n
      <4>1. CASE j.addr[n] = addr[n] BY <4>1
      <4>2. CASE j.addr[n] = NoAddress /\ \E k \in j.i..Len(j.nets) : j.nets[k].net = n
        <5>1. PICK k \in j.i..Len(j.nets) : j.nets[k].net = n BY <4>2
        <5>2. n \notin Attached(j.addr) BY <4>2 DEF Attached, NoAddress
        <5>3. k # j.i BY <1>10, <5>1, <5>2
        <5>4. k \in i..Len(j.nets) BY <1>6, <2>2, <5>1, <5>3
        <5> QED BY <4>2, <5>1, <5>4
      <4> QED BY <3>1, <4>1, <4>2 DEF Restored
    <3>3. Restored(addr, e, i, Len(j.nets)) BY <2>4, <3>2 DEF Restored
    <3> QED BY <2>4, <3>1, <3>3 DEF Restoring, Before
  <2> QED BY <1>1, <1>2, <1>4, <1>8, <2>1, <2>5, <2>7, <2>8, <2>9, Moves
<1>11. CASE PortFails(c, job[c].nets[job[c].i]) BY <1>1, <1>11, PortFailsKept
<1>12. CASE /\ ~(j.i > Len(j.nets))
            /\ \E p \in Ports :
                  /\ PortFor(c, j.nets[j.i], p)
                  /\ Set(c, [j EXCEPT !.pc = "join",
                               !.new = [port |-> p, keep |-> j.nets[j.i].keep]])
  <2>1. j.i \in 1..Len(j.nets) BY <1>6, <1>12
  <2>2. PICK r \in Requested : r = j.nets[j.i] BY <1>6, <2>1
  <2>3. PICK p \in Ports : /\ PortFor(c, r, p)
                           /\ Set(c, [j EXCEPT !.pc = "join",
                                        !.new = [port |-> p, keep |-> r.keep]])
    BY <1>12, <2>2
  <2>4. Fits(c, r) BY <1>4, <1>5, <2>1, <2>2 DEF JobFits, NetsFit
  <2>5. PICK new : new = [port |-> p, keep |-> r.keep] OBVIOUS
  <2>6. PortsStay /\ Fits(c, new)' /\ (r.port # NoPort => p = r.port)
    BY <2>3, <2>4, <2>5, PortForType
  <2>7. PICK e : e = [j EXCEPT !.pc = "join", !.new = new] OBVIOUS
  <2>8. /\ e.pc = "join" /\ e.addr = j.addr /\ e.nets = j.nets /\ e.new = new /\ e.op = j.op
        /\ e.i = j.i
    BY <2>7 DEF Job, Shape
  <2>9. job' = [job EXCEPT ![c] = e] BY <1>2, <2>3, <2>5, <2>7 DEF Set
  <2>10. JobFits(c, j)' BY <1>4, <2>6, JobStays
  <2>11. new.port # NoPort BY <2>5, PortNumbers
  <2>12. JobFits(c, e)' BY <2>6, <2>8, <2>10, <2>11 DEF JobFits
  <2>13. Spared(e) BY <1>5, <2>8 DEF Spared
  <2>14. ASSUME c \notin spoilt', e.op = "rebuild" PROVE Restoring(addr, e)
    <3>1. AsInRow(addr, j.nets) /\ Restored(addr, j, j.i, Len(j.nets)) BY <1>7, <2>8, <2>14
    <3>2. r.net \in Attached(addr) /\ r.port = addr[r.net].port /\ r.keep = addr[r.net].keep
      BY <2>1, <2>2, <3>1 DEF AsInRow
    <3>3. addr[r.net] = [port |-> addr[r.net].port, keep |-> addr[r.net].keep]
      BY <3>2 DEF Attached, Addresses
    <3>4. new = addr[r.net] BY <2>5, <2>6, <3>2, <3>3 DEF Attached
    <3>5. Restored(addr, e, j.i, Len(j.nets)) BY <2>8, <3>1 DEF Restored
    <3> QED BY <2>1, <2>2, <2>8, <3>1, <3>4, <3>5 DEF Restoring, Before
  <2> QED BY <1>1, <1>2, <1>4, <1>8, <2>6, <2>9, <2>12, <2>13, <2>14, Moves
<1> QED BY <1>2, <1>9, <1>10, <1>11, <1>12 DEF connect_container_to_network

LEMMA JoinKept == ASSUME IInv, KeptInv, NEW c \in Containers, Join(c) PROVE KeptInv'
<1>1. c \in Threads /\ job[c].pc = "join" /\ UNCHANGED <<row, queue, spoilt>>
  BY ContainerThread DEF Join
<1>2. PICK j \in Job : j = job[c] BY <1>1 DEF IInv, Typed
<1>3. CASE do_port_cleanup(j.new) /\ Raise(c)
  BY <1>1, <1>3, UnpluggedStays, Raises DEF Raise, do_port_cleanup
<1>4. CASE /\ UNCHANGED port
           /\ Set(c, [j EXCEPT !.pc = "connect", !.i = @ + 1, !.addr[j.nets[j.i].net] = j.new])
  <2>1. PortsStay BY <1>4, PortsSame
  <2>2. PICK n : n = j.nets[j.i].net OBVIOUS
  <2>3. PICK i \in Nat : i = j.i + 1 BY DEF Job, Shape
  <2>4. PICK a : a = [j.addr EXCEPT ![n] = j.new] OBVIOUS
  <2>5. PICK e : e = [j EXCEPT !.pc = "connect", !.i = i, !.addr = a] OBVIOUS
  <2>6. /\ e.pc = "connect" /\ e.addr = a /\ e.nets = j.nets /\ e.new = j.new /\ e.op = j.op
        /\ e.i = i
    BY <2>5 DEF Job, Shape
  <2>7. job' = [job EXCEPT ![c] = e] /\ job \in [Threads -> Job]
    BY <1>2, <1>4, <2>2, <2>3, <2>4, <2>5 DEF Set, IInv, Typed
  <2>8. PICK addr \in Addresses : addr = row[c].addr BY DEF IInv, Typed, Row
  <2>9. AddrFits(c, addr) /\ JobFits(c, j) /\ Spared(j) BY <1>2, <2>8 DEF KeptInv, Kept
  <2>10. \A m \in Nets : a[m] = IF m = n THEN j.new ELSE j.addr[m]
    BY <2>4 DEF Job, Shape, Addresses
  <2>11. JobFits(c, e)'
    <3>1. JobFits(c, j)' BY <2>1, <2>9, JobStays
    <3>2. j.new.port # NoPort BY <1>1, <1>2, <2>9 DEF JobFits
    <3>3. AddrFits(c, a)' BY <2>10, <3>1, <3>2 DEF JobFits, AddrFits, Whole
    <3> QED BY <2>6, <3>1, <3>3 DEF JobFits
  <2>12. Spared(e) BY <1>1, <1>2, <2>6, <2>9 DEF Spared
  <2>13. ASSUME c \notin spoilt', e.op = "rebuild" PROVE Restoring(addr, e)
    <3>1. Restoring(addr, j) BY <1>1, <1>2, <2>6, <2>8, <2>13 DEF KeptInv, Kept
    <3>2. /\ AsInRow(addr, j.nets) /\ Restored(addr, j, j.i, Len(j.nets))
          /\ j.new = addr[n]
      BY <1>1, <1>2, <2>2, <3>1 DEF Restoring
    <3>3. ASSUME NEW m \in Nets
          PROVE  \/ a[m] = addr[m]
                 \/ a[m] = NoAddress /\ \E k \in i..Len(j.nets) : j.nets[k].net = m
      <4>1. CASE m = n BY <2>10, <3>2, <4>1
      <4>2. CASE m # n /\ j.addr[m] = addr[m] BY <2>10, <4>2
      <4>3. CASE m # n /\ j.addr[m] = NoAddress /\ \E k \in j.i..Len(j.nets) : j.nets[k].net = m
        <5>1. PICK k \in j.i..Len(j.nets) : j.nets[k].net = m BY <4>3
        <5>2. k # j.i BY <2>2, <4>3, <5>1
        <5>3. j.i \in Nat /\ Len(j.nets) \in Nat BY DEF Job, Shape
        <5>4. k \in i..Len(j.nets) BY <2>3, <5>1, <5>2, <5>3
        <5> QED BY <2>10, <4>3, <5>1, <5>4
      <4> QED BY <3>2, <4>1, <4>2, <4>3 DEF Restored
    <3>4. Restored(addr, e, i, Len(j.nets)) BY <2>6, <3>3 DEF Restored
    <3> QED BY <2>6, <3>2, <3>4 DEF Restoring, Before
  <2>14. row'[c].addr = addr BY <1>1, <2>8
  <2> QED BY <1>1, <2>1, <2>7, <2>9, <2>11, <2>12, <2>13, <2>14, Moves
<1> QED BY <1>2, <1>3, <1>4 DEF Join

LEMMA SavesKept ==
    ASSUME IInv, KeptInv, NEW c \in Containers, SaveAddresses(c) \/ FailContainer(c)
    PROVE  KeptInv'
<1>1. /\ c \in Threads /\ job[c].pc # "idle" /\ Done(c) /\ UNCHANGED <<port, queue, spoilt>>
  BY ContainerThread DEF SaveAddresses, FailContainer
<1>2. row \in [Containers -> Row] BY DEF IInv, Typed
<1>3. \A d \in Containers : d # c => row'[d].addr = row[d].addr
  BY <1>2 DEF SaveAddresses, FailContainer
<1>4. row'[c].addr \in {row[c].addr, job[c].addr}
  <2>1. PICK r \in Row : r = row[c] BY <1>2
  <2>2. CASE SaveAddresses(c)
    <3>1. CASE row' = row BY <3>1
    <3>2. CASE row' # row
      <4>1. PICK st : st = IF job[c].op \in Finishes THEN "created" ELSE r.st OBVIOUS
      <4>2. PICK gs : gs = IF job[c].op = "create" THEN job[c].groups ELSE r.groups OBVIOUS
      <4>3. PICK e : e = [r EXCEPT !.addr = job[c].addr, !.cid = job[c].cid, !.st = st,
                                   !.groups = gs]
        OBVIOUS
      <4>4. row' = [row EXCEPT ![c] = e] BY <2>1, <2>2, <3>2, <4>1, <4>2, <4>3 DEF SaveAddresses
      <4>5. e.addr = job[c].addr BY <4>3 DEF Row
      <4> QED BY <1>2, <4>4, <4>5
    <3> QED BY <3>1, <3>2
  <2>3. CASE FailContainer(c)
    <3>1. CASE row' = row BY <3>1
    <3>2. CASE row' # row
      <4>1. PICK a : a = IF job[c].dirty THEN job[c].addr ELSE r.addr OBVIOUS
      <4>2. PICK id : id = IF job[c].dirty THEN job[c].cid ELSE r.cid OBVIOUS
      <4>3. PICK gs : gs = IF job[c].op = "create" THEN job[c].groups ELSE r.groups OBVIOUS
      <4>4. PICK h : h = (r.host /\ ~job[c].unset) OBVIOUS
      <4>5. PICK e : e = [r EXCEPT !.st = "error", !.addr = a, !.cid = id, !.groups = gs,
                                   !.host = h]
        OBVIOUS
      <4>6. row' = [row EXCEPT ![c] = e]
        BY <2>1, <2>3, <3>2, <4>1, <4>2, <4>3, <4>4, <4>5 DEF FailContainer
      <4>7. e.addr = a BY <4>5 DEF Row
      <4> QED BY <1>2, <2>1, <4>1, <4>6, <4>7
    <3> QED BY <3>1, <3>2
  <2> QED BY <2>2, <2>3
<1> QED BY <1>1, <1>3, <1>4, PortsSame, Ends

LEMMA PlugKept == ASSUME IInv, KeptInv, NEW c \in Containers, PlugStep(c) PROVE KeptInv'
BY ExposeKept, FirstPortKept, CreateKept, ConnectKept, JoinKept, SavesKept DEF PlugStep

-----------------------------------------------------------------------------
(* The steps of a removal and of a rebuild                                  *)

\* An order of a finite set leaves nothing out.
LEMMA OrderOfAll ==
    ASSUME NEW S, IsFiniteSet(S), NEW s \in SetToSeqs(S), NEW x \in S
    PROVE  \E k \in DOMAIN s : s[k] = x
<1>1. PICK m \in Nat : m = Cardinality(S) BY FS_CardinalityType
<1>2. s \in [1..m -> S] /\ \A i, j \in 1..m : i # j => s[i] # s[j] BY <1>1 DEF SetToSeqs
<1>3. s \in Injection(1..m, S) BY <1>2 DEF Injection, IsInjective
<1>4. Cardinality(1..m) = m
  <2>1. IsFiniteSet(1..m) /\ Cardinality(1..m) = IF 1 > m THEN 0 ELSE m - 1 + 1 BY FS_Interval
  <2> QED BY <2>1
<1>5. s \in Surjection(1..m, S) BY <1>1, <1>3, <1>4, FS_Injection
<1> QED BY <1>2, <1>5 DEF Surjection

LEMMA RebuildKept == ASSUME IInv, KeptInv, NEW c \in Containers, RebuildBegin(c) PROVE KeptInv'
<1>1. c \in Threads /\ job[c].pc = "rebuild" /\ UNCHANGED <<port, row, queue, spoilt>>
  BY ContainerThread DEF RebuildBegin
<1>2. PortsStay BY <1>1, PortsSame
<1>3. PICK j \in Job : j = job[c] BY <1>1 DEF IInv, Typed
<1>4. CASE Set(c, Raised(c, FALSE)) BY <1>1, <1>2, <1>4, Raises
<1>5. CASE \E s \in SetToSeqs(Attached(j.addr)), found \in BOOLEAN :
             Set(c, [j EXCEPT !.nets = [k \in DOMAIN s |->
                                          [net |-> s[k], port |-> j.addr[s[k]].port,
                                           keep |-> j.addr[s[k]].keep]],
                       !.addr = IF found THEN Preserved(@) ELSE @,
                       !.pc = IF found THEN "leave" ELSE "check"])
  <2>1. PICK s \in SetToSeqs(Attached(j.addr)), found \in BOOLEAN :
             Set(c, [j EXCEPT !.nets = [k \in DOMAIN s |->
                                          [net |-> s[k], port |-> j.addr[s[k]].port,
                                           keep |-> j.addr[s[k]].keep]],
                       !.addr = IF found THEN Preserved(@) ELSE @,
                       !.pc = IF found THEN "leave" ELSE "check"])
    BY <1>5
  <2>2. j.addr \in Addresses BY DEF Job, Shape
  <2>3. IsFiniteSet(Attached(j.addr)) BY NetworksAssumption, FS_Subset DEF Attached
  <2>4. s \in Seq(Attached(j.addr)) BY <2>3, OrderType
  <2>5. PICK m \in Nat : DOMAIN s = 1..m BY <2>4
  <2>6. \A k \in 1..m : s[k] \in Attached(j.addr) BY <2>4, <2>5
  <2>7. PICK nets : nets = [k \in 1..m |-> [net |-> s[k], port |-> j.addr[s[k]].port,
                                            keep |-> j.addr[s[k]].keep]]
    OBVIOUS
  <2>8. /\ Len(nets) = m
        /\ \A k \in 1..m : /\ nets[k].net = s[k] /\ nets[k].port = j.addr[s[k]].port
                           /\ nets[k].keep = j.addr[s[k]].keep
    <3>1. DOMAIN nets = 1..m BY <2>7
    <3>2. nets \in Seq(Range(nets))
      <4>1. nets \in [1..m -> Range(nets)] BY <2>7 DEF Range
      <4> QED BY <4>1, IsSequence
    <3>3. Len(nets) = m BY <3>1, <3>2
    <3> QED BY <2>7, <3>3
  <2>9. PICK a : a = IF found THEN Preserved(j.addr) ELSE j.addr OBVIOUS
  <2>10. \A n \in Nets : /\ a[n].port = j.addr[n].port
                         /\ a[n].keep = j.addr[n].keep \/ a[n].keep = TRUE
                         /\ j.addr[n].port = NoPort => a[n] = j.addr[n]
                         /\ found /\ a[n].port # NoPort => a[n].keep
    BY <2>2, <2>9 DEF Preserved, Attached, Addresses
  <2>11. PICK pc : pc = IF found THEN "leave" ELSE "check" OBVIOUS
  <2>12. PICK e : e = [j EXCEPT !.nets = nets, !.addr = a, !.pc = pc] OBVIOUS
  <2>13. e.pc = pc /\ e.addr = a /\ e.nets = nets /\ e.op = j.op /\ e.new = j.new
    BY <2>12 DEF Job, Shape
  <2>14. job' = [job EXCEPT ![c] = e] /\ job \in [Threads -> Job]
    BY <1>3, <2>1, <2>5, <2>7, <2>9, <2>11, <2>12 DEF Set, IInv, Typed
  <2>15. PICK addr : addr = row[c].addr OBVIOUS
  <2>16. AddrFits(c, addr) /\ JobFits(c, j) /\ Spared(j) BY <1>3, <2>15 DEF KeptInv, Kept
  <2>17. j.op # "detach" BY <1>1, <1>3, <2>16 DEF Spared
  <2>18. JobFits(c, e)'
    <3>1. JobFits(c, j)' BY <1>2, <2>16, JobStays
    <3>2. ASSUME NEW n \in Nets PROVE Fits(c, a[n])'
      <4>1. Fits(c, j.addr[n])' BY <3>1 DEF JobFits, AddrFits
      <4> QED BY <2>10, <4>1 DEF Fits
    <3>3. AddrFits(c, a)' BY <2>10, <3>1, <3>2 DEF JobFits, AddrFits, Whole
    <3>4. NetsFit(c, j.op, nets)'
      <4>1. ASSUME NEW k \in 1..Len(nets) PROVE Fits(c, nets[k])'
        <5>1. s[k] \in Nets BY <2>6, <2>8 DEF Attached
        <5>2. Fits(c, j.addr[s[k]])' BY <3>1, <5>1 DEF JobFits, AddrFits
        <5> QED BY <2>8, <5>2 DEF Fits
      <4> QED BY <4>1 DEF NetsFit
    <3> QED BY <2>11, <2>13, <3>1, <3>3, <3>4 DEF JobFits
  <2>19. Spared(e)
    <3>1. e.pc = "leave" => found BY <2>11, <2>13
    <3> QED BY <2>10, <2>13, <2>17, <3>1 DEF Spared
  <2>20. ASSUME c \notin spoilt', e.op = "rebuild" PROVE Restoring(addr, e)
    <3>1. Restoring(addr, j) BY <1>1, <1>3, <2>13, <2>15, <2>20 DEF KeptInv, Kept
    <3>2. j.addr = addr BY <1>1, <1>3, <3>1 DEF Restoring
    <3>3. AsInRow(addr, nets) BY <2>6, <2>8, <3>2 DEF AsInRow
    <3>4. AllOfRow(addr, nets)
      <4>1. ASSUME NEW n \in Attached(addr) PROVE \E k \in 1..Len(nets) : nets[k].net = n
        <5>1. PICK k \in 1..m : s[k] = n BY <2>3, <2>5, <3>2, OrderOfAll
        <5> QED BY <2>8, <5>1
      <4> QED BY <4>1 DEF AllOfRow
    <3>5. e.pc \in {"leave", "check"} BY <2>11, <2>13
    <3> QED BY <2>13, <3>3, <3>4, <3>5 DEF Restoring, Before
  <2>21. row'[c].addr = addr BY <1>1, <2>15
  <2> QED BY <1>1, <1>2, <2>14, <2>16, <2>18, <2>19, <2>20, <2>21, Moves
<1> QED BY <1>3, <1>4, <1>5 DEF RebuildBegin

LEMMA LeaveKept ==
    ASSUME IInv, KeptInv, NEW c \in Containers, disconnect_container_from_network(c)
    PROVE  KeptInv'
<1>1. /\ c \in Threads /\ job[c].pc = "leave" /\ UNCHANGED <<row, queue>>
      /\ spoilt \subseteq spoilt'
  BY ContainerThread DEF disconnect_container_from_network
<1>2. PICK j \in Job : j = job[c] BY <1>1 DEF IInv, Typed
<1>3. PICK n \in Nets :
        /\ port' = IF j.addr[n].port = NoPort THEN port ELSE Unplugged(j.addr[n])
        /\ \/ Set(c, Left(c, n)) \/ Set(c, NotThere(c)) \/ Set(c, Raised(c, FALSE))
  <2>1. j.left \subseteq Nets BY DEF Job, Shape
  <2> QED BY <1>2, <2>1 DEF disconnect_container_from_network
<1>4. PortsStay BY <1>3, PortsSame, UnpluggedStays
<1>5. PICK addr : addr = row[c].addr OBVIOUS
<1>6. AddrFits(c, addr) /\ JobFits(c, j) /\ Spared(j) BY <1>2, <1>5 DEF KeptInv, Kept
<1>7. JobFits(c, j)' /\ row'[c].addr = addr /\ job \in [Threads -> Job]
  BY <1>1, <1>4, <1>5, <1>6, JobStays DEF IInv, Typed
<1>8. CASE Set(c, Left(c, n)) /\ job[c].op = "detach"
  <2>1. PICK a : a = [j.addr EXCEPT ![n] = NoAddress] OBVIOUS
  <2>2. PICK e : e = [j EXCEPT !.addr = a, !.pc = "save"] OBVIOUS
  <2>3. e.pc = "save" /\ e.addr = a /\ e.nets = j.nets /\ e.op = j.op /\ e.new = j.new
    BY <2>2 DEF Job, Shape
  <2>4. job' = [job EXCEPT ![c] = e] BY <1>2, <1>8, <2>1, <2>2 DEF Set, Left
  <2>5. \A m \in Nets : a[m] = IF m = n THEN NoAddress ELSE j.addr[m]
    BY <2>1 DEF Job, Shape, Addresses
  <2>6. Fits(c, NoAddress)' BY PortNumbers DEF Fits, NoAddress
  <2>7. AddrFits(c, a)' BY <1>7, <2>5, <2>6 DEF JobFits, AddrFits, Whole
  <2>8. JobFits(c, e)' BY <1>7, <2>3, <2>7 DEF JobFits
  <2>9. Spared(e) /\ e.op # "rebuild" BY <1>2, <1>8, <2>3 DEF Spared
  <2> QED BY <1>1, <1>4, <1>6, <1>7, <2>4, <2>8, <2>9, Moves
<1>9. CASE Set(c, Left(c, n)) /\ job[c].op # "detach"
  <2>1. PICK left : left = j.left \ {n} OBVIOUS
  <2>2. PICK e : e = [j EXCEPT !.left = left] OBVIOUS
  <2>3. e.pc = j.pc /\ e.addr = j.addr /\ e.nets = j.nets /\ e.op = j.op /\ e.new = j.new
    BY <2>2 DEF Job, Shape
  <2>4. job' = [job EXCEPT ![c] = e] BY <1>2, <1>9, <2>1, <2>2 DEF Set, Left
  <2>5. JobFits(c, e)' BY <1>7, <2>3 DEF JobFits
  <2>6. Spared(e) BY <1>2, <1>6, <1>9, <2>3 DEF Spared
  <2>7. ASSUME c \notin spoilt', e.op = "rebuild" PROVE Restoring(addr, e)
    <3>1. Restoring(addr, j) BY <1>1, <1>2, <1>5, <2>3, <2>7 DEF KeptInv, Kept
    <3> QED BY <1>1, <1>2, <2>3, <3>1 DEF Restoring, Before
  <2> QED BY <1>1, <1>4, <1>6, <1>7, <2>4, <2>5, <2>6, <2>7, Moves
<1>10. CASE Set(c, NotThere(c))
  <2>1. CASE job[c].op = "detach"
    <3>1. Done(c) BY <1>10, <2>1 DEF Set, NotThere, Done
    <3> QED BY <1>1, <1>4, <3>1, Ends
  <2>2. CASE job[c].op = "delete"
    <3>1. Goto(c, "destroy") BY <1>10, <2>2 DEF Set, NotThere, Goto
    <3> QED BY <1>1, <1>4, <2>2, <3>1, GoesAlong
  <2>3. CASE job[c].op \notin {"detach", "delete"}
    <3>1. Goto(c, "check") BY <1>10, <2>3 DEF Set, NotThere, Goto
    <3> QED BY <1>1, <1>4, <2>3, <3>1, GoesAlong DEF Before
  <2> QED BY <2>1, <2>2, <2>3
<1>11. CASE Set(c, Raised(c, FALSE)) BY <1>1, <1>4, <1>11, Raises
<1> QED BY <1>3, <1>8, <1>9, <1>10, <1>11

LEMMA RemovesKept ==
    ASSUME IInv, KeptInv, NEW c \in Containers,
           _cleanup_exposed_ports(c) \/ RemoveContainer(c) \/ DestroyContainer(c)
    PROVE  KeptInv'
<1>1. /\ c \in Threads /\ UNCHANGED <<port, queue, spoilt>>
      /\ job[c].pc \in {"leave", "remove", "destroy"}
  BY ContainerThread DEF _cleanup_exposed_ports, RemoveContainer, DestroyContainer
<1>2. PortsStay BY <1>1, PortsSame
<1>3. CASE _cleanup_exposed_ports(c)
  <2>1. /\ job[c].pc = "leave" /\ job[c].left = {} /\ Goto(c, "remove") /\ UNCHANGED row
    BY <1>3 DEF _cleanup_exposed_ports
  <2>2. job[c].op # "detach" BY <2>1 DEF KeptInv, Kept, Spared
  <2> QED BY <1>1, <1>2, <2>1, <2>2, GoesAlong DEF Before
<1>4. CASE RemoveContainer(c)
  <2>1. job[c].pc = "remove" /\ UNCHANGED row BY <1>4 DEF RemoveContainer
  <2>2. job[c].op # "detach" BY <2>1, NoDetach
  <2>3. CASE Goto(c, "destroy") BY <1>1, <1>2, <2>1, <2>2, <2>3, GoesAlong
  <2>4. CASE Goto(c, "check") BY <1>1, <1>2, <2>1, <2>2, <2>4, GoesAlong DEF Before
  <2> QED BY <1>4, <2>3, <2>4 DEF RemoveContainer
<1>5. CASE DestroyContainer(c)
  <2>1. Done(c) /\ row' = [row EXCEPT ![c].st = "gone"] BY <1>5 DEF DestroyContainer
  <2>2. \A d \in Containers : row'[d].addr = row[d].addr BY <2>1 DEF IInv, Typed, Row
  <2> QED BY <1>1, <1>2, <2>1, <2>2, Ends
<1> QED BY <1>3, <1>4, <1>5

LEMMA RegroupedStays ==
    ASSUME KeptInv, NEW ps, NEW add \in BOOLEAN, port' = Regrouped(ps, UserGroup, add)
    PROVE  PortsStay /\ \A p \in Ports : port'[p].exists = port[p].exists
<1>1. port \in [Ports -> Port] BY DEF KeptInv
<1>2. ASSUME NEW p \in Ports
      PROVE  /\ port'[p] \in Port /\ port'[p].maker = port[p].maker
             /\ port'[p].exists = port[p].exists
  <2>1. PICK o \in Port : o = port[p] BY <1>1
  <2>2. PICK gs \in SUBSET (1..UserGroup) :
          gs = IF add THEN o.groups \cup {UserGroup} ELSE o.groups \ {UserGroup}
    BY Numbers DEF Port
  <2>3. port'[p] = IF p \notin ps THEN o ELSE [o EXCEPT !.groups = gs]
    BY <2>1, <2>2 DEF Regrouped
  <2>4. /\ [o EXCEPT !.groups = gs] \in Port /\ [o EXCEPT !.groups = gs].maker = o.maker
        /\ [o EXCEPT !.groups = gs].exists = o.exists
    BY DEF Port
  <2> QED BY <2>1, <2>3, <2>4
<1>3. port' \in [Ports -> Port] BY <1>2 DEF Regrouped
<1> QED BY <1>2, <1>3 DEF PortsStay

LEMMA GroupsKept ==
    ASSUME IInv, KeptInv, NEW c \in Containers,
           add_security_groups_to_ports(c) \/ remove_security_groups_from_ports(c)
    PROVE  KeptInv'
<1>1. /\ c \in Threads /\ job[c].pc # "idle" /\ Done(c) /\ UNCHANGED queue
      /\ spoilt \subseteq spoilt'
  BY ContainerThread DEF add_security_groups_to_ports, remove_security_groups_from_ports
<1>2. \E ps : \E add \in BOOLEAN : port' = Regrouped(ps, UserGroup, add)
  BY DEF add_security_groups_to_ports, remove_security_groups_from_ports
<1>3. PortsStay BY <1>2, RegroupedStays
<1>4. \A d \in Containers : row'[d].addr = row[d].addr
  <2>1. row \in [Containers -> Row] BY DEF IInv, Typed
  <2>2. ASSUME NEW gs, row' = [row EXCEPT ![c].groups = gs]
        PROVE  \A d \in Containers : row'[d].addr = row[d].addr
    BY <2>1, <2>2 DEF Row
  <2> QED BY <2>2 DEF add_security_groups_to_ports, remove_security_groups_from_ports
<1> QED BY <1>1, <1>3, <1>4, Ends

LEMMA UnplugKept == ASSUME IInv, KeptInv, NEW c \in Containers, UnplugStep(c) PROVE KeptInv'
BY RebuildKept, LeaveKept, RemovesKept, GroupsKept DEF UnplugStep

-----------------------------------------------------------------------------
(* Requests                                                                 *)

LEMMA TakeKept == ASSUME IInv, KeptInv, NEW c \in Containers, Take(c) PROVE KeptInv'
<1>1. c \in Threads /\ job[c].pc = "idle" /\ UNCHANGED <<port, row, spoilt>>
  BY ContainerThread DEF Take
<1>2. PICK m \in queue :
        /\ m.c = c /\ queue' = queue \ {m}
        /\ Set(c, [NoJob EXCEPT
              !.op = m.op, !.nets = m.nets, !.addr = m.addr, !.groups = m.groups, !.cid = m.cid,
              !.pc = FirstPc(m),
              !.left = IF m.op = "detach" THEN {m.nets[1].net} ELSE Attached(m.addr)])
  BY DEF Take
<1>3. PICK pc : pc = FirstPc(m) OBVIOUS
<1>4. PICK left : left = IF m.op = "detach" THEN {m.nets[1].net} ELSE Attached(m.addr) OBVIOUS
<1>5. PICK k \in Job : k = NoJob /\ k.new = NoAddress BY NoJobType DEF NoJob
<1>6. PICK e : e = [k EXCEPT !.op = m.op, !.nets = m.nets, !.addr = m.addr, !.groups = m.groups,
                             !.cid = m.cid, !.pc = pc, !.left = left]
  OBVIOUS
<1>7. /\ e.op = m.op /\ e.nets = m.nets /\ e.addr = m.addr /\ e.pc = pc /\ e.left = left
      /\ e.new = NoAddress
  BY <1>5, <1>6 DEF Job, Shape
<1>8. job' = [job EXCEPT ![c] = e] BY <1>2, <1>3, <1>4, <1>5, <1>6 DEF Set
<1>9. job'[c] = e /\ \A d \in Containers : d # c => job'[d] = job[d]
  BY <1>1, <1>8 DEF IInv, Typed, Threads
<1>10. Kept(c) /\ PortsStay /\ m.op \in Ops BY <1>1, PortsSame DEF KeptInv, IInv, Typed, Cargo
<1>11. AddrFits(c, m.addr) /\ NetsFit(c, m.op, m.nets) /\ AddrFits(c, row[c].addr)
  BY <1>2, <1>10 DEF Kept
<1>12. /\ pc # "join" /\ (m.op = "detach" => pc = "leave") /\ (m.op = "rebuild" => pc = "rebuild")
       /\ (pc = "leave" => m.op \in {"detach", "delete"})
  BY <1>3, <1>10 DEF FirstPc, Ops
<1>13. JobFits(c, e)'
  <2>1. Fits(c, NoAddress)' BY PortNumbers DEF Fits, NoAddress
  <2>2. AddrFits(c, m.addr)' /\ NetsFit(c, m.op, m.nets)' BY <1>10, <1>11, AddrStays, NetsStay
  <2> QED BY <1>7, <1>12, <2>1, <2>2 DEF JobFits
<1>14. Spared(e) BY <1>4, <1>7, <1>12 DEF Spared
<1>15. JobFits(c, job[c])' BY <1>9, <1>13 DEF JobFits, AddrFits, NetsFit, Fits, Whole
<1>16. Spared(job[c])' BY <1>9, <1>14 DEF Spared
<1>17. PICK a : a = row[c].addr OBVIOUS
<1>18. AddrFits(c, a)' /\ row'[c].addr = a BY <1>1, <1>10, <1>11, <1>17, AddrStays
<1>19. AddrFits(c, row[c].addr)' BY <1>18 DEF AddrFits, Fits, Whole
<1>20. ASSUME NEW o \in queue', o.c = c PROVE (AddrFits(c, o.addr) /\ NetsFit(c, o.op, o.nets))'
  <2>1. AddrFits(c, o.addr) /\ NetsFit(c, o.op, o.nets) BY <1>2, <1>10, <1>20 DEF Kept
  <2> QED BY <1>10, <2>1, AddrStays, NetsStay
<1>21. ASSUME c \notin spoilt'
       PROVE  OneRequest(c)' /\ (job'[c].op = "rebuild" => Restoring(row[c].addr, job[c])')
  <2>1. OneRequest(c) BY <1>1, <1>10, <1>21 DEF Kept
  <2>2. m.addr = a /\ \A o \in queue : o.c = c => o = m BY <1>2, <1>17, <2>1 DEF OneRequest
  <2>3. OneRequest(c)' BY <1>2, <2>2 DEF OneRequest
  <2>4. ASSUME e.op = "rebuild" PROVE Restoring(a, e)
    BY <1>7, <1>12, <2>2, <2>4 DEF Restoring, Before
  <2>5. job'[c].op = "rebuild" => Restoring(row[c].addr, job[c])'
    BY <1>9, <1>18, <2>4 DEF Restoring, AsInRow, AllOfRow, Restored, Attached
  <2> QED BY <2>3, <2>5
<1>22. Kept(c)' BY <1>15, <1>16, <1>19, <1>20, <1>21 DEF Kept
<1> QED BY <1>1, <1>2, <1>9, <1>10, <1>22, Frame

\* A request carries a copy of the row.
LEMMA CastKept ==
    ASSUME IInv, KeptInv, NEW c \in Containers, NEW op, NEW nets, Cast(op, c, nets),
           NetsFit(c, op, nets), \A d \in Containers : row'[d].addr = row[d].addr
    PROVE  KeptInv'
<1>1. UNCHANGED <<port, job>> /\ spoilt \subseteq spoilt' BY DEF Cast
<1>2. PICK new : new = Message(op, c, nets) OBVIOUS
<1>3. queue' = queue \cup {new} BY <1>2 DEF Cast
<1>4. PICK a : a = row[c].addr OBVIOUS
<1>5. new.c = c /\ new.addr = a /\ new.op = op /\ new.nets = nets BY <1>2, <1>4 DEF Message
<1>6. Kept(c) /\ PortsStay BY <1>1, PortsSame DEF KeptInv
<1>7. AddrFits(c, a) BY <1>4, <1>6 DEF Kept
<1>8. PICK j : j = job[c] /\ job'[c] = j BY <1>1
<1>9. JobFits(c, j)' /\ Spared(j) BY <1>6, <1>8, JobStays DEF Kept
<1>10. JobFits(c, job[c])' BY <1>8, <1>9 DEF JobFits, AddrFits, NetsFit, Fits, Whole
<1>11. Spared(job[c])' BY <1>8, <1>9 DEF Spared
<1>12. AddrFits(c, a)' /\ row'[c].addr = a BY <1>4, <1>6, <1>7, AddrStays
<1>13. AddrFits(c, row[c].addr)' BY <1>12 DEF AddrFits, Fits, Whole
<1>14. ASSUME NEW o \in queue', o.c = c PROVE (AddrFits(c, o.addr) /\ NetsFit(c, o.op, o.nets))'
  <2>1. AddrFits(c, o.addr) /\ NetsFit(c, o.op, o.nets)
    BY <1>3, <1>5, <1>6, <1>7, <1>14 DEF Kept
  <2> QED BY <1>6, <2>1, AddrStays, NetsStay
<1>15. ASSUME c \notin spoilt'
       PROVE  OneRequest(c)' /\ (job'[c].op = "rebuild" => Restoring(row[c].addr, job[c])')
  <2>1. j.op = "rebuild" => Restoring(a, j) BY <1>1, <1>4, <1>6, <1>8, <1>15 DEF Kept
  <2>2. j.pc = "idle" /\ \A m \in queue : m.c # c BY <1>8, <1>15 DEF Cast, Pending
  <2>3. OneRequest(c)' BY <1>3, <1>5, <1>8, <1>12, <2>2 DEF OneRequest
  <2>4. job'[c].op = "rebuild" => Restoring(row[c].addr, job[c])'
    BY <1>8, <1>12, <2>1 DEF Restoring, AsInRow, AllOfRow, Restored, Attached
  <2> QED BY <2>3, <2>4
<1>16. Kept(c)' BY <1>10, <1>11, <1>13, <1>14, <1>15 DEF Kept
<1> QED BY <1>1, <1>3, <1>5, <1>6, <1>16, Frame

LEMMA RequestFits ==
    ASSUME NEW c \in Containers, NEW r \in build_requested_networks(c)
    PROVE  Fits(c, r)
BY PortNumbers DEF build_requested_networks, Fits

LEMMA ApiKept == ASSUME IInv, KeptInv, ApiStep PROVE KeptInv'
<1>1. row \in [Containers -> Row] BY DEF IInv, Typed
<1>2. ASSUME NEW c \in Containers, Post(c) PROVE KeptInv'
  <2>1. PICK a \in build_requested_networks(c), b \in build_requested_networks(c) :
          /\ Cast("create", c, IF a = b THEN <<a>> ELSE <<a, b>>)
          /\ row' = [row EXCEPT ![c].st = "creating", ![c].host = TRUE]
    BY <1>2 DEF Post
  <2>2. NetsFit(c, "create", IF a = b THEN <<a>> ELSE <<a, b>>)
    <3>1. Fits(c, a) /\ Fits(c, b) BY RequestFits
    <3>2. NetsFit(c, "create", <<a>>) BY <3>1 DEF NetsFit
    <3>3. NetsFit(c, "create", <<a, b>>)
      <4>1. ASSUME NEW k \in 1..Len(<<a, b>>) PROVE Fits(c, <<a, b>>[k])
        <5>1. k = 1 \/ k = 2 OBVIOUS
        <5>2. CASE k = 1 BY <3>1, <5>2
        <5>3. CASE k = 2 BY <3>1, <5>3
        <5> QED BY <5>1, <5>2, <5>3
      <4> QED BY <4>1 DEF NetsFit
    <3> QED BY <3>2, <3>3
  <2>3. \A d \in Containers : row'[d].addr = row[d].addr
    <3>1. PICK mid : mid = [row EXCEPT ![c].st = "creating"] OBVIOUS
    <3>2. row' = [mid EXCEPT ![c].host = TRUE] BY <2>1, <3>1
    <3>3. mid \in [Containers -> Row] /\ \A d \in Containers : mid[d].addr = row[d].addr
      BY <1>1, <3>1 DEF Row
    <3> QED BY <3>2, <3>3 DEF Row
  <2> QED BY <2>1, <2>2, <2>3, CastKept
<1>3. ASSUME NEW c \in Containers, NetworkAttach(c) PROVE KeptInv'
  <2>1. PICK r \in build_requested_networks(c) : Cast("attach", c, <<r>>) /\ UNCHANGED row
    BY <1>3 DEF NetworkAttach
  <2>2. NetsFit(c, "attach", <<r>>)
    <3>1. Fits(c, r) BY RequestFits
    <3> QED BY <3>1 DEF NetsFit
  <2> QED BY <2>1, <2>2, CastKept
<1>4. ASSUME NEW c \in Containers, NetworkDetach(c) PROVE KeptInv'
  <2>1. PICK nets : Cast("detach", c, nets) /\ UNCHANGED row BY <1>4 DEF NetworkDetach
  <2>2. NetsFit(c, "detach", nets) BY DEF NetsFit
  <2> QED BY <2>1, <2>2, CastKept
<1>5. ASSUME NEW c \in Containers, NEW op, Cast(op, c, <<>>), UNCHANGED row PROVE KeptInv'
  <2>1. NetsFit(c, op, <<>>) BY DEF NetsFit
  <2> QED BY <1>5, <2>1, CastKept
<1>6. ASSUME NEW c \in Containers,
             row' = [row EXCEPT ![c].st = "gone"], UNCHANGED <<port, queue, job, spoilt>>
      PROVE  KeptInv'
  <2>1. \A d \in Containers : row'[d].addr = row[d].addr BY <1>1, <1>6 DEF Row
  <2>2. PortsStay /\ Kept(c) BY <1>6, PortsSame DEF KeptInv
  <2>3. Kept(c)' BY <1>6, <2>1, <2>2, KeptStays
  <2> QED BY <1>6, <2>1, <2>2, <2>3, Frame
<1>7. ASSUME NEW n \in Nets, NetworkPost(n) \/ NetworkDelete(n) PROVE KeptInv'
  <2>1. UNCHANGED <<port, row, queue, spoilt>> BY <1>7 DEF NetworkPost, NetworkDelete, AdminRequest
  <2>2. \A d \in Containers : d # Admin => job'[d] = job[d]
    BY <1>7 DEF NetworkPost, NetworkDelete, AdminRequest, IInv, Typed, Threads
  <2>3. Admin \notin Containers /\ PortsStay BY <2>1, NetworksAssumption, PortsSame
  <2> QED BY <2>1, <2>2, <2>3, Frame
<1>8. ASSUME NEW c \in Containers, AddSecurityGroup(c) \/ RemoveSecurityGroup(c) \/ Rebuild(c)
      PROVE  KeptInv'
  BY <1>5, <1>8 DEF AddSecurityGroup, RemoveSecurityGroup, Rebuild
<1>9. ASSUME NEW c \in Containers, Delete(c) PROVE KeptInv'
  BY <1>5, <1>6, <1>9 DEF Delete
<1> QED BY <1>2, <1>3, <1>4, <1>7, <1>8, <1>9 DEF ApiStep

LEMMA CrashKept == ASSUME IInv, KeptInv, Crash PROVE KeptInv'
<1>1. /\ job' = [t \in Threads |-> NoJob] /\ spoilt' = spoilt \cup Busy /\ UNCHANGED port
      /\ queue' = queue \cup {Message("delete", c, <<>>) :
                                c \in {d \in Busy : job[d].op = "delete"}}
  BY DEF Crash
<1>2. PortsStay BY <1>1, PortsSame
<1>3. \A d \in Containers : row'[d].addr = row[d].addr
  <2>1. ASSUME NEW d \in Containers PROVE row'[d].addr = row[d].addr
    <3>1. PICK r \in Row : r = row[d] BY DEF IInv, Typed
    <3>2. row'[d] = [r EXCEPT !.st = "error"] \/ row'[d] = r BY <3>1 DEF Crash
    <3>3. [r EXCEPT !.st = "error"].addr = r.addr BY DEF Row
    <3> QED BY <3>1, <3>2, <3>3
  <2> QED BY <2>1
<1>4. ASSUME NEW c \in Containers PROVE Kept(c)'
  <2>1. Kept(c) /\ job'[c] = NoJob BY <1>1, ContainerThread DEF KeptInv
  <2>2. PICK a : a = row[c].addr OBVIOUS
  <2>3. AddrFits(c, a)' /\ row'[c].addr = a BY <1>2, <1>3, <2>1, <2>2, AddrStays DEF Kept
  <2>4. AddrFits(c, row[c].addr)' BY <2>3 DEF AddrFits, Fits, Whole
  <2>5. JobFits(c, job[c])' BY <2>1, NoJobFits DEF JobFits, AddrFits, NetsFit, Fits, Whole
  <2>6. Spared(job[c])' /\ job'[c].op # "rebuild" BY <2>1, NoJobFits DEF Spared
  <2>7. ASSUME NEW o \in queue', o.c = c
        PROVE  /\ (AddrFits(c, o.addr) /\ NetsFit(c, o.op, o.nets))'
               /\ o \in queue \/ c \in Busy
    <3>1. CASE o \in queue
      <4>1. AddrFits(c, o.addr) /\ NetsFit(c, o.op, o.nets) BY <2>1, <2>7, <3>1 DEF Kept
      <4> QED BY <1>2, <3>1, <4>1, AddrStays, NetsStay
    <3>2. CASE o \notin queue
      <4>1. PICK d \in Busy : o = Message("delete", d, <<>>) BY <1>1, <2>7, <3>2
      <4>2. /\ o.c = d /\ o.addr = row[d].addr /\ o.nets = <<>> /\ o.op = "delete"
        BY <4>1 DEF Message
      <4>3. d = c BY <2>7, <4>2
      <4>4. AddrFits(c, o.addr)' BY <2>2, <2>3, <4>2, <4>3 DEF AddrFits, Fits, Whole
      <4>5. NetsFit(c, o.op, o.nets)' BY <4>2 DEF NetsFit
      <4> QED BY <4>1, <4>3, <4>4, <4>5
    <3> QED BY <3>1, <3>2
  <2>8. ASSUME c \notin spoilt' PROVE OneRequest(c)'
    <3>1. OneRequest(c) /\ c \notin Busy BY <1>1, <2>1, <2>8 DEF Kept
    <3>2. job'[c].pc = "idle" BY <2>1, NoJobType
    <3> QED BY <2>2, <2>3, <2>7, <3>1, <3>2 DEF OneRequest
  <2> QED BY <2>4, <2>5, <2>6, <2>7, <2>8 DEF Kept
<1> QED BY <1>2, <1>4 DEF KeptInv, PortsStay

LEMMA InitKept == ASSUME Init PROVE KeptInv
<1>1. /\ queue = {} /\ job = [t \in Threads |-> NoJob]
      /\ port = [p \in Ports |-> [exists |-> p \in UserPorts, device |-> "none",
                                  maker |-> "none", groups |-> {}]]
  BY DEF Init
<1>2. port \in [Ports -> Port] BY <1>1 DEF Port
<1>3. ASSUME NEW c \in Containers PROVE Kept(c)
  <2>1. job[c] = NoJob /\ row[c].addr = NoAddresses BY <1>1, ContainerThread DEF Init
  <2>2. NoAddress.port = NoPort /\ \A n \in Nets : NoAddresses[n] = NoAddress
    BY DEF NoAddress, NoAddresses
  <2>3. Fits(c, NoAddress) BY <2>2, PortNumbers DEF Fits
  <2>4. AddrFits(c, NoAddresses) BY <2>2, <2>3 DEF AddrFits, Whole
  <2>5. JobFits(c, NoJob) BY <2>3, <2>4 DEF JobFits, NetsFit, NoJob
  <2>6. Spared(NoJob) /\ NoJob.op = "none" BY NoJobFits
  <2> QED BY <1>1, <2>1, <2>4, <2>5, <2>6 DEF Kept, OneRequest
<1> QED BY <1>2, <1>3 DEF KeptInv

LEMMA StepKept == ASSUME IInv, KeptInv, [Next]_vars PROVE KeptInv'
<1>1. CASE UNCHANGED vars
  <2>1. UNCHANGED <<port, row, job, queue, spoilt>> BY <1>1 DEF vars
  <2>2. PortsStay BY <2>1, PortsSame
  <2>3. ASSUME NEW c \in Containers PROVE Kept(c)'
    <3>1. Kept(c) BY DEF KeptInv
    <3> QED BY <2>1, <2>2, <3>1, KeptStays
  <2> QED BY <2>2, <2>3 DEF KeptInv, PortsStay
<1>2. CASE \E t \in Threads : ThreadStep(t)
  BY <1>2, NetworkKept, TakeKept, PlugKept, UnplugKept DEF ThreadStep
<1> QED BY <1>1, <1>2, ApiKept, CrashKept DEF Next

-----------------------------------------------------------------------------
(* Theorems                                                                 *)

LEMMA PortForKeeps ==
    ASSUME KeptInv, NEW c \in Containers, NEW r, NEW p \in Ports, PortFor(c, r, p), NEW q \in Ports
    PROVE  port[q].exists => port'[q].exists
<1>1. port \in [Ports -> Port] BY DEF KeptInv
<1>2. CASE port' = [port EXCEPT ![p].device = c] BY <1>1, <1>2 DEF Port
<1>3. CASE port' = [port EXCEPT ![p] = [exists |-> TRUE, device |-> c, maker |-> c,
                                        groups |-> PortGroups(c)]]
  BY <1>1, <1>3
<1> QED BY <1>2, <1>3 DEF PortFor

\* A port goes where Docker refused a connection, or with an address that a
\* thread takes away and that is not to be preserved.
LEMMA WhoDeletes ==
    ASSUME IInv, KeptInv, Next, NEW p \in Ports, port[p].exists, ~port'[p].exists
    PROVE  \E c \in Containers :
              \/ job[c].pc = "join" /\ job[c].new.port = p /\ ~job[c].new.keep
              \/ /\ job[c].pc = "leave"
                 /\ \E n \in Nets : job[c].addr[n].port = p /\ ~job[c].addr[n].keep
<1>1. port' # port OBVIOUS
<1>2. ~ApiStep
  BY <1>1 DEF ApiStep, Post, NetworkAttach, NetworkDetach, AddSecurityGroup, RemoveSecurityGroup,
              Rebuild, Delete, Cast, NetworkPost, NetworkDelete, AdminRequest
<1>3. ~Crash BY <1>1 DEF Crash
<1>4. PICK t \in Threads : ThreadStep(t) BY <1>2, <1>3 DEF Next
<1>5. ~NetworkStep(t)
  BY <1>1 DEF NetworkStep, get_or_create_network, create_network, CreateRow, AlreadyExists,
              MakeNetwork, SaveNetworkId, RemoveNetwork, RemoveNetworkRow
<1>6. PICK c \in Containers : Take(c) \/ PlugStep(c) \/ UnplugStep(c) BY <1>4, <1>5 DEF ThreadStep
<1>7. ~Take(c) BY <1>1 DEF Take
<1>8. CASE PlugStep(c)
  <2>1. CASE Join(c)
    <3>1. job[c].pc = "join" /\ port' = Unplugged(job[c].new)
      BY <1>1, <2>1 DEF Join, do_port_cleanup
    <3> QED BY <3>1, UnpluggedStays
  <2>2. CASE process_networking_config(c)
    <3>1. \E r : \E q \in Ports : PortFor(c, r, q)
      BY <1>1, <2>2 DEF process_networking_config, PortFails
    <3> QED BY <3>1, PortForKeeps
  <2>3. CASE connect_container_to_network(c)
    <3>1. \E r : \E q \in Ports : PortFor(c, r, q)
      BY <1>1, <2>3 DEF connect_container_to_network, PortFails
    <3> QED BY <3>1, PortForKeeps
  <2>4. CASE \/ _process_exposed_ports(c) \/ CreateContainer(c) \/ SaveAddresses(c)
             \/ FailContainer(c)
    BY <1>1, <2>4 DEF _process_exposed_ports, CreateContainer, SaveAddresses, FailContainer
  <2> QED BY <1>8, <2>1, <2>2, <2>3, <2>4 DEF PlugStep
<1>9. CASE UnplugStep(c)
  <2>1. CASE disconnect_container_from_network(c)
    <3>1. job[c].left \subseteq Nets BY ContainerThread DEF IInv, Typed, Job, Shape
    <3>2. PICK n \in Nets : port' = Unplugged(job[c].addr[n])
      BY <1>1, <2>1, <3>1 DEF disconnect_container_from_network
    <3>3. job[c].pc = "leave" BY <2>1 DEF disconnect_container_from_network
    <3> QED BY <3>2, <3>3, UnpluggedStays
  <2>2. CASE add_security_groups_to_ports(c) \/ remove_security_groups_from_ports(c)
    <3>1. \E ps : \E add \in BOOLEAN : port' = Regrouped(ps, UserGroup, add)
      BY <2>2 DEF add_security_groups_to_ports, remove_security_groups_from_ports
    <3> QED BY <3>1, RegroupedStays
  <2>3. CASE \/ RebuildBegin(c) \/ _cleanup_exposed_ports(c) \/ RemoveContainer(c)
             \/ DestroyContainer(c)
    BY <1>1, <2>3 DEF RebuildBegin, _cleanup_exposed_ports, RemoveContainer, DestroyContainer
  <2> QED BY <1>9, <2>1, <2>2, <2>3 DEF UnplugStep
<1> QED BY <1>6, <1>7, <1>8, <1>9

\* What PortsKept says of a step.
LEMMA StepKeepsPorts ==
    ASSUME IInv, KeptInv, [Next]_vars, NEW p \in Ports, port[p].exists, ~port'[p].exists
    PROVE  /\ p \notin UserPorts
           /\ \A c \in Containers :
                 p \in PortsOf(row[c].addr) /\ row[c].st # "gone" =>
                    job[c].op \in {"detach", "delete"} \/ job[c].pc = "join"
<1>1. Next BY DEF vars
<1>2. PICK d \in Containers :
        \/ job[d].pc = "join" /\ job[d].new.port = p /\ ~job[d].new.keep
        \/ /\ job[d].pc = "leave"
           /\ \E n \in Nets : job[d].addr[n].port = p /\ ~job[d].addr[n].keep
  BY <1>1, WhoDeletes
<1>3. JobFits(d, job[d]) /\ Spared(job[d]) BY DEF KeptInv, Kept
<1>4. PICK a : Fits(d, a) /\ a.port = p /\ ~a.keep BY <1>2, <1>3 DEF JobFits, AddrFits
<1>5. p \notin UserPorts BY <1>4 DEF Fits
<1>6. p \in 1..MaxPorts /\ port[p].maker = d BY <1>4, <1>5 DEF Fits, Ports
<1>7. ASSUME NEW c \in Containers, p \in PortsOf(row[c].addr)
      PROVE  job[c].op \in {"detach", "delete"} \/ job[c].pc = "join"
  <2>1. PICK n \in Nets : row[c].addr[n].port = p BY <1>7 DEF PortsOf, Attached
  <2>2. Fits(c, row[c].addr[n]) BY DEF KeptInv, Kept, AddrFits
  <2>3. port[p].maker = c BY <1>6, <2>1, <2>2 DEF Fits
  <2>4. p # NoPort BY PortNumbers
  <2> QED BY <1>2, <1>3, <1>6, <2>3, <2>4 DEF Spared
<1> QED BY <1>5, <1>7

\* Only a save, or the loss of zun-compute, ends a thread that is to save.
LEMMA WhoSaves ==
    ASSUME IInv, Next, NEW c \in Containers, job[c].pc = "save", job'[c].pc = "idle"
    PROVE  SaveAddresses(c) \/ Crash
<1>1. job \in [Threads -> Job] /\ job'[c] # job[c] /\ c # Admin /\ c \in Threads
  BY NetworksAssumption, ContainerThread DEF IInv, Typed
<1>2. ~ApiStep
  BY <1>1 DEF ApiStep, Post, NetworkAttach, NetworkDetach, AddSecurityGroup, RemoveSecurityGroup,
              Rebuild, Delete, Cast, NetworkPost, NetworkDelete, AdminRequest
<1>3. ASSUME NEW t \in Threads, ThreadStep(t) PROVE t = c
  <2>1. \E j : job' = [job EXCEPT ![t] = j]
    <3>1. CASE NetworkStep(t)
      BY <3>1 DEF NetworkStep, get_or_create_network, create_network, CreateRow, AlreadyExists,
                  MakeNetwork, SaveNetworkId, RemoveNetwork, RemoveNetworkRow, Set, Goto, Done,
                  Raise
    <3>2. CASE Take(t) BY <3>2 DEF Take, Set
    <3>3. CASE PlugStep(t)
      BY <3>3 DEF PlugStep, _process_exposed_ports, process_networking_config, CreateContainer,
                  connect_container_to_network, Join, SaveAddresses, FailContainer, PortFails,
                  Set, Goto, Done, Raise
    <3>4. CASE UnplugStep(t)
      BY <3>4 DEF UnplugStep, RebuildBegin, disconnect_container_from_network,
                  _cleanup_exposed_ports, RemoveContainer, DestroyContainer,
                  add_security_groups_to_ports, remove_security_groups_from_ports,
                  Set, Goto, Done, Raise
    <3> QED BY <1>3, <3>1, <3>2, <3>3, <3>4 DEF ThreadStep
  <2> QED BY <1>1, <2>1
<1>4. ASSUME ThreadStep(c) PROVE SaveAddresses(c)
  BY <1>4 DEF ThreadStep, NetworkStep, get_or_create_network, create_network, CreateRow,
              AlreadyExists, MakeNetwork, SaveNetworkId, RemoveNetwork, RemoveNetworkRow, Take,
              PlugStep, _process_exposed_ports, process_networking_config, CreateContainer,
              connect_container_to_network, Join, FailContainer, UnplugStep, RebuildBegin,
              disconnect_container_from_network, _cleanup_exposed_ports, RemoveContainer,
              DestroyContainer, add_security_groups_to_ports, remove_security_groups_from_ports
<1> QED BY <1>2, <1>3, <1>4 DEF Next

\* What RebuildRestores says of a step.
LEMMA StepRestores ==
    ASSUME IInv, KeptInv, Next, NEW c \in Containers, job[c].op = "rebuild", job[c].pc = "save",
           job'[c].pc = "idle", c \notin spoilt'
    PROVE  row'[c].addr = row[c].addr
<1>1. CASE Crash
  <2>1. c \in spoilt' BY <1>1 DEF Crash, Busy
  <2> QED BY <2>1
<1>2. CASE SaveAddresses(c)
  <2>1. c \notin spoilt BY <1>2 DEF SaveAddresses
  <2>2. Restoring(row[c].addr, job[c]) BY <2>1 DEF KeptInv, Kept
  <2>3. job[c].addr = row[c].addr BY <2>2 DEF Restoring
  <2>4. CASE row' = row BY <2>4
  <2>5. CASE row' # row
    <3>1. PICK r \in Row : r = row[c] BY DEF IInv, Typed
    <3>2. PICK st : st = IF job[c].op \in Finishes THEN "created" ELSE r.st OBVIOUS
    <3>3. PICK gs : gs = IF job[c].op = "create" THEN job[c].groups ELSE r.groups OBVIOUS
    <3>4. PICK e : e = [r EXCEPT !.addr = job[c].addr, !.cid = job[c].cid, !.st = st,
                                 !.groups = gs]
      OBVIOUS
    <3>5. row' = [row EXCEPT ![c] = e] BY <1>2, <2>5, <3>1, <3>2, <3>3, <3>4 DEF SaveAddresses
    <3>6. e.addr = job[c].addr BY <3>4 DEF Row
    <3> QED BY <2>3, <3>5, <3>6 DEF IInv, Typed
  <2> QED BY <2>4, <2>5
<1> QED BY <1>1, <1>2, WhoSaves

\* The addresses that a container's row, its thread and its requests name are
\* its own or a user's to be preserved, and a rebuild, from _get_network_info
\* to the save, has or still requests every address the row has.
THEOREM AddressesAccounted == Spec => []KeptInv
<1>1. Init => IInv /\ KeptInv BY InitKeeps, InitKept
<1>2. IInv /\ KeptInv /\ [Next]_vars => (IInv /\ KeptInv)' BY StepKeeps, StepKept
<1> QED BY <1>1, <1>2, PTL DEF Spec

\* No port is deleted under a container: a user's never, one of a row only by
\* a detach, by a deletion or where Docker refused the connection; and a
\* rebuild that succeeds gives the container the addresses it had.
THEOREM NoAddressLost == Spec => AddressesKept
<1>1. IInv /\ KeptInv /\ [Next]_vars =>
        [\A p \in Ports :
            port[p].exists /\ ~port'[p].exists =>
               /\ p \notin UserPorts
               /\ \A c \in Containers :
                     p \in PortsOf(row[c].addr) /\ row[c].st # "gone" =>
                        \/ job[c].op \in {"detach", "delete"}
                        \/ job[c].pc = "join"]_vars
  BY StepKeepsPorts
<1>2. IInv /\ KeptInv /\ [Next]_vars =>
        [\A c \in Containers :
            job[c].op = "rebuild" /\ job[c].pc = "save" /\ job'[c].pc = "idle"
            /\ c \notin spoilt' => row'[c].addr = row[c].addr]_vars
  BY StepRestores
<1>3. Spec => [](IInv /\ KeptInv) BY MakersAlone, AddressesAccounted, PTL DEF IInv
<1>4. Spec => PortsKept BY <1>1, <1>3, PTL DEF Spec, PortsKept
<1>5. Spec => RebuildRestores BY <1>2, <1>3, PTL DEF Spec, RebuildRestores
<1> QED BY <1>4, <1>5 DEF AddressesKept

-----------------------------------------------------------------------------
(* What Neutron has for a container: the inductive invariant                *)

\* What the thread knows is what the row says.
Copy(r, j) == j.addr = r.addr /\ j.groups = r.groups /\ j.cid = r.cid

Clear(c) == Theirs(c) = {} /\ group[c] = {}

\* The groups a container names: its own, where it has exposed ports, before
\* the user's; nothing else was made for it.
OwnGroups(c, gs) ==
    IF c \in Exposed
    THEN \E g \in 1..MaxIds : /\ g <= used.ids[c]
                              /\ gs = <<g>> \/ gs = <<g, UserGroup>>
                              /\ group[c] \subseteq {g}
    ELSE /\ gs = <<>> \/ gs = <<UserGroup>>
         /\ group[c] = {}

Tagged(c, gs) == \A p \in Theirs(c) \ UserPorts : port[p].groups = ToSet(gs)

\* Only users' ports are preserved.
Marked(addr) == \A n \in Nets : addr[n].keep => addr[n].port \in UserPorts

Asking(nets) == \A k \in 1..Len(nets) : nets[k].keep => nets[k].port \in UserPorts

On(c, addr) == docker[c].exists /\ Attached(addr) \subseteq docker[c].joined

Sound(c, addr, gs) == OwnGroups(c, gs) /\ Tagged(c, gs) /\ Marked(addr)

Accounts(c, addr) == Theirs(c) \subseteq PortsOf(addr)

\* Neutron, Docker and the row agree.
Standing(c, r) ==
    r.cid /\ On(c, r.addr) /\ Sound(c, r.addr, r.groups) /\ Accounts(c, r.addr)

\* A group the thread names is gone, so that no port will be made or taken.
Doomed(c, j) == \E g \in 1..MaxIds : /\ g <= used.ids[c] /\ g \notin group[c]
                                     /\ g \in ToSet(j.groups)

Early == {"check", "subnets", "attempt", "mknet", "saveid"}

\* Networks are connected one by one, each with its port.
Plugged(c, j) ==
    /\ j.cid /\ On(c, j.addr) /\ Sound(c, j.addr, j.groups) /\ Asking(j.nets)
    /\ j.pc # "join" => Accounts(c, j.addr)
    /\ j.pc = "join" => /\ Theirs(c) \subseteq PortsOf(j.addr) \cup {j.new.port}
                        /\ j.new.keep => j.new.port \in UserPorts
                        /\ j.i <= Len(j.nets)
                        /\ j.nets[j.i].net \notin Attached(j.addr)

Creating(c, r, j) ==
    /\ r.st = "creating" /\ Asking(j.nets)
    /\ j.pc \in Early \cup {"expose", "first", "create", "connect", "join", "save", "fail"}
    /\ j.pc \in Early \cup {"expose"} => Clear(c) /\ j.groups = <<>>
    /\ j.pc = "first" => Theirs(c) = {} /\ OwnGroups(c, j.groups)
    /\ j.pc = "create" => /\ j.nets # <<>> /\ Attached(j.addr) \subseteq {Last(j.nets).net}
                          /\ Accounts(c, j.addr) /\ Sound(c, j.addr, j.groups)
    /\ j.pc \in {"connect", "join", "save"} => Plugged(c, j)
    /\ j.pc = "fail" => j.unset

Attaching(c, r, j) ==
    /\ Len(j.nets) = 1 /\ Asking(j.nets) /\ j.groups = r.groups
    /\ j.pc \in Early \cup {"connect", "join", "save"}
    /\ j.pc \in Early => Standing(c, r) /\ Copy(r, j)
    /\ j.pc = "connect" => Plugged(c, j) /\ (j.i = 1 => Copy(r, j))
    /\ j.pc = "join" => Plugged(c, j) /\ Copy(r, j)
    /\ j.pc = "save" => Plugged(c, j)

Detaching(c, r, j) ==
    /\ j.groups = r.groups /\ j.pc \in {"leave", "save"}
    /\ j.pc = "leave" => /\ Standing(c, r) /\ Copy(r, j)
                         /\ \E n \in Attached(r.addr) : j.left = {n}
    /\ j.pc = "save" => j.cid /\ On(c, j.addr) /\ Sound(c, j.addr, j.groups) /\ Accounts(c, j.addr)

Regrouping(c, r, j) ==
    /\ j.pc = j.op /\ Standing(c, r) /\ Copy(r, j)
    /\ j.op = "add_group" => UserGroup \notin ToSet(r.groups)

Rebuilding(c, r, j) ==
    /\ j.pc \in Early \cup {"rebuild", "leave", "remove", "expose", "first", "create",
                            "connect", "join", "save", "fail"}
    /\ j.pc # "fail" => Accounts(c, r.addr) /\ Marked(r.addr) /\ Tagged(c, r.groups)
    /\ j.pc = "rebuild" => /\ Standing(c, r) /\ Copy(r, j) /\ ~j.dirty
                           /\ j.left \subseteq Attached(r.addr)
    /\ j.pc = "leave" => /\ j.cid /\ j.groups = r.groups /\ OwnGroups(c, r.groups)
                         /\ docker[c].exists /\ j.left \subseteq docker[c].joined
    /\ j.pc \in Early \cup {"remove", "expose", "first"} =>
          IF c \in Exposed THEN Doomed(c, j)
          ELSE j.groups = r.groups /\ OwnGroups(c, r.groups)
    /\ j.pc \in {"create", "connect", "join", "save"} =>
          c \notin Exposed /\ OwnGroups(c, r.groups) /\ j.groups = r.groups
    /\ j.pc = "create" => Attached(j.addr) \subseteq {Last(j.nets).net}
    /\ j.pc \in {"connect", "join", "save"} => j.cid /\ On(c, j.addr)
    /\ j.pc = "fail" => j.unset \/ (Standing(c, r) /\ ~j.dirty)

Deleting(c, r, j) ==
    /\ j.pc \in {"leave", "remove", "destroy"}
    /\ j.pc = "leave" =>
          /\ Copy(r, j) /\ r.cid /\ docker[c].exists /\ j.left \subseteq docker[c].joined
          /\ j.left \subseteq Attached(r.addr)
          /\ Theirs(c) \subseteq {r.addr[n].port : n \in j.left}
          /\ Marked(r.addr) /\ OwnGroups(c, r.groups)
    /\ j.pc \in {"remove", "destroy"} => Clear(c)

\* No thread is at the container.
Resting(c, r) ==
    /\ r.st = "creating" => Clear(c) /\ r.groups = <<>>
    /\ r.st = "gone" => Clear(c)
    /\ r.st \in {"created", "error"} => Standing(c, r)

Working(c, r, j) ==
    /\ j.op \in Ops
    /\ j.op # "create" => r.st \in {"created", "error"}
    /\ j.op = "create" => Creating(c, r, j)
    /\ j.op = "attach" => Attaching(c, r, j)
    /\ j.op = "detach" => Detaching(c, r, j)
    /\ j.op \in {"add_group", "remove_group"} => Regrouping(c, r, j)
    /\ j.op = "rebuild" => Rebuilding(c, r, j)
    /\ j.op = "delete" => Deleting(c, r, j)

At(c, r, j) == IF j.pc = "idle" THEN Resting(c, r) ELSE Working(c, r, j)

\* A request on its way.
Asked(r, m) ==
    /\ m.groups = r.groups /\ m.cid = r.cid
    /\ r.st \in {"creating", "created", "error"}
    /\ m.op = "create" <=> r.st = "creating"
    /\ m.op = "attach" => Len(m.nets) = 1
    /\ m.op \in {"create", "attach"} => Asking(m.nets)
    /\ m.op = "detach" => m.nets[1].net \in Attached(r.addr)
    /\ m.op = "add_group" => UserGroup \notin ToSet(r.groups)

Fresh(c, r) == ~r.host /\ Clear(c) /\ r.groups = <<>> /\ ~Pending(c)

\* Of the containers that NeutronAgrees speaks of, also while someone works.
Agreeing(c) ==
    /\ row[c].st = "none" => Fresh(c, row[c])
    /\ c \notin spoilt /\ row[c].host =>
          At(c, row[c], job[c]) /\ \A m \in queue : m.c = c => Asked(row[c], m)

\* A port Zun made is the device of nobody but the container it was made for.
Devices ==
    \A p \in Ports : IF p \in UserPorts THEN port[p].maker = "none"
                     ELSE port[p].device \in {"none", port[p].maker}

Recorded ==
    /\ group \in [Containers -> SUBSET Nat]
    /\ docker = [c \in Containers |-> [exists |-> docker[c].exists, joined |-> docker[c].joined]]

AInv == Recorded /\ Devices /\ \A c \in Containers : Agreeing(c)

-----------------------------------------------------------------------------
(* What others do                                                           *)

\* Nothing comes to a container in Neutron.
Shrinks(c) ==
    /\ Theirs(c)' \subseteq Theirs(c)
    /\ \A p \in Theirs(c)' \ UserPorts : port'[p].groups = port[p].groups

\* Its thread, its row and what was made for it are as they were.
Quiet(c) ==
    /\ docker'[c] = docker[c] /\ group'[c] = group[c]
    /\ used.ids[c] \in Nat /\ used'.ids[c] \in Nat /\ used.ids[c] <= used'.ids[c]
    /\ Shrinks(c)

Apart(c) ==
    /\ Quiet(c)
    /\ job'[c] = job[c] /\ row'[c] = row[c]
    /\ c \in spoilt => c \in spoilt'
    /\ \A m \in queue \cup queue' : m.c = c => (m \in queue <=> m \in queue')

LEMMA OwnStays ==
    ASSUME NEW c \in Containers, Quiet(c), NEW gs, OwnGroups(c, gs)
    PROVE  OwnGroups(c, gs)'
<1>1. CASE c \in Exposed
  <2>1. PICK g \in 1..MaxIds : /\ g <= used.ids[c] /\ group[c] \subseteq {g}
                               /\ gs = <<g>> \/ gs = <<g, UserGroup>>
    BY <1>1 DEF OwnGroups
  <2>2. g <= used'.ids[c] /\ group'[c] \subseteq {g} BY <2>1, Numbers DEF Quiet
  <2> QED BY <1>1, <2>1, <2>2 DEF OwnGroups
<1> QED BY <1>1 DEF OwnGroups, Quiet

LEMMA TaggedStays ==
    ASSUME NEW c, Shrinks(c), NEW gs, Tagged(c, gs) PROVE Tagged(c, gs)'
<1>1. ASSUME NEW p \in Theirs(c)' \ UserPorts PROVE port'[p].groups = ToSet(gs)
  <2>1. p \in Theirs(c) /\ port'[p].groups = port[p].groups BY DEF Shrinks
  <2>2. port[p].groups = ToSet(gs) BY <1>1, <2>1 DEF Tagged
  <2> QED BY <2>1, <2>2
<1>2. PICK ts : ts = ToSet(gs) OBVIOUS
<1> QED BY <1>1, <1>2 DEF Tagged

LEMMA SoundStays ==
    ASSUME NEW c \in Containers, Quiet(c), NEW addr, NEW gs, Sound(c, addr, gs)
    PROVE  Sound(c, addr, gs)'
BY OwnStays, TaggedStays DEF Sound, Marked, Quiet

LEMMA OnStays ==
    ASSUME NEW c, Quiet(c), NEW addr
    PROVE  /\ On(c, addr) => On(c, addr)'
           /\ Accounts(c, addr) => Accounts(c, addr)'
           /\ Clear(c) => Clear(c)'
BY DEF On, Accounts, Clear, Quiet, Shrinks, Attached, PortsOf

LEMMA StandingStays ==
    ASSUME NEW c \in Containers, Quiet(c), NEW r, Standing(c, r) PROVE Standing(c, r)'
BY SoundStays, OnStays DEF Standing

LEMMA DoomedStays ==
    ASSUME NEW c \in Containers, Quiet(c), NEW j, Doomed(c, j) PROVE Doomed(c, j)'
<1>1. PICK g \in 1..MaxIds : g <= used.ids[c] /\ g \notin group[c] /\ g \in ToSet(j.groups)
  BY DEF Doomed
<1>2. g <= used'.ids[c] /\ g \notin group'[c] BY <1>1, Numbers DEF Quiet
<1> QED BY <1>1, <1>2 DEF Doomed

LEMMA PluggedStays ==
    ASSUME NEW c \in Containers, Quiet(c), NEW j, Plugged(c, j) PROVE Plugged(c, j)'
<1>1. On(c, j.addr)' /\ Sound(c, j.addr, j.groups)' BY OnStays, SoundStays DEF Plugged
<1>2. Accounts(c, j.addr) => Accounts(c, j.addr)' BY OnStays
<1>3. Theirs(c)' \subseteq Theirs(c) BY DEF Quiet, Shrinks
<1> QED BY <1>1, <1>2, <1>3 DEF Plugged, Asking, Attached, PortsOf

LEMMA WorkingStays ==
    ASSUME NEW c \in Containers, Quiet(c), NEW r, NEW j, Working(c, r, j)
    PROVE  Working(c, r, j)'
<1>1. ASSUME Creating(c, r, j) PROVE Creating(c, r, j)'
  <2>1. Theirs(c) = {} => Theirs(c)' = {} BY DEF Quiet, Shrinks
  <2>2. /\ Clear(c) => Clear(c)'
        /\ OwnGroups(c, j.groups) => OwnGroups(c, j.groups)'
        /\ Accounts(c, j.addr) => Accounts(c, j.addr)'
        /\ Sound(c, j.addr, j.groups) => Sound(c, j.addr, j.groups)'
        /\ Plugged(c, j) => Plugged(c, j)'
    BY OnStays, OwnStays, SoundStays, PluggedStays
  <2> QED BY <1>1, <2>1, <2>2 DEF Creating, Asking, Attached
<1>2. ASSUME Attaching(c, r, j) PROVE Attaching(c, r, j)'
  BY <1>2, StandingStays, PluggedStays DEF Attaching, Asking, Copy
<1>3. ASSUME Detaching(c, r, j) PROVE Detaching(c, r, j)'
  BY <1>3, StandingStays, OnStays, SoundStays DEF Detaching, Copy, Attached
<1>4. ASSUME Regrouping(c, r, j) PROVE Regrouping(c, r, j)'
  BY <1>4, StandingStays DEF Regrouping, Copy, ToSet
<1>5. ASSUME Rebuilding(c, r, j) PROVE Rebuilding(c, r, j)'
  <2>1. /\ Accounts(c, r.addr) => Accounts(c, r.addr)'
        /\ Tagged(c, r.groups) => Tagged(c, r.groups)'
        /\ Standing(c, r) => Standing(c, r)'
        /\ OwnGroups(c, r.groups) => OwnGroups(c, r.groups)'
        /\ Doomed(c, j) => Doomed(c, j)'
        /\ On(c, j.addr) => On(c, j.addr)'
        /\ docker'[c] = docker[c]
    BY OnStays, TaggedStays, StandingStays, OwnStays, DoomedStays DEF Quiet
  <2> QED BY <1>5, <2>1 DEF Rebuilding, Marked, Copy, Attached
<1>6. ASSUME Deleting(c, r, j) PROVE Deleting(c, r, j)'
  <2>1. /\ OwnGroups(c, r.groups) => OwnGroups(c, r.groups)'
        /\ Clear(c) => Clear(c)'
        /\ docker'[c] = docker[c] /\ Theirs(c)' \subseteq Theirs(c)
    BY OnStays, OwnStays DEF Quiet, Shrinks
  <2> QED BY <1>6, <2>1 DEF Deleting, Marked, Copy, Attached
<1> QED BY <1>1, <1>2, <1>3, <1>4, <1>5, <1>6 DEF Working

LEMMA RestingStays ==
    ASSUME NEW c \in Containers, Quiet(c), NEW r, Resting(c, r) PROVE Resting(c, r)'
<1>1. Clear(c) => Clear(c)' BY OnStays
<1>2. Standing(c, r) => Standing(c, r)' BY StandingStays
<1> QED BY <1>1, <1>2 DEF Resting

LEMMA ApartAgrees ==
    ASSUME NEW c \in Containers, Apart(c), Agreeing(c) PROVE Agreeing(c)'
<1>1. PICK r : r = row[c] OBVIOUS
<1>2. PICK j : j = job[c] OBVIOUS
<1>3. row'[c] = r /\ job'[c] = j /\ Quiet(c) BY <1>1, <1>2 DEF Apart
<1>4. At(c, r, j) => At(c, r, j)' BY <1>3, WorkingStays, RestingStays DEF At
<1>5. At(c, row[c], job[c]) => At(c, row[c], job[c])'
  <2>1. At(c, row[c], job[c]) <=> At(c, r, j) BY <1>1, <1>2
  <2>2. At(c, row[c], job[c])' <=> At(c, r, j)' BY <1>3
  <2> QED BY <1>4, <2>1, <2>2
<1>6. Fresh(c, r) => Fresh(c, r)'
  <2>1. Clear(c) => Clear(c)' BY <1>3, OnStays
  <2>2. ~Pending(c) => ~Pending(c)' BY <1>2, <1>3 DEF Apart, Pending
  <2> QED BY <2>1, <2>2 DEF Fresh
<1>7. row[c].st = "none" => Fresh(c, row[c])' BY <1>1, <1>3, <1>6 DEF Agreeing, Fresh
<1>8. ASSUME c \notin spoilt', r.host
      PROVE  At(c, row[c], job[c])' /\ \A m \in queue' : m.c = c => Asked(row'[c], m)
  <2>1. c \notin spoilt BY <1>8 DEF Apart
  <2>2. At(c, row[c], job[c]) /\ \A m \in queue : m.c = c => Asked(r, m)
    BY <1>1, <1>8, <2>1 DEF Agreeing
  <2>3. \A m \in queue' : m.c = c => m \in queue BY DEF Apart
  <2> QED BY <1>3, <1>5, <2>2, <2>3
<1>9. \A m : Asked(row'[c], m) = Asked(row[c], m)' BY DEF Asked, Asking, Attached
<1> QED BY <1>1, <1>3, <1>7, <1>8, <1>9 DEF Agreeing

-----------------------------------------------------------------------------
(* Ports                                                                    *)

LEMMA Mine ==
    ASSUME Devices, NEW c \in Containers, NEW p \in Theirs(c), p \notin UserPorts
    PROVE  port[p].maker = c /\ p \in 1..MaxPorts /\ port[p].exists
<1>1. c # "none" BY NetworksAssumption
<1> QED BY <1>1 DEF Theirs, Devices, Ports

LEMMA SamePorts ==
    ASSUME Devices, UNCHANGED port
    PROVE  /\ Devices'
           /\ \A d : Shrinks(d) /\ Theirs(d)' = Theirs(d)
BY DEF Devices, Shrinks, Theirs

LEMMA PortForAgrees ==
    ASSUME IInv, KeptInv, Devices, NEW c \in Containers, NEW r \in Requested, NEW p \in Ports,
           Fits(c, r), PortFor(c, r, p)
    PROVE  /\ Devices' /\ p # NoPort /\ (r.port # NoPort => p = r.port)
           /\ \A d \in Containers : d # c => Shrinks(d)
           /\ Theirs(c)' \subseteq Theirs(c) \cup {p}
           /\ \A q \in Theirs(c)' \ UserPorts :
                 \/ q \in Theirs(c) /\ port'[q].groups = port[q].groups
                 \/ r.port = NoPort /\ port'[q].groups = PortGroups(c)
<1>1. port \in [Ports -> Port] /\ p # NoPort BY PortNumbers DEF KeptInv
<1>0. c # "none" BY NetworksAssumption
<1>2. CASE r.port # NoPort
  <2>1. p = r.port /\ port[p].exists /\ port' = [port EXCEPT ![p].device = c]
    BY <1>2 DEF PortFor
  <2>2. /\ \A q \in Ports : /\ port'[q].maker = port[q].maker
                            /\ port'[q].exists = port[q].exists
                            /\ port'[q].groups = port[q].groups
                            /\ q # p => port'[q].device = port[q].device
        /\ port'[p].device = c
    BY <1>1, <2>1 DEF Port
  <2>3. p \notin UserPorts => port[p].maker = c BY <2>1 DEF Fits, Ports
  <2>4. Devices' BY <2>2, <2>3 DEF Devices
  <2>5. \A d \in Containers : d # c => Theirs(d)' \subseteq Theirs(d) BY <2>2 DEF Theirs
  <2>6. \A d \in Containers : d # c => Shrinks(d) BY <2>2, <2>5 DEF Shrinks, Theirs
  <2>7. Theirs(c)' \subseteq Theirs(c) \cup {p} BY <2>2 DEF Theirs
  <2>8. p \notin UserPorts => p \in Theirs(c) BY <2>1, <2>3 DEF Theirs
  <2>9. Theirs(c)' \subseteq Ports BY DEF Theirs
  <2> QED BY <1>1, <2>1, <2>2, <2>4, <2>6, <2>7, <2>8, <2>9
<1>3. CASE r.port = NoPort
  <2>1. PICK gs : gs = PortGroups(c) OBVIOUS
  <2>2. /\ FreePorts # {} /\ p = CHOOSE q \in FreePorts : \A o \in FreePorts : q <= o
        /\ port' = [port EXCEPT ![p] = [exists |-> TRUE, device |-> c,
                                        maker |-> c, groups |-> gs]]
    BY <1>3, <2>1 DEF PortFor
  <2>3. p \in FreePorts
    <3>1. FreePorts \subseteq Nat BY PortNumbers DEF FreePorts
    <3>2. PICK q \in FreePorts : \A o \in FreePorts : q <= o
      BY <2>2, <3>1, LeastNumber
    <3> QED BY <2>2, <3>2
  <2>4. p \in 1..MaxPorts /\ p \notin UserPorts BY <2>3, PortNumbers DEF FreePorts
  <2>5. /\ port'[p] = [exists |-> TRUE, device |-> c, maker |-> c, groups |-> gs]
        /\ \A q \in Ports : q # p => port'[q] = port[q]
    BY <1>1, <2>2
  <2>6. Devices' BY <2>4, <2>5 DEF Devices
  <2>7. \A d \in Containers : d # c => p \notin Theirs(d)' BY <1>0, <2>5 DEF Theirs
  <2>8. \A d \in Containers : \A q \in Theirs(d)' : q = p \/ (q \in Theirs(d) /\ port'[q] = port[q])
    BY <2>5 DEF Theirs
  <2>9. \A d \in Containers : d # c => Shrinks(d) BY <2>7, <2>8 DEF Shrinks
  <2>10. port'[p].groups = gs BY <2>5
  <2> QED BY <1>1, <1>3, <2>1, <2>6, <2>8, <2>9, <2>10
<1> QED BY <1>2, <1>3

\* The ports of c have the groups they shall have, the new one too.
LEMMA TaggedPort ==
    ASSUME NEW c, NEW r, NEW gs, Tagged(c, gs), r.port = NoPort => PortGroups(c) = ToSet(gs),
           \A q \in Theirs(c)' \ UserPorts :
                 \/ q \in Theirs(c) /\ port'[q].groups = port[q].groups
                 \/ r.port = NoPort /\ port'[q].groups = PortGroups(c)
    PROVE  Tagged(c, gs)'
<1>1. PICK ts : ts = ToSet(gs) OBVIOUS
<1>2. \A q \in Theirs(c)' \ UserPorts : port'[q].groups = ts BY <1>1 DEF Tagged
<1> QED BY <1>1, <1>2 DEF Tagged

LEMMA UnpluggedAgrees ==
    ASSUME KeptInv, Devices, NEW a, port' = Unplugged(a)
    PROVE  /\ Devices' /\ \A d \in Containers : Shrinks(d)
           /\ (a.keep => a.port \in UserPorts) => \A d \in Containers : a.port \notin Theirs(d)'
<1>0. "none" \notin Containers BY NetworksAssumption
<1>1. port \in [Ports -> Port] BY DEF KeptInv
<1>2. PICK p : p = a.port OBVIOUS
<1>3. CASE ~port[p].exists /\ port' = port
  <2>1. Devices' /\ \A d : Shrinks(d) BY <1>3, SamePorts
  <2> QED BY <1>2, <1>3, <2>1 DEF Theirs
<1>4. CASE a.keep /\ port' = [port EXCEPT ![p].device = "none"]
  <2>1. \A q \in Ports : /\ port'[q].maker = port[q].maker /\ port'[q].exists = port[q].exists
                         /\ port'[q].groups = port[q].groups
                         /\ q # p => port'[q].device = port[q].device
                         /\ q = p => port'[q].device = "none"
    BY <1>1, <1>4 DEF Port
  <2>2. Devices' BY <2>1 DEF Devices
  <2>3. \A d \in Containers : Theirs(d)' \subseteq Theirs(d) BY <1>0, <2>1 DEF Theirs
  <2>4. \A d \in Containers : Shrinks(d) BY <2>1, <2>3 DEF Shrinks, Theirs
  <2>5. p \in UserPorts => \A d \in Containers : p \notin Theirs(d)'
    BY <1>0, <2>1 DEF Theirs, Devices
  <2> QED BY <1>2, <1>4, <2>2, <2>4, <2>5
<1>5. CASE ~a.keep /\ port' = [port EXCEPT ![p].exists = FALSE, ![p].device = "none"]
  <2>1. PICK mid : mid = [port EXCEPT ![p].exists = FALSE] OBVIOUS
  <2>2. port' = [mid EXCEPT ![p].device = "none"] BY <1>5, <2>1
  <2>3. /\ mid \in [Ports -> Port]
        /\ \A q \in Ports : /\ mid[q].maker = port[q].maker /\ mid[q].groups = port[q].groups
                            /\ mid[q].device = port[q].device
                            /\ q # p => mid[q].exists = port[q].exists
                            /\ q = p => ~mid[q].exists
    BY <1>1, <2>1 DEF Port
  <2>4. \A q \in Ports : /\ port'[q].maker = mid[q].maker /\ port'[q].groups = mid[q].groups
                         /\ port'[q].exists = mid[q].exists
                         /\ q # p => port'[q].device = mid[q].device
                         /\ q = p => port'[q].device = "none"
    BY <2>2, <2>3 DEF Port
  <2>5. Devices' BY <2>3, <2>4 DEF Devices
  <2>6. \A d \in Containers : Theirs(d)' \subseteq Theirs(d) /\ p \notin Theirs(d)'
    BY <1>0, <2>3, <2>4 DEF Theirs
  <2>7. \A d \in Containers : Shrinks(d) BY <2>3, <2>4, <2>6 DEF Shrinks, Theirs
  <2> QED BY <1>2, <2>5, <2>6, <2>7
<1> QED BY <1>2, <1>3, <1>4, <1>5 DEF Unplugged, NoDevice, NoSuchPort

LEMMA RegroupedAgrees ==
    ASSUME IInv, KeptInv, Devices, NEW c \in Containers, NEW ps, ps \subseteq PortsOf(job[c].addr),
           NEW add \in BOOLEAN, port' = Regrouped(ps, UserGroup, add)
    PROVE  /\ Devices' /\ \A d \in Containers : d # c => Shrinks(d)
           /\ \A d \in Containers : Theirs(d)' = Theirs(d)
           /\ \A p \in Ports : p \notin ps => port'[p].groups = port[p].groups
           /\ \A p \in ps \cap Ports :
                 port'[p].groups = IF add THEN port[p].groups \cup {UserGroup}
                                   ELSE port[p].groups \ {UserGroup}
<1>1. port \in [Ports -> Port] BY DEF KeptInv
<1>2. ASSUME NEW p \in Ports
      PROVE  /\ port'[p].maker = port[p].maker /\ port'[p].device = port[p].device
             /\ port'[p].exists = port[p].exists
             /\ p \notin ps => port'[p].groups = port[p].groups
             /\ p \in ps => port'[p].groups = IF add THEN port[p].groups \cup {UserGroup}
                                              ELSE port[p].groups \ {UserGroup}
  <2>1. PICK o \in Port : o = port[p] BY <1>1
  <2>2. PICK gs : gs = IF add THEN o.groups \cup {UserGroup} ELSE o.groups \ {UserGroup}
    OBVIOUS
  <2>3. port'[p] = IF p \notin ps THEN o ELSE [o EXCEPT !.groups = gs]
    BY <2>1, <2>2 DEF Regrouped
  <2>4. /\ [o EXCEPT !.groups = gs].maker = o.maker /\ [o EXCEPT !.groups = gs].device = o.device
        /\ [o EXCEPT !.groups = gs].exists = o.exists /\ [o EXCEPT !.groups = gs].groups = gs
    BY DEF Port
  <2> QED BY <2>1, <2>2, <2>3, <2>4
<1>3. Devices' BY <1>2 DEF Devices
<1>4. \A d \in Containers : Theirs(d)' = Theirs(d) BY <1>2 DEF Theirs
<1>5. ASSUME NEW d \in Containers, d # c PROVE Shrinks(d)
  <2>1. ASSUME NEW p \in Theirs(d), p \notin UserPorts PROVE p \notin ps
    <3>1. port[p].maker = d /\ p \in 1..MaxPorts BY <2>1, Mine
    <3>2. JobFits(c, job[c]) BY DEF KeptInv, Kept
    <3>3. ASSUME p \in ps PROVE FALSE
      <4>1. PICK n \in Nets : job[c].addr[n].port = p BY <3>3 DEF PortsOf, Attached
      <4>2. Fits(c, job[c].addr[n]) BY <3>2 DEF JobFits, AddrFits
      <4> QED BY <1>5, <3>1, <4>1, <4>2 DEF Fits
    <3> QED BY <3>3
  <2>2. Theirs(d) \subseteq Ports BY DEF Theirs
  <2> QED BY <1>2, <1>4, <2>1, <2>2 DEF Shrinks
<1> QED BY <1>2, <1>3, <1>4, <1>5

-----------------------------------------------------------------------------
(* A step of the thread of a container                                      *)

LEMMA OwnStep ==
    ASSUME IInv, IInv', KeptInv, AInv, NEW c \in Containers, NEW r, NEW e,
           job[c].pc # "idle", job' = [job EXCEPT ![c] = e], row'[c] = r,
           \A d \in Containers : d # c => /\ row'[d] = row[d] /\ docker'[d] = docker[d]
                                          /\ group'[d] = group[d] /\ Shrinks(d),
           UNCHANGED queue, spoilt \subseteq spoilt', r.st # "none", r.host => row[c].host,
           \A d \in Containers : used.ids[d] <= used'.ids[d],
           Devices', Recorded',
           c \notin spoilt' /\ c \notin spoilt /\ r.host /\ Working(c, row[c], job[c]) =>
              At(c, r, e)'
    PROVE  AInv'
<1>1. c \in Threads /\ job \in [Threads -> Job] BY ContainerThread DEF IInv, Typed
<1>2. job'[c] = e /\ \A d \in Containers : d # c => job'[d] = job[d] BY <1>1 DEF Threads
<1>3. \A d \in Containers : used.ids[d] \in Nat /\ used'.ids[d] \in Nat
  BY DEF IInv, Typed, Used
<1>4. \A d \in Containers : d # c => Apart(d) BY <1>2, <1>3 DEF Apart, Quiet
<1>5. \A d \in Containers : d # c => Agreeing(d)' BY <1>4, ApartAgrees DEF AInv
<1>6. Agreeing(c)'
  <2>1. ASSUME c \notin spoilt', r.host
        PROVE  At(c, r, e)' /\ \A m \in queue' : m.c # c
    <3>1. c \notin spoilt /\ row[c].host BY <2>1
    <3>2. Agreeing(c) /\ OneRequest(c) BY <3>1 DEF AInv, KeptInv, Kept
    <3>3. Working(c, row[c], job[c]) BY <3>1, <3>2 DEF Agreeing, At
    <3>4. \A m \in queue : m.c # c BY <3>2 DEF OneRequest
    <3> QED BY <2>1, <3>1, <3>3, <3>4
  <2>2. At(c, r, e)' <=> At(c, row[c], job[c])' BY <1>2
  <2> QED BY <2>1, <2>2 DEF Agreeing
<1> QED BY <1>5, <1>6 DEF AInv

\* A thread that meets an error where it may.
LEMMA Raising ==
    ASSUME IInv, NEW c \in Containers, NEW r, NEW j, j = job[c], Working(c, r, j), j.op # "delete",
           j.op \notin {"create", "rebuild"} => Standing(c, r)',
           NEW e, e = Raised(c, TRUE)
    PROVE  At(c, r, e)'
<1>1. j \in Job BY ContainerThread DEF IInv, Typed
<1>2. CASE j.op \in {"create", "rebuild"}
  <2>1. e = [j EXCEPT !.pc = "fail", !.unset = TRUE] BY <1>2 DEF Raised, Finishes
  <2>2. e.pc = "fail" /\ e.unset /\ e.op = j.op /\ e.nets = j.nets BY <1>1, <2>1 DEF Job, Shape
  <2>3. CASE j.op = "create"
    <3>1. Creating(c, r, e)' BY <2>2, <2>3 DEF Working, Creating, Asking, Early
    <3> QED BY <2>2, <2>3, <3>1 DEF At, Working, Ops
  <2>4. CASE j.op = "rebuild"
    <3>1. Rebuilding(c, r, e)' BY <2>2, <2>4 DEF Rebuilding, Early
    <3>2. r.st \in {"created", "error"} BY <2>4 DEF Working
    <3> QED BY <2>2, <2>4, <3>1, <3>2 DEF At, Working, Ops
  <2> QED BY <1>2, <2>3, <2>4
<1>3. CASE j.op \notin {"create", "rebuild"}
  <2>1. e = NoJob /\ r.st \in {"created", "error"} BY <1>3 DEF Raised, Finishes, Working
  <2>2. Resting(c, r)' BY <1>3, <2>1 DEF Resting
  <2> QED BY <2>1, <2>2, NoJobType DEF At
<1> QED BY <1>2, <1>3

-----------------------------------------------------------------------------
(* Networks on the way to a container                                       *)

LEMMA EarlyGoes ==
    ASSUME NEW c \in Containers, Quiet(c), NEW r, NEW j, NEW e, Working(c, r, j), j.pc \in Early,
           e.op = j.op, e.nets = j.nets, e.addr = j.addr, e.groups = j.groups, e.cid = j.cid,
           e.pc \in Early \/ (e.pc = "expose" /\ j.op \in {"create", "rebuild"})
    PROVE  Working(c, r, e)' /\ e.pc # "idle"
<1>1. Working(c, r, j)' BY WorkingStays
<1>2. CASE j.op = "create"
  <2>1. Creating(c, r, j)' BY <1>1, <1>2 DEF Working
  <2>2. Creating(c, r, e)' BY <2>1 DEF Creating, Early
  <2> QED BY <1>2, <2>2 DEF Working, Ops, Early
<1>3. CASE j.op = "attach"
  <2>1. Attaching(c, r, j)' /\ r.st \in {"created", "error"} BY <1>1, <1>3 DEF Working
  <2>2. Attaching(c, r, e)' BY <1>3, <2>1 DEF Attaching, Early, Copy
  <2> QED BY <1>3, <2>1, <2>2 DEF Working, Ops, Early
<1>4. CASE j.op = "rebuild"
  <2>1. Rebuilding(c, r, j)' /\ r.st \in {"created", "error"} BY <1>1, <1>4 DEF Working
  <2>2. Doomed(c, j)' => Doomed(c, e)' BY DEF Doomed
  <2>3. Rebuilding(c, r, e)' BY <2>1, <2>2 DEF Rebuilding, Early
  <2> QED BY <1>4, <2>1, <2>3 DEF Working, Ops, Early
<1>5. j.op \in {"create", "attach", "rebuild"}
  BY DEF Working, Detaching, Regrouping, Deleting, Early, Ops
<1> QED BY <1>2, <1>3, <1>4, <1>5

LEMMA PluggedStanding ==
    ASSUME NEW c, NEW r, NEW e, Plugged(c, e), Copy(r, e), Accounts(c, e.addr)
    PROVE  Standing(c, r)
BY DEF Standing, Copy, Plugged

LEMMA ProvisionedAgrees ==
    ASSUME IInv, NEW c \in Containers, Quiet(c), NEW r, NEW j, j = job[c], Working(c, r, j),
           j.pc \in Early, NEW e, e = Provisioned(c)
    PROVE  At(c, r, e)'
<1>1. j \in Job BY ContainerThread DEF IInv, Typed
<1>2. j.op \in {"create", "attach", "rebuild"}
  BY DEF Working, Detaching, Regrouping, Deleting, Early, Ops
<1>3. CASE j.i < Len(j.nets)
  <2>1. e = [j EXCEPT !.i = j.i + 1, !.pc = "check"] BY <1>3 DEF Provisioned
  <2>2. /\ e.op = j.op /\ e.nets = j.nets /\ e.addr = j.addr /\ e.groups = j.groups
        /\ e.cid = j.cid /\ e.pc = "check"
    BY <1>1, <2>1 DEF Job, Shape
  <2> QED BY <2>2, EarlyGoes DEF At, Early
<1>4. CASE ~(j.i < Len(j.nets)) /\ j.op \in {"create", "rebuild"}
  <2>1. e = [j EXCEPT !.pc = "expose"] BY <1>4 DEF Provisioned
  <2>2. /\ e.op = j.op /\ e.nets = j.nets /\ e.addr = j.addr /\ e.groups = j.groups
        /\ e.cid = j.cid /\ e.pc = "expose"
    BY <1>1, <2>1 DEF Job, Shape
  <2> QED BY <1>4, <2>2, EarlyGoes DEF At, Early
<1>5. CASE ~(j.i < Len(j.nets)) /\ j.op = "attach"
  <2>1. e = [j EXCEPT !.i = 1, !.pc = "connect"] BY <1>5 DEF Provisioned
  <2>2. /\ e.op = j.op /\ e.nets = j.nets /\ e.addr = j.addr /\ e.groups = j.groups
        /\ e.cid = j.cid /\ e.pc = "connect"
    BY <1>1, <2>1 DEF Job, Shape
  <2>3. /\ Standing(c, r) /\ Copy(r, j) /\ Asking(j.nets) /\ Len(j.nets) = 1
        /\ j.groups = r.groups /\ r.st \in {"created", "error"}
    BY <1>5 DEF Working, Attaching
  <2>4. Standing(c, r)' BY <2>3, StandingStays
  <2>5. Copy(r, e)' /\ Asking(e.nets)' BY <2>2, <2>3 DEF Copy, Asking
  <2>6. Plugged(c, e)' BY <2>2, <2>4, <2>5 DEF Standing, Copy, Plugged
  <2>7. Attaching(c, r, e)' BY <2>2, <2>3, <2>5, <2>6 DEF Attaching, Early
  <2> QED BY <1>5, <2>2, <2>3, <2>7 DEF At, Working, Ops
<1> QED BY <1>2, <1>3, <1>4, <1>5

\* What a step with the networks leaves of the containers.
LEMMA NetworkFrame ==
    ASSUME IInv, IInv', KeptInv, AInv, NEW t \in Threads, NEW e, job[t].pc # "idle",
           job' = [job EXCEPT ![t] = e], UNCHANGED <<port, group, docker, row, queue, spoilt>>,
           \A d \in Containers : used.ids[d] <= used'.ids[d],
           \A r : \A j : t \in Containers /\ r = row[t] /\ j = job[t] /\ Working(t, r, j) /\ Quiet(t)
                         => At(t, r, e)'
    PROVE  AInv'
<1>1. Devices' /\ \A d \in Containers : Shrinks(d) BY SamePorts DEF AInv
<1>2. Recorded' BY DEF AInv, Recorded
<1>3. \A d \in Containers : used.ids[d] \in Nat /\ used'.ids[d] \in Nat
  BY DEF IInv, Typed, Used
<1>4. \A d \in Containers : Quiet(d) BY <1>1, <1>3 DEF Quiet
<1>5. CASE t \in Containers
  <2>1. PICK r : r = row[t] OBVIOUS
  <2>2. ASSUME Working(t, row[t], job[t]) PROVE At(t, r, e)' BY <1>4, <1>5, <2>1, <2>2
  <2>3. ASSUME r.st = "none" PROVE FALSE
    <3>1. Fresh(t, row[t]) BY <1>5, <2>1, <2>3 DEF AInv, Agreeing
    <3> QED BY <3>1 DEF Fresh, Pending
  <2>4. row'[t] = r /\ row' = row BY <2>1
  <2> QED BY <1>1, <1>2, <1>5, <2>1, <2>2, <2>3, <2>4, OwnStep
<1>6. CASE t \notin Containers
  <2>1. \A d \in Containers : job'[d] = job[d] BY <1>6, ContainerThread DEF IInv, Typed
  <2>2. \A d \in Containers : Apart(d) BY <1>4, <2>1 DEF Apart
  <2> QED BY <1>1, <1>2, <2>2, ApartAgrees DEF AInv
<1> QED BY <1>5, <1>6

LEMMA EarlyRaised ==
    ASSUME IInv, NEW c \in Containers, Quiet(c), NEW r, NEW j, j = job[c], Working(c, r, j),
           j.pc \in Early, NEW e, e = Raised(c, TRUE)
    PROVE  At(c, r, e)'
<1>1. j.op \in {"create", "attach", "rebuild"}
  BY DEF Working, Detaching, Regrouping, Deleting, Early, Ops
<1>2. j.op = "attach" => Standing(c, r) BY DEF Working, Attaching
<1>3. j.op = "attach" => Standing(c, r)' BY <1>2, StandingStays
<1> QED BY <1>1, <1>3, Raising

LEMMA IdsSame ==
    ASSUME IInv, UNCHANGED used \/ \E f : Fault(f)
    PROVE  \A d \in Containers : used.ids[d] <= used'.ids[d]
<1>1. \A d \in Containers : used.ids[d] \in Nat BY DEF IInv, Typed, Used
<1>2. used'.ids = used.ids BY FaultType DEF IInv
<1> QED BY <1>1, <1>2

LEMMA IdsGrow ==
    ASSUME IInv, NEW x \in Nets \cup Containers, used' = UseId(x)
    PROVE  \A d \in Containers : used.ids[d] <= used'.ids[d]
<1>1. \A d \in Nets \cup Containers : used.ids[d] \in Nat BY DEF IInv, Typed, Used
<1>2. /\ used'.ids[x] = used.ids[x] + 1
      /\ \A y \in Nets \cup Containers : y # x => used'.ids[y] = used.ids[y]
  BY UseIdType DEF IInv
<1> QED BY <1>1, <1>2

LEMMA NetworkAgrees ==
    ASSUME IInv, IInv', KeptInv, AInv, NEW t \in Threads, NetworkStep(t) PROVE AInv'
<1> DEFINE Leads(e) == \A r : \A j : t \in Containers /\ r = row[t] /\ j = job[t]
                                     /\ Working(t, r, j) /\ Quiet(t) => At(t, r, e)'
<1>0. job[t].pc # "idle"
  BY DEF NetworkStep, get_or_create_network, create_network, CreateRow, AlreadyExists,
         MakeNetwork, SaveNetworkId, RemoveNetwork, RemoveNetworkRow
<1>1. UNCHANGED <<port, group, docker, row, queue, spoilt>>
  BY DEF NetworkStep, get_or_create_network, create_network, CreateRow, AlreadyExists,
         MakeNetwork, SaveNetworkId, RemoveNetwork, RemoveNetworkRow
<1>2. PICK k \in Job : k = job[t] BY DEF IInv, Typed
<1>3. ASSUME NEW e, job[t].pc \in Early, e = Raised(t, TRUE) \/ e = Provisioned(t) PROVE Leads(e)
  BY <1>3, EarlyRaised, ProvisionedAgrees
<1>4. ASSUME NEW e, job[t].pc \in Early, e.op = k.op, e.nets = k.nets, e.addr = k.addr,
             e.groups = k.groups, e.cid = k.cid,
             e.pc \in Early \/ (e.pc = "expose" /\ (t \in Containers => k.nets = <<>>))
      PROVE  Leads(e)
  <2> SUFFICES ASSUME NEW r, NEW j, t \in Containers, r = row[t], j = job[t], Working(t, r, j),
                      Quiet(t)
               PROVE  At(t, r, e)'
    OBVIOUS
  <2>1. j = k BY <1>2
  <2>2. j.op \in {"create", "attach", "rebuild"}
    BY <1>4 DEF Working, Detaching, Regrouping, Deleting, Early, Ops
  <2>3. j.op = "attach" => Len(j.nets) = 1 BY DEF Working, Attaching
  <2>4. k.nets = <<>> => j.op \in {"create", "rebuild"} BY <2>1, <2>2, <2>3
  <2> QED BY <1>4, <2>1, <2>4, EarlyGoes DEF At
<1>5. ASSUME NEW e, job' = [job EXCEPT ![t] = e], Leads(e),
             \A d \in Containers : used.ids[d] <= used'.ids[d]
      PROVE  AInv'
  BY <1>0, <1>1, <1>5, NetworkFrame
<1> HIDE DEF Leads
<1>6. CASE get_or_create_network(t)
  <2>1. job[t].pc \in Early /\ UNCHANGED used BY <1>6 DEF get_or_create_network, Early
  <2>2. \A d \in Containers : used.ids[d] <= used'.ids[d] BY <2>1, IdsSame
  <2>3. PICK e : /\ job' = [job EXCEPT ![t] = e]
                 /\ \/ e = [k EXCEPT !.pc = "expose"] /\ k.nets = <<>>
                    \/ e = Provisioned(t)
                    \/ e = [k EXCEPT !.pc = "subnets", !.try = 1]
    BY <1>2, <1>6 DEF get_or_create_network, Set, Goto
  <2>4. Leads(e)
    <3>1. CASE e = [k EXCEPT !.pc = "expose"] /\ k.nets = <<>>
      <4>1. /\ e.op = k.op /\ e.nets = k.nets /\ e.addr = k.addr /\ e.groups = k.groups
            /\ e.cid = k.cid /\ e.pc = "expose"
        BY <3>1 DEF Job, Shape
      <4> QED BY <1>4, <2>1, <3>1, <4>1
    <3>2. CASE e = [k EXCEPT !.pc = "subnets", !.try = 1]
      <4>1. /\ e.op = k.op /\ e.nets = k.nets /\ e.addr = k.addr /\ e.groups = k.groups
            /\ e.cid = k.cid /\ e.pc = "subnets"
        BY <3>2 DEF Job, Shape
      <4> QED BY <1>4, <2>1, <4>1 DEF Early
    <3> QED BY <1>3, <2>1, <2>3, <3>1, <3>2
  <2> QED BY <1>5, <2>2, <2>3, <2>4
<1>7. CASE create_network(t)
  <2>1. job[t].pc \in Early /\ (UNCHANGED used \/ \E f : Fault(f)) BY <1>7 DEF create_network, Early
  <2>2. \A d \in Containers : used.ids[d] <= used'.ids[d] BY <2>1, IdsSame
  <2>3. PICK e : /\ job' = [job EXCEPT ![t] = e]
                 /\ e = [k EXCEPT !.pc = "attempt"] \/ e = Raised(t, TRUE)
    BY <1>2, <1>7 DEF create_network, Set, Goto, Raise
  <2>4. Leads(e)
    <3>1. CASE e = [k EXCEPT !.pc = "attempt"]
      <4>1. /\ e.op = k.op /\ e.nets = k.nets /\ e.addr = k.addr /\ e.groups = k.groups
            /\ e.cid = k.cid /\ e.pc = "attempt"
        BY <3>1 DEF Job, Shape
      <4> QED BY <1>4, <2>1, <4>1 DEF Early
    <3> QED BY <1>3, <2>1, <2>3, <3>1
  <2> QED BY <1>5, <2>2, <2>3, <2>4
<1>8. CASE CreateRow(t)
  <2>1. job[t].pc \in Early /\ job[t].pc = "attempt" BY <1>8 DEF CreateRow, Early
  <2>2. Net(t) \in Nets BY <2>1, NetType DEF IInv, Providing
  <2>3. \A d \in Containers : used.ids[d] <= used'.ids[d] BY <1>8, <2>2, IdsGrow DEF CreateRow
  <2>4. PICK u : u = NextId(Net(t)) OBVIOUS
  <2>5. PICK e : job' = [job EXCEPT ![t] = e] /\ e = [k EXCEPT !.pc = "mknet", !.uuid = u]
    BY <1>2, <1>8, <2>4 DEF CreateRow, Set
  <2>6. /\ e.op = k.op /\ e.nets = k.nets /\ e.addr = k.addr /\ e.groups = k.groups
        /\ e.cid = k.cid /\ e.pc = "mknet"
    BY <2>5 DEF Job, Shape
  <2>7. Leads(e) BY <1>4, <2>1, <2>6 DEF Early
  <2> QED BY <1>5, <2>3, <2>5, <2>7
<1>9. CASE AlreadyExists(t)
  <2>1. job[t].pc \in Early /\ UNCHANGED used BY <1>9 DEF AlreadyExists, Early
  <2>2. \A d \in Containers : used.ids[d] <= used'.ids[d] BY <2>1, IdsSame
  <2>3. PICK e : /\ job' = [job EXCEPT ![t] = e]
                 /\ \/ e = Provisioned(t) \/ e = Raised(t, TRUE)
                    \/ e = [k EXCEPT !.try = k.try + 1]
    BY <1>2, <1>9 DEF AlreadyExists, Set
  <2>4. Leads(e)
    <3>1. CASE e = [k EXCEPT !.try = k.try + 1]
      <4>1. /\ e.op = k.op /\ e.nets = k.nets /\ e.addr = k.addr /\ e.groups = k.groups
            /\ e.cid = k.cid /\ e.pc = k.pc
        BY <3>1 DEF Job, Shape
      <4> QED BY <1>2, <1>4, <2>1, <4>1
    <3> QED BY <1>3, <2>1, <2>3, <3>1
  <2> QED BY <1>5, <2>2, <2>3, <2>4
<1>10. CASE MakeNetwork(t)
  <2>1. job[t].pc \in Early /\ job[t].pc = "mknet" BY <1>10 DEF MakeNetwork, Early
  <2>2. Net(t) \in Nets BY <2>1, NetType DEF IInv, Providing
  <2>3. \A d \in Containers : used.ids[d] <= used'.ids[d]
    BY <1>10, <2>2, IdsGrow, IdsSame DEF MakeNetwork
  <2>4. PICK u : u = NextId(Net(t)) OBVIOUS
  <2>5. PICK e : /\ job' = [job EXCEPT ![t] = e]
                 /\ e = [k EXCEPT !.pc = "saveid", !.id = u] \/ e = Raised(t, TRUE)
    BY <1>2, <1>10, <2>4 DEF MakeNetwork, Set, Raise
  <2>6. Leads(e)
    <3>1. CASE e = [k EXCEPT !.pc = "saveid", !.id = u]
      <4>1. /\ e.op = k.op /\ e.nets = k.nets /\ e.addr = k.addr /\ e.groups = k.groups
            /\ e.cid = k.cid /\ e.pc = "saveid"
        BY <3>1 DEF Job, Shape
      <4> QED BY <1>4, <2>1, <4>1 DEF Early
    <3> QED BY <1>3, <2>1, <2>5, <3>1
  <2> QED BY <1>5, <2>3, <2>5, <2>6
<1>11. CASE SaveNetworkId(t)
  <2>1. job[t].pc \in Early /\ UNCHANGED used BY <1>11 DEF SaveNetworkId, Early
  <2>2. \A d \in Containers : used.ids[d] <= used'.ids[d] BY <2>1, IdsSame
  <2>3. PICK e : job' = [job EXCEPT ![t] = e] /\ (e = Provisioned(t) \/ e = Raised(t, TRUE))
    BY <1>11 DEF SaveNetworkId, Set, Raise
  <2> QED BY <1>3, <1>5, <2>1, <2>2, <2>3
<1>12. CASE RemoveNetwork(t) \/ RemoveNetworkRow(t)
  <2>1. job[t].pc \in {"rmnet", "rmrow"} /\ UNCHANGED used
    BY <1>12 DEF RemoveNetwork, RemoveNetworkRow
  <2>2. \A d \in Containers : used.ids[d] <= used'.ids[d] BY <2>1, IdsSame
  <2>3. PICK e : job' = [job EXCEPT ![t] = e]
    BY <1>12 DEF RemoveNetwork, RemoveNetworkRow, Goto, Done, Set
  <2>4. \A r : ~Working(t, r, job[t])
    BY <2>1 DEF Working, Creating, Attaching, Detaching, Regrouping, Rebuilding, Deleting, Ops, Early
  <2>5. Leads(e) BY <2>4 DEF Leads
  <2> QED BY <1>5, <2>2, <2>3, <2>5
<1> QED BY <1>6, <1>7, <1>8, <1>9, <1>10, <1>11, <1>12 DEF NetworkStep

-----------------------------------------------------------------------------
(* The steps of a creation, an attach and a rebuild                         *)

LEMMA OwnGoes ==
    ASSUME IInv, IInv', KeptInv, AInv, NEW c \in Containers, NEW e,
           job[c].pc # "idle", job' = [job EXCEPT ![c] = e], UNCHANGED <<row, queue>>,
           \A d \in Containers : d # c => /\ docker'[d] = docker[d] /\ group'[d] = group[d]
                                          /\ Shrinks(d),
           spoilt \subseteq spoilt', \A d \in Containers : used.ids[d] <= used'.ids[d],
           Devices', Recorded',
           \A r : \A j : /\ r = row[c] /\ j = job[c] /\ c \notin spoilt' /\ Working(c, r, j)
                         /\ j.op = "rebuild" => Restoring(r.addr, j)
                         => At(c, r, e)'
    PROVE  AInv'
<1>1. PICK r : r = row[c] OBVIOUS
<1>2. ASSUME c \notin spoilt', c \notin spoilt, r.host, Working(c, row[c], job[c])
      PROVE  At(c, r, e)'
  <2>1. job[c].op = "rebuild" => Restoring(row[c].addr, job[c]) BY <1>2 DEF KeptInv, Kept
  <2> QED BY <1>1, <1>2, <2>1
<1>3. ASSUME r.st = "none" PROVE FALSE
  <2>1. Fresh(c, row[c]) BY <1>1, <1>3 DEF AInv, Agreeing
  <2> QED BY <2>1 DEF Fresh, Pending
<1>4. row'[c] = r /\ row' = row BY <1>1
<1> QED BY <1>1, <1>2, <1>3, <1>4, OwnStep

LEMMA RaiseAgrees ==
    ASSUME IInv, IInv', KeptInv, AInv, NEW c \in Containers, Raise(c), job[c].pc # "idle",
           UNCHANGED <<row, queue, docker, group, spoilt>>, UNCHANGED used \/ \E f : Fault(f),
           Devices', \A d \in Containers : Shrinks(d),
           \A r : \A j : r = row[c] /\ j = job[c] /\ Working(c, r, j) =>
              j.op # "delete" /\ (j.op \notin {"create", "rebuild"} => Standing(c, r)')
    PROVE  AInv'
<1>1. PICK e : e = Raised(c, TRUE) /\ job' = [job EXCEPT ![c] = e] BY DEF Raise, Set
<1>2. \A d \in Containers : used.ids[d] <= used'.ids[d] BY IdsSame
<1>3. Recorded' BY DEF AInv, Recorded
<1>4. ASSUME NEW r, NEW j, r = row[c], j = job[c], Working(c, r, j) PROVE At(c, r, e)'
  BY <1>1, <1>4, Raising
<1> QED BY <1>1, <1>2, <1>3, <1>4, OwnGoes

LEMMA OwnSame ==
    ASSUME NEW c, NEW gs, OwnGroups(c, gs), UNCHANGED <<group, used>> PROVE OwnGroups(c, gs)'
BY DEF OwnGroups

\* Where a thread that makes or takes ports may be.
LEMMA Plugging ==
    ASSUME NEW c, NEW r, NEW j, Working(c, r, j),
           j.pc \in {"expose", "first", "create", "connect", "join"}
    PROVE  /\ j.op \in {"create", "attach", "rebuild"}
           /\ j.pc \in {"expose", "first", "create"} => j.op # "attach"
BY DEF Working, Attaching, Detaching, Regrouping, Deleting, Early, Ops

LEMMA ExposeAgrees ==
    ASSUME IInv, IInv', KeptInv, AInv, NEW c \in Containers, _process_exposed_ports(c) PROVE AInv'
<1>1. /\ job[c].pc = "expose" /\ job[c].pc # "idle"
      /\ UNCHANGED <<dnet, netrow, port, docker, row, queue, spoilt>>
  BY DEF _process_exposed_ports
<1>2. Devices' /\ (\A d \in Containers : Shrinks(d)) /\ Theirs(c)' = Theirs(c)
  BY <1>1, SamePorts DEF AInv
<1>3. PICK k \in Job : k = job[c] BY ContainerThread DEF IInv, Typed
<1>4. \A d \in Containers : used.ids[d] \in Nat /\ used'.ids[d] \in Nat BY DEF IInv, Typed, Used
<1>5. CASE c \notin Exposed /\ Goto(c, "first") /\ UNCHANGED <<group, used>>
  <2>1. PICK e : e = [k EXCEPT !.pc = "first"] OBVIOUS
  <2>2. job' = [job EXCEPT ![c] = e] BY <1>3, <1>5, <2>1 DEF Goto, Set
  <2>3. e.pc = "first" /\ e.op = k.op /\ e.nets = k.nets /\ e.groups = k.groups
    BY <2>1 DEF Job, Shape
  <2>4. Quiet(c) BY <1>1, <1>2, <1>4, <1>5 DEF Quiet
  <2>5. ASSUME NEW r, NEW j, r = row[c], j = job[c], Working(c, r, j) PROVE At(c, r, e)'
    <3>1. Working(c, r, j)' /\ j = k BY <1>3, <2>4, <2>5, WorkingStays
    <3>2. CASE j.op = "create"
      <4>1. Creating(c, r, j)' BY <3>1, <3>2 DEF Working
      <4>2. (Theirs(c) = {} /\ group[c] = {})' /\ j.groups = <<>>
        BY <1>1, <2>5, <4>1 DEF Creating, Clear
      <4>3. OwnGroups(c, e.groups)' BY <1>5, <2>3, <3>1, <4>2 DEF OwnGroups
      <4>4. Creating(c, r, e)' BY <2>3, <3>1, <4>1, <4>2, <4>3 DEF Creating, Early
      <4> QED BY <2>3, <3>1, <3>2, <4>4 DEF At, Working, Ops
    <3>3. CASE j.op = "rebuild"
      <4>1. Rebuilding(c, r, j)' /\ r.st \in {"created", "error"} BY <3>1, <3>3 DEF Working
      <4>2. Rebuilding(c, r, e)' BY <1>1, <1>5, <2>3, <2>5, <3>1, <4>1 DEF Rebuilding, Early
      <4> QED BY <2>3, <3>1, <3>3, <4>1, <4>2 DEF At, Working, Ops
    <3> QED BY <1>1, <2>5, <3>2, <3>3, Plugging
  <2>6. Recorded' BY <1>1, <1>5 DEF AInv, Recorded
  <2>7. \A d \in Containers : used.ids[d] <= used'.ids[d] BY <1>5, IdsSame
  <2> QED BY <1>1, <1>2, <1>5, <2>2, <2>5, <2>6, <2>7, OwnGoes
<1>6. CASE /\ c \in Exposed /\ NextId(c) <= MaxIds /\ used' = UseId(c)
           /\ group' = [group EXCEPT ![c] = @ \cup {NextId(c)}]
           /\ Set(c, [job[c] EXCEPT !.pc = "first", !.groups = Append(@, NextId(c))])
  <2>1. PICK g : g = NextId(c) OBVIOUS
  <2>2. PICK gs : gs = Append(k.groups, g) OBVIOUS
  <2>3. PICK e : e = [k EXCEPT !.pc = "first", !.groups = gs] OBVIOUS
  <2>4. job' = [job EXCEPT ![c] = e] BY <1>3, <1>6, <2>1, <2>2, <2>3 DEF Set
  <2>5. e.pc = "first" /\ e.op = k.op /\ e.nets = k.nets /\ e.groups = gs
    BY <2>3 DEF Job, Shape
  <2>6. \A d \in Containers : used.ids[d] <= used'.ids[d] BY <1>6, IdsGrow
  <2>7. g \in Nat /\ g = used.ids[c] + 1 /\ used'.ids[c] = g /\ g \in 1..MaxIds
    BY <1>4, <1>6, <2>1, UseIdType, Numbers DEF NextId, IInv
  <2>8. group \in [Containers -> SUBSET Nat] BY DEF AInv, Recorded
  <2>9. group'[c] = group[c] \cup {g} /\ \A d \in Containers : d # c => group'[d] = group[d]
    BY <1>6, <2>1, <2>8
  <2>10. Recorded'
    <3>1. group' \in [Containers -> SUBSET Nat] BY <1>6, <2>1, <2>7, <2>8
    <3> QED BY <1>1, <3>1 DEF AInv, Recorded
  <2>11. ASSUME NEW r, NEW j, r = row[c], j = job[c], Working(c, r, j) PROVE At(c, r, e)'
    <3>1. j = k /\ j.groups \in Seq(1..UserGroup) BY <1>3, <2>11 DEF Job, Shape, Groups
    <3>2. CASE j.op = "create"
      <4>1. Creating(c, r, j) BY <2>11, <3>2 DEF Working
      <4>2. Theirs(c) = {} /\ group[c] = {} /\ j.groups = <<>>
        BY <1>1, <2>11, <4>1 DEF Creating, Clear
      <4>3. gs = <<g>> BY <2>2, <3>1, <4>2
      <4>4. OwnGroups(c, gs)' BY <1>6, <2>7, <2>9, <4>2, <4>3 DEF OwnGroups
      <4>5. OwnGroups(c, e.groups)' BY <2>5, <4>4
      <4>6. Creating(c, r, e)'
        BY <1>2, <2>5, <3>1, <4>1, <4>2, <4>5 DEF Creating, Early, Asking
      <4> QED BY <2>5, <3>1, <3>2, <4>6 DEF At, Working, Ops
    <3>3. CASE j.op = "rebuild"
      <4>1. Rebuilding(c, r, j) /\ r.st \in {"created", "error"} BY <2>11, <3>3 DEF Working
      <4>2. Doomed(c, j) BY <1>1, <1>6, <2>11, <4>1 DEF Rebuilding
      <4>3. PICK o \in 1..MaxIds : o <= used.ids[c] /\ o \notin group[c] /\ o \in ToSet(j.groups)
        BY <4>2 DEF Doomed
      <4>4. o \in ToSet(gs)
        <5>1. PICK i \in 1..Len(j.groups) : j.groups[i] = o BY <3>1, <4>3 DEF ToSet
        <5>2. gs[i] = o /\ i \in 1..Len(gs) /\ gs \in Seq(1..UserGroup \cup {g})
          <6>1. j.groups \in Seq(1..UserGroup \cup {g}) BY <3>1, SeqIn
          <6> QED BY <2>2, <3>1, <5>1, <6>1
        <5>3. DOMAIN gs = 1..Len(gs) BY <5>2
        <5> QED BY <5>2, <5>3 DEF ToSet
      <4>5. Doomed(c, e)' BY <1>4, <2>5, <2>7, <2>9, <4>3, <4>4, Numbers DEF Doomed
      <4>6. Shrinks(c) /\ Accounts(c, r.addr) /\ Tagged(c, r.groups) /\ Marked(r.addr)
        BY <1>1, <1>2, <2>11, <4>1 DEF Rebuilding
      <4>7. Tagged(c, r.groups)' BY <4>6, TaggedStays
      <4>8. Accounts(c, r.addr)' BY <1>2, <4>6 DEF Accounts, PortsOf, Attached
      <4>9. Marked(r.addr)' BY <4>6 DEF Marked
      <4>10. Rebuilding(c, r, e)' BY <1>6, <2>5, <4>5, <4>7, <4>8, <4>9 DEF Rebuilding, Early
      <4> QED BY <2>5, <3>1, <3>3, <4>1, <4>10 DEF At, Working, Ops
    <3> QED BY <1>1, <2>11, <3>2, <3>3, Plugging
  <2> QED BY <1>1, <1>2, <2>4, <2>6, <2>9, <2>10, <2>11, OwnGoes
<1>7. CASE Fault("rule") /\ Raise(c) /\ UNCHANGED group
  <2>1. ASSUME NEW r, NEW j, r = row[c], j = job[c], Working(c, r, j)
        PROVE  j.op \in {"create", "rebuild"}
    BY <1>1, <2>1, Plugging
  <2> QED BY <1>1, <1>2, <1>7, <2>1, RaiseAgrees
<1> QED BY <1>5, <1>6, <1>7 DEF _process_exposed_ports

\* A group that is gone is not found.
LEMMA DoomedFails ==
    ASSUME NEW c, Doomed(c, job[c]) PROVE ~GroupsFound(c)
<1>1. PICK g \in 1..MaxIds : g \notin group[c] /\ g \in ToSet(job[c].groups) BY DEF Doomed
<1>2. g # UserGroup BY Numbers DEF UserGroup
<1> QED BY <1>1, <1>2 DEF GroupsFound

LEMMA PortFailsAgrees ==
    ASSUME IInv, IInv', KeptInv, AInv, NEW c \in Containers, NEW q, PortFails(c, q),
           job[c].pc # "idle", UNCHANGED <<row, queue, docker, group, spoilt>>,
           \A r : \A j : r = row[c] /\ j = job[c] /\ Working(c, r, j) =>
              j.op # "delete" /\ (j.op \notin {"create", "rebuild"} => Standing(c, r))
    PROVE  AInv'
<1>1. Raise(c) /\ UNCHANGED port /\ (UNCHANGED used \/ \E f : Fault(f)) BY DEF PortFails
<1>2. Devices' /\ \A d \in Containers : Shrinks(d) BY <1>1, SamePorts DEF AInv
<1>3. \A d \in Containers : used.ids[d] \in Nat /\ used'.ids[d] \in Nat BY DEF IInv, Typed, Used
<1>4. \A d \in Containers : used.ids[d] <= used'.ids[d] BY <1>1, IdsSame
<1>5. Quiet(c) BY <1>2, <1>3, <1>4 DEF Quiet
<1>6. ASSUME NEW r, NEW j, r = row[c], j = job[c], Working(c, r, j)
      PROVE  j.op # "delete" /\ (j.op \notin {"create", "rebuild"} => Standing(c, r)')
  BY <1>5, <1>6, StandingStays
<1> QED BY <1>1, <1>2, <1>6, RaiseAgrees

\* An address that is put where there was none.
LEMMA PutAddress ==
    ASSUME NEW a \in Addresses, NEW n \in Nets, a[n].port = NoPort, NEW x \in Address,
           x.port # NoPort, NEW b, b[n] = x, \A m \in Nets : m # n => b[m] = a[m]
    PROVE  /\ Attached(b) = Attached(a) \cup {n} /\ PortsOf(b) = PortsOf(a) \cup {x.port}
           /\ Marked(a) /\ (x.keep => x.port \in UserPorts) => Marked(b)
<1>1. b[n] = x /\ \A m \in Nets : m # n => b[m] = a[m] OBVIOUS
<1>2. Attached(b) = Attached(a) \cup {n} BY <1>1 DEF Attached
<1>3. PortsOf(b) = PortsOf(a) \cup {x.port}
  <2>1. n \notin Attached(a) BY DEF Attached
  <2>2. \A m \in Attached(a) : b[m] = a[m] BY <1>1, <2>1 DEF Attached
  <2>3. \A p : p \in PortsOf(b) => p \in PortsOf(a) \cup {x.port} BY <1>1, <1>2, <2>2 DEF PortsOf
  <2>4. \A p : p \in PortsOf(a) => p \in PortsOf(b) BY <1>2, <2>2 DEF PortsOf
  <2>5. x.port \in PortsOf(b) BY <1>1, <1>2 DEF PortsOf
  <2> QED BY <2>3, <2>4, <2>5
<1>4. Marked(a) /\ (x.keep => x.port \in UserPorts) => Marked(b) BY <1>1 DEF Marked
<1> QED BY <1>2, <1>3, <1>4

LEMMA NoneAttached ==
    NoAddresses \in Addresses /\ Attached(NoAddresses) = {} /\ PortsOf(NoAddresses) = {}
    /\ Marked(NoAddresses) /\ \A n \in Nets : NoAddresses[n].port = NoPort
BY DEF NoAddresses, NoAddress, Addresses, Attached, PortsOf, Marked

LEMMA FirstPortAgrees ==
    ASSUME IInv, IInv', KeptInv, AInv, NEW c \in Containers, process_networking_config(c) PROVE AInv'
<1>1. /\ job[c].pc = "first" /\ job[c].pc # "idle"
      /\ UNCHANGED <<dnet, netrow, group, docker, row, queue, spoilt>>
  BY DEF process_networking_config
<1>2. PICK k \in Job : k = job[c] BY ContainerThread DEF IInv, Typed
<1>3. ASSUME NEW r, NEW j, r = row[c], j = job[c], Working(c, r, j)
      PROVE  j.op \in {"create", "rebuild"}
  BY <1>1, <1>3, Plugging
<1>4. CASE job[c].nets = <<>> /\ Raise(c) /\ UNCHANGED <<port, used>>
  <2>1. Devices' /\ \A d \in Containers : Shrinks(d) BY <1>4, SamePorts DEF AInv
  <2> QED BY <1>1, <1>3, <1>4, <2>1, RaiseAgrees
<1>5. CASE PortFails(c, Last(job[c].nets)) BY <1>1, <1>3, <1>5, PortFailsAgrees
<1>6. CASE /\ k.nets # <<>> /\ GroupsFound(c) /\ UNCHANGED used
           /\ \E p \in Ports :
                /\ PortFor(c, Last(k.nets), p)
                /\ Set(c, [k EXCEPT !.pc = "create", !.dirty = TRUE,
                     !.addr = [NoAddresses EXCEPT
                        ![Last(k.nets).net] = [port |-> p, keep |-> Last(k.nets).keep]]])
  <2>1. k.nets \in Seq(Requested) BY DEF Job, Shape
  <2>2. PICK q \in Requested : /\ q = Last(k.nets) /\ q = k.nets[Len(k.nets)]
                               /\ Len(k.nets) \in 1..Len(k.nets)
    BY <1>6, <2>1, LastIn
  <2>3. PICK p \in Ports :
          /\ PortFor(c, q, p)
          /\ Set(c, [k EXCEPT !.pc = "create", !.dirty = TRUE,
                       !.addr = [NoAddresses EXCEPT ![q.net] = [port |-> p, keep |-> q.keep]]])
    BY <1>6, <2>2
  <2>4. PICK x \in Address : x = [port |-> p, keep |-> q.keep] /\ x.port = p /\ x.keep = q.keep
    <3>1. q.keep \in BOOLEAN BY DEF Requested
    <3>2. [port |-> p, keep |-> q.keep] \in Address BY <3>1 DEF Address
    <3> QED BY <3>2
  <2>5. PICK a : a = [NoAddresses EXCEPT ![q.net] = x] OBVIOUS
  <2>6. PICK e : e = [k EXCEPT !.pc = "create", !.dirty = TRUE, !.addr = a] OBVIOUS
  <2>7. job' = [job EXCEPT ![c] = e] BY <2>3, <2>4, <2>5, <2>6 DEF Set
  <2>8. e.pc = "create" /\ e.op = k.op /\ e.nets = k.nets /\ e.groups = k.groups /\ e.addr = a
    BY <2>6 DEF Job, Shape
  <2>9. Fits(c, q)
    <3>1. JobFits(c, k) /\ k.op # "detach" BY <1>1, <1>2, NoDetach DEF KeptInv, Kept
    <3> QED BY <2>2, <3>1 DEF JobFits, NetsFit
  <2>10. /\ Devices' /\ p # NoPort /\ (q.port # NoPort => p = q.port)
         /\ \A d \in Containers : d # c => Shrinks(d)
         /\ Theirs(c)' \subseteq Theirs(c) \cup {p}
    BY <2>3, <2>9, PortForAgrees DEF AInv
  <2>11. \A o \in Theirs(c)' \ UserPorts :
                 \/ o \in Theirs(c) /\ port'[o].groups = port[o].groups
                 \/ q.port = NoPort /\ port'[o].groups = PortGroups(c)
    BY <2>3, <2>9, PortForAgrees DEF AInv
  <2>12. q.net \in Nets BY DEF Requested
  <2>13. /\ Attached(a) = {q.net} /\ PortsOf(a) = {p}
         /\ (q.keep => p \in UserPorts) => Marked(a)
    <3>1. PICK z \in Addresses : z = NoAddresses BY NoneAttached
    <3>2. /\ Attached(z) = {} /\ PortsOf(z) = {} /\ Marked(z)
          /\ z[q.net].port = NoPort /\ a = [z EXCEPT ![q.net] = x]
      BY <2>5, <2>12, <3>1, NoneAttached
    <3>0. PICK n \in Nets : /\ n = q.net /\ z[n].port = NoPort /\ x.port # NoPort
                            /\ a[n] = x
                            /\ \A m \in Nets : m # n => a[m] = z[m]
      BY <2>4, <2>10, <2>12, <3>2 DEF Addresses
    <3>3. /\ Attached(a) = Attached(z) \cup {n} /\ PortsOf(a) = PortsOf(z) \cup {x.port}
          /\ Marked(z) /\ (x.keep => x.port \in UserPorts) => Marked(a)
      BY <3>0, PutAddress
    <3> QED BY <2>4, <3>0, <3>2, <3>3
  <2>14. ASSUME NEW r, NEW j, r = row[c], j = job[c], Working(c, r, j),
                j.op = "rebuild" => Restoring(r.addr, j)
         PROVE  At(c, r, e)'
    <3>1. j = k BY <1>2, <2>14
    <3>2. PICK gs : gs = j.groups OBVIOUS
    <3>3. CASE j.op = "create"
      <4>1. Creating(c, r, j) BY <2>14, <3>3 DEF Working
      <4>2. Theirs(c) = {} /\ OwnGroups(c, gs) /\ Asking(j.nets)
        BY <1>1, <2>14, <3>2, <4>1 DEF Creating
      <4>3. OwnGroups(c, gs)' BY <1>1, <1>6, <4>2, OwnSame
      <4>4. Tagged(c, gs) BY <4>2 DEF Tagged
      <4>5. PortGroups(c) = ToSet(gs) BY <2>14, <3>2 DEF PortGroups
      <4>6. Tagged(c, gs)' BY <2>11, <4>4, <4>5, TaggedPort
      <4>7. q.keep => q.port \in UserPorts BY <2>2, <3>1, <4>2 DEF Asking
      <4>8. q.keep => p \in UserPorts BY <2>10, <4>7, PortNumbers
      <4>9. Marked(a) BY <2>13, <4>8
      <4>10. Sound(c, e.addr, e.groups)' BY <2>8, <3>1, <3>2, <4>3, <4>6, <4>9 DEF Sound, Marked
      <4>11. Accounts(c, e.addr)'
        BY <2>8, <2>10, <2>13, <4>2 DEF Accounts, PortsOf, Attached
      <4>12. Attached(e.addr)' \subseteq {Last(e.nets).net}
        BY <2>2, <2>8, <2>13 DEF Attached
      <4>13. Asking(e.nets)' /\ e.nets # <<>> /\ r.st = "creating"
        BY <1>6, <2>8, <3>1, <4>1 DEF Creating, Asking
      <4>14. Creating(c, r, e)'
        BY <2>8, <4>10, <4>11, <4>12, <4>13 DEF Creating, Early
      <4> QED BY <2>8, <3>1, <3>3, <4>14 DEF At, Working, Ops
    <3>4. CASE j.op = "rebuild"
      <4>1. Rebuilding(c, r, j) /\ r.st \in {"created", "error"} BY <2>14, <3>4 DEF Working
      <4>2. c \notin Exposed /\ j.groups = r.groups /\ OwnGroups(c, r.groups)
        BY <1>1, <1>6, <2>14, <4>1, DoomedFails DEF Rebuilding
      <4>3. Accounts(c, r.addr) /\ Marked(r.addr) /\ Tagged(c, r.groups)
        BY <1>1, <2>14, <4>1 DEF Rebuilding
      <4>4. AsInRow(r.addr, j.nets) BY <1>1, <2>14, <3>4 DEF Restoring, Before
      <4>5. q.net \in Attached(r.addr) /\ q.port = r.addr[q.net].port
        BY <2>2, <3>1, <4>4 DEF AsInRow
      <4>6. q.port # NoPort /\ p \in PortsOf(r.addr) BY <2>10, <4>5 DEF Attached, PortsOf
      <4>7. Tagged(c, r.groups)' BY <2>11, <4>3, <4>6, TaggedPort
      <4>8. Accounts(c, r.addr)' BY <2>10, <4>3, <4>6 DEF Accounts, PortsOf, Attached
      <4>9. OwnGroups(c, r.groups)' BY <1>1, <1>6, <4>2, OwnSame
      <4>10. Attached(e.addr)' \subseteq {Last(e.nets).net} BY <2>2, <2>8, <2>13 DEF Attached
      <4>11. Marked(r.addr)' BY <4>3 DEF Marked
      <4>12. Rebuilding(c, r, e)'
        BY <2>8, <3>1, <4>2, <4>7, <4>8, <4>9, <4>10, <4>11 DEF Rebuilding, Early
      <4> QED BY <2>8, <3>1, <3>4, <4>1, <4>12 DEF At, Working, Ops
    <3> QED BY <1>3, <2>14, <3>3, <3>4
  <2>15. Recorded' BY <1>1 DEF AInv, Recorded
  <2>16. \A d \in Containers : used.ids[d] <= used'.ids[d] BY <1>6, IdsSame
  <2> QED BY <1>1, <2>7, <2>10, <2>14, <2>15, <2>16, OwnGoes
<1> QED BY <1>2, <1>4, <1>5, <1>6 DEF process_networking_config

LEMMA CreateAgrees ==
    ASSUME IInv, IInv', KeptInv, AInv, NEW c \in Containers, CreateContainer(c) PROVE AInv'
<1>1. /\ job[c].pc = "create" /\ job[c].pc # "idle"
      /\ UNCHANGED <<dnet, netrow, port, group, row, queue, spoilt>>
  BY DEF CreateContainer
<1>2. PICK k \in Job : k = job[c] BY ContainerThread DEF IInv, Typed
<1>3. Devices' /\ (\A d \in Containers : Shrinks(d)) /\ Theirs(c)' = Theirs(c)
  BY <1>1, SamePorts DEF AInv
<1>4. ASSUME NEW r, NEW j, r = row[c], j = job[c], Working(c, r, j)
      PROVE  j.op \in {"create", "rebuild"}
  BY <1>1, <1>4, Plugging
<1>5. CASE Raise(c) /\ UNCHANGED docker /\ (UNCHANGED used \/ \E f : Fault(f))
  BY <1>1, <1>3, <1>4, <1>5, RaiseAgrees
<1>6. CASE /\ UNCHANGED used
           /\ docker' = [docker EXCEPT ![c] = [exists |-> TRUE, joined |-> {Last(k.nets).net}]]
           /\ Set(c, [k EXCEPT !.pc = "connect", !.i = 1, !.cid = TRUE, !.nets = Front(@)])
  <2>1. PICK s : s = Front(k.nets) OBVIOUS
  <2>2. PICK e : e = [k EXCEPT !.pc = "connect", !.i = 1, !.cid = TRUE, !.nets = s] OBVIOUS
  <2>3. job' = [job EXCEPT ![c] = e] BY <1>6, <2>1, <2>2 DEF Set
  <2>4. /\ e.pc = "connect" /\ e.op = k.op /\ e.nets = s /\ e.groups = k.groups
        /\ e.addr = k.addr /\ e.cid
    BY <2>2 DEF Job, Shape
  <2>5. PICK x : x = Last(k.nets).net OBVIOUS
  <2>6. /\ docker'[c] = [exists |-> TRUE, joined |-> {x}]
        /\ \A d \in Containers : d # c => docker'[d] = docker[d]
    BY <1>6, <2>5 DEF AInv, Recorded
  <2>7. Recorded' BY <1>1, <1>6, <2>5 DEF AInv, Recorded
  <2>8. ASSUME NEW r, NEW j, r = row[c], j = job[c], Working(c, r, j) PROVE At(c, r, e)'
    <3>1. j = k BY <1>2, <2>8
    <3>2. CASE j.op = "create"
      <4>1. Creating(c, r, j) BY <2>8, <3>2 DEF Working
      <4>2. /\ k.nets # <<>> /\ Attached(k.addr) \subseteq {x} /\ Accounts(c, k.addr)
            /\ Sound(c, k.addr, k.groups) /\ Asking(k.nets) /\ r.st = "creating"
        BY <1>1, <2>5, <2>8, <3>1, <4>1 DEF Creating
      <4>3. Asking(s)'
        <5>1. k.nets \in Seq(Requested) BY DEF Job, Shape
        <5>2. Len(s) = Len(k.nets) - 1 /\ \A i \in 1..(Len(k.nets) - 1) : s[i] = k.nets[i]
          BY <2>1, <4>2, <5>1, FrontOf
        <5>3. Len(k.nets) \in Nat BY <5>1
        <5> QED BY <4>2, <5>2, <5>3 DEF Asking
      <4>4. On(c, k.addr)' BY <2>6, <4>2 DEF On, Attached
      <4>5. Sound(c, k.addr, k.groups)'
        <5>1. OwnGroups(c, k.groups)' BY <1>1, <1>6, <4>2, OwnSame DEF Sound
        <5>2. Tagged(c, k.groups)' BY <1>3, <4>2, TaggedStays DEF Sound
        <5> QED BY <4>2, <5>1, <5>2 DEF Sound, Marked
      <4>6. Accounts(c, k.addr)' BY <1>3, <4>2 DEF Accounts, PortsOf, Attached
      <4>7. Plugged(c, e)' BY <2>4, <4>3, <4>4, <4>5, <4>6 DEF Plugged
      <4>8. Creating(c, r, e)' BY <2>4, <4>2, <4>3, <4>7 DEF Creating, Early
      <4> QED BY <2>4, <3>1, <3>2, <4>8 DEF At, Working, Ops
    <3>3. CASE j.op = "rebuild"
      <4>1. Rebuilding(c, r, j) /\ r.st \in {"created", "error"} BY <2>8, <3>3 DEF Working
      <4>2. /\ c \notin Exposed /\ j.groups = r.groups /\ OwnGroups(c, r.groups)
            /\ Accounts(c, r.addr) /\ Marked(r.addr) /\ Tagged(c, r.groups)
            /\ Attached(k.addr) \subseteq {x}
        BY <1>1, <2>5, <2>8, <3>1, <4>1 DEF Rebuilding
      <4>3. Tagged(c, r.groups)' BY <1>3, <4>2, TaggedStays
      <4>4. Accounts(c, r.addr)' BY <1>3, <4>2 DEF Accounts, PortsOf, Attached
      <4>5. OwnGroups(c, r.groups)' BY <1>1, <1>6, <4>2, OwnSame
      <4>6. On(c, k.addr)' BY <2>6, <4>2 DEF On, Attached
      <4>7. Marked(r.addr)' BY <4>2 DEF Marked
      <4>8. Rebuilding(c, r, e)'
        BY <2>4, <3>1, <4>2, <4>3, <4>4, <4>5, <4>6, <4>7 DEF Rebuilding, Early
      <4> QED BY <2>4, <3>1, <3>3, <4>1, <4>8 DEF At, Working, Ops
    <3> QED BY <1>4, <2>8, <3>2, <3>3
  <2>9. \A d \in Containers : used.ids[d] <= used'.ids[d] BY <1>6, IdsSame
  <2> QED BY <1>1, <1>3, <2>3, <2>6, <2>7, <2>8, <2>9, OwnGoes
<1> QED BY <1>2, <1>5, <1>6 DEF CreateContainer

LEMMA ConnectAgrees ==
    ASSUME IInv, IInv', KeptInv, AInv, NEW c \in Containers, connect_container_to_network(c)
    PROVE  AInv'
<1>1. /\ job[c].pc = "connect" /\ job[c].pc # "idle"
      /\ UNCHANGED <<dnet, netrow, group, docker, row, queue, spoilt>>
  BY DEF connect_container_to_network
<1>2. PICK k \in Job : k = job[c] BY ContainerThread DEF IInv, Typed
<1>3. PICK q : q = k.nets[k.i] OBVIOUS
<1>4. k.i \in Nat /\ k.i > 0 /\ k.nets \in Seq(Requested) BY DEF Job, Shape, Indexed
<1>5. \A d \in Containers : used.ids[d] \in Nat /\ used'.ids[d] \in Nat BY DEF IInv, Typed, Used
<1>6. Recorded' BY <1>1 DEF AInv, Recorded
<1>7. ASSUME NEW r, NEW j, r = row[c], j = job[c], Working(c, r, j)
      PROVE  /\ j = k /\ j.op \in {"create", "attach", "rebuild"}
             /\ j.op = "create" => Creating(c, r, j) /\ Plugged(c, j)
             /\ j.op = "attach" => /\ Attaching(c, r, j) /\ Plugged(c, j) /\ Len(j.nets) = 1
                                   /\ r.st \in {"created", "error"}
                                   /\ j.i = 1 => Copy(r, j)
             /\ j.op = "rebuild" => Rebuilding(c, r, j) /\ r.st \in {"created", "error"}
  BY <1>1, <1>2, <1>7, Plugging DEF Working, Creating, Attaching
<1>8. CASE /\ UNCHANGED <<port, used>>
           /\ \/ k.i > Len(k.nets) /\ Goto(c, "save")
              \/ Set(c, [k EXCEPT !.i = k.i + 1])
  <2>1. Devices' /\ (\A d \in Containers : Shrinks(d)) BY <1>8, SamePorts DEF AInv
  <2>2. \A d \in Containers : used.ids[d] <= used'.ids[d] BY <1>8, IdsSame
  <2>3. Quiet(c) BY <1>1, <1>5, <2>1, <2>2 DEF Quiet
  <2>4. PICK e : /\ job' = [job EXCEPT ![c] = e]
                 /\ e = [k EXCEPT !.pc = "save"] \/ e = [k EXCEPT !.i = k.i + 1]
    BY <1>2, <1>8 DEF Goto, Set
  <2>5. /\ e.pc = "save" \/ (e.pc = "connect" /\ e.i = k.i + 1)
        /\ e.op = k.op /\ e.nets = k.nets /\ e.groups = k.groups /\ e.addr = k.addr
        /\ e.cid = k.cid
    BY <1>1, <1>2, <2>4 DEF Job, Shape
  <2>6. ASSUME NEW r, NEW j, r = row[c], j = job[c], Working(c, r, j) PROVE At(c, r, e)'
    <3>1. Working(c, r, j)' /\ j = k BY <1>7, <2>3, <2>6, WorkingStays
    <3>2. Plugged(c, j) => Plugged(c, e)'
      <4>1. Plugged(c, j) => Plugged(c, j)' BY <2>3, PluggedStays
      <4>2. Plugged(c, j)' => Plugged(c, e)' BY <1>1, <2>5, <2>6, <3>1 DEF Plugged
      <4> QED BY <4>1, <4>2
    <3>3. CASE j.op = "create"
      <4>1. Creating(c, r, j)' /\ Plugged(c, e)' BY <1>7, <2>6, <3>1, <3>2, <3>3 DEF Working
      <4>2. Creating(c, r, e)' BY <2>5, <3>1, <4>1 DEF Creating, Early
      <4> QED BY <2>5, <3>1, <3>3, <4>2 DEF At, Working, Ops
    <3>4. CASE j.op = "attach"
      <4>1. Attaching(c, r, j)' /\ Plugged(c, e)' /\ r.st \in {"created", "error"}
        BY <1>7, <2>6, <3>1, <3>2, <3>4 DEF Working
      <4>2. Attaching(c, r, e)' BY <1>4, <2>5, <3>1, <4>1 DEF Attaching, Early
      <4> QED BY <2>5, <3>1, <3>4, <4>1, <4>2 DEF At, Working, Ops
    <3>5. CASE j.op = "rebuild"
      <4>1. Rebuilding(c, r, j)' /\ r.st \in {"created", "error"}
        BY <1>7, <2>6, <3>1, <3>5 DEF Working
      <4>2. Rebuilding(c, r, e)' BY <1>1, <1>2, <2>5, <3>1, <4>1 DEF Rebuilding, Early
      <4> QED BY <2>5, <3>1, <3>5, <4>1, <4>2 DEF At, Working, Ops
    <3> QED BY <1>7, <2>6, <3>3, <3>4, <3>5
  <2> QED BY <1>1, <1>6, <2>1, <2>2, <2>4, <2>6, OwnGoes
<1>9. CASE PortFails(c, q) /\ ~(k.i > Len(k.nets))
  <2>1. ASSUME NEW r, NEW j, r = row[c], j = job[c], Working(c, r, j)
        PROVE  j.op # "delete" /\ (j.op \notin {"create", "rebuild"} => Standing(c, r))
    <3>1. j = k /\ j.op \in {"create", "attach", "rebuild"} BY <1>7, <2>1
    <3>2. ASSUME j.op = "attach" PROVE Standing(c, r)
      <4>1. Plugged(c, j) /\ Len(j.nets) = 1 /\ (j.i = 1 => Copy(r, j)) BY <1>7, <2>1, <3>2
      <4>2. Copy(r, j) BY <1>4, <1>9, <3>1, <4>1
      <4>3. Accounts(c, j.addr) BY <1>1, <2>1, <4>1 DEF Plugged
      <4> QED BY <4>1, <4>2, <4>3, PluggedStanding
    <3> QED BY <3>1, <3>2
  <2> QED BY <1>1, <1>9, <2>1, PortFailsAgrees
<1>10. CASE /\ ~(k.i > Len(k.nets)) /\ q.net \notin Attached(k.addr)
            /\ GroupsFound(c) /\ UNCHANGED used
            /\ \E p \in Ports : /\ PortFor(c, q, p)
                                /\ Set(c, [k EXCEPT !.pc = "join",
                                             !.new = [port |-> p, keep |-> q.keep]])
  <2>1. k.i \in 1..Len(k.nets) BY <1>4, <1>10
  <2>2. q \in Requested BY <1>3, <1>4, <2>1
  <2>3. PICK p \in Ports : /\ PortFor(c, q, p)
                           /\ Set(c, [k EXCEPT !.pc = "join",
                                        !.new = [port |-> p, keep |-> q.keep]])
    BY <1>10
  <2>4. PICK x : x = [port |-> p, keep |-> q.keep] OBVIOUS
  <2>5. PICK e : e = [k EXCEPT !.pc = "join", !.new = x] OBVIOUS
  <2>6. job' = [job EXCEPT ![c] = e] BY <2>3, <2>4, <2>5 DEF Set
  <2>7. /\ e.pc = "join" /\ e.op = k.op /\ e.nets = k.nets /\ e.groups = k.groups /\ e.addr = k.addr
        /\ e.cid = k.cid /\ e.i = k.i /\ e.new = x
    BY <2>5 DEF Job, Shape
  <2>8. Fits(c, q)
    <3>1. JobFits(c, k) /\ k.op # "detach" BY <1>1, <1>2, NoDetach DEF KeptInv, Kept
    <3> QED BY <1>3, <2>1, <3>1 DEF JobFits, NetsFit
  <2>9. /\ Devices' /\ p # NoPort /\ (q.port # NoPort => p = q.port)
        /\ \A d \in Containers : d # c => Shrinks(d)
        /\ Theirs(c)' \subseteq Theirs(c) \cup {p}
    BY <2>2, <2>3, <2>8, PortForAgrees DEF AInv
  <2>10. \A o \in Theirs(c)' \ UserPorts :
                 \/ o \in Theirs(c) /\ port'[o].groups = port[o].groups
                 \/ q.port = NoPort /\ port'[o].groups = PortGroups(c)
    BY <2>2, <2>3, <2>8, PortForAgrees DEF AInv
  <2>11. ASSUME NEW gs, OwnGroups(c, gs) PROVE OwnGroups(c, gs)'
    BY <1>1, <1>10, <2>11, OwnSame
  <2>12. ASSUME NEW gs, Tagged(c, gs), q.port = NoPort => gs = k.groups PROVE Tagged(c, gs)'
    <3>1. q.port = NoPort => PortGroups(c) = ToSet(gs) BY <1>2, <2>12 DEF PortGroups
    <3> QED BY <2>10, <2>12, <3>1, TaggedPort
  <2>13. ASSUME NEW addr, On(c, addr) PROVE On(c, addr)' BY <1>1, <2>13 DEF On, Attached
  <2>14. ASSUME Plugged(c, k) PROVE Plugged(c, e)'
    <3>1. /\ k.cid /\ On(c, k.addr) /\ Sound(c, k.addr, k.groups) /\ Asking(k.nets)
          /\ Accounts(c, k.addr)
      BY <1>1, <1>2, <2>14 DEF Plugged
    <3>2. On(c, k.addr)' BY <2>13, <3>1
    <3>3. Sound(c, k.addr, k.groups)' BY <2>11, <2>12, <3>1 DEF Sound, Marked
    <3>4. Theirs(c)' \subseteq PortsOf(k.addr) \cup {x.port} BY <2>4, <2>9, <3>1 DEF Accounts
    <3>5. q.keep => q.port \in UserPorts BY <1>3, <2>1, <3>1 DEF Asking
    <3>6. x.keep => x.port \in UserPorts BY <2>4, <2>9, <3>5, PortNumbers
    <3>7. k.i <= Len(k.nets) /\ k.nets[k.i].net \notin Attached(k.addr)
      BY <1>3, <1>10, <2>1
    <3>8. Asking(k.nets)' BY <3>1 DEF Asking
    <3> QED BY <2>7, <3>1, <3>2, <3>3, <3>4, <3>6, <3>7, <3>8 DEF Plugged, Attached, PortsOf
  <2>15. ASSUME NEW r, NEW j, r = row[c], j = job[c], Working(c, r, j),
                j.op = "rebuild" => Restoring(r.addr, j)
         PROVE  At(c, r, e)'
    <3>1. j = k /\ j.op \in {"create", "attach", "rebuild"} BY <1>7, <2>15
    <3>2. CASE j.op = "create"
      <4>1. Creating(c, r, j) /\ Plugged(c, e)' BY <1>7, <2>14, <2>15, <3>1, <3>2
      <4>2. Creating(c, r, e)' BY <2>7, <3>1, <4>1 DEF Creating, Early, Asking
      <4> QED BY <2>7, <3>1, <3>2, <4>2 DEF At, Working, Ops
    <3>3. CASE j.op = "attach"
      <4>1. /\ Attaching(c, r, j) /\ Plugged(c, e)' /\ r.st \in {"created", "error"}
            /\ Len(j.nets) = 1 /\ (j.i = 1 => Copy(r, j))
        BY <1>7, <2>14, <2>15, <3>1, <3>3
      <4>2. Copy(r, j) BY <2>1, <3>1, <4>1
      <4>3. Attaching(c, r, e)' BY <2>7, <3>1, <4>1, <4>2 DEF Attaching, Early, Asking, Copy
      <4> QED BY <2>7, <3>1, <3>3, <4>1, <4>3 DEF At, Working, Ops
    <3>4. CASE j.op = "rebuild"
      <4>1. Rebuilding(c, r, j) /\ r.st \in {"created", "error"} BY <1>7, <2>15, <3>4
      <4>2. /\ c \notin Exposed /\ j.groups = r.groups /\ OwnGroups(c, r.groups)
            /\ Accounts(c, r.addr) /\ Marked(r.addr) /\ Tagged(c, r.groups)
            /\ j.cid /\ On(c, j.addr)
        BY <1>1, <2>15, <4>1 DEF Rebuilding
      <4>3. AsInRow(r.addr, j.nets) BY <1>1, <2>15, <3>4 DEF Restoring
      <4>4. q.net \in Attached(r.addr) /\ q.port = r.addr[q.net].port
        BY <1>3, <2>1, <3>1, <4>3 DEF AsInRow
      <4>5. q.port # NoPort /\ p \in PortsOf(r.addr) BY <2>9, <4>4 DEF Attached, PortsOf
      <4>6. Tagged(c, r.groups)' BY <2>12, <4>2, <4>5
      <4>7. Accounts(c, r.addr)' BY <2>9, <4>2, <4>5 DEF Accounts, PortsOf, Attached
      <4>8. OwnGroups(c, r.groups)' /\ On(c, j.addr)' /\ Marked(r.addr)'
        BY <2>11, <2>13, <4>2 DEF Marked
      <4>9. Rebuilding(c, r, e)'
        BY <2>7, <3>1, <4>2, <4>6, <4>7, <4>8 DEF Rebuilding, Early
      <4> QED BY <2>7, <3>1, <3>4, <4>1, <4>9 DEF At, Working, Ops
    <3> QED BY <3>1, <3>2, <3>3, <3>4
  <2>16. \A d \in Containers : used.ids[d] <= used'.ids[d] BY <1>10, IdsSame
  <2> QED BY <1>1, <1>6, <2>6, <2>9, <2>15, <2>16, OwnGoes
<1> QED BY <1>2, <1>3, <1>8, <1>9, <1>10 DEF connect_container_to_network

LEMMA JoinedRecorded ==
    ASSUME Recorded, UNCHANGED group, NEW c \in Containers, NEW s,
           docker' = [docker EXCEPT ![c].joined = s]
    PROVE  /\ Recorded' /\ docker'[c].exists = docker[c].exists /\ docker'[c].joined = s
           /\ \A d \in Containers : d # c => docker'[d] = docker[d]
<1>1. docker = [d \in Containers |-> [exists |-> docker[d].exists, joined |-> docker[d].joined]]
  BY DEF Recorded
<1>2. PICK x : x = [exists |-> docker[c].exists, joined |-> s] OBVIOUS
<1>3. [docker[c] EXCEPT !.joined = s] = x
  <2>1. docker[c] = [exists |-> docker[c].exists, joined |-> docker[c].joined] BY <1>1
  <2> QED BY <1>2, <2>1
<1>4. docker' = [docker EXCEPT ![c] = x] BY <1>3
<1>5. docker'[c] = x /\ \A d \in Containers : d # c => docker'[d] = docker[d] BY <1>1, <1>4
<1>6. \A d \in Containers : docker'[d] = [exists |-> docker'[d].exists, joined |-> docker'[d].joined]
  BY <1>1, <1>2, <1>5
<1>7. docker' = [d \in Containers |-> docker'[d]] BY <1>1, <1>4
<1>8. Recorded' BY <1>6, <1>7 DEF Recorded
<1> QED BY <1>2, <1>5, <1>8

LEMMA JoinAgrees == ASSUME IInv, IInv', KeptInv, AInv, NEW c \in Containers, Join(c) PROVE AInv'
<1>1. /\ job[c].pc = "join" /\ job[c].pc # "idle"
      /\ UNCHANGED <<dnet, netrow, group, row, queue, spoilt>>
  BY DEF Join
<1>2. PICK k \in Job : k = job[c] BY ContainerThread DEF IInv, Typed
<1>3. PICK n : n = k.nets[k.i].net OBVIOUS
<1>4. k.i \in Nat /\ k.i > 0 /\ k.nets \in Seq(Requested) /\ k.addr \in Addresses /\ k.new \in Address
  BY DEF Job, Shape, Indexed
<1>5. k.new.port # NoPort BY <1>1, <1>2 DEF KeptInv, Kept, JobFits
<1>6. \A d \in Containers : used.ids[d] \in Nat /\ used'.ids[d] \in Nat BY DEF IInv, Typed, Used
<1>7. ASSUME NEW r, NEW j, r = row[c], j = job[c], Working(c, r, j)
      PROVE  /\ j = k /\ j.op \in {"create", "attach", "rebuild"}
             /\ j.op = "create" => Creating(c, r, j) /\ Plugged(c, j)
             /\ j.op = "attach" => /\ Attaching(c, r, j) /\ Plugged(c, j) /\ Copy(r, j)
                                   /\ r.st \in {"created", "error"}
             /\ j.op = "rebuild" => Rebuilding(c, r, j) /\ r.st \in {"created", "error"}
  BY <1>1, <1>2, <1>7, Plugging DEF Working, Creating, Attaching
<1>8. CASE /\ docker[c].exists /\ UNCHANGED <<port, used>>
           /\ docker' = [docker EXCEPT ![c].joined = @ \cup {n}]
           /\ Set(c, [k EXCEPT !.pc = "connect", !.i = @ + 1, !.addr[n] = k.new])
  <2>1. Devices' /\ (\A d \in Containers : Shrinks(d)) /\ Theirs(c)' = Theirs(c)
    BY <1>8, SamePorts DEF AInv
  <2>2. \A d \in Containers : used.ids[d] <= used'.ids[d] BY <1>8, IdsSame
  <2>3. PICK a : a = [k.addr EXCEPT ![n] = k.new] OBVIOUS
  <2>4. PICK e : e = [k EXCEPT !.pc = "connect", !.i = k.i + 1, !.addr = a] OBVIOUS
  <2>5. job' = [job EXCEPT ![c] = e] BY <1>8, <2>3, <2>4 DEF Set
  <2>6. /\ e.pc = "connect" /\ e.op = k.op /\ e.nets = k.nets /\ e.groups = k.groups /\ e.addr = a
        /\ e.cid = k.cid /\ e.i = k.i + 1
    BY <2>4 DEF Job, Shape
  <2>7. PICK js : js = docker[c].joined \cup {n} OBVIOUS
  <2>8. docker' = [docker EXCEPT ![c].joined = js] BY <1>8, <2>7
  <2>9. /\ Recorded' /\ docker'[c].exists /\ docker'[c].joined = docker[c].joined \cup {n}
        /\ \A d \in Containers : d # c => docker'[d] = docker[d]
    BY <1>1, <1>8, <2>7, <2>8, JoinedRecorded DEF AInv
  <2>10. Attached(a) \subseteq Attached(k.addr) \cup {n} BY <1>4, <2>3 DEF Attached, Addresses
  <2>11. ASSUME On(c, k.addr) PROVE On(c, a)'
    <3>1. Attached(a) \subseteq docker'[c].joined BY <2>9, <2>10, <2>11 DEF On
    <3> QED BY <2>9, <3>1 DEF On, Attached
  <2>12. ASSUME NEW gs, OwnGroups(c, gs) PROVE OwnGroups(c, gs)' BY <1>1, <1>8, <2>12, OwnSame
  <2>13. ASSUME NEW gs, Tagged(c, gs) PROVE Tagged(c, gs)' BY <2>1, <2>13, TaggedStays
  <2>14. ASSUME Plugged(c, k) PROVE Plugged(c, e)'
    <3>1. /\ k.cid /\ On(c, k.addr) /\ Sound(c, k.addr, k.groups) /\ Asking(k.nets)
          /\ Theirs(c) \subseteq PortsOf(k.addr) \cup {k.new.port}
          /\ k.new.keep => k.new.port \in UserPorts
          /\ k.i <= Len(k.nets)
          /\ n \notin Attached(k.addr)
      BY <1>1, <1>2, <1>3, <2>14 DEF Plugged
    <3>2. n \in Nets
      <4>1. k.i \in 1..Len(k.nets) BY <1>4, <3>1
      <4>2. k.nets[k.i] \in Requested BY <1>4, <4>1
      <4> QED BY <1>3, <4>2 DEF Requested
    <3>3. k.addr[n].port = NoPort BY <3>1, <3>2 DEF Attached
    <3>4. a[n] = k.new /\ \A m \in Nets : m # n => a[m] = k.addr[m]
      BY <1>4, <2>3, <3>2 DEF Addresses
    <3>5. /\ PortsOf(a) = PortsOf(k.addr) \cup {k.new.port}
          /\ Marked(k.addr) /\ (k.new.keep => k.new.port \in UserPorts) => Marked(a)
      BY <1>4, <1>5, <3>2, <3>3, <3>4, PutAddress
    <3>6. Marked(a) BY <3>1, <3>5 DEF Sound
    <3>7. OwnGroups(c, k.groups)' /\ Tagged(c, k.groups)' BY <2>12, <2>13, <3>1 DEF Sound
    <3>8. Sound(c, a, k.groups)' BY <3>6, <3>7 DEF Sound, Marked
    <3>9. Accounts(c, a)' BY <2>1, <3>1, <3>5 DEF Accounts, PortsOf, Attached
    <3>10. On(c, a)' /\ Asking(k.nets)' BY <2>11, <3>1 DEF Asking
    <3> QED BY <2>6, <3>1, <3>8, <3>9, <3>10 DEF Plugged
  <2>15. ASSUME NEW r, NEW j, r = row[c], j = job[c], Working(c, r, j) PROVE At(c, r, e)'
    <3>1. j = k /\ j.op \in {"create", "attach", "rebuild"} BY <1>7, <2>15
    <3>2. CASE j.op = "create"
      <4>1. Creating(c, r, j) /\ Plugged(c, e)' BY <1>7, <2>14, <2>15, <3>1, <3>2
      <4>2. Creating(c, r, e)' BY <2>6, <3>1, <4>1 DEF Creating, Early, Asking
      <4> QED BY <2>6, <3>1, <3>2, <4>2 DEF At, Working, Ops
    <3>3. CASE j.op = "attach"
      <4>1. Attaching(c, r, j) /\ Plugged(c, e)' /\ r.st \in {"created", "error"}
        BY <1>7, <2>14, <2>15, <3>1, <3>3
      <4>2. e.i # 1 BY <1>4, <2>6
      <4>3. Attaching(c, r, e)' BY <2>6, <3>1, <4>1, <4>2 DEF Attaching, Early, Asking
      <4> QED BY <2>6, <3>1, <3>3, <4>1, <4>3 DEF At, Working, Ops
    <3>4. CASE j.op = "rebuild"
      <4>1. Rebuilding(c, r, j) /\ r.st \in {"created", "error"} BY <1>7, <2>15, <3>4
      <4>2. /\ c \notin Exposed /\ j.groups = r.groups /\ OwnGroups(c, r.groups)
            /\ Accounts(c, r.addr) /\ Marked(r.addr) /\ Tagged(c, r.groups)
            /\ j.cid /\ On(c, j.addr)
        BY <1>1, <2>15, <4>1 DEF Rebuilding
      <4>3. OwnGroups(c, r.groups)' /\ Tagged(c, r.groups)' /\ On(c, a)' /\ Marked(r.addr)'
        BY <2>11, <2>12, <2>13, <3>1, <4>2 DEF Marked
      <4>4. Accounts(c, r.addr)' BY <2>1, <4>2 DEF Accounts, PortsOf, Attached
      <4>5. Rebuilding(c, r, e)' BY <2>6, <3>1, <4>2, <4>3, <4>4 DEF Rebuilding, Early
      <4> QED BY <2>6, <3>1, <3>4, <4>1, <4>5 DEF At, Working, Ops
    <3> QED BY <3>1, <3>2, <3>3, <3>4
  <2> QED BY <1>1, <2>1, <2>2, <2>5, <2>9, <2>15, OwnGoes
<1>9. CASE /\ do_port_cleanup(k.new) /\ Raise(c) /\ UNCHANGED docker
           /\ UNCHANGED used \/ \E f : Fault(f)
  <2>1. PICK x \in Address : x = k.new /\ port' = Unplugged(x)
    BY <1>4, <1>9 DEF do_port_cleanup
  <2>2. /\ Devices' /\ \A d \in Containers : Shrinks(d)
        /\ (x.keep => x.port \in UserPorts) => \A d \in Containers : x.port \notin Theirs(d)'
    BY <2>1, UnpluggedAgrees DEF AInv
  <2>3. \A d \in Containers : used.ids[d] <= used'.ids[d] BY <1>9, IdsSame
  <2>4. Quiet(c) BY <1>1, <1>6, <1>9, <2>2, <2>3 DEF Quiet
  <2>5. ASSUME NEW r, NEW j, r = row[c], j = job[c], Working(c, r, j)
        PROVE  j.op # "delete" /\ (j.op \notin {"create", "rebuild"} => Standing(c, r)')
    <3>1. j = k /\ j.op \in {"create", "attach", "rebuild"} BY <1>7, <2>5
    <3>2. ASSUME j.op = "attach" PROVE Standing(c, r)'
      <4>1. Plugged(c, j) /\ Copy(r, j) BY <1>7, <2>5, <3>2
      <4>2. /\ j.cid /\ On(c, j.addr) /\ Sound(c, j.addr, j.groups)
            /\ Theirs(c) \subseteq PortsOf(j.addr) \cup {x.port}
            /\ x.keep => x.port \in UserPorts
        BY <1>1, <2>1, <2>5, <3>1, <4>1 DEF Plugged
      <4>3. Theirs(c)' \subseteq PortsOf(j.addr) BY <2>2, <4>2 DEF Shrinks
      <4>4. On(c, j.addr)' /\ Sound(c, j.addr, j.groups)' BY <2>4, <4>2, OnStays, SoundStays
      <4> QED BY <4>1, <4>2, <4>3, <4>4 DEF Standing, Copy, Accounts, PortsOf, Attached
    <3> QED BY <3>1, <3>2
  <2> QED BY <1>1, <1>9, <2>2, <2>5, RaiseAgrees
<1> QED BY <1>2, <1>3, <1>8, <1>9 DEF Join

\* A row with a thread at it is one of a container that was made.
LEMMA NotNone ==
    ASSUME AInv, NEW c \in Containers, job[c].pc # "idle" PROVE row[c].st # "none"
BY DEF AInv, Agreeing, Fresh, Pending

LEMMA SaveAgrees ==
    ASSUME IInv, IInv', KeptInv, AInv, NEW c \in Containers, SaveAddresses(c) PROVE AInv'
<1>1. /\ job[c].pc = "save" /\ job[c].pc # "idle" /\ Done(c)
      /\ UNCHANGED <<dnet, netrow, port, group, docker, queue, spoilt, used>>
  BY DEF SaveAddresses
<1>2. PICK k \in Job : k = job[c] BY ContainerThread DEF IInv, Typed
<1>3. PICK o \in Row : o = row[c] BY DEF IInv, Typed
<1>4. row \in [Containers -> Row] /\ o.st # "none" BY <1>1, <1>3, NotNone DEF IInv, Typed
<1>5. PICK st : st = IF k.op \in Finishes THEN "created" ELSE o.st OBVIOUS
<1>6. PICK gs : gs = IF k.op = "create" THEN k.groups ELSE o.groups OBVIOUS
<1>7. PICK x : x = [o EXCEPT !.addr = k.addr, !.cid = k.cid, !.st = st, !.groups = gs] OBVIOUS
<1>8. row' = IF o.st = "gone" THEN row ELSE [row EXCEPT ![c] = x]
  BY <1>2, <1>3, <1>4, <1>5, <1>6, <1>7 DEF SaveAddresses
<1>9. x.addr = k.addr /\ x.cid = k.cid /\ x.st = st /\ x.groups = gs /\ x.host = o.host
  BY <1>7 DEF Row
<1>10. PICK r : r = row'[c] OBVIOUS
<1>11. r = IF o.st = "gone" THEN o ELSE x BY <1>3, <1>4, <1>8, <1>10
<1>12. \A d \in Containers : d # c => row'[d] = row[d] BY <1>4, <1>8
<1>13. Devices' /\ (\A d \in Containers : Shrinks(d)) /\ Theirs(c)' = Theirs(c)
  BY <1>1, SamePorts DEF AInv
<1>14. \A d \in Containers : used.ids[d] <= used'.ids[d] BY <1>1, IdsSame
<1>15. Quiet(c)
  <2>1. used.ids[c] \in Nat BY DEF IInv, Typed, Used
  <2> QED BY <1>1, <1>13, <1>14, <2>1 DEF Quiet
<1>16. Recorded' BY <1>1 DEF AInv, Recorded
<1>17. job' = [job EXCEPT ![c] = NoJob] BY <1>1 DEF Done, Set
<1>18. ASSUME c \notin spoilt, Working(c, row[c], job[c]) PROVE At(c, r, NoJob)'
  <2>1. Working(c, o, k) BY <1>2, <1>3, <1>18
  <2>2. k.op \in {"create", "attach", "detach", "rebuild"}
    BY <1>1, <1>2, <2>1 DEF Working, Regrouping, Deleting, Ops
  <2>3. Standing(c, x) /\ x.st \in {"created", "error"} /\ r = x
    <3>1. CASE k.op = "create"
      <4>1. Creating(c, o, k) BY <2>1, <3>1 DEF Working
      <4>2. Plugged(c, k) /\ o.st = "creating" BY <1>1, <1>2, <4>1 DEF Creating
      <4>3. gs = k.groups /\ st = "created" BY <1>5, <1>6, <3>1 DEF Finishes
      <4>4. Copy(x, k) /\ Accounts(c, k.addr) BY <1>1, <1>2, <1>9, <4>2, <4>3 DEF Copy, Plugged
      <4>5. Standing(c, x) BY <4>2, <4>4, PluggedStanding
      <4> QED BY <1>9, <1>11, <4>2, <4>3, <4>5
    <3>2. CASE k.op = "attach"
      <4>1. Attaching(c, o, k) /\ o.st \in {"created", "error"} BY <2>1, <3>2 DEF Working
      <4>2. Plugged(c, k) /\ k.groups = o.groups BY <1>1, <1>2, <4>1 DEF Attaching
      <4>3. gs = k.groups /\ st = o.st BY <1>5, <1>6, <3>2, <4>2 DEF Finishes
      <4>4. Copy(x, k) /\ Accounts(c, k.addr) BY <1>1, <1>2, <1>9, <4>2, <4>3 DEF Copy, Plugged
      <4>5. Standing(c, x) BY <4>2, <4>4, PluggedStanding
      <4> QED BY <1>9, <1>11, <4>1, <4>3, <4>5
    <3>3. CASE k.op = "detach"
      <4>1. Detaching(c, o, k) /\ o.st \in {"created", "error"} BY <2>1, <3>3 DEF Working
      <4>2. /\ k.cid /\ On(c, k.addr) /\ Sound(c, k.addr, k.groups) /\ Accounts(c, k.addr)
            /\ k.groups = o.groups
        BY <1>1, <1>2, <4>1 DEF Detaching
      <4>3. gs = k.groups /\ st = o.st BY <1>5, <1>6, <3>3, <4>2 DEF Finishes
      <4>4. Standing(c, x) BY <1>9, <4>2, <4>3 DEF Standing
      <4> QED BY <1>9, <1>11, <4>1, <4>3, <4>4
    <3>4. CASE k.op = "rebuild"
      <4>1. Rebuilding(c, o, k) /\ o.st \in {"created", "error"} BY <2>1, <3>4 DEF Working
      <4>2. /\ Accounts(c, o.addr) /\ Marked(o.addr) /\ Tagged(c, o.groups)
            /\ OwnGroups(c, o.groups) /\ k.cid /\ On(c, k.addr)
        BY <1>1, <1>2, <4>1 DEF Rebuilding
      <4>3. k.addr = o.addr
        <5>1. Restoring(o.addr, k) BY <1>2, <1>3, <1>18, <3>4 DEF KeptInv, Kept
        <5> QED BY <1>1, <1>2, <5>1 DEF Restoring
      <4>4. gs = o.groups /\ st = "created" BY <1>5, <1>6, <3>4 DEF Finishes
      <4>5. Standing(c, x) BY <1>9, <4>2, <4>3, <4>4 DEF Standing, Sound
      <4> QED BY <1>9, <1>11, <4>1, <4>4, <4>5
    <3> QED BY <2>2, <3>1, <3>2, <3>3, <3>4
  <2>4. Standing(c, r)' /\ r.st \in {"created", "error"} BY <1>15, <2>3, StandingStays
  <2>5. Resting(c, r)' BY <2>4 DEF Resting
  <2> QED BY <2>5, NoJobType DEF At
<1>19. r.st # "none" /\ (r.host => row[c].host)
  BY <1>3, <1>4, <1>5, <1>9, <1>11
<1> HIDE DEF NoJob
<1>20. PICK e : e = NoJob OBVIOUS
<1>21. ASSUME c \notin spoilt, Working(c, row[c], job[c]) PROVE At(c, r, e)'
  BY <1>18, <1>20, <1>21
<1> QED BY <1>1, <1>10, <1>12, <1>13, <1>14, <1>16, <1>17, <1>19, <1>20, <1>21, OwnStep

LEMMA FailAgrees ==
    ASSUME IInv, IInv', KeptInv, AInv, NEW c \in Containers, FailContainer(c) PROVE AInv'
<1>1. /\ job[c].pc = "fail" /\ job[c].pc # "idle" /\ Done(c)
      /\ UNCHANGED <<dnet, netrow, port, group, docker, queue, spoilt, used>>
  BY DEF FailContainer
<1>2. PICK k \in Job : k = job[c] BY ContainerThread DEF IInv, Typed
<1>3. PICK o \in Row : o = row[c] BY DEF IInv, Typed
<1>4. row \in [Containers -> Row] /\ o.st # "none" BY <1>1, <1>3, NotNone DEF IInv, Typed
<1>5. PICK a : a = IF k.dirty THEN k.addr ELSE o.addr OBVIOUS
<1>6. PICK i : i = IF k.dirty THEN k.cid ELSE o.cid OBVIOUS
<1>7. PICK gs : gs = IF k.op = "create" THEN k.groups ELSE o.groups OBVIOUS
<1>8. PICK h : h = (o.host /\ ~k.unset) OBVIOUS
<1>9. PICK x : x = [o EXCEPT !.st = "error", !.addr = a, !.cid = i, !.groups = gs, !.host = h]
  OBVIOUS
<1>10. row' = IF o.st = "gone" THEN row ELSE [row EXCEPT ![c] = x]
  BY <1>2, <1>3, <1>4, <1>5, <1>6, <1>7, <1>8, <1>9 DEF FailContainer
<1>11. x.addr = a /\ x.cid = i /\ x.st = "error" /\ x.groups = gs /\ x.host = h
  BY <1>9 DEF Row
<1>12. PICK r : r = row'[c] OBVIOUS
<1>13. r = IF o.st = "gone" THEN o ELSE x BY <1>3, <1>4, <1>10, <1>12
<1>14. \A d \in Containers : d # c => row'[d] = row[d] BY <1>4, <1>10
<1>15. Devices' /\ (\A d \in Containers : Shrinks(d)) BY <1>1, SamePorts DEF AInv
<1>16. \A d \in Containers : used.ids[d] <= used'.ids[d] BY <1>1, IdsSame
<1>17. Quiet(c)
  <2>1. used.ids[c] \in Nat BY DEF IInv, Typed, Used
  <2> QED BY <1>1, <1>15, <1>16, <2>1 DEF Quiet
<1>18. Recorded' BY <1>1 DEF AInv, Recorded
<1>19. PICK e : e = NoJob /\ e.pc = "idle" BY NoJobType
<1>20. job' = [job EXCEPT ![c] = e] BY <1>1, <1>19 DEF Done, Set
<1>21. ASSUME r.host, Working(c, row[c], job[c]) PROVE At(c, r, e)'
  <2>1. Working(c, o, k) BY <1>2, <1>3, <1>21
  <2>2. k.op \in {"create", "rebuild"}
    BY <1>1, <1>2, <2>1 DEF Working, Attaching, Detaching, Regrouping, Deleting, Ops, Early
  <2>3. o.st # "gone" BY <2>1, <2>2 DEF Working, Creating
  <2>4. r = x /\ ~k.unset BY <1>8, <1>11, <1>13, <1>21, <2>3
  <2>5. k.op = "rebuild" BY <1>1, <1>2, <2>1, <2>2, <2>4 DEF Working, Creating
  <2>6. Standing(c, o) /\ ~k.dirty BY <1>1, <1>2, <2>1, <2>4, <2>5 DEF Working, Rebuilding
  <2>7. x.addr = o.addr /\ x.cid = o.cid /\ x.groups = o.groups
    BY <1>5, <1>6, <1>7, <1>11, <2>5, <2>6
  <2>8. Standing(c, r) BY <2>4, <2>6, <2>7 DEF Standing
  <2>9. Standing(c, r)' BY <1>17, <2>8, StandingStays
  <2>10. Resting(c, r)' BY <1>11, <2>4, <2>9 DEF Resting
  <2> QED BY <1>19, <2>10 DEF At
<1>22. r.st # "none" /\ (r.host => row[c].host)
  BY <1>3, <1>4, <1>8, <1>11, <1>13
<1> QED BY <1>1, <1>12, <1>14, <1>15, <1>16, <1>18, <1>20, <1>21, <1>22, OwnStep

LEMMA PlugAgrees ==
    ASSUME IInv, IInv', KeptInv, AInv, NEW c \in Containers, PlugStep(c) PROVE AInv'
BY ExposeAgrees, FirstPortAgrees, CreateAgrees, ConnectAgrees, JoinAgrees, SaveAgrees, FailAgrees
DEF PlugStep

-----------------------------------------------------------------------------
(* The steps of a detach, a deletion, a change of the groups                *)

\* A step that changes nothing but the thread.
LEMMA OwnQuiet ==
    ASSUME IInv, IInv', KeptInv, AInv, NEW c \in Containers, NEW e,
           job[c].pc # "idle", job' = [job EXCEPT ![c] = e],
           UNCHANGED <<port, group, docker, row, queue, spoilt, used>>,
           \A r : \A j : r = row[c] /\ j = job[c] /\ Working(c, r, j) /\ Quiet(c) => At(c, r, e)'
    PROVE  AInv'
<1>1. Devices' /\ \A d \in Containers : Shrinks(d) BY SamePorts DEF AInv
<1>2. Recorded' BY DEF AInv, Recorded
<1>3. \A d \in Containers : used.ids[d] <= used'.ids[d] BY IdsSame
<1>4. used.ids[c] \in Nat BY DEF IInv, Typed, Used
<1>5. Quiet(c) BY <1>1, <1>3, <1>4 DEF Quiet
<1> QED BY <1>1, <1>2, <1>3, <1>5, OwnGoes

LEMMA RebuildAgrees ==
    ASSUME IInv, IInv', KeptInv, AInv, NEW c \in Containers, RebuildBegin(c) PROVE AInv'
<1>1. /\ job[c].pc = "rebuild" /\ job[c].pc # "idle"
      /\ UNCHANGED <<port, group, docker, row, queue, spoilt, used>>
  BY DEF RebuildBegin
<1>2. PICK k \in Job : k = job[c] BY ContainerThread DEF IInv, Typed
<1>3. ASSUME NEW r, NEW j, r = row[c], j = job[c], Working(c, r, j), Quiet(c)
      PROVE  /\ j = k /\ j.op = "rebuild" /\ r.st \in {"created", "error"}
             /\ Standing(c, r) /\ Copy(r, j) /\ ~j.dirty /\ j.left \subseteq Attached(r.addr)
             /\ Standing(c, r)'
  <2>1. j.op = "rebuild"
    BY <1>1, <1>3 DEF Working, Creating, Attaching, Detaching, Regrouping, Deleting, Ops, Early
  <2>2. Rebuilding(c, r, j) BY <1>3, <2>1 DEF Working
  <2>3. Standing(c, r) /\ Copy(r, j) /\ ~j.dirty /\ j.left \subseteq Attached(r.addr)
    BY <1>1, <1>3, <2>2 DEF Rebuilding
  <2> QED BY <1>2, <1>3, <2>1, <2>3, StandingStays DEF Working
<1>4. CASE Set(c, Raised(c, FALSE))
  <2>1. PICK e : e = Raised(c, FALSE) /\ job' = [job EXCEPT ![c] = e] BY <1>4 DEF Set
  <2>2. ASSUME NEW r, NEW j, r = row[c], j = job[c], Working(c, r, j), Quiet(c) PROVE At(c, r, e)'
    <3>1. /\ j = k /\ j.op = "rebuild" /\ r.st \in {"created", "error"} /\ Standing(c, r)'
          /\ ~j.dirty
      BY <1>3, <2>2
    <3>2. e = [k EXCEPT !.pc = "fail", !.unset = FALSE] BY <1>2, <2>1, <3>1 DEF Raised, Finishes
    <3>3. e.pc = "fail" /\ e.op = k.op /\ e.dirty = k.dirty BY <3>2 DEF Job, Shape
    <3>4. Rebuilding(c, r, e)' BY <3>1, <3>3 DEF Rebuilding, Early
    <3> QED BY <3>1, <3>3, <3>4 DEF At, Working, Ops
  <2> QED BY <1>1, <2>1, <2>2, OwnQuiet
<1>5. CASE \E s \in SetToSeqs(Attached(k.addr)) :
             LET again == [i \in DOMAIN s |-> [net |-> s[i], port |-> k.addr[s[i]].port,
                                               keep |-> k.addr[s[i]].keep]]
                 found == k.cid /\ docker[c].exists
             IN Set(c, [k EXCEPT !.nets = again, !.addr = IF found THEN Preserved(@) ELSE @,
                                 !.pc = IF found THEN "leave" ELSE "check"])
  <2>1. PICK found : found = (k.cid /\ docker[c].exists) OBVIOUS
  <2>2. PICK again, a, pc : /\ Set(c, [k EXCEPT !.nets = again, !.addr = a, !.pc = pc])
                            /\ pc = IF found THEN "leave" ELSE "check"
    BY <1>5, <2>1
  <2>3. PICK e : e = [k EXCEPT !.nets = again, !.addr = a, !.pc = pc] OBVIOUS
  <2>4. e.pc = pc /\ e.op = k.op /\ e.groups = k.groups /\ e.cid = k.cid /\ e.left = k.left
    BY <2>3 DEF Job, Shape
  <2>5. job' = [job EXCEPT ![c] = e] BY <2>2, <2>3 DEF Set
  <2>6. ASSUME NEW r, NEW j, r = row[c], j = job[c], Working(c, r, j), Quiet(c) PROVE At(c, r, e)'
    <3>1. /\ j = k /\ j.op = "rebuild" /\ r.st \in {"created", "error"} /\ Standing(c, r)
          /\ Standing(c, r)' /\ Copy(r, j) /\ j.left \subseteq Attached(r.addr)
      BY <1>3, <2>6
    <3>2. k.cid /\ docker[c].exists BY <3>1 DEF Standing, On, Copy
    <3>3. pc = "leave" BY <2>1, <2>2, <3>2
    <3>4. k.left \subseteq docker[c].joined BY <3>1 DEF Standing, On
    <3>5. /\ Accounts(c, r.addr)' /\ Marked(r.addr)' /\ Tagged(c, r.groups)'
          /\ OwnGroups(c, r.groups)'
      BY <3>1 DEF Standing, Sound
    <3>6. e.groups = r.groups BY <2>4, <3>1 DEF Copy
    <3>7. Rebuilding(c, r, e)'
      BY <1>1, <2>4, <3>2, <3>3, <3>4, <3>5, <3>6 DEF Rebuilding, Early
    <3> QED BY <2>4, <3>1, <3>3, <3>7 DEF At, Working, Ops
  <2> QED BY <1>1, <2>5, <2>6, OwnQuiet
<1> QED BY <1>2, <1>4, <1>5 DEF RebuildBegin

\* Where a container leaves its networks it is on them.
LEMMA Leaving ==
    ASSUME NEW c, NEW r, NEW j, Working(c, r, j), j.pc = "leave"
    PROVE  /\ j.op \in {"detach", "rebuild", "delete"} /\ r.st \in {"created", "error"}
           /\ j.cid /\ docker[c].exists /\ j.left \subseteq docker[c].joined
           /\ j.groups = r.groups /\ OwnGroups(c, r.groups) /\ Marked(r.addr)
           /\ j.op = "detach" => Detaching(c, r, j) /\ Standing(c, r) /\ Copy(r, j)
           /\ j.op = "rebuild" => Rebuilding(c, r, j)
           /\ j.op = "delete" => Deleting(c, r, j) /\ Copy(r, j)
<1>1. j.op \in {"detach", "rebuild", "delete"}
  BY DEF Working, Creating, Attaching, Regrouping, Ops, Early
<1>2. r.st \in {"created", "error"} BY <1>1 DEF Working
<1>3. CASE j.op = "detach"
  <2>1. Detaching(c, r, j) /\ Standing(c, r) /\ Copy(r, j) BY <1>3 DEF Working, Detaching
  <2>2. PICK n \in Attached(r.addr) : j.left = {n} BY <2>1 DEF Detaching
  <2> QED BY <1>2, <1>3, <2>1, <2>2 DEF Standing, Copy, On, Sound
<1>4. CASE j.op = "rebuild" BY <1>2, <1>4 DEF Working, Rebuilding, Early
<1>5. CASE j.op = "delete" BY <1>2, <1>5 DEF Working, Deleting, Copy
<1> QED BY <1>1, <1>3, <1>4, <1>5

\* A port whose address is taken away.
LEMMA TakeAddress ==
    ASSUME NEW a \in Addresses, NEW n \in Nets, NEW b, b[n] = NoAddress,
           \A m \in Nets : m # n => b[m] = a[m], NEW S, S \subseteq PortsOf(a), a[n].port \notin S
    PROVE  /\ Attached(b) = Attached(a) \ {n} /\ S \subseteq PortsOf(b)
           /\ Marked(a) => Marked(b)
<1>1. NoAddress.port = NoPort /\ ~NoAddress.keep BY DEF NoAddress
<1>2. Attached(b) = Attached(a) \ {n} BY <1>1 DEF Attached
<1>3. ASSUME NEW p \in S PROVE p \in PortsOf(b)
  <2>1. PICK m \in Attached(a) : a[m].port = p BY <1>3 DEF PortsOf
  <2>2. m # n /\ m \in Nets BY <2>1 DEF Attached
  <2> QED BY <1>2, <2>1, <2>2 DEF PortsOf
<1>4. Marked(a) => Marked(b) BY <1>1 DEF Marked
<1> QED BY <1>2, <1>3, <1>4

LEMMA LeaveAgrees ==
    ASSUME IInv, IInv', KeptInv, AInv, NEW c \in Containers, disconnect_container_from_network(c)
    PROVE  AInv'
<1>1. /\ job[c].pc = "leave" /\ job[c].pc # "idle"
      /\ UNCHANGED <<dnet, netrow, group, row, queue>> /\ spoilt \subseteq spoilt'
  BY DEF disconnect_container_from_network
<1>2. PICK k \in Job : k = job[c] BY ContainerThread DEF IInv, Typed
<1>3. k.left \subseteq Nets /\ k.addr \in Addresses BY DEF Job, Shape
<1>4. PICK n \in k.left :
        /\ port' = IF k.addr[n].port = NoPort THEN port ELSE Unplugged(k.addr[n])
        /\ \/ /\ docker' = [docker EXCEPT ![c].joined = @ \ {n}]
              /\ Set(c, Left(c, n)) /\ UNCHANGED used
           \/ /\ k.cid /\ ~(docker[c].exists /\ n \in docker[c].joined)
              /\ Set(c, NotThere(c))
              /\ UNCHANGED <<docker, used>>
           \/ /\ Fault("disconnect") /\ Set(c, Raised(c, FALSE))
              /\ c \in spoilt' /\ UNCHANGED docker
  BY <1>2 DEF disconnect_container_from_network
<1>5. PICK x \in Address : x = k.addr[n] BY <1>3 DEF Addresses, Address
<1>6. Devices' /\ \A d \in Containers : Shrinks(d)
  <2>1. CASE port' = port BY <2>1, SamePorts DEF AInv
  <2>2. CASE port' = Unplugged(x) BY <2>2, UnpluggedAgrees DEF AInv
  <2> QED BY <1>4, <1>5, <2>1, <2>2
<1>7. ASSUME x.port # NoPort, x.keep => x.port \in UserPorts PROVE x.port \notin Theirs(c)'
  BY <1>4, <1>5, <1>7, UnpluggedAgrees DEF AInv
<1>8. UNCHANGED docker => Recorded' BY <1>1 DEF AInv, Recorded
<1>9. CASE UNCHANGED docker /\ UNCHANGED used /\ Set(c, NotThere(c))
           /\ k.cid /\ ~(docker[c].exists /\ n \in docker[c].joined)
  <2>1. PICK e : job' = [job EXCEPT ![c] = e] BY <1>9 DEF Set
  <2>2. ASSUME NEW r, NEW j, r = row[c], j = job[c], Working(c, r, j) PROVE FALSE
    BY <1>1, <1>2, <1>9, <2>2, Leaving
  <2>3. \A d \in Containers : used.ids[d] <= used'.ids[d] BY <1>9, IdsSame
  <2> QED BY <1>1, <1>6, <1>8, <1>9, <2>1, <2>2, <2>3, OwnGoes
<1>10. CASE Fault("disconnect") /\ Set(c, Raised(c, FALSE)) /\ c \in spoilt' /\ UNCHANGED docker
  <2>1. PICK e : job' = [job EXCEPT ![c] = e] BY <1>10 DEF Set
  <2>2. \A d \in Containers : used.ids[d] <= used'.ids[d] BY <1>10, IdsSame
  <2> QED BY <1>1, <1>6, <1>8, <1>10, <2>1, <2>2, OwnGoes
<1>11. CASE docker' = [docker EXCEPT ![c].joined = @ \ {n}] /\ Set(c, Left(c, n)) /\ UNCHANGED used
  <2>1. PICK js : js = docker[c].joined \ {n} OBVIOUS
  <2>2. docker' = [docker EXCEPT ![c].joined = js] BY <1>11, <2>1
  <2>3. /\ Recorded' /\ docker'[c].exists = docker[c].exists /\ docker'[c].joined = js
        /\ \A d \in Containers : d # c => docker'[d] = docker[d]
    BY <1>1, <2>2, JoinedRecorded DEF AInv
  <2>4. \A d \in Containers : used.ids[d] <= used'.ids[d] BY <1>11, IdsSame
  <2>5. ASSUME NEW gs, OwnGroups(c, gs) PROVE OwnGroups(c, gs)' BY <1>1, <1>11, <2>5, OwnSame
  <2>6. ASSUME NEW gs, Tagged(c, gs) PROVE Tagged(c, gs)' BY <1>6, <2>6, TaggedStays
  <2>7. PICK e : e = Left(c, n) /\ job' = [job EXCEPT ![c] = e] BY <1>11 DEF Set
  <2>8. ASSUME NEW r, NEW j, r = row[c], j = job[c], Working(c, r, j) PROVE At(c, r, e)'
    <3>1. /\ j = k /\ j.op \in {"detach", "rebuild", "delete"} /\ r.st \in {"created", "error"}
          /\ j.cid /\ docker[c].exists /\ j.left \subseteq docker[c].joined
          /\ j.groups = r.groups /\ OwnGroups(c, r.groups) /\ Marked(r.addr)
          /\ j.op = "detach" => Detaching(c, r, j) /\ Standing(c, r) /\ Copy(r, j)
          /\ j.op = "rebuild" => Rebuilding(c, r, j)
          /\ j.op = "delete" => Deleting(c, r, j) /\ Copy(r, j)
      BY <1>1, <1>2, <2>8, Leaving
    <3>2. OwnGroups(c, r.groups)' /\ Marked(r.addr)' BY <2>5, <3>1 DEF Marked
    <3>3. CASE j.op = "detach"
      <4>1. PICK a : a = [k.addr EXCEPT ![n] = NoAddress] OBVIOUS
      <4>2. e = [k EXCEPT !.addr = a, !.pc = "save"] BY <1>2, <2>7, <2>8, <3>3, <4>1 DEF Left
      <4>3. e.pc = "save" /\ e.op = k.op /\ e.addr = a /\ e.groups = k.groups /\ e.cid = k.cid
        BY <4>2 DEF Job, Shape
      <4>4. n \in Attached(r.addr) /\ k.addr = r.addr BY <1>1, <2>8, <3>1, <3>3 DEF Detaching, Copy
      <4>5. n \in Nets /\ x = r.addr[n] /\ x.port # NoPort BY <1>5, <4>4 DEF Attached
      <4>6. x.port \notin Theirs(c)' BY <1>7, <3>1, <4>5 DEF Marked
      <4>7. /\ On(c, r.addr) /\ Tagged(c, r.groups) /\ Accounts(c, r.addr)
        BY <3>1, <3>3 DEF Standing, Sound
      <4>8. Theirs(c)' \subseteq PortsOf(k.addr) BY <1>6, <4>4, <4>7 DEF Accounts, Shrinks
      <4>9. a[n] = NoAddress /\ \A m \in Nets : m # n => a[m] = k.addr[m]
        BY <1>3, <4>1, <4>5 DEF Addresses
      <4>10. PICK th : th = Theirs(c)' OBVIOUS
      <4>11. th \subseteq PortsOf(k.addr) /\ k.addr[n].port \notin th
        BY <1>5, <4>6, <4>8, <4>10
      <4>12. /\ Attached(a) = Attached(k.addr) \ {n} /\ th \subseteq PortsOf(a)
             /\ Marked(k.addr) => Marked(a)
        BY <1>3, <4>5, <4>9, <4>11, TakeAddress
      <4>13. Attached(a) \subseteq docker'[c].joined BY <2>1, <2>3, <4>4, <4>7, <4>12 DEF On
      <4>14. On(c, a)' BY <2>3, <3>1, <4>13 DEF On, Attached
      <4>15. Marked(a)' BY <3>1, <4>4, <4>12 DEF Marked
      <4>16. Sound(c, a, r.groups)' BY <2>6, <3>2, <4>7, <4>15 DEF Sound
      <4>17. Accounts(c, a)' BY <4>10, <4>12 DEF Accounts, PortsOf, Attached
      <4>18. Detaching(c, r, e)' BY <3>1, <4>3, <4>14, <4>16, <4>17 DEF Detaching
      <4> QED BY <3>1, <3>3, <4>3, <4>18 DEF At, Working, Ops
    <3>4. CASE j.op \in {"rebuild", "delete"}
      <4>1. PICK ls : ls = k.left \ {n} OBVIOUS
      <4>2. e = [k EXCEPT !.left = ls] BY <1>2, <2>7, <2>8, <3>4, <4>1 DEF Left
      <4>3. /\ e.pc = k.pc /\ e.op = k.op /\ e.addr = k.addr /\ e.groups = k.groups
            /\ e.cid = k.cid /\ e.left = ls
        BY <4>2 DEF Job, Shape
      <4>4. ls \subseteq docker'[c].joined BY <2>1, <2>3, <3>1, <4>1
      <4>5. CASE j.op = "rebuild"
        <5>1. Accounts(c, r.addr) /\ Tagged(c, r.groups)
          BY <1>1, <2>8, <3>1, <4>5 DEF Rebuilding
        <5>2. Accounts(c, r.addr)' BY <1>6, <5>1 DEF Accounts, PortsOf, Attached, Shrinks
        <5>3. Rebuilding(c, r, e)'
          BY <1>1, <2>3, <2>6, <2>8, <3>1, <3>2, <4>3, <4>4, <5>1, <5>2 DEF Rebuilding, Early
        <5> QED BY <1>1, <2>8, <3>1, <4>3, <4>5, <5>3 DEF At, Working, Ops
      <4>6. CASE j.op = "delete"
        <5>1. /\ r.cid /\ j.left \subseteq Attached(r.addr) /\ j.addr = r.addr
              /\ Theirs(c) \subseteq {r.addr[m].port : m \in j.left}
          BY <1>1, <2>8, <3>1, <4>6 DEF Deleting, Copy
        <5>2. x = r.addr[n] /\ x.port # NoPort /\ n \in Nets BY <1>3, <1>5, <3>1, <5>1 DEF Attached
        <5>3. x.port \notin Theirs(c)' BY <1>7, <3>1, <5>2 DEF Marked
        <5>4. ASSUME NEW p \in Theirs(c)' PROVE p \in {r.addr[m].port : m \in ls}
          <6>1. PICK m \in j.left : p = r.addr[m].port BY <1>6, <5>1 DEF Shrinks
          <6>2. m # n BY <5>2, <5>3, <6>1
          <6> QED BY <3>1, <4>1, <6>1, <6>2
        <5>5. ls \subseteq Attached(r.addr) BY <3>1, <4>1, <5>1
        <5>6. Copy(r, e)' BY <3>1, <4>3, <4>6 DEF Copy
        <5>7. Deleting(c, r, e)'
          <6>1. (ls \subseteq Attached(r.addr))' BY <5>5 DEF Attached
          <6>2. Theirs(c)' \subseteq {r.addr[m].port : m \in e.left} BY <4>3, <5>4
          <6> QED BY <1>1, <2>3, <2>8, <3>1, <3>2, <4>3, <4>4, <5>1, <5>6, <6>1, <6>2 DEF Deleting
        <5> QED BY <1>1, <2>8, <3>1, <4>3, <4>6, <5>7 DEF At, Working, Ops
      <4> QED BY <3>4, <4>5, <4>6
    <3> QED BY <3>1, <3>3, <3>4
  <2> QED BY <1>1, <1>6, <2>3, <2>4, <2>7, <2>8, OwnGoes
<1> QED BY <1>4, <1>9, <1>10, <1>11

\* The group the container has of its own is the first that it names.
LEMMA OwnFirst ==
    ASSUME NEW c \in Exposed, NEW gs, OwnGroups(c, gs)
    PROVE  /\ gs # <<>> /\ Head(gs) \in 1..MaxIds /\ Head(gs) <= used.ids[c]
           /\ group[c] \subseteq {Head(gs)} /\ Head(gs) \in ToSet(gs)
<1>1. PICK g \in 1..MaxIds : /\ g <= used.ids[c] /\ group[c] \subseteq {g}
                             /\ gs = <<g>> \/ gs = <<g, UserGroup>>
  BY DEF OwnGroups
<1>2. gs # <<>> /\ Head(gs) = g BY <1>1
<1>3. 1 \in DOMAIN gs /\ gs[1] = g BY <1>1
<1>4. g \in ToSet(gs) BY <1>3 DEF ToSet
<1> QED BY <1>1, <1>2, <1>4

LEMMA CleanupAgrees ==
    ASSUME IInv, IInv', KeptInv, AInv, NEW c \in Containers, _cleanup_exposed_ports(c) PROVE AInv'
<1>1. /\ job[c].pc = "leave" /\ job[c].pc # "idle" /\ job[c].left = {} /\ Goto(c, "remove")
      /\ UNCHANGED <<dnet, netrow, port, docker, row, queue, spoilt, used>>
  BY DEF _cleanup_exposed_ports
<1>2. PICK k \in Job : k = job[c] BY ContainerThread DEF IInv, Typed
<1>3. PICK h : h = Head(k.groups) OBVIOUS
<1>4. group' = IF c \in Exposed /\ k.groups # <<>> THEN [group EXCEPT ![c] = @ \ {h}] ELSE group
  BY <1>2, <1>3 DEF _cleanup_exposed_ports
<1>5. group \in [Containers -> SUBSET Nat] BY DEF AInv, Recorded
<1>6. /\ \A d \in Containers : d # c => group'[d] = group[d]
      /\ group'[c] = IF c \in Exposed /\ k.groups # <<>> THEN group[c] \ {h} ELSE group[c]
      /\ group' \in [Containers -> SUBSET Nat]
  BY <1>4, <1>5
<1>7. Recorded' BY <1>1, <1>6 DEF AInv, Recorded
<1>8. Devices' /\ (\A d \in Containers : Shrinks(d)) /\ Theirs(c)' = Theirs(c)
  BY <1>1, SamePorts DEF AInv
<1>9. \A d \in Containers : used.ids[d] <= used'.ids[d] BY <1>1, IdsSame
<1>10. PICK e : e = [k EXCEPT !.pc = "remove"] OBVIOUS
<1>11. job' = [job EXCEPT ![c] = e] BY <1>1, <1>2, <1>10 DEF Goto, Set
<1>12. /\ e.pc = "remove" /\ e.op = k.op /\ e.groups = k.groups
  BY <1>10 DEF Job, Shape
<1>13. ASSUME NEW r, NEW j, r = row[c], j = job[c], Working(c, r, j) PROVE At(c, r, e)'
  <2>1. /\ j = k /\ j.op \in {"detach", "rebuild", "delete"} /\ r.st \in {"created", "error"}
        /\ j.groups = r.groups /\ OwnGroups(c, r.groups) /\ Marked(r.addr)
        /\ j.op = "detach" => Detaching(c, r, j)
        /\ j.op = "rebuild" => Rebuilding(c, r, j)
        /\ j.op = "delete" => Deleting(c, r, j)
    BY <1>1, <1>2, <1>13, Leaving
  <2>2. j.op # "detach" BY <1>1, <1>13, <2>1 DEF Detaching
  <2>3. c \in Exposed => /\ k.groups # <<>> /\ h \in 1..MaxIds /\ h <= used.ids[c]
                         /\ group[c] \subseteq {h} /\ h \in ToSet(k.groups)
    BY <1>3, <2>1, OwnFirst
  <2>4. group'[c] = {}
    <3>1. CASE c \in Exposed BY <1>6, <2>3, <3>1
    <3>2. CASE c \notin Exposed BY <1>6, <2>1, <3>2 DEF OwnGroups
    <3> QED BY <3>1, <3>2
  <2>5. CASE j.op = "rebuild"
    <3>1. Accounts(c, r.addr) /\ Tagged(c, r.groups) BY <1>1, <1>13, <2>1, <2>5 DEF Rebuilding
    <3>2. Accounts(c, r.addr)' BY <1>8, <3>1 DEF Accounts, PortsOf, Attached
    <3>3. Tagged(c, r.groups)' BY <1>8, <3>1, TaggedStays
    <3>4. Marked(r.addr)' BY <2>1 DEF Marked
    <3>5. c \in Exposed => Doomed(c, e)' BY <1>1, <1>12, <2>3, <2>4 DEF Doomed
    <3>6. c \notin Exposed => OwnGroups(c, r.groups)'
      BY <2>1, <2>4 DEF OwnGroups
    <3>7. Rebuilding(c, r, e)'
      BY <1>12, <2>1, <3>2, <3>3, <3>4, <3>5, <3>6 DEF Rebuilding, Early
    <3> QED BY <1>12, <2>1, <2>5, <3>7 DEF At, Working, Ops
  <2>6. CASE j.op = "delete"
    <3>1. Theirs(c) = {} BY <1>1, <1>13, <2>1, <2>6 DEF Deleting
    <3>2. Clear(c)' BY <1>8, <2>4, <3>1 DEF Clear
    <3>3. Deleting(c, r, e)' BY <1>12, <3>2 DEF Deleting
    <3> QED BY <1>12, <2>1, <2>6, <3>3 DEF At, Working, Ops
  <2> QED BY <2>1, <2>2, <2>5, <2>6
<1> QED BY <1>1, <1>6, <1>7, <1>8, <1>9, <1>11, <1>13, OwnGoes

LEMMA RemoveAgrees ==
    ASSUME IInv, IInv', KeptInv, AInv, NEW c \in Containers, RemoveContainer(c) PROVE AInv'
<1>1. /\ job[c].pc = "remove" /\ job[c].pc # "idle"
      /\ UNCHANGED <<dnet, netrow, port, group, row, queue, spoilt, used>>
  BY DEF RemoveContainer
<1>2. PICK k \in Job : k = job[c] BY ContainerThread DEF IInv, Typed
<1>3. docker = [d \in Containers |-> [exists |-> docker[d].exists, joined |-> docker[d].joined]]
  BY DEF AInv, Recorded
<1>4. PICK x : x = [exists |-> FALSE, joined |-> {}] OBVIOUS
<1>5. docker' = IF k.cid THEN [docker EXCEPT ![c] = x] ELSE docker
  BY <1>2, <1>4 DEF RemoveContainer
<1>6. /\ \A d \in Containers : d # c => docker'[d] = docker[d]
      /\ docker'[c] = IF k.cid THEN x ELSE docker[c]
  BY <1>3, <1>5
<1>7. Recorded'
  <2>1. \A d \in Containers : docker'[d] = [exists |-> docker'[d].exists, joined |-> docker'[d].joined]
    BY <1>3, <1>4, <1>6
  <2>2. docker' = [d \in Containers |-> docker'[d]] BY <1>3, <1>5
  <2> QED BY <1>1, <2>1, <2>2 DEF AInv, Recorded
<1>8. Devices' /\ (\A d \in Containers : Shrinks(d)) /\ Theirs(c)' = Theirs(c)
  BY <1>1, SamePorts DEF AInv
<1>9. \A d \in Containers : used.ids[d] <= used'.ids[d] BY <1>1, IdsSame
<1>10. PICK pc : pc = IF k.op = "delete" THEN "destroy" ELSE "check" OBVIOUS
<1>11. PICK e : e = [k EXCEPT !.pc = pc] OBVIOUS
<1>12. job' = [job EXCEPT ![c] = e] BY <1>2, <1>10, <1>11 DEF RemoveContainer, Goto, Set
<1>13. /\ e.pc = pc /\ e.op = k.op /\ e.groups = k.groups
  BY <1>11 DEF Job, Shape
<1>14. ASSUME NEW r, NEW j, r = row[c], j = job[c], Working(c, r, j) PROVE At(c, r, e)'
  <2>1. j = k /\ j.op \in {"rebuild", "delete"} /\ r.st \in {"created", "error"}
    BY <1>1, <1>2, <1>14 DEF Working, Creating, Attaching, Detaching, Regrouping, Ops, Early
  <2>2. CASE j.op = "rebuild"
    <3>1. /\ Accounts(c, r.addr) /\ Tagged(c, r.groups) /\ Marked(r.addr)
          /\ IF c \in Exposed THEN Doomed(c, j)
             ELSE j.groups = r.groups /\ OwnGroups(c, r.groups)
      BY <1>1, <1>14, <2>2 DEF Working, Rebuilding
    <3>2. Accounts(c, r.addr)' BY <1>8, <3>1 DEF Accounts, PortsOf, Attached
    <3>3. Tagged(c, r.groups)' BY <1>8, <3>1, TaggedStays
    <3>4. Marked(r.addr)' BY <3>1 DEF Marked
    <3>5. c \in Exposed => Doomed(c, e)' BY <1>1, <1>13, <2>1, <3>1 DEF Doomed
    <3>6. c \notin Exposed => OwnGroups(c, r.groups)' BY <1>1, <3>1, OwnSame
    <3>7. Rebuilding(c, r, e)'
      BY <1>10, <1>13, <2>1, <2>2, <3>1, <3>2, <3>3, <3>4, <3>5, <3>6 DEF Rebuilding, Early
    <3> QED BY <1>10, <1>13, <2>1, <2>2, <3>7 DEF At, Working, Ops
  <2>3. CASE j.op = "delete"
    <3>1. Clear(c) BY <1>1, <1>14, <2>3 DEF Working, Deleting
    <3>2. Clear(c)' BY <1>1, <1>8, <3>1 DEF Clear
    <3>3. Deleting(c, r, e)' BY <1>10, <1>13, <2>1, <2>3, <3>2 DEF Deleting
    <3> QED BY <1>10, <1>13, <2>1, <2>3, <3>3 DEF At, Working, Ops
  <2> QED BY <2>1, <2>2, <2>3
<1> QED BY <1>1, <1>6, <1>7, <1>8, <1>9, <1>12, <1>14, OwnGoes

LEMMA DestroyAgrees ==
    ASSUME IInv, IInv', KeptInv, AInv, NEW c \in Containers, DestroyContainer(c) PROVE AInv'
<1>1. /\ job[c].pc = "destroy" /\ job[c].pc # "idle" /\ Done(c)
      /\ UNCHANGED <<dnet, netrow, port, group, docker, queue, spoilt, used>>
  BY DEF DestroyContainer
<1>2. PICK o \in Row : o = row[c] BY DEF IInv, Typed
<1>3. PICK r : r = [o EXCEPT !.st = "gone"] OBVIOUS
<1>4. row \in [Containers -> Row] BY DEF IInv, Typed
<1>5. row' = [row EXCEPT ![c] = r] BY <1>2, <1>3, <1>4 DEF DestroyContainer
<1>6. row'[c] = r /\ \A d \in Containers : d # c => row'[d] = row[d] BY <1>4, <1>5
<1>7. r.st = "gone" /\ r.host = o.host BY <1>3 DEF Row
<1>8. Devices' /\ (\A d \in Containers : Shrinks(d)) /\ Theirs(c)' = Theirs(c)
  BY <1>1, SamePorts DEF AInv
<1>9. Recorded' BY <1>1 DEF AInv, Recorded
<1>10. \A d \in Containers : used.ids[d] <= used'.ids[d] BY <1>1, IdsSame
<1>11. PICK e : e = NoJob /\ e.pc = "idle" BY NoJobType
<1>12. job' = [job EXCEPT ![c] = e] BY <1>1, <1>11 DEF Done, Set
<1>13. ASSUME Working(c, row[c], job[c]) PROVE At(c, r, e)'
  <2>1. job[c].op = "delete"
    BY <1>1, <1>13 DEF Working, Creating, Attaching, Detaching, Regrouping, Rebuilding, Ops, Early
  <2>2. Clear(c) BY <1>1, <1>13, <2>1 DEF Working, Deleting
  <2>3. Clear(c)' BY <1>1, <1>8, <2>2 DEF Clear
  <2>4. Resting(c, r)' BY <1>7, <2>3 DEF Resting
  <2> QED BY <1>11, <2>4 DEF At
<1>14. r.st # "none" /\ (r.host => row[c].host) BY <1>2, <1>7
<1> QED BY <1>1, <1>6, <1>8, <1>9, <1>10, <1>12, <1>13, <1>14, OwnStep

LEMMA FewGroups ==
    ASSUME NEW a, NEW b
    PROVE  ToSet(<<>>) = {} /\ ToSet(<<a>>) = {a} /\ ToSet(<<a, b>>) = {a, b}
<1>1. DOMAIN <<>> = {} OBVIOUS
<1>2. DOMAIN <<a>> = {1} OBVIOUS
<1>3. DOMAIN <<a, b>> = {1, 2} OBVIOUS
<1>4. ToSet(<<>>) = {} BY <1>1 DEF ToSet
<1>5. ToSet(<<a>>) = {a} BY <1>2 DEF ToSet
<1>6. ToSet(<<a, b>>) = {a, b} BY <1>3 DEF ToSet
<1> QED BY <1>4, <1>5, <1>6

LEMMA OneOrder ==
    ASSUME NEW g, NEW s
    PROVE  (s \in SetToSeqs({g}) => s = <<g>>) /\ (s \in SetToSeqs({}) => s = <<>>)
<1>1. Cardinality({g}) = 1 /\ Cardinality({}) = 0 BY FS_Singleton, FS_EmptySet
<1>2. ASSUME s \in SetToSeqs({g}) PROVE s = <<g>>
  <2>1. s \in [1..1 -> {g}] BY <1>1, <1>2 DEF SetToSeqs
  <2>2. s \in Seq({g}) BY <2>1, IsSequence
  <2>3. Len(s) = 1 /\ s[1] = g BY <2>1, <2>2
  <2> QED BY <2>2, <2>3
<1>3. ASSUME s \in SetToSeqs({}) PROVE s = <<>>
  <2>1. s \in [1..0 -> {}] BY <1>1, <1>3 DEF SetToSeqs
  <2>2. s \in Seq({}) BY <2>1, IsSequence
  <2> QED BY <2>1, <2>2
<1> QED BY <1>2, <1>3

LEMMA AppendOne ==
    ASSUME NEW S, NEW x \in S, NEW y \in S PROVE Append(<<x>>, y) = <<x, y>>
<1>1. <<x>> \in Seq(S) /\ Len(<<x>>) = 1 /\ <<x>>[1] = x OBVIOUS
<1>2. <<x, y>> \in Seq(S) /\ Len(<<x, y>>) = 2 OBVIOUS
<1>3. <<x, y>>[1] = x /\ <<x, y>>[2] = y OBVIOUS
<1>4. PICK s \in Seq(S) : s = <<x>> /\ Len(s) = 1 /\ s[1] = x BY <1>1
<1>5. PICK t \in Seq(S) : t = <<x, y>> /\ Len(t) = 2 /\ t[1] = x /\ t[2] = y BY <1>2, <1>3
<1>6. Append(s, y) \in Seq(S) /\ Len(Append(s, y)) = 2 BY <1>4
<1>7. Append(s, y)[1] = x /\ Append(s, y)[2] = y BY <1>4
<1>8. \A i \in 1..2 : Append(s, y)[i] = t[i]
  <2>1. \A i \in 1..2 : i = 1 \/ i = 2 OBVIOUS
  <2> QED BY <1>5, <1>7, <2>1
<1>9. Append(s, y) = t
  <2>1. PICK u \in Seq(S) : u = Append(s, y) BY <1>6
  <2>2. Len(u) = Len(t) /\ \A i \in 1..Len(u) : u[i] = t[i] BY <1>5, <1>6, <1>8, <2>1
  <2>3. u = t BY <2>2
  <2> QED BY <2>1, <2>3
<1> QED BY <1>4, <1>5, <1>9

\* The user's group comes after the container's own.
LEMMA GroupAdded ==
    ASSUME NEW c, NEW gs, OwnGroups(c, gs), UserGroup \notin ToSet(gs), NEW hs,
           hs = Append(gs, UserGroup)
    PROVE  OwnGroups(c, hs) /\ ToSet(hs) = ToSet(gs) \cup {UserGroup}
<1>1. CASE c \in Exposed
  <2>1. PICK g \in 1..MaxIds : /\ g <= used.ids[c] /\ group[c] \subseteq {g}
                               /\ gs = <<g>> \/ gs = <<g, UserGroup>>
    BY <1>1 DEF OwnGroups
  <2>2. ToSet(<<g>>) = {g} /\ ToSet(<<g, UserGroup>>) = {g, UserGroup} BY FewGroups
  <2>3. gs = <<g>> BY <2>1, <2>2
  <2>4. Append(<<g>>, UserGroup) = <<g, UserGroup>>
    <3>1. g \in Nat /\ UserGroup \in Nat BY Numbers
    <3>2. PICK u \in Nat : u = UserGroup BY <3>1
    <3>3. Append(<<g>>, u) = <<g, u>> BY <3>1, AppendOne
    <3> QED BY <3>2, <3>3
  <2>5. hs = <<g, UserGroup>> BY <2>3, <2>4
  <2>6. OwnGroups(c, hs) BY <1>1, <2>1, <2>5 DEF OwnGroups
  <2>7. ToSet(hs) = {g, UserGroup} /\ ToSet(gs) = {g} BY <2>2, <2>3, <2>5
  <2> QED BY <2>6, <2>7
<1>2. CASE c \notin Exposed
  <2>1. group[c] = {} /\ (gs = <<>> \/ gs = <<UserGroup>>) BY <1>2 DEF OwnGroups
  <2>2. gs = <<>> BY <2>1, FewGroups
  <2>3. hs = <<UserGroup>> BY <2>2
  <2> QED BY <1>2, <2>1, <2>2, <2>3, FewGroups DEF OwnGroups
<1> QED BY <1>1, <1>2

LEMMA GroupRemoved ==
    ASSUME NEW c, NEW gs, OwnGroups(c, gs), NEW hs \in SetToSeqs(ToSet(gs) \ {UserGroup})
    PROVE  OwnGroups(c, hs) /\ ToSet(hs) = ToSet(gs) \ {UserGroup}
<1>1. CASE c \in Exposed
  <2>1. PICK g \in 1..MaxIds : /\ g <= used.ids[c] /\ group[c] \subseteq {g}
                               /\ gs = <<g>> \/ gs = <<g, UserGroup>>
    BY <1>1 DEF OwnGroups
  <2>2. g # UserGroup BY Numbers DEF UserGroup
  <2>0. ToSet(<<g>>) = {g} /\ ToSet(<<g, UserGroup>>) = {g, UserGroup} BY FewGroups
  <2>3. ToSet(gs) \ {UserGroup} = {g} BY <2>0, <2>1, <2>2
  <2>4. hs = <<g>> BY <2>3, OneOrder
  <2> QED BY <1>1, <2>1, <2>3, <2>4, FewGroups DEF OwnGroups
<1>2. CASE c \notin Exposed
  <2>1. group[c] = {} /\ (gs = <<>> \/ gs = <<UserGroup>>) BY <1>2 DEF OwnGroups
  <2>2. ToSet(gs) \ {UserGroup} = {} BY <2>1, FewGroups
  <2>3. hs = <<>> BY <2>2, OneOrder
  <2> QED BY <1>2, <2>1, <2>2, <2>3, FewGroups DEF OwnGroups
<1> QED BY <1>1, <1>2

LEMMA GroupsAgreeing ==
    ASSUME IInv, IInv', KeptInv, AInv, NEW c \in Containers,
           job[c].pc \in {"add_group", "remove_group"}, Done(c),
           NEW ps, ps \subseteq Listed(c), NEW add \in BOOLEAN, port' = Regrouped(ps, UserGroup, add),
           UNCHANGED <<dnet, netrow, group, docker, queue, used>>,
           NEW hs, (row' = [row EXCEPT ![c].groups = hs]) \/ (row' = row /\ c \in spoilt'),
           spoilt \subseteq spoilt',
           c \notin spoilt' /\ Working(c, row[c], job[c]) =>
               /\ ps = Listed(c) /\ OwnGroups(c, hs)
               /\ ToSet(hs) = IF add THEN ToSet(row[c].groups) \cup {UserGroup}
                              ELSE ToSet(row[c].groups) \ {UserGroup}
    PROVE  AInv'
<1>1. job[c].pc # "idle" OBVIOUS
<1>2. PICK o \in Row : o = row[c] BY DEF IInv, Typed
<1>3. row \in [Containers -> Row] BY DEF IInv, Typed
<1>4. PICK x : x = [o EXCEPT !.groups = hs] OBVIOUS
<1>5. x.groups = hs /\ x.addr = o.addr /\ x.cid = o.cid /\ x.st = o.st /\ x.host = o.host
  BY <1>4 DEF Row
<1>6. PICK r : r = row'[c] OBVIOUS
<1>7. /\ r = x \/ (r = o /\ c \in spoilt')
      /\ \A d \in Containers : d # c => row'[d] = row[d]
  BY <1>2, <1>3, <1>4, <1>6
<1>8. ps \subseteq PortsOf(job[c].addr) BY DEF Listed
<1>9. /\ Devices' /\ \A d \in Containers : d # c => Shrinks(d)
      /\ \A d \in Containers : Theirs(d)' = Theirs(d)
      /\ \A p \in Ports : p \notin ps => port'[p].groups = port[p].groups
      /\ \A p \in ps \cap Ports :
                 port'[p].groups = IF add THEN port[p].groups \cup {UserGroup}
                                   ELSE port[p].groups \ {UserGroup}
  BY <1>8, RegroupedAgrees DEF AInv
<1>10. Recorded' BY DEF AInv, Recorded
<1>11. \A d \in Containers : used.ids[d] <= used'.ids[d] BY IdsSame
<1>12. PICK e : e = NoJob /\ e.pc = "idle" BY NoJobType
<1>13. job' = [job EXCEPT ![c] = e] BY <1>12 DEF Done, Set
<1>14. r.st # "none" /\ (r.host => row[c].host) BY <1>1, <1>2, <1>5, <1>7, NotNone
<1>15. ASSUME c \notin spoilt', Working(c, row[c], job[c]) PROVE At(c, r, e)'
  <2>1. PICK j : j = job[c] OBVIOUS
  <2>2. Working(c, o, j) /\ r = x BY <1>2, <1>7, <1>15, <2>1
  <2>3. j.op \in {"add_group", "remove_group"} /\ Regrouping(c, o, j)
        /\ o.st \in {"created", "error"}
    BY <2>1, <2>2 DEF Working, Creating, Attaching, Detaching, Regrouping, Rebuilding, Deleting,
                      Ops, Early
  <2>4. Standing(c, o) /\ Copy(o, j) BY <2>3 DEF Regrouping
  <2>5. PICK ts : ts = ToSet(hs) OBVIOUS
  <2>6. /\ ps = Listed(c) /\ OwnGroups(c, hs)
        /\ ts = IF add THEN ToSet(o.groups) \cup {UserGroup} ELSE ToSet(o.groups) \ {UserGroup}
    BY <1>2, <1>15, <2>5
  <2>7. ASSUME NEW p \in Theirs(c)' \ UserPorts PROVE port'[p].groups = ts
    <3>1. p \in Theirs(c) \ UserPorts BY <1>9
    <3>2. p \in Ports /\ port[p].exists /\ p \in PortsOf(o.addr)
      BY <2>4, <3>1 DEF Standing, Accounts, Theirs
    <3>3. p \in ps BY <2>1, <2>4, <2>6, <3>2 DEF Listed, Copy
    <3>4. port[p].groups = ToSet(o.groups) BY <2>4, <3>1 DEF Standing, Sound, Tagged
    <3>5. port'[p].groups = IF add THEN port[p].groups \cup {UserGroup}
                            ELSE port[p].groups \ {UserGroup}
      BY <1>9, <3>2, <3>3
    <3> QED BY <2>6, <3>4, <3>5
  <2>8. Tagged(c, hs)' BY <2>5, <2>7 DEF Tagged
  <2>9. OwnGroups(c, hs)' BY <2>6, OwnSame
  <2>10. /\ o.cid /\ On(c, o.addr) /\ Marked(o.addr) /\ Accounts(c, o.addr)
    BY <2>4 DEF Standing, Sound
  <2>11. On(c, o.addr)' /\ Marked(o.addr)' BY <2>10 DEF On, Marked, Attached
  <2>12. Accounts(c, o.addr)' BY <1>9, <2>10 DEF Accounts, PortsOf, Attached
  <2>13. Standing(c, r)'
    BY <1>5, <2>2, <2>8, <2>9, <2>10, <2>11, <2>12 DEF Standing, Sound
  <2>14. Resting(c, r)' BY <1>5, <2>2, <2>3, <2>13 DEF Resting
  <2> QED BY <1>12, <2>14 DEF At
<1> QED BY <1>1, <1>6, <1>7, <1>9, <1>10, <1>11, <1>13, <1>14, <1>15, OwnStep

LEMMA AddGroupAgrees ==
    ASSUME IInv, IInv', KeptInv, AInv, NEW c \in Containers, add_security_groups_to_ports(c)
    PROVE  AInv'
<1>1. /\ job[c].pc = "add_group" /\ Done(c) /\ port' = Regrouped(Listed(c), UserGroup, TRUE)
      /\ UNCHANGED <<dnet, netrow, group, docker, queue, spoilt, used>>
  BY DEF add_security_groups_to_ports
<1>2. PICK hs : hs = Append(job[c].groups, UserGroup) OBVIOUS
<1>3. row' = [row EXCEPT ![c].groups = hs] BY <1>2 DEF add_security_groups_to_ports
<1>4. PICK ps : ps = Listed(c) OBVIOUS
<1>5. ASSUME Working(c, row[c], job[c])
      PROVE  OwnGroups(c, hs) /\ ToSet(hs) = ToSet(row[c].groups) \cup {UserGroup}
  <2>1. job[c].op = "add_group"
    BY <1>1, <1>5 DEF Working, Creating, Attaching, Detaching, Regrouping, Rebuilding, Deleting,
                      Ops, Early
  <2>2. Regrouping(c, row[c], job[c]) BY <1>5, <2>1 DEF Working
  <2>3. /\ UserGroup \notin ToSet(row[c].groups) /\ OwnGroups(c, row[c].groups)
        /\ job[c].groups = row[c].groups
    BY <2>1, <2>2 DEF Regrouping, Standing, Sound, Copy
  <2> QED BY <1>2, <2>3, GroupAdded
<1>6. ps \subseteq Listed(c) /\ port' = Regrouped(ps, UserGroup, TRUE) BY <1>1, <1>4
<1> QED BY <1>1, <1>3, <1>4, <1>5, <1>6, GroupsAgreeing

LEMMA RemoveGroupAgrees ==
    ASSUME IInv, IInv', KeptInv, AInv, NEW c \in Containers, remove_security_groups_from_ports(c)
    PROVE  AInv'
<1>1. /\ job[c].pc = "remove_group" /\ Done(c) /\ spoilt \subseteq spoilt'
      /\ UNCHANGED <<dnet, netrow, group, docker, queue, used>>
  BY DEF remove_security_groups_from_ports
<1>2. PICK hs, ps : /\ ps \subseteq Listed(c) /\ port' = Regrouped(ps, UserGroup, FALSE)
                    /\ \/ row' = row /\ c \in spoilt'
                       \/ /\ ps = Listed(c) /\ hs \in SetToSeqs(ToSet(job[c].groups) \ {UserGroup})
                          /\ row' = [row EXCEPT ![c].groups = hs]
  <2>1. PICK hv : hv = {p \in Listed(c) : UserGroup \in port[p].groups} OBVIOUS
  <2>2. CASE /\ hv = Listed(c) /\ port' = Regrouped(hv, UserGroup, FALSE)
             /\ \E gs \in SetToSeqs(ToSet(job[c].groups) \ {UserGroup}) :
                  row' = [row EXCEPT ![c].groups = gs]
    BY <2>2
  <2>3. CASE /\ \E ps \in SUBSET hv : port' = Regrouped(ps, UserGroup, FALSE)
             /\ spoilt' = spoilt \cup {c} /\ row' = row
    BY <2>1, <2>3
  <2> QED BY <2>1, <2>2, <2>3 DEF remove_security_groups_from_ports
<1>3. ASSUME c \notin spoilt', Working(c, row[c], job[c])
      PROVE  /\ ps = Listed(c) /\ OwnGroups(c, hs)
             /\ ToSet(hs) = ToSet(row[c].groups) \ {UserGroup}
  <2>1. job[c].op = "remove_group"
    BY <1>1, <1>3 DEF Working, Creating, Attaching, Detaching, Regrouping, Rebuilding, Deleting,
                      Ops, Early
  <2>2. Regrouping(c, row[c], job[c]) BY <1>3, <2>1 DEF Working
  <2>3. OwnGroups(c, row[c].groups) /\ job[c].groups = row[c].groups
    BY <2>2 DEF Regrouping, Standing, Sound, Copy
  <2> QED BY <1>2, <1>3, <2>3, GroupRemoved
<1>4. row' = [row EXCEPT ![c].groups = hs] \/ (row' = row /\ c \in spoilt') BY <1>2
<1> QED BY <1>1, <1>2, <1>3, <1>4, GroupsAgreeing

LEMMA UnplugAgrees ==
    ASSUME IInv, IInv', KeptInv, AInv, NEW c \in Containers, UnplugStep(c) PROVE AInv'
BY RebuildAgrees, LeaveAgrees, CleanupAgrees, RemoveAgrees, DestroyAgrees, AddGroupAgrees,
   RemoveGroupAgrees
DEF UnplugStep

-----------------------------------------------------------------------------
(* Requests                                                                 *)

LEMMA TakeAgrees ==
    ASSUME IInv, IInv', KeptInv, AInv, NEW c \in Containers, Take(c) PROVE AInv'
<1>1. /\ c \in Threads /\ job[c].pc = "idle"
      /\ UNCHANGED <<dnet, netrow, port, group, docker, row, spoilt, used>>
  BY ContainerThread DEF Take
<1>2. PICK m \in queue :
        /\ m.c = c /\ queue' = queue \ {m}
        /\ Set(c, [NoJob EXCEPT
              !.op = m.op, !.nets = m.nets, !.addr = m.addr, !.groups = m.groups, !.cid = m.cid,
              !.pc = FirstPc(m),
              !.left = IF m.op = "detach" THEN {m.nets[1].net} ELSE Attached(m.addr)])
  BY DEF Take
<1>3. PICK pc : pc = FirstPc(m) OBVIOUS
<1>4. PICK left : left = IF m.op = "detach" THEN {m.nets[1].net} ELSE Attached(m.addr) OBVIOUS
<1>5. PICK k \in Job : k = NoJob /\ ~k.dirty BY NoJobType DEF NoJob
<1>6. PICK e : e = [k EXCEPT !.op = m.op, !.nets = m.nets, !.addr = m.addr, !.groups = m.groups,
                             !.cid = m.cid, !.pc = pc, !.left = left]
  OBVIOUS
<1>7. /\ e.op = m.op /\ e.nets = m.nets /\ e.addr = m.addr /\ e.pc = pc /\ e.left = left
      /\ e.groups = m.groups /\ e.cid = m.cid /\ ~e.dirty
  BY <1>5, <1>6 DEF Job, Shape
<1>8. job' = [job EXCEPT ![c] = e] BY <1>2, <1>3, <1>4, <1>5, <1>6 DEF Set
<1>9. job'[c] = e /\ \A d \in Containers : d # c => job'[d] = job[d]
  BY <1>1, <1>8 DEF IInv, Typed, Threads
<1>10. Devices' /\ (\A d \in Containers : Shrinks(d)) BY <1>1, SamePorts DEF AInv
<1>11. Recorded' BY <1>1 DEF AInv, Recorded
<1>12. \A d \in Containers : Quiet(d)
  <2>1. \A d \in Containers : used.ids[d] \in Nat BY DEF IInv, Typed, Used
  <2> QED BY <1>1, <1>10, <2>1 DEF Quiet
<1>13. \A d \in Containers : d # c => Apart(d) BY <1>1, <1>2, <1>9, <1>12 DEF Apart
<1>14. \A d \in Containers : d # c => Agreeing(d)' BY <1>13, ApartAgrees DEF AInv
<1>15. PICK r : r = row[c] OBVIOUS
<1>16. r.st # "none"
  <2>1. Pending(c) BY <1>2 DEF Pending
  <2> QED BY <1>15, <2>1 DEF AInv, Agreeing, Fresh
<1>17. ASSUME c \notin spoilt', r.host PROVE At(c, r, e)' /\ \A o \in queue' : o.c # c
  <2>1. Agreeing(c) /\ OneRequest(c) BY <1>1, <1>17 DEF AInv, KeptInv, Kept
  <2>2. m.addr = r.addr /\ \A o \in queue : o.c = c => o = m BY <1>2, <1>15, <2>1 DEF OneRequest
  <2>3. Resting(c, r) /\ Asked(r, m)
    BY <1>1, <1>2, <1>15, <1>17, <2>1 DEF Agreeing, At
  <2>4. m.op \in Ops BY DEF IInv, Typed, Cargo
  <2>5. /\ pc # "idle"
        /\ m.op \in {"create", "attach"} => pc = "check"
        /\ m.op \in {"detach", "delete"} => pc = "leave"
        /\ m.op \in {"add_group", "remove_group", "rebuild"} => pc = m.op
    BY <1>3, <2>4 DEF FirstPc, Ops
  <2>6. CASE m.op = "create"
    <3>1. r.st = "creating" /\ Asking(m.nets) BY <2>3, <2>6 DEF Asked
    <3>2. Clear(c) /\ r.groups = <<>> /\ m.groups = r.groups BY <2>3, <3>1 DEF Resting, Asked
    <3>3. Clear(c)' BY <1>12, <3>2, OnStays
    <3>4. Asking(e.nets)' BY <1>7, <3>1 DEF Asking
    <3>5. Creating(c, r, e)' BY <1>7, <2>5, <2>6, <3>1, <3>2, <3>3, <3>4 DEF Creating, Early
    <3>6. Working(c, r, e)' BY <1>7, <2>4, <2>6, <3>5 DEF Working
    <3> QED BY <1>2, <1>7, <2>2, <2>5, <3>6 DEF At
  <2>7. CASE m.op # "create"
    <3>1. r.st \in {"created", "error"} BY <2>3, <2>7 DEF Asked
    <3>2. Standing(c, r) /\ m.groups = r.groups /\ m.cid = r.cid BY <2>3, <3>1 DEF Resting, Asked
    <3>3. Standing(c, r)' BY <1>12, <3>2, StandingStays
    <3>4. Copy(r, e)' BY <1>7, <2>2, <3>2 DEF Copy
    <3>5. e.groups = r.groups BY <1>7, <3>2
    <3>6. m.op = "attach" => Attaching(c, r, e)'
      <4>1. ASSUME m.op = "attach" PROVE Attaching(c, r, e)'
        <5>1. Len(m.nets) = 1 /\ Asking(m.nets) BY <2>3, <4>1 DEF Asked
        <5>2. Asking(e.nets)' BY <1>7, <5>1 DEF Asking
        <5> QED BY <1>7, <2>5, <3>3, <3>4, <3>5, <4>1, <5>1, <5>2 DEF Attaching, Early
      <4> QED BY <4>1
    <3>7. m.op = "detach" => Detaching(c, r, e)'
      <4>1. ASSUME m.op = "detach" PROVE Detaching(c, r, e)'
        <5>1. PICK n : n = m.nets[1].net OBVIOUS
        <5>2. n \in Attached(r.addr) /\ e.left = {n} BY <1>4, <1>7, <2>3, <4>1, <5>1 DEF Asked
        <5>3. (n \in Attached(r.addr))' BY <5>2 DEF Attached
        <5> QED BY <1>7, <2>5, <3>3, <3>4, <3>5, <4>1, <5>2, <5>3 DEF Detaching
      <4> QED BY <4>1
    <3>8. m.op \in {"add_group", "remove_group"} => Regrouping(c, r, e)'
      BY <1>7, <2>3, <2>5, <3>3, <3>4 DEF Asked, Regrouping, ToSet
    <3>9. m.op = "rebuild" => Rebuilding(c, r, e)'
      <4>1. ASSUME m.op = "rebuild" PROVE Rebuilding(c, r, e)'
        <5>1. e.left = Attached(r.addr) BY <1>4, <1>7, <2>2, <4>1
        <5>2. (e.left \subseteq Attached(r.addr))' BY <5>1 DEF Attached
        <5>3. Accounts(c, r.addr)' /\ Marked(r.addr)' /\ Tagged(c, r.groups)'
          BY <3>3 DEF Standing, Sound
        <5> QED BY <1>7, <2>5, <3>3, <3>4, <4>1, <5>2, <5>3 DEF Rebuilding, Early
      <4> QED BY <4>1
    <3>10. m.op = "delete" => Deleting(c, r, e)'
      <4>1. ASSUME m.op = "delete" PROVE Deleting(c, r, e)'
        <5>1. e.left = Attached(r.addr) BY <1>4, <1>7, <2>2, <4>1
        <5>2. (e.left \subseteq Attached(r.addr))' BY <5>1 DEF Attached
        <5>3. /\ Accounts(c, r.addr)' /\ Marked(r.addr)' /\ OwnGroups(c, r.groups)' /\ r.cid
              /\ On(c, r.addr)'
          BY <3>3 DEF Standing, Sound
        <5>4. (Theirs(c) \subseteq {r.addr[n].port : n \in e.left})'
          BY <5>1, <5>3 DEF Accounts, PortsOf, Attached
        <5>5. docker'[c].exists /\ e.left \subseteq docker'[c].joined
          BY <5>1, <5>3 DEF On, Attached
        <5> QED BY <1>7, <2>5, <3>4, <4>1, <5>2, <5>3, <5>4, <5>5 DEF Deleting
      <4> QED BY <4>1
    <3>11. Working(c, r, e)'
      BY <1>7, <2>4, <2>7, <3>1, <3>6, <3>7, <3>8, <3>9, <3>10 DEF Working
    <3> QED BY <1>2, <1>7, <2>2, <2>5, <3>11 DEF At
  <2> QED BY <2>6, <2>7
<1>18. At(c, r, e)' <=> At(c, row[c], job[c])' BY <1>1, <1>9, <1>15
<1>19. Agreeing(c)' BY <1>1, <1>15, <1>16, <1>17, <1>18 DEF Agreeing
<1> QED BY <1>10, <1>11, <1>14, <1>19 DEF AInv

LEMMA CastAgrees ==
    ASSUME IInv, IInv', KeptInv, AInv, NEW c \in Containers, NEW op, NEW nets, Cast(op, c, nets),
           NEW r, row'[c] = r, \A d \in Containers : d # c => row'[d] = row[d], r.st # "none",
           NEW m, m = Message(op, c, nets),
           c \notin spoilt /\ r.host /\ ~Pending(c) => Resting(c, r) /\ Asked(r, m)
    PROVE  AInv'
<1>1. /\ c \in Threads /\ Accept(c) /\ queue' = queue \cup {m} /\ spoilt \subseteq spoilt'
      /\ Pending(c) => c \in spoilt'
      /\ UNCHANGED <<dnet, netrow, port, group, docker, job>>
  BY ContainerThread DEF Cast
<1>2. m.c = c BY DEF Message
<1>3. Devices' /\ (\A d \in Containers : Shrinks(d)) BY <1>1, SamePorts DEF AInv
<1>4. Recorded' BY <1>1 DEF AInv, Recorded
<1>5. \A d \in Containers : Quiet(d)
  <2>1. used'.ids = used.ids BY <1>1, AcceptType DEF IInv
  <2>2. \A d \in Containers : used.ids[d] \in Nat BY DEF IInv, Typed, Used
  <2> QED BY <1>1, <1>3, <2>1, <2>2 DEF Quiet
<1>6. \A d \in Containers : d # c => Apart(d) BY <1>1, <1>2, <1>5 DEF Apart
<1>7. \A d \in Containers : d # c => Agreeing(d)' BY <1>6, ApartAgrees DEF AInv
<1>8. ASSUME c \notin spoilt', r.host
      PROVE  At(c, row[c], job[c])' /\ \A o \in queue' : o.c = c => Asked(r, o)
  <2>1. c \notin spoilt /\ ~Pending(c) BY <1>1, <1>8
  <2>2. Resting(c, r) /\ Asked(r, m) /\ job[c].pc = "idle" /\ \A o \in queue : o.c # c
    BY <1>8, <2>1 DEF Pending
  <2>3. Resting(c, r)' BY <1>5, <2>2, RestingStays
  <2>4. job'[c].pc = "idle" BY <1>1, <2>2
  <2>5. At(c, row[c], job[c])' BY <2>3, <2>4 DEF At
  <2> QED BY <1>1, <2>2, <2>5
<1>9. \A o : Asked(r, o) => Asked(row[c], o)'
  <2>1. ASSUME NEW o, Asked(r, o) PROVE Asked(row'[c], o) BY <2>1
  <2>2. \A o : Asked(row'[c], o) => Asked(row[c], o)' BY DEF Asked, Asking, Attached
  <2> QED BY <2>1, <2>2
<1>10. Agreeing(c)' BY <1>8, <1>9 DEF Agreeing
<1> QED BY <1>3, <1>4, <1>7, <1>10 DEF AInv

\* A request for a user's port marks it, one for a network has nothing to mark.
LEMMA RequestAsking ==
    ASSUME NEW c \in Containers, NEW q \in build_requested_networks(c)
    PROVE  q.keep => q.port \in UserPorts
BY DEF build_requested_networks

\* Someone who has a row that is ready, and nobody at work on it, is at rest.
LEMMA ReadyAgrees ==
    ASSUME IInv, IInv', KeptInv, AInv, NEW c \in Containers, NEW op, NEW nets,
           op \in Ops \ {"create"}, Cast(op, c, nets), UNCHANGED row,
           row[c].st \in {"created", "error"},
           op = "attach" => Len(nets) = 1 /\ Asking(nets),
           op = "detach" => nets[1].net \in Attached(row[c].addr),
           op = "add_group" => UserGroup \notin ToSet(row[c].groups)
    PROVE  AInv'
<1>1. PICK r : r = row[c] OBVIOUS
<1>2. PICK m : m = Message(op, c, nets) OBVIOUS
<1>3. /\ m.op = op /\ m.nets = nets /\ m.groups = r.groups /\ m.cid = r.cid
  BY <1>1, <1>2 DEF Message
<1>4. ASSUME c \notin spoilt, r.host, ~Pending(c) PROVE Resting(c, r) /\ Asked(r, m)
  <2>1. Resting(c, r) BY <1>1, <1>4 DEF AInv, Agreeing, At, Pending
  <2>2. Asked(r, m) BY <1>1, <1>3 DEF Asked
  <2> QED BY <2>1, <2>2
<1>5. row'[c] = r /\ r.st # "none" BY <1>1
<1> QED BY <1>2, <1>4, <1>5, CastAgrees

LEMMA PostAgrees == ASSUME IInv, IInv', KeptInv, AInv, NEW c \in Containers, Post(c) PROVE AInv'
<1>1. PICK a \in build_requested_networks(c), b \in build_requested_networks(c) :
        /\ Cast("create", c, IF a = b THEN <<a>> ELSE <<a, b>>)
        /\ row' = [row EXCEPT ![c].st = "creating", ![c].host = TRUE]
  BY DEF Post
<1>2. PICK nets : nets = IF a = b THEN <<a>> ELSE <<a, b>> OBVIOUS
<1>3. Asking(nets)
  <2>1. (a.keep => a.port \in UserPorts) /\ (b.keep => b.port \in UserPorts) BY RequestAsking
  <2>2. Asking(<<a>>) BY <2>1 DEF Asking
  <2>3. Asking(<<a, b>>)
    <3>1. ASSUME NEW k \in 1..Len(<<a, b>>) PROVE <<a, b>>[k] = a \/ <<a, b>>[k] = b
      <4>1. k = 1 \/ k = 2 OBVIOUS
      <4>2. CASE k = 1 BY <4>2
      <4>3. CASE k = 2 BY <4>3
      <4> QED BY <4>1, <4>2, <4>3
    <3> QED BY <2>1, <3>1 DEF Asking
  <2> QED BY <1>2, <2>2, <2>3
<1>4. PICK o \in Row : o = row[c] BY DEF IInv, Typed
<1>5. row \in [Containers -> Row] BY DEF IInv, Typed
<1>6. PICK r : r = [o EXCEPT !.st = "creating", !.host = TRUE] OBVIOUS
<1>7. row' = [row EXCEPT ![c] = r] BY <1>1, <1>4, <1>5, <1>6
<1>8. row'[c] = r /\ \A d \in Containers : d # c => row'[d] = row[d] BY <1>5, <1>7
<1>9. r.st = "creating" /\ r.groups = o.groups /\ r.cid = o.cid BY <1>6 DEF Row
<1>10. PICK m : m = Message("create", c, nets) OBVIOUS
<1>11. /\ m.op = "create" /\ m.nets = nets /\ m.groups = r.groups /\ m.cid = r.cid
  BY <1>4, <1>9, <1>10 DEF Message
<1>12. Fresh(c, row[c]) BY DEF AInv, Agreeing, Post
<1>13. Resting(c, r) BY <1>4, <1>9, <1>12 DEF Fresh, Resting
<1>14. Asked(r, m) BY <1>3, <1>9, <1>11 DEF Asked
<1>15. Cast("create", c, nets) BY <1>1, <1>2
<1> QED BY <1>8, <1>9, <1>10, <1>13, <1>14, <1>15, CastAgrees

\* Only the row of a container without a host goes at once.
LEMMA DropAgrees ==
    ASSUME IInv, IInv', KeptInv, AInv, NEW c \in Containers, ~row[c].host,
           row' = [row EXCEPT ![c].st = "gone"],
           UNCHANGED <<dnet, netrow, port, group, docker, queue, job, spoilt, used>>
    PROVE  AInv'
<1>1. row \in [Containers -> Row] BY DEF IInv, Typed
<1>2. /\ row'[c].st = "gone" /\ row'[c].host = row[c].host
      /\ \A d \in Containers : d # c => row'[d] = row[d]
  BY <1>1 DEF Row
<1>3. Devices' /\ (\A d \in Containers : Shrinks(d)) BY SamePorts DEF AInv
<1>4. Recorded' BY DEF AInv, Recorded
<1>5. \A d \in Containers : Quiet(d)
  <2>1. \A d \in Containers : used.ids[d] \in Nat BY DEF IInv, Typed, Used
  <2> QED BY <1>3, <2>1 DEF Quiet
<1>6. \A d \in Containers : d # c => Agreeing(d)'
  <2>1. \A d \in Containers : d # c => Apart(d) BY <1>2, <1>5 DEF Apart
  <2> QED BY <2>1, ApartAgrees DEF AInv
<1>7. Agreeing(c)' BY <1>2 DEF Agreeing
<1> QED BY <1>3, <1>4, <1>6, <1>7 DEF AInv

LEMMA AdminAgrees ==
    ASSUME IInv, IInv', KeptInv, AInv, NEW n \in Nets, NetworkPost(n) \/ NetworkDelete(n)
    PROVE  AInv'
<1>1. PICK op : AdminRequest(op, n) BY DEF NetworkPost, NetworkDelete
<1>2. UNCHANGED <<port, group, docker, row, queue, spoilt>> BY <1>1 DEF AdminRequest
<1>3. \A d \in Containers : job'[d] = job[d]
  <2>1. Admin \notin Containers BY NetworksAssumption
  <2> QED BY <1>1, <2>1 DEF AdminRequest, IInv, Typed, Threads
<1>4. Devices' /\ (\A d \in Containers : Shrinks(d)) BY <1>2, SamePorts DEF AInv
<1>5. Recorded' BY <1>2 DEF AInv, Recorded
<1>6. \A d \in Containers : Quiet(d)
  <2>1. used'.ids = used.ids
    <3>1. Admin \in Threads BY DEF Threads
    <3> QED BY <1>1, <3>1, AcceptType DEF AdminRequest, IInv
  <2>2. \A d \in Containers : used.ids[d] \in Nat BY DEF IInv, Typed, Used
  <2> QED BY <1>2, <1>4, <2>1, <2>2 DEF Quiet
<1>7. \A d \in Containers : Apart(d) BY <1>2, <1>3, <1>6 DEF Apart
<1> QED BY <1>4, <1>5, <1>7, ApartAgrees DEF AInv

LEMMA ApiAgrees == ASSUME IInv, IInv', KeptInv, AInv, ApiStep PROVE AInv'
<1>1. ASSUME NEW c \in Containers, NetworkAttach(c) PROVE AInv'
  <2>1. PICK q \in build_requested_networks(c) : Cast("attach", c, <<q>>) BY <1>1 DEF NetworkAttach
  <2>2. PICK nets : nets = <<q>> OBVIOUS
  <2>3. Len(nets) = 1 /\ Asking(nets) BY <2>2, RequestAsking DEF Asking
  <2>4. Cast("attach", c, nets) /\ UNCHANGED row /\ row[c].st \in {"created", "error"}
    BY <1>1, <2>1, <2>2 DEF NetworkAttach
  <2> QED BY <2>3, <2>4, ReadyAgrees DEF Ops
<1>2. ASSUME NEW c \in Containers, NetworkDetach(c) PROVE AInv'
  <2>1. PICK n \in Attached(row[c].addr) :
          Cast("detach", c, <<[net |-> n, port |-> row[c].addr[n].port, keep |-> FALSE]>>)
    BY <1>2 DEF NetworkDetach
  <2>2. PICK nets : nets = <<[net |-> n, port |-> row[c].addr[n].port, keep |-> FALSE]>> OBVIOUS
  <2>3. nets[1].net = n BY <2>2
  <2>4. Cast("detach", c, nets) /\ UNCHANGED row /\ row[c].st \in {"created", "error"}
    BY <1>2, <2>1, <2>2 DEF NetworkDetach
  <2>5. nets[1].net \in Attached(row[c].addr) BY <2>3
  <2> QED BY <2>4, <2>5, ReadyAgrees DEF Ops
<1>3. ASSUME NEW c \in Containers, AddSecurityGroup(c) PROVE AInv'
  <2>1. /\ row[c].st \in {"created", "error"} /\ ~Contains(row[c].groups, UserGroup)
        /\ Cast("add_group", c, <<>>) /\ UNCHANGED row
    BY <1>3 DEF AddSecurityGroup
  <2>2. UserGroup \notin ToSet(row[c].groups)
    <3>1. PICK gs \in Groups : gs = row[c].groups BY DEF IInv, Typed, Row
    <3>2. UserGroup \notin ToSet(gs) BY <2>1, <3>1 DEF Contains, ToSet, Groups
    <3> QED BY <3>1, <3>2
  <2> QED BY <2>1, <2>2, ReadyAgrees DEF Ops
<1>4. ASSUME NEW c \in Containers, RemoveSecurityGroup(c) \/ Rebuild(c) PROVE AInv'
  <2>1. /\ row[c].st \in {"created", "error"} /\ UNCHANGED row
        /\ Cast("remove_group", c, <<>>) \/ Cast("rebuild", c, <<>>)
    BY <1>4 DEF RemoveSecurityGroup, Rebuild
  <2> QED BY <2>1, ReadyAgrees DEF Ops
<1>5. ASSUME NEW c \in Containers, Delete(c) PROVE AInv'
  <2>1. CASE row[c].host
    <3>1. row[c].st \in {"created", "error"} /\ UNCHANGED row /\ Cast("delete", c, <<>>)
      BY <1>5, <2>1 DEF Delete
    <3> QED BY <3>1, ReadyAgrees DEF Ops
  <2>2. CASE ~row[c].host BY <1>5, <2>2, DropAgrees DEF Delete
  <2> QED BY <2>1, <2>2
<1> QED BY <1>1, <1>2, <1>3, <1>4, <1>5, PostAgrees, AdminAgrees DEF ApiStep

-----------------------------------------------------------------------------
(* The whole                                                                *)

LEMMA CrashAgrees == ASSUME IInv, IInv', KeptInv, AInv, Crash PROVE AInv'
<1>1. /\ Fault("crash") /\ job' = [t \in Threads |-> NoJob] /\ spoilt' = spoilt \cup Busy
      /\ queue' = queue \cup {Message("delete", c, <<>>) :
                                c \in {d \in Busy : job[d].op = "delete"}}
      /\ UNCHANGED <<dnet, netrow, port, group, docker>>
  BY DEF Crash
<1>2. Devices' /\ (\A d \in Containers : Shrinks(d)) BY <1>1, SamePorts DEF AInv
<1>3. Recorded' BY <1>1 DEF AInv, Recorded
<1>4. \A d \in Containers : Quiet(d)
  <2>1. \A d \in Containers : used.ids[d] \in Nat /\ used'.ids[d] \in Nat
    BY DEF IInv, Typed, Used
  <2>2. \A d \in Containers : used.ids[d] <= used'.ids[d] BY <1>1, IdsSame
  <2> QED BY <1>1, <1>2, <2>1, <2>2 DEF Quiet
<1>5. ASSUME NEW c \in Containers PROVE Agreeing(c)'
  <2>1. job'[c].pc = "idle" BY <1>1, ContainerThread, NoJobType
  <2>2. PICK o \in Row : o = row[c] BY DEF IInv, Typed
  <2>3. CASE c \in Busy
    <3>1. o.st # "none" BY <2>2, <2>3, NotNone DEF Busy
    <3>2. row'[c] = o \/ row'[c] = [o EXCEPT !.st = "error"] BY <2>2 DEF Crash
    <3>3. [o EXCEPT !.st = "error"].st = "error" BY DEF Row
    <3>4. row'[c].st # "none" /\ c \in spoilt' BY <1>1, <2>3, <3>1, <3>2, <3>3
    <3> QED BY <3>4 DEF Agreeing
  <2>4. CASE c \notin Busy
    <3>1. row'[c] = o /\ job[c].pc = "idle" BY <2>2, <2>4 DEF Crash, Busy
    <3>2. ASSUME NEW m \in queue', m.c = c PROVE m \in queue
      <4>1. ASSUME NEW d \in Busy, m = Message("delete", d, <<>>) PROVE FALSE
        <5>1. m.c = d BY <4>1 DEF Message
        <5> QED BY <2>4, <3>2, <5>1
      <4> QED BY <1>1, <4>1
    <3>3. Agreeing(c) /\ Quiet(c) BY <1>4 DEF AInv
    <3>4. ASSUME o.st = "none" PROVE Fresh(c, row[c])'
      <4>1. Fresh(c, o) BY <2>2, <3>3, <3>4 DEF Agreeing
      <4>2. Clear(c)' BY <3>3, <4>1, OnStays DEF Fresh
      <4>3. ~Pending(c)' BY <2>1, <3>2, <4>1 DEF Fresh, Pending
      <4> QED BY <3>1, <4>1, <4>2, <4>3 DEF Fresh
    <3>5. ASSUME c \notin spoilt', o.host
          PROVE  At(c, row[c], job[c])' /\ \A m \in queue' : m.c = c => Asked(o, m)
      <4>1. At(c, o, job[c]) /\ \A m \in queue : m.c = c => Asked(o, m)
        BY <1>1, <2>2, <3>3, <3>5 DEF Agreeing
      <4>2. Resting(c, o) BY <3>1, <4>1 DEF At
      <4>3. Resting(c, o)' BY <3>3, <4>2, RestingStays
      <4>4. At(c, row[c], job[c])' BY <2>1, <3>1, <4>3 DEF At
      <4> QED BY <3>2, <4>1, <4>4
    <3>6. \A m : Asked(o, m) => Asked(row[c], m)'
      <4>1. \A m : Asked(o, m) => Asked(row'[c], m) BY <3>1
      <4>2. \A m : Asked(row'[c], m) => Asked(row[c], m)' BY DEF Asked, Asking, Attached
      <4> QED BY <4>1, <4>2
    <3> QED BY <3>1, <3>4, <3>5, <3>6 DEF Agreeing
  <2> QED BY <2>3, <2>4
<1> QED BY <1>2, <1>3, <1>5 DEF AInv

LEMMA InitAgrees == ASSUME Init PROVE AInv
<1>1. /\ queue = {} /\ job = [t \in Threads |-> NoJob] /\ group = [c \in Containers |-> {}]
      /\ port = [p \in Ports |-> [exists |-> p \in UserPorts, device |-> "none",
                                  maker |-> "none", groups |-> {}]]
      /\ docker = [c \in Containers |-> [exists |-> FALSE, joined |-> {}]]
      /\ row = [c \in Containers |-> [st |-> "none", addr |-> NoAddresses,
                  groups |-> <<>>, host |-> FALSE, cid |-> FALSE]]
  BY DEF Init
<1>2. Recorded BY <1>1 DEF Recorded
<1>3. Devices BY <1>1 DEF Devices
<1>4. ASSUME NEW c \in Containers PROVE Agreeing(c)
  <2>1. job[c].pc = "idle" BY <1>1, ContainerThread, NoJobType
  <2>2. Theirs(c) = {}
    <3>1. c # "none" BY NetworksAssumption
    <3> QED BY <1>1, <3>1 DEF Theirs
  <2>3. row[c].st = "none" /\ ~row[c].host /\ row[c].groups = <<>> BY <1>1
  <2>4. Fresh(c, row[c]) BY <1>1, <2>1, <2>2, <2>3 DEF Fresh, Clear, Pending
  <2> QED BY <2>3, <2>4 DEF Agreeing
<1> QED BY <1>2, <1>3, <1>4 DEF AInv

LEMMA StepAgrees == ASSUME IInv, IInv', KeptInv, AInv, [Next]_vars PROVE AInv'
<1>1. CASE UNCHANGED vars
  <2>1. UNCHANGED <<port, group, docker, row, queue, job, spoilt, used>> BY <1>1 DEF vars
  <2>2. Devices' /\ (\A d \in Containers : Shrinks(d)) BY <2>1, SamePorts DEF AInv
  <2>3. Recorded' BY <2>1 DEF AInv, Recorded
  <2>4. \A d \in Containers : used.ids[d] \in Nat BY DEF IInv, Typed, Used
  <2>5. \A d \in Containers : Apart(d) BY <2>1, <2>2, <2>4 DEF Apart, Quiet
  <2> QED BY <2>2, <2>3, <2>5, ApartAgrees DEF AInv
<1>2. ASSUME NEW t \in Threads, ThreadStep(t) PROVE AInv'
  BY <1>2, NetworkAgrees, TakeAgrees, PlugAgrees, UnplugAgrees DEF ThreadStep
<1> QED BY <1>1, <1>2, ApiAgrees, CrashAgrees DEF Next

\* What stands in the row of a container at rest is what Neutron has.
LEMMA AgreesWithRow == ASSUME IInv, AInv PROVE NeutronAgrees
<1>1. ASSUME NEW c \in Containers, Settled(c)
      PROVE  /\ row[c].st = "gone" => Clear(c)
             /\ row[c].st # "gone" => /\ Theirs(c) \subseteq PortsOf(row[c].addr)
                                      /\ group[c] \subseteq ToSet(row[c].groups)
             /\ row[c].st = "created" => Tagged(c, row[c].groups)
  <2>1. PICK r : r = row[c] OBVIOUS
  <2>2. r.host /\ c \notin spoilt /\ job[c].pc = "idle" BY <1>1, <2>1 DEF Settled, Pending
  <2>3. Agreeing(c) BY DEF AInv
  <2>4. Resting(c, r) /\ r.st # "none" BY <2>1, <2>2, <2>3 DEF Agreeing, At, Fresh
  <2>5. CASE r.st \in {"gone", "creating"} BY <2>1, <2>4, <2>5 DEF Resting, Clear
  <2>6. CASE r.st \in {"created", "error"}
    <3>1. OwnGroups(c, r.groups) /\ Tagged(c, r.groups) /\ Accounts(c, r.addr)
      BY <2>4, <2>6 DEF Resting, Standing, Sound
    <3>2. group[c] \subseteq ToSet(r.groups)
      <4>1. CASE c \in Exposed BY <3>1, <4>1, OwnFirst
      <4>2. CASE c \notin Exposed BY <3>1, <4>2 DEF OwnGroups
      <4> QED BY <4>1, <4>2
    <3> QED BY <2>1, <2>6, <3>1, <3>2 DEF Accounts
  <2>7. r.st \in {"none", "creating", "created", "error", "gone"} BY <2>1 DEF IInv, Typed, Row
  <2> QED BY <2>4, <2>5, <2>6, <2>7
<1> QED BY <1>1 DEF NeutronAgrees, Accounted, GroupsAgree, Clear, Tagged

\* Where a container stands: at every step of an operation what Neutron, Docker
\* and the row have of it agrees but for what that step is about, and a rebuild
\* that removed the group of its exposed ports can only fail.
THEOREM ContainersAgree == Spec => []AInv
<1>1. Init => AInv BY InitAgrees
<1>2. IInv /\ KeptInv /\ AInv /\ [Next]_vars /\ IInv' => AInv' BY StepAgrees
<1>3. Spec => [](IInv /\ KeptInv) BY MakersAlone, AddressesAccounted, PTL DEF IInv
<1> QED BY <1>1, <1>2, <1>3, PTL DEF Spec

\* What Neutron has for a container and what its row says agree whenever no one
\* works on it: ports and groups do not leak when an attach fails, survive a
\* rebuild, are given back with the row, and the ports Zun made have the groups
\* the row names (create_or_update_port, do_port_cleanup,
\* delete_or_unbind_ports, add_security_groups_to_ports, _cleanup_exposed_ports).
THEOREM NothingLeaks == Spec => []NeutronAgrees
<1>1. IInv /\ AInv => NeutronAgrees BY AgreesWithRow
<1>2. Spec => []IInv BY MakersAlone, PTL DEF IInv
<1> QED BY <1>1, <1>2, ContainersAgree, PTL
=============================================================================
