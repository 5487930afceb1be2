----------------------------- MODULE CniDaemon ------------------------------
(***************************************************************************)
(* zun-cni-daemon: the registry of plugged containers that its server      *)
(* processes (CNI ADD and DEL) share with the watcher (deleted rows, ports *)
(* that became active), and the zun-cni client, which gives a call up      *)
(* after 30 s while the daemon goes on with it.                            *)
(*                                                                         *)
(* Who sends ADD and DEL, and when rows and namespaces come and go, is     *)
(* module Capsules.  Every container has one interface, DEFAULT_IFNAME,    *)
(* so a port is named by its container.                                    *)
(***************************************************************************)
EXTENDS Naturals, FiniteSets

CONSTANTS
    Uuids,      \* the capsules and containers that use CNI on this host
    MaxNs,      \* bound: network namespaces (starts) of one container
    MaxCid,     \* bound: runtime ids (creations) of one container
    MaxLate     \* bound: calls the client gives up

VARIABLES
    rows,       \* the database's rows
    netns,      \* the namespace of the running container, 0 if none
    registry,   \* the dictionary that the multiprocessing manager holds
    wired,      \* the namespace the host's interface is plugged into
    port,       \* Neutron's status of the port
    calls,      \* the requests that server processes are working on
    answer,     \* what the client of a container heard last
    watcher,    \* the one thread of CNIDaemonWatcherService
    late        \* the commands given up, with their containers

cniVars == <<rows, netns, registry, wired, port, calls, answer, watcher, late>>

-----------------------------------------------------------------------------
(* Records *)

NoEntry == [cid |-> 0, vif_unplugged |-> FALSE, del_received |-> FALSE,
            active |-> FALSE]

Entries == [cid : 0..MaxCid, vif_unplugged : BOOLEAN, del_received : BOOLEAN,
            active : BOOLEAN]

\* CNIParameters, the process's place, and whether its client still waits.
Calls == [u : Uuids, cmd : {"ADD", "DEL"}, cid : 1..MaxCid, ns : 1..MaxNs,
          pc : {"check", "work", "save", "wait", "finish"},
          active : BOOLEAN, heard : BOOLEAN]

\* container.cni_metadata holds the VIF as it was when the port was made.
Vifs == {"none", "down", "active"}

CniIdle == [pc |-> "idle", db |-> {}, todo |-> {}, act |-> {}]

Watchers == [pc : {"idle", "keys", "deleted", "ports", "mark"},
             db : SUBSET Uuids, todo : SUBSET Uuids, act : SUBSET Uuids]

CniInit ==
    /\ calls = {}
    /\ answer = [u \in Uuids |-> "none"]
    /\ watcher = CniIdle
    /\ late = {}

-----------------------------------------------------------------------------
(* The client *)

_make_request(u, cmd, cid, ns) ==
    /\ calls' = calls \cup
           {[u |-> u, cmd |-> cmd, cid |-> cid, ns |-> ns,
             pc |-> IF cmd = "ADD" THEN "work" ELSE "check",
             active |-> FALSE, heard |-> TRUE]}
    /\ answer' = [answer EXCEPT ![u] = "none"]

\* The request's timeout: run writes the exception and exits with 1.
GiveUp(u) ==
    /\ Cardinality(late) < MaxLate
    /\ \E c \in calls :
          /\ c.u = u /\ c.heard
          /\ calls' = (calls \ {c}) \cup {[c EXCEPT !.heard = FALSE]}
          /\ late' = late \cup {<<u, c.cmd>>}
    /\ answer' = [answer EXCEPT ![u] = "failed"]
    /\ UNCHANGED <<rows, netns, registry, wired, port, watcher>>

-----------------------------------------------------------------------------
(* The server *)

Advance(c, d) ==
    /\ calls' = (calls \ {c}) \cup {d}
    /\ UNCHANGED answer

\* The HTTP answer; the client takes any other status than its own as failure.
Respond(c, a) ==
    /\ calls' = calls \ {c}
    /\ answer' = IF c.heard THEN [answer EXCEPT ![c.u] = a] ELSE answer

get_vifs(u) == IF rows[u].vif = "none" THEN {} ELSE {u}

\* A leftover interface of the host is removed and a new pair is plugged.
\* The namespace has to be there.
connect(c) == [wired EXCEPT ![c.u] = c.ns]

CanConnect(c) == netns[c.u] = c.ns

\* The interface is found by the port's name: whose namespace it is in
\* does not matter.
disconnect(c) ==
    /\ wired' = [wired EXCEPT ![c.u] = 0]
    /\ port' = [port EXCEPT ![c.u] = IF @ = "active" THEN "down" ELSE @]

AddWork(c) ==
    /\ c.cmd = "ADD" /\ c.pc = "work"
    /\ \/ /\ rows[c.u].exists /\ get_vifs(c.u) # {} /\ CanConnect(c)
          /\ wired' = connect(c)
          /\ Advance(c, [c EXCEPT !.pc = "save",
                                  !.active = rows[c.u].vif = "active"])
       \/ /\ ~(rows[c.u].exists /\ get_vifs(c.u) # {} /\ CanConnect(c))
          /\ Respond(c, "failed")
          /\ UNCHANGED wired
    /\ UNCHANGED <<rows, netns, registry, port, watcher, late>>

\* Mutant: the entry that is there is updated instead of replaced.
AddSave_Updates(c) ==
    /\ c.cmd = "ADD" /\ c.pc = "save"
    /\ registry' = [registry EXCEPT ![c.u].cid = c.cid,
                                    ![c.u].active = c.active]
    /\ Advance(c, [c EXCEPT !.pc = "wait"])
    /\ UNCHANGED <<rows, netns, wired, port, watcher, late>>

\* Under the lock of the uuid: the entry is replaced as a whole.
AddSave(c) ==
    /\ c.cmd = "ADD" /\ c.pc = "save"
    /\ registry' = [registry EXCEPT ![c.u] =
           [NoEntry EXCEPT !.cid = c.cid, !.active = c.active]]
    /\ Advance(c, [c EXCEPT !.pc = "wait"])
    /\ UNCHANGED <<rows, netns, wired, port, watcher, late>>

\* wait_for_active looks once per second; a missing entry is a KeyError.
AddWait(c) ==
    /\ c.cmd = "ADD" /\ c.pc = "wait"
    /\ Respond(c, IF registry[c.u].cid # 0 /\ registry[c.u].active
                  THEN "ok" ELSE "failed")
    /\ UNCHANGED <<rows, netns, registry, wired, port, watcher, late>>

\* The container id is read without the lock.
DelCheck(c) ==
    /\ c.cmd = "DEL" /\ c.pc = "check"
    /\ IF registry[c.u].cid \notin {0, c.cid}
       THEN Respond(c, "ok")
       ELSE Advance(c, [c EXCEPT !.pc = "work"])
    /\ UNCHANGED <<rows, netns, registry, wired, port, watcher, late>>

\* Without the row nothing is unplugged, and that is no error.
DelWork(c) ==
    /\ c.cmd = "DEL" /\ c.pc = "work"
    /\ IF rows[c.u].exists /\ get_vifs(c.u) # {}
       THEN disconnect(c)
       ELSE UNCHANGED <<wired, port>>
    /\ Advance(c, [c EXCEPT !.pc = "finish"])
    /\ UNCHANGED <<rows, netns, registry, watcher, late>>

DelFinish(c) ==
    /\ c.cmd = "DEL" /\ c.pc = "finish"
    /\ registry' = [registry EXCEPT ![c.u] =
           IF @.cid = 0 \/ @.del_received
           THEN NoEntry
           ELSE [@ EXCEPT !.vif_unplugged = TRUE]]
    /\ Respond(c, "ok")
    /\ UNCHANGED <<rows, netns, wired, port, watcher, late>>

-----------------------------------------------------------------------------
(* The watcher *)

\* sync_containers reads the rows of this host, then the keys.
SyncList ==
    /\ watcher.pc = "idle"
    /\ watcher' = [CniIdle EXCEPT
           !.pc = "keys",
           !.db = {u \in Uuids : rows[u].exists /\ rows[u].host}]
    /\ UNCHANGED <<rows, netns, registry, wired, port, calls, answer, late>>

SyncKeys ==
    /\ watcher.pc = "keys"
    /\ LET gone == {u \in Uuids : registry[u].cid # 0} \ watcher.db
       IN  watcher' = IF gone = {}
                      THEN CniIdle
                      ELSE [CniIdle EXCEPT !.pc = "deleted", !.todo = gone]
    /\ UNCHANGED <<rows, netns, registry, wired, port, calls, answer, late>>

Done(u) ==
    watcher' = IF watcher.todo = {u}
               THEN CniIdle
               ELSE [watcher EXCEPT !.todo = @ \ {u}]

_on_container_deleted(u) ==
    /\ watcher.pc = "deleted" /\ u \in watcher.todo
    /\ registry' = [registry EXCEPT ![u] =
           IF @.cid = 0 \/ @.vif_unplugged
           THEN NoEntry
           ELSE [@ EXCEPT !.del_received = TRUE]]
    /\ Done(u)
    /\ UNCHANGED <<rows, netns, wired, port, calls, answer, late>>

\* poll_vif_status: a copy of the registry ...
PollCopy ==
    LET keys == {u \in Uuids : registry[u].cid # 0}
        inactive == {u \in keys : ~registry[u].active}
    IN  /\ watcher.pc = "idle" /\ inactive # {}
        /\ watcher' = [CniIdle EXCEPT !.pc = "ports", !.todo = keys,
                                      !.act = inactive]
        /\ UNCHANGED <<rows, netns, registry, wired, port, calls, answer,
                       late>>

\* ... and of the active ports among them ...
PollPorts ==
    LET active == {u \in watcher.act : port[u] = "active"}
    IN  /\ watcher.pc = "ports"
        /\ watcher' = IF active = {}
                      THEN CniIdle
                      ELSE [watcher EXCEPT !.pc = "mark", !.act = active]
        /\ UNCHANGED <<rows, netns, registry, wired, port, calls, answer,
                       late>>

\* ... with which every container of the copy is marked: the port only says
\* which interface, and all have the same.
_update_vif_status(u) ==
    /\ watcher.pc = "mark" /\ u \in watcher.todo
    /\ registry' = [registry EXCEPT ![u] =
           IF @.cid = 0 THEN @ ELSE [@ EXCEPT !.active = TRUE]]
    /\ Done(u)
    /\ UNCHANGED <<rows, netns, wired, port, calls, answer, late>>

-----------------------------------------------------------------------------
\* The agent of Neutron sees the plugged interface.
PortUp(u) ==
    /\ wired[u] # 0 /\ port[u] = "down"
    /\ port' = [port EXCEPT ![u] = "active"]
    /\ UNCHANGED <<rows, netns, registry, wired, calls, answer, watcher, late>>

CniStep ==
    \/ \E c \in calls : \/ AddWork(c) \/ AddSave(c) \/ AddWait(c)
                        \/ DelCheck(c) \/ DelWork(c) \/ DelFinish(c)
    \/ \E u \in Uuids : \/ GiveUp(u) \/ PortUp(u)
                        \/ _on_container_deleted(u) \/ _update_vif_status(u)
    \/ SyncList \/ SyncKeys \/ PollCopy \/ PollPorts

CniTypeOK ==
    /\ netns \in [Uuids -> 0..MaxNs]
    /\ registry \in [Uuids -> Entries]
    /\ wired \in [Uuids -> 0..MaxNs]
    /\ port \in [Uuids -> {"none", "down", "active"}]
    /\ calls \subseteq Calls
    /\ answer \in [Uuids -> {"none", "ok", "failed"}]
    /\ watcher \in Watchers
    /\ late \subseteq Uuids \X {"ADD", "DEL"}

=============================================================================
