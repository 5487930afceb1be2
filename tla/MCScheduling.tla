---------------------------- MODULE MCScheduling ----------------------------
(***************************************************************************)
(* Three requests of one project on two hosts: the first names a host that *)
(* is no node; the others are too large for the cores of one host, though  *)
(* not for its inventory, and the last names a host and asks for a zone.    *)
(***************************************************************************)
EXTENDS Scheduling, TLC

CONSTANTS c1, c2, c3, h1, h2, h3

MCContainers == {c1, c2, c3}
MCHosts == {h1, h2}
MCCpu == (c1 :> 1) @@ (c2 :> 3) @@ (c3 :> 3)
MCCpus == (h1 :> 2) @@ (h2 :> 2)
MCAsks == [c \in Containers |-> [zone |-> IF c = c3 THEN "a" ELSE "", runtime |-> "", label |-> ""]]
MCHas == [h \in Hosts |-> [zone |-> IF h = h1 THEN "a" ELSE "b", runtimes |-> {"runc"}, labels |-> {}]]
MCWanted == (c1 :> {h3}) @@ (c2 :> {NoHost}) @@ (c3 :> {h1})
MCRemovable == {c2}
MCConfLimit == [r \in Resources |-> IF r = "containers" THEN 1 ELSE 6]
=============================================================================
