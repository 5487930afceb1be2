---------------------------- MODULE MCPciDevices ----------------------------
(* One network card: a PF with two VFs, on one physical network.           *)
EXTENDS PciDevices, TLC

CONSTANTS p, v1, v2, net, c1, c2

MCAddresses == <<p, v1, v2>>
MCParent    == (v1 :> p) @@ (v2 :> p)

Direct   == [vnic |-> "direct", net |-> net]
Physical == [vnic |-> "direct-physical", net |-> net]
Normal   == [vnic |-> "normal", net |-> net]

MCAsks == {<<Direct, Normal>>, <<Physical>>, <<Direct, Direct>>, <<Direct, Physical>>}

(* The whole card by the address of its PF, or the VFs only.               *)
Card    == [ids |-> {p, v1, v2}, addrs |-> {p}, pf |-> TRUE, net |-> net]
VfsOnly == [ids |-> {v1, v2}, addrs |-> {p, v1, v2}, pf |-> FALSE, net |-> net]

MCWhitelists == {<<Card>>, <<VfsOnly>>}

Symmetric == Permutations(Containers)
=============================================================================
