----------------------------- MODULE MCCapsules -----------------------------
(***************************************************************************)
(* A capsule and a container that share the CNI daemon of one host.        *)
(***************************************************************************)
EXTENDS Capsules

CONSTANTS k, b

Container(cpu) == [image |-> TRUE, cpu |-> cpu]

Volume(mounted) == [name |-> TRUE, cinder |-> TRUE, volumeID |-> FALSE,
                    size |-> TRUE, mounted |-> mounted]

Plain == [kind |-> "capsule", containers |-> <<Container(1), Container(2)>>,
          initContainers |-> <<Container(2)>>, volumes |-> <<>>]

WithVolume(mounted) == [kind |-> "Capsule", containers |-> <<Container(1)>>,
                        initContainers |-> <<>>,
                        volumes |-> <<Volume(mounted)>>]

\* The last three are refused.
MCTemplates ==
    {Plain, WithVolume(TRUE), WithVolume(FALSE),
     [Plain EXCEPT !.kind = "pod"], [Plain EXCEPT !.containers = <<>>],
     [Plain EXCEPT !.volumes = <<[Volume(TRUE) EXCEPT !.volumeID = TRUE]>>]}
=============================================================================
