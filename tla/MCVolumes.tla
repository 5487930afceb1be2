------------------------------ MODULE MCVolumes ------------------------------
(***************************************************************************)
(* Instances of Volumes: who mounts which volume.                          *)
(***************************************************************************)
EXTENDS Volumes

CONSTANTS web, pod, left, right, here, shared, disk

\* web is a container; left and right are the containers of the capsule pod.
AllContainers == {web, left, right}

AllOwnerOf == [c \in AllContainers |-> IF c \in {left, right} THEN pod ELSE c]

OneHost == [o \in Owners |-> here]

\* The pod asks for a new volume, which its two containers share and which web
\* mounts too, by its name; web has a second volume of its own.
SharedRows == {<<web, 1>>, <<web, 2>>, <<pod, 1>>}

SharedVolumeOf == [r \in SharedRows |-> IF r[2] = 2 THEN disk ELSE shared]

SharedMounts == {<<web, <<web, 1>>>>, <<web, <<web, 2>>>>,
                 <<left, <<pod, 1>>>>, <<right, <<pod, 1>>>>}

PodRows == {<<pod, 1>>}

=============================================================================
