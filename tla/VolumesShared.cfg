SPECIFICATION Spec
CONSTANTS
  web = web
  pod = pod
  left = left
  right = right
  here = here
  shared = shared
  disk = disk
  Owners = {web, pod}
  Capsules = {pod}
  Containers <- AllContainers
  OwnerOf <- AllOwnerOf
  Rows <- SharedRows
  Volumes = {shared, disk}
  VolumeOf <- SharedVolumeOf
  Mounts <- SharedMounts
  AutoRemove <- PodRows
  Multiattach = {shared}
  Hosts = {here}
  HostOf <- OneHost
  Faults = {"schedule", "cinder", "device", "build"}
CHECK_DEADLOCK FALSE
INVARIANT MountedIsConnected
PROPERTY DeleteReleases
