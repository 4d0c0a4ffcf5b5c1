----------------------------- MODULE SandboxDocker -----------------------------
(***************************************************************************)
(* The Docker daemon and the work directory of the sandbox VM, as the      *)
(* calls of SubprocessDockerRunner (app/sandbox_probe/docker.py) and       *)
(* checkout (app/sandbox_probe/checkout.py) change them.  Everything a job *)
(* creates is named after, and labelled with, its key: the last 40         *)
(* characters of the sanitized reviewJobId.                                *)
(***************************************************************************)
CONSTANTS Keys

VARIABLES
  containers,  \* pairs << key, kind >> of the containers that exist
  networks,    \* pairs << key, kind >> of the networks that exist
  dirs         \* keys with a clone under the work directory

dockerVars == << containers, networks, dirs >>

ContainerKinds == {"proxy", "install", "build", "init", "mock", "sidecar", "app"}
NetworkKinds == {"internal", "egress"}

DockerTypeOK ==
  /\ containers \subseteq Keys \X ContainerKinds
  /\ networks \subseteq Keys \X NetworkKinds
  /\ dirs \subseteq Keys

DockerInit == containers = {} /\ networks = {} /\ dirs = {}

\* git refuses a second remote in a directory that already is a clone.
CanCheckout(k) == k \notin dirs
Checkout(k) == dirs' = dirs \cup {k} /\ UNCHANGED << containers, networks >>

\* Network and container names are unique.
CanCreateNetwork(k, kind) == << k, kind >> \notin networks
CreateNetwork(k, kind) ==
  /\ networks' = networks \cup {<< k, kind >>}
  /\ UNCHANGED << containers, dirs >>

\* The networks a container joins, and the containers that mount the clone.
NetworksOf(kind) == IF kind = "proxy" THEN NetworkKinds ELSE {"internal"}
Mounted == {"install", "build", "init", "app"}

CanCreate(k, kind) ==
  /\ << k, kind >> \notin containers
  /\ \A n \in NetworksOf(kind) : << k, n >> \in networks
  /\ kind \in Mounted => k \in dirs

Create(k, kind) ==
  /\ containers' = containers \cup {<< k, kind >>}
  /\ UNCHANGED << networks, dirs >>

\* `docker rm -fv`, and the end of a `docker run --rm`.
Remove(k, kind) ==
  /\ containers' = containers \ {<< k, kind >>}
  /\ UNCHANGED << networks, dirs >>

\* cleanup_job: containers, then networks nothing is attached to any more.
RemoveContainers(k) ==
  /\ containers' = {c \in containers : c[1] # k}
  /\ UNCHANGED << networks, dirs >>

Attached(n) == \E c \in containers : c[1] = n[1] /\ n[2] \in NetworksOf(c[2])

RemoveNetworks(k) ==
  /\ networks' = {n \in networks : n[1] # k \/ Attached(n)}
  /\ UNCHANGED << containers, dirs >>

RemoveDir(k) == dirs' = dirs \ {k} /\ UNCHANGED << containers, networks >>

\* reap_orphans: everything with the label, whatever its job.
ReapOrphans == containers' = {} /\ networks' = {} /\ UNCHANGED dirs
=============================================================================
