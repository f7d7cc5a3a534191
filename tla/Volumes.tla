------------------------------ MODULE Volumes ------------------------------
(***************************************************************************)
(* Volumes: who owns them, who mounts them, and the storage quota of a     *)
(* service's plan. The volume requests check first and write later, without*)
(* a lock, and write the row as they read it; start and stop lock the      *)
(* service, and a worker collects the volumes when it deploys.             *)
(***************************************************************************)
EXTENDS Naturals, FiniteSets

CONSTANTS
    Owner,        \* the services, all of one user
    NoOwner,      \* an orphan volume's owner
    Volume,       \* the rows that may exist
    Sizes,        \* size_mb, in units
    Quota,        \* the plan's max_storage, in the same units
    Pathless,     \* the volumes created without a default_bind
    MaxRequests   \* bound on the requests in flight; no two of them are the same

ASSUME VolumesAssumption ==
    /\ NoOwner \notin Owner /\ Sizes \subseteq Nat \ {0} /\ Quota \in Nat
    /\ Sizes # {} /\ Volume # {}
    /\ Pathless \subseteq Volume /\ MaxRequests \in Nat
    /\ IsFiniteSet(Owner) /\ IsFiniteSet(Volume)

VARIABLES
    volume,       \* the rows, and whether Docker has the volume
    owner,        \* the services: their status, container and worker
    requests,     \* the volume requests, between their checks and their write
    disturbed     \* whether requests have overlapped, the staff have changed the volume
                  \* of a service in use, or two allocations of one service have met;
                  \* bound: no request comes after that

volumesVars == <<volume, owner, requests, disturbed>>

\* attached: service_attachments has the owner's key.
VolumeRow == [exists : BOOLEAN, owner : Owner \cup {NoOwner}, size : Sizes,
              attached : BOOLEAN, docker : BOOLEAN]

\* binds: what the container mounts; specs: what the worker has collected.
OwnerRow == [status : {"idle", "queued", "deploying", "running", "stopping", "deleted"},
             box : BOOLEAN, binds : SUBSET Volume,
             working : BOOLEAN, specs : SUBSET Volume]

VolumeOp == {"create", "resize", "attach", "detach", "release", "destroy", "purge", "delete"}

VolumeRequest == [op : VolumeOp, vol : Volume, to : Owner \cup {NoOwner}, row : VolumeRow]

VolumesTypeOK ==
    /\ volume \in [Volume -> VolumeRow] /\ owner \in [Owner -> OwnerRow]
    /\ requests \subseteq VolumeRequest
    /\ disturbed \subseteq {"overlap", "staff", "quota"}

NoVolume == [exists |-> FALSE, owner |-> NoOwner, size |-> CHOOSE n \in Sizes : TRUE,
             attached |-> FALSE, docker |-> FALSE]

VolumesInit ==
    /\ volume = [v \in Volume |-> NoVolume]
    /\ owner = [s \in Owner |-> [status |-> "idle", box |-> FALSE, binds |-> {},
                                 working |-> FALSE, specs |-> {}]]
    /\ requests = {}
    /\ disturbed = {}

-----------------------------------------------------------------------------

Owned(s) == {v \in Volume : volume[v].exists /\ volume[v].owner = s}

\* The sum of their sizes, unit by unit.
Space(vs) == Cardinality(UNION {{v} \X (1 .. volume[v].size) : v \in vs})

Used(s) == Space(Owned(s))

\* Mutant: soft-detached volumes do not count.
UsedAttached(s, v) == Space({u \in Owned(s) \ {v} : volume[u].attached})

\* get_used_storage_mb without v: owned volumes count, attached or not.
UsedWithout(s, v) == Space(Owned(s) \ {v})

\* can_allocate_storage
MayAllocate(s, v, size) == s # NoOwner => UsedWithout(s, v) + size <= Quota

\* Mutant: the status decides alone.
MutableIdle(s) == s # NoOwner => owner[s].status = "idle"

\* _service_is_mutable: idle, and no container, running or not.
Mutable(s) == s # NoOwner => owner[s].status = "idle" /\ ~owner[s].box

MountedAnywhere(v) == \E s \in Owner : v \in owner[s].binds

\* A row that nothing refers to stands for a new one.
Fresh(v) == /\ ~volume[v].exists /\ ~volume[v].docker
            /\ \A q \in requests : q.op \notin {"purge", "delete"} => q.vol # v
            /\ \A s \in Owner : v \notin owner[s].specs

Overlap == IF requests = {} THEN {} ELSE {"overlap"}

\* Another request of s has been checked against the quota and not been written.
Allocating == {"create", "resize", "attach"}
Crowds(s) == IF s # NoOwner /\ \E q \in requests : q.op \in Allocating /\ q.to = s
             THEN {"quota"} ELSE {}

-----------------------------------------------------------------------------
(* The checks of a request. *)

VolumeRequested(op, v, s, row) ==
    /\ disturbed = {} /\ Cardinality(requests) < MaxRequests
    /\ requests' = requests \cup {[op |-> op, vol |-> v, to |-> s, row |-> row]}
    /\ disturbed' = Overlap \cup IF op \in Allocating THEN Crowds(s) ELSE {}
    /\ UNCHANGED <<volume, owner>>

CreateVolume(v, s, size) ==
    /\ Fresh(v)
    /\ s # NoOwner => owner[s].status # "deleted" /\ Mutable(s)
    /\ MayAllocate(s, v, size)
    /\ VolumeRequested("create", v, s,
                       [NoVolume EXCEPT !.exists = TRUE, !.owner = s, !.size = size])

\* Name, size, path and mode are fixed once Docker has the volume.
ResizeVolume(v, size) ==
    LET row == volume[v] IN
    /\ row.exists /\ ~row.docker /\ size # row.size
    /\ Mutable(row.owner) /\ MayAllocate(row.owner, v, size)
    /\ VolumeRequested("resize", v, row.owner, [row EXCEPT !.size = size])

AttachVolume(v, s) ==
    LET row == volume[v] IN
    /\ row.exists /\ row.owner \in {NoOwner, s} /\ owner[s].status # "deleted"
    /\ Mutable(s) /\ MayAllocate(s, v, row.size)
    /\ VolumeRequested("attach", v, s, [row EXCEPT !.owner = s, !.attached = TRUE])

\* Soft: the owner stays and the volume counts. Hard: it is an orphan.
DetachVolume(v, op) ==
    LET row == volume[v] IN
    /\ row.exists /\ row.owner # NoOwner /\ Mutable(row.owner)
    /\ VolumeRequested(op, v, row.owner, row)

\* A volume that is not attached may be destroyed at any time.
DestroyVolume(v) ==
    LET row == volume[v] IN
    /\ row.exists /\ (row.attached => Mutable(row.owner))
    /\ VolumeRequested("destroy", v, row.owner, row)

\* The staff release or destroy any volume, in use or not; the serializer refuses them
\* every other change of a volume that another user's service owns.
StaffVolume(v, op) ==
    LET row == volume[v] IN
    /\ row.exists /\ ~Mutable(row.owner)
    /\ disturbed = {} /\ Overlap = {} /\ disturbed' = {"staff"}
    /\ requests' = {[op |-> op, vol |-> v, to |-> row.owner, row |-> row]}
    /\ UNCHANGED <<volume, owner>>

\* Removing the runtime of a service, and deleting it: the status is read once.
PurgeOrDelete(s, op) ==
    /\ owner[s].status \in IF op = "purge" THEN {"idle", "running"} ELSE {"idle"}
    /\ VolumeRequested(op, CHOOSE v \in Volume : TRUE, s, NoVolume)

-----------------------------------------------------------------------------
(* Their writes. *)

\* Docker keeps a volume that a container mounts; the row goes all the same.
Destroyed(v) ==
    [volume EXCEPT ![v] = [NoVolume EXCEPT !.docker = volume[v].docker /\ MountedAnywhere(v)]]

\* A delete takes the container, then every owned volume, attached or not.
OwnerDeleted(s) ==
    /\ volume' = [v \in Volume |->
                   IF v \in Owned(s)
                   THEN [NoVolume EXCEPT !.docker = volume[v].docker /\
                            \E t \in Owner \ {s} : v \in owner[t].binds]
                   ELSE volume[v]]
    /\ owner' = [owner EXCEPT ![s] = [@ EXCEPT !.status = "deleted", !.box = FALSE,
                                               !.binds = {}]]

\* save() writes every field as read, and inserts a row that is gone.
WriteVolume(q) ==
    /\ requests' = requests \ {q}
    /\ \/ /\ q.op \in {"create", "resize", "attach"}
          /\ volume' = [volume EXCEPT ![q.vol] = [q.row EXCEPT !.docker = volume[q.vol].docker]]
          /\ UNCHANGED owner
       \/ /\ q.op = "detach"
          /\ volume' = [volume EXCEPT ![q.vol].attached = FALSE]
          /\ UNCHANGED owner
       \/ /\ q.op = "release"
          /\ volume' = [volume EXCEPT ![q.vol].attached = FALSE, ![q.vol].owner = NoOwner]
          /\ UNCHANGED owner
       \/ q.op = "destroy" /\ volume' = Destroyed(q.vol) /\ UNCHANGED owner
       \/ /\ q.op = "purge"
          /\ owner' = [owner EXCEPT ![q.to] =
                 [@ EXCEPT !.status = IF owner[q.to].status = "deleted" THEN "deleted" ELSE "idle",
                           !.box = FALSE, !.binds = {}]]
          /\ UNCHANGED volume
       \/ q.op = "delete" /\ OwnerDeleted(q.to)
    /\ UNCHANGED disturbed

-----------------------------------------------------------------------------
(* Start, stop and the workers. *)

StartOwner(s) ==
    /\ owner[s].status \in {"idle", "running"} /\ disturbed = {}
    /\ owner' = [owner EXCEPT ![s].status = "queued"]
    /\ disturbed' = Overlap
    /\ UNCHANGED <<volume, requests>>

\* _volume_specs: every owned volume with a path, the attachment's or its own.
Specs(s) == {v \in Owned(s) : volume[v].attached \/ v \notin Pathless}

\* A database service without volumes gets one that fits the quota, or none.
CollectVolumes(s) ==
    /\ owner[s].status = "queued" /\ ~owner[s].working
    /\ \/ /\ owner' = [owner EXCEPT ![s] = [@ EXCEPT !.status = "deploying", !.working = TRUE,
                                                     !.specs = Specs(s)]]
          /\ UNCHANGED <<volume, disturbed>>
       \/ \E v \in Volume, size \in Sizes :
             /\ Owned(s) = {} /\ Fresh(v)
             /\ MayAllocate(s, v, size)
             /\ volume' = [volume EXCEPT ![v] =
                    [exists |-> TRUE, owner |-> s, size |-> size, attached |-> TRUE,
                     docker |-> FALSE]]
             /\ owner' = [owner EXCEPT ![s] = [@ EXCEPT !.status = "deploying",
                                                        !.working = TRUE, !.specs = {v}]]
             /\ disturbed' = disturbed \cup Crowds(s)
    /\ UNCHANGED requests

\* Docker creates what it lacks; the old container is gone in the end.
MountVolumes(s) ==
    /\ owner[s].working
    /\ \/ /\ volume' = [v \in Volume |-> IF v \in owner[s].specs
                                         THEN [volume[v] EXCEPT !.docker = TRUE] ELSE volume[v]]
          /\ owner' = [owner EXCEPT ![s] =
                 [@ EXCEPT !.status = IF owner[s].status = "deploying" THEN "running"
                                      ELSE owner[s].status,
                           !.box = TRUE, !.binds = owner[s].specs,
                           !.working = FALSE, !.specs = {}]]
       \/ /\ owner' = [owner EXCEPT ![s] =
                 [@ EXCEPT !.status = IF owner[s].status = "deploying" THEN "idle"
                                      ELSE owner[s].status,
                           !.working = FALSE, !.specs = {}]]
          /\ UNCHANGED volume
    /\ UNCHANGED <<requests, disturbed>>

StopOwner(s) ==
    /\ owner[s].status \in {"idle", "running"} /\ owner[s].box /\ disturbed = {}
    /\ owner' = [owner EXCEPT ![s].status = "stopping"]
    /\ disturbed' = Overlap
    /\ UNCHANGED <<volume, requests>>

OwnerStopped(s) ==
    /\ owner[s].status = "stopping"
    /\ owner' = [owner EXCEPT ![s] = [@ EXCEPT !.status = "idle", !.box = FALSE, !.binds = {}]]
    /\ UNCHANGED <<volume, requests, disturbed>>

VolumesStep ==
    \/ \E v \in Volume :
         \/ \E s \in Owner \cup {NoOwner}, size \in Sizes : CreateVolume(v, s, size)
         \/ \E size \in Sizes : ResizeVolume(v, size)
         \/ \E s \in Owner : AttachVolume(v, s)
         \/ \E op \in {"detach", "release"} : DetachVolume(v, op)
         \/ DestroyVolume(v)
         \/ \E op \in {"release", "destroy"} : StaffVolume(v, op)
    \/ \E s \in Owner, op \in {"purge", "delete"} : PurgeOrDelete(s, op)
    \/ \E q \in requests : WriteVolume(q)
    \/ \E s \in Owner : StartOwner(s) \/ CollectVolumes(s) \/ StopOwner(s)
    \/ \E s \in Owner : disturbed = {} /\ (MountVolumes(s) \/ OwnerStopped(s))

\* Bound: after a disturbance only what changes rows is followed, and nothing after
\* two allocations that have met.
VolumesNext == "quota" \notin disturbed /\ VolumesStep

VolumesSpec == VolumesInit /\ [][VolumesNext]_volumesVars

-----------------------------------------------------------------------------

\* What a service owns is within its quota, soft-detached volumes included, whatever
\* two requests, or a request and a start, do to each other between check and write;
\* unless both of them allocate to that service. can_allocate_storage.
QuotaKept == "quota" \in disturbed \/ \A s \in Owner : Used(s) <= Quota

\* No volume is mounted by the containers of two services, as long as requests
\* do not overlap and the staff leave a volume in use alone. Volumes do not share
\* between services.
VolumeExclusive ==
    disturbed # {} \/ \A s, t \in Owner : s # t => owner[s].binds \cap owner[t].binds = {}

=============================================================================
