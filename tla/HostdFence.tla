----------------------------- MODULE HostdFence -----------------------------
(***************************************************************************)
(* The worker fence of paperboat-hostd: hostdproto.Controller, the epoch   *)
(* it persists in FenceState, and the part of runHostd that starts hostd's *)
(* own worker whenever hostd comes up.                                     *)
(*                                                                         *)
(* The fence knows a worker by its identity ("runtime-<version>", here the *)
(* version), its epoch and its lease, a random number that is never drawn  *)
(* twice.  `runs' is the version of the bytes the process executes, which  *)
(* hostd never sees: the properties compare it with what hostd believes.   *)
(***************************************************************************)
EXTENDS Integers

CONSTANTS
    Versions,       \* release versions, ordered as the semantic versions are
    HostdVersion,   \* the version hostd itself was built as
    MaxLeases,      \* bound: workers that negotiate before Negotiate fails
    MaxHostdCrashes \* bound: restarts of hostd

ASSUME FenceAssumption ==
    /\ Versions \subseteq Nat \ {0}
    /\ HostdVersion \in Versions
    /\ MaxLeases \in Nat \ {0}
    /\ MaxHostdCrashes \in Nat

VARIABLES
    hostd,       \* "starting", "booting" or "running"
    own,         \* the lease of the worker hostd started itself
    active,      \* Controller.active: the worker whose heartbeats are accepted
    candidate,   \* Controller.candidate: negotiated and not yet active
    lastEpoch,   \* Controller.lastEpoch
    persisted,   \* FenceState.Epoch on disk
    leases,      \* leases drawn so far
    hostdCrashes \* restarts so far, bounded by MaxHostdCrashes

fenceVars == <<hostd, own, active, candidate, lastEpoch, persisted, leases, hostdCrashes>>

NoWorker == [id |-> 0, runs |-> 0, epoch |-> 0, lease |-> 0, ready |-> FALSE]

Workers == [id : Versions \cup {0}, runs : Versions \cup {0}, epoch : 0..MaxLeases,
            lease : 0..MaxLeases, ready : BOOLEAN]

FenceTypeOK ==
    /\ hostd \in {"starting", "booting", "running"}
    /\ own \in 0..MaxLeases
    /\ active \in Workers
    /\ candidate \in Workers
    /\ lastEpoch \in 0..MaxLeases
    /\ persisted \in 0..MaxLeases
    /\ leases \in 0..MaxLeases
    /\ hostdCrashes \in 0..MaxHostdCrashes

\* hostd runs and its own worker is active.
FenceInit ==
    /\ hostd = "running"
    /\ own = 1
    /\ active = [id |-> HostdVersion, runs |-> HostdVersion, epoch |-> 1, lease |-> 1,
                 ready |-> TRUE]
    /\ candidate = NoWorker
    /\ lastEpoch = 1
    /\ persisted = 1
    /\ leases = 1
    /\ hostdCrashes = 0

\* hostd's socket answers from the moment its server runs.
Serving == hostd # "starting"

\* hostdproto.Client.Active: Status reports the active worker and falls back
\* to the candidate, so a caller has an active worker only when there is one.
HasActive == active.epoch # 0

\* workerupdate's matches with StateActive.
ActiveMatches(id, epoch) ==
    HasActive /\ active.id = id /\ (epoch = 0 \/ active.epoch = epoch)

-----------------------------------------------------------------------------
\* A worker process says hello and replaces whatever candidate there was.
Negotiate(id, runs) ==
    /\ leases < MaxLeases
    /\ leases' = leases + 1
    /\ lastEpoch' = lastEpoch + 1
    /\ candidate' = [id |-> id, runs |-> runs, epoch |-> lastEpoch + 1,
                     lease |-> leases + 1, ready |-> FALSE]
    /\ UNCHANGED <<active, persisted, hostdCrashes>>

\* A worker that is no longer the candidate is fenced.
IsCandidate(lease) == lease # 0 /\ candidate.lease = lease

MarkReady(lease) ==
    /\ IsCandidate(lease)
    /\ candidate' = [candidate EXCEPT !.ready = TRUE]
    /\ UNCHANGED <<active, lastEpoch, persisted, leases, hostdCrashes>>

\* The activation is on disk before it is visible, and fences the former
\* active worker in the same critical section.
Promote(lease) ==
    /\ IsCandidate(lease)
    /\ candidate.ready
    /\ persisted' = candidate.epoch
    /\ active' = candidate
    /\ candidate' = NoWorker
    /\ UNCHANGED <<lastEpoch, leases, hostdCrashes>>

-----------------------------------------------------------------------------
\* A new Controller starts from the persisted epoch and knows no worker.
NewController ==
    /\ hostd' = "starting"
    /\ own' = 0
    /\ active' = NoWorker
    /\ candidate' = NoWorker
    /\ lastEpoch' = persisted
    /\ UNCHANGED <<persisted, leases>>

HostdCrash ==
    /\ Serving
    /\ hostdCrashes < MaxHostdCrashes
    /\ hostdCrashes' = hostdCrashes + 1
    /\ NewController

\* runHostd serves its socket and starts the file in the current slot as a
\* worker under hostd's own version.
HostdBoot(current) ==
    /\ hostd = "starting"
    /\ current # 0
    /\ hostd' = "booting"
    /\ own' = leases + 1
    /\ Negotiate(HostdVersion, current)

HostdReady ==
    /\ hostd = "booting"
    /\ ~candidate.ready
    /\ MarkReady(own)
    /\ UNCHANGED <<hostd, own>>

HostdOwn ==
    /\ hostd = "booting"
    /\ Promote(own)
    /\ hostd' = "running"
    /\ UNCHANGED own

\* Another candidate replaced hostd's worker: runHostd returns the error and
\* the service manager starts hostd again.
HostdFenced ==
    /\ hostd = "booting"
    /\ ~IsCandidate(own)
    /\ NewController
    /\ UNCHANGED hostdCrashes
=============================================================================
