---------------------------- MODULE WorkerLease ----------------------------
(***************************************************************************)
(* The lease of the reconciliation worker (worker_leases in the store and  *)
(* Run, acquireLease, heartbeat and releaseLease of                        *)
(* internal/reconcile/worker.go).  The server opens its store exclusively, *)
(* so the only other holder a worker meets is a predecessor that crashed:  *)
(* every process mints a new owner, and waits for that lease to expire.    *)
(***************************************************************************)
VARIABLE lease   \* the row: whose it is, and whether it has expired

LeaseRow == [owner : {"none", "worker", "predecessor"}, expired : BOOLEAN]

NoLease == [owner |-> "none", expired |-> FALSE]

Held == [owner |-> "worker", expired |-> FALSE]

(* Mutant of Available: the expiry is not read.                            *)
AvailableToOwner == lease.owner # "predecessor"

(* acquireWorkerLease: the row is absent, the caller's own, or expired.    *)
Available == lease.owner # "predecessor" \/ lease.expired

acquireWorkerLease == Available /\ lease' = Held

(* heartbeatWorkerLease renews a lease that has not expired; otherwise the *)
(* caller has lost it and acquires it again.                               *)
HeldStill == lease = Held

LeaseExpires ==
    /\ lease.owner # "none" /\ ~lease.expired
    /\ lease' = [lease EXCEPT !.expired = TRUE]

(* releaseWorkerLease, on a graceful shutdown.                             *)
releaseWorkerLease == lease' = IF lease.owner = "worker" THEN NoLease ELSE lease

(* The owner crashes: to the next process its lease is another's.          *)
Orphaned == lease' = IF lease.owner = "worker"
                     THEN [lease EXCEPT !.owner = "predecessor"] ELSE lease

=============================================================================
