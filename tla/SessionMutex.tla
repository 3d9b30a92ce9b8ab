---------------------------- MODULE SessionMutex ----------------------------
(***************************************************************************)
(* What <agent_dir>/session.lock promises its callers: at most one         *)
(* goroutine, of any process, is inside a locked region, and a process can *)
(* ask whether one of its own goroutines is.  The kernel flock, the        *)
(* heldLocks map and the PID hint that implement this promise are in       *)
(* SessionLock; SessionLog uses this module as its lock.                   *)
(***************************************************************************)
CONSTANTS Holders,   \* goroutines that acquire the lock
          ProcOf,    \* the process each of them runs in
          NoOne      \* nobody

VARIABLE owner

Init == owner = NoOne

(* AcquireSessionLockContext returned a lock to h. *)
Acquire(h) == owner = NoOne /\ owner' = h

(* h called Release, or h's process died and the kernel dropped its flock. *)
Release(h) == owner = h /\ owner' = NoOne

Next == \E h \in Holders : Acquire(h) \/ Release(h)

Spec == Init /\ [][Next]_owner

(***************************************************************************)
(* IsSessionLockedByCurrentProcess: the answer is per process, not per     *)
(* goroutine.                                                              *)
(***************************************************************************)
HeldBy(p) == owner # NoOne /\ ProcOf[owner] = p
=============================================================================
