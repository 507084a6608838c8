--------------------------- MODULE PilotFileLock ---------------------------
(***************************************************************************)
(* The advisory file lock behind every shared state file of the pilot:     *)
(* acquireLock / releaseLock (scripts/lib/doc-store/locking.mjs), as used  *)
(* by withPilotFileLock (scripts/lib/pilot-state.mjs).                     *)
(*                                                                         *)
(* The lock is a file created with link(2); a `.reap` marker, created the  *)
(* same way, is meant to serialise the removal of a lock whose owner died. *)
(* One action is one file-system call (or one read through one handle):    *)
(* everything another process can do between two calls is interleaved.     *)
(*                                                                         *)
(* A file is identified by the actor that linked it.  The code compares    *)
(* inode and owner token; an actor owns at most one lock and one marker    *)
(* at a time, and the only snapshots ever compared are an actor's own or   *)
(* those of a dead process, which links nothing more, so the actor stands  *)
(* for the pair.                                                           *)
(***************************************************************************)
EXTENDS Naturals

CONSTANTS
  Actors,     \* concurrent calls of acquireLock (an async caller of a process)
  Pids,       \* operating-system processes
  PidOf,      \* the process an actor runs in
  NoFile,     \* the path does not exist
  Orphan      \* a lock file without a parsable owner, or whose owner is long dead

ASSUME PidOfAssumption == PidOf \in [Actors -> Pids]
ASSUME FileAssumption == NoFile \notin Actors /\ Orphan \notin Actors /\ NoFile # Orphan

VARIABLES
  pc,          \* where each actor stands in acquireLock / releaseLock
  lock,        \* the lock path
  marker,      \* the `.reap` path
  seenMarker,  \* snapshot taken by recoverStaleReaper
  seenLock,    \* snapshot taken by reapStaleLock
  unlinking,   \* progress of reapStaleLock's `return unlinkOwnedSnapshot(lockPath, lock)`
  dropping,    \* progress of its finally block's unlinkOwnedSnapshot(reaperPath, reaper)
  fresh,       \* the orphan lock file is empty and younger than the grace period
  alive,       \* processes that exist
  overlapped   \* history: two live actors have had a lock removal in progress at once

vars == <<pc, lock, marker, seenMarker, seenLock, unlinking, dropping, fresh,
          alive, overlapped>>

Progress == {"none", "recheck", "unlink"}

Labels == {"idle", "recover", "recheckMarker", "unlinkMarker", "confirm", "link",
           "verify", "inspect", "linkMarker", "verifyMarker", "reapRead", "reaping",
           "retry", "critical", "release", "unlinkOwn"}

Running(a) == PidOf[a] \in alive

(* pidExists on the owner recorded in a file.                              *)
OwnerExists(file) == file \in Actors /\ PidOf[file] \in alive

At(a, label) == Running(a) /\ pc[a] = label
Goto(a, label) == pc' = [pc EXCEPT ![a] = label]

Init ==
  /\ pc = [a \in Actors |-> "idle"]
  /\ lock \in {NoFile, Orphan}
  /\ marker = NoFile
  /\ seenMarker = [a \in Actors |-> NoFile]
  /\ seenLock = [a \in Actors |-> NoFile]
  /\ unlinking = [a \in Actors |-> "none"]
  /\ dropping = [a \in Actors |-> "none"]
  /\ fresh \in BOOLEAN
  /\ alive = Pids
  /\ overlapped = FALSE

----------------------------------------------------------------------------
(* acquireLock's loop: every iteration first recovers a stale marker.      *)

Start(a) ==
  /\ At(a, "idle")
  /\ Goto(a, "recover")
  /\ UNCHANGED <<lock, marker, seenMarker, seenLock, unlinking, dropping, fresh, alive, overlapped>>

(* The loop condition: another iteration, or TransactionConflictError.     *)
Retry(a) ==
  /\ At(a, "retry")
  /\ Goto(a, "recover")
  /\ UNCHANGED <<lock, marker, seenMarker, seenLock, unlinking, dropping, fresh, alive, overlapped>>

TimeOut(a) ==
  /\ At(a, "retry")
  /\ Goto(a, "idle")
  /\ UNCHANGED <<lock, marker, seenMarker, seenLock, unlinking, dropping, fresh, alive, overlapped>>

(* Mutant: a marker is never judged stale.                                 *)
RecoverNothing(a) ==
  /\ At(a, "recover")
  /\ Goto(a, IF marker = NoFile THEN "link" ELSE "retry")
  /\ seenMarker' = [seenMarker EXCEPT ![a] = marker]
  /\ UNCHANGED <<lock, marker, seenLock, unlinking, dropping, fresh, alive, overlapped>>

RecoverStaleReaper(a) ==
  /\ At(a, "recover")
  /\ Goto(a, IF marker = NoFile THEN "link"
             ELSE IF OwnerExists(marker) THEN "retry" ELSE "recheckMarker")
  /\ seenMarker' = [seenMarker EXCEPT ![a] = marker]
  /\ UNCHANGED <<lock, marker, seenLock, unlinking, dropping, fresh, alive, overlapped>>

(* unlinkOwnedSnapshot on the marker: the re-read that compares owners ... *)
RecheckMarker(a) ==
  /\ At(a, "recheckMarker")
  /\ Goto(a, IF marker = seenMarker[a] THEN "unlinkMarker" ELSE "confirm")
  /\ UNCHANGED <<lock, marker, seenMarker, seenLock, unlinking, dropping, fresh, alive, overlapped>>

(* ... and the unlink, a later call on the same path.                      *)
UnlinkMarker(a) ==
  /\ At(a, "unlinkMarker")
  /\ marker' = NoFile
  /\ Goto(a, "confirm")
  /\ UNCHANGED <<lock, seenMarker, seenLock, unlinking, dropping, fresh, alive, overlapped>>

ConfirmNoMarker(a) ==
  /\ At(a, "confirm")
  /\ Goto(a, IF marker = NoFile THEN "link" ELSE "retry")
  /\ UNCHANGED <<lock, marker, seenMarker, seenLock, unlinking, dropping, fresh, alive, overlapped>>

----------------------------------------------------------------------------
(* tryAcquireLockFile: link a fully written inode, then read it back.      *)

LinkLock(a) ==
  /\ At(a, "link")
  /\ \/ lock = NoFile /\ lock' = a /\ Goto(a, "verify")
     \/ lock # NoFile /\ lock' = lock /\ Goto(a, "inspect")
  /\ UNCHANGED <<marker, seenMarker, seenLock, unlinking, dropping, fresh, alive, overlapped>>

(* A missing file makes open() throw ENOENT out of acquireLock; another    *)
(* owner's token sends the caller to the contended path.                   *)
VerifyLock(a) ==
  /\ At(a, "verify")
  /\ Goto(a, IF lock = a THEN "critical" ELSE IF lock = NoFile THEN "idle" ELSE "inspect")
  /\ UNCHANGED <<lock, marker, seenMarker, seenLock, unlinking, dropping, fresh, alive, overlapped>>

InspectLock(a) ==
  /\ At(a, "inspect")
  /\ Goto(a, IF lock = NoFile \/ OwnerExists(lock) THEN "retry" ELSE "linkMarker")
  /\ UNCHANGED <<lock, marker, seenMarker, seenLock, unlinking, dropping, fresh, alive, overlapped>>

----------------------------------------------------------------------------
(* reapStaleLock.                                                          *)

TryAcquireReaper(a) ==
  /\ At(a, "linkMarker")
  /\ \/ marker = NoFile /\ marker' = a /\ Goto(a, "verifyMarker")
     \/ marker # NoFile /\ marker' = marker /\ Goto(a, "retry")
  /\ UNCHANGED <<lock, seenMarker, seenLock, unlinking, dropping, fresh, alive, overlapped>>

VerifyMarker(a) ==
  /\ At(a, "verifyMarker")
  /\ Goto(a, IF marker = a THEN "reapRead" ELSE "retry")
  /\ UNCHANGED <<lock, marker, seenMarker, seenLock, unlinking, dropping, fresh, alive, overlapped>>

(* Mutant: under the marker the lock's owner is not looked up again.       *)
StaleAnyOwner(file) ==
  /\ file # NoFile
  /\ ~(file = Orphan /\ fresh)

(* A lock worth removing: its owner does not exist and it is not an empty  *)
(* file that a writer may still be filling.                                *)
Stale(file) ==
  /\ file # NoFile
  /\ ~OwnerExists(file)
  /\ ~(file = Orphan /\ fresh)

(* The lock is read under the marker.  The removal is returned without an  *)
(* await, so the finally block starts removing the marker at once: from    *)
(* here the two unlinkOwnedSnapshot calls of the actor run concurrently.   *)
ReapStaleLock(a) ==
  /\ At(a, "reapRead")
  /\ Goto(a, "reaping")
  /\ dropping' = [dropping EXCEPT ![a] = "recheck"]
  /\ \/ /\ Stale(lock)
        /\ seenLock' = [seenLock EXCEPT ![a] = lock]
        /\ unlinking' = [unlinking EXCEPT ![a] = "recheck"]
        /\ overlapped' = (overlapped \/ \E b \in Actors : b # a /\ Running(b) /\ unlinking[b] # "none")
     \/ ~Stale(lock) /\ UNCHANGED <<seenLock, unlinking, overlapped>>
  /\ UNCHANGED <<lock, marker, seenMarker, fresh, alive>>

RecheckLock(a) ==
  /\ At(a, "reaping") /\ unlinking[a] = "recheck"
  /\ unlinking' = [unlinking EXCEPT ![a] = IF lock = seenLock[a] THEN "unlink" ELSE "none"]
  /\ UNCHANGED <<pc, lock, marker, seenMarker, seenLock, dropping, fresh, alive, overlapped>>

UnlinkLock(a) ==
  /\ At(a, "reaping") /\ unlinking[a] = "unlink"
  /\ lock' = NoFile
  /\ unlinking' = [unlinking EXCEPT ![a] = "none"]
  /\ UNCHANGED <<pc, marker, seenMarker, seenLock, dropping, fresh, alive, overlapped>>

RecheckOwnMarker(a) ==
  /\ At(a, "reaping") /\ dropping[a] = "recheck"
  /\ dropping' = [dropping EXCEPT ![a] = IF marker = a THEN "unlink" ELSE "none"]
  /\ UNCHANGED <<pc, lock, marker, seenMarker, seenLock, unlinking, fresh, alive, overlapped>>

UnlinkOwnMarker(a) ==
  /\ At(a, "reaping") /\ dropping[a] = "unlink"
  /\ marker' = NoFile
  /\ dropping' = [dropping EXCEPT ![a] = "none"]
  /\ UNCHANGED <<pc, lock, seenMarker, seenLock, unlinking, fresh, alive, overlapped>>

(* reapStaleLock settles once both calls have.                             *)
EndReap(a) ==
  /\ At(a, "reaping") /\ unlinking[a] = "none" /\ dropping[a] = "none"
  /\ Goto(a, "retry")
  /\ UNCHANGED <<lock, marker, seenMarker, seenLock, unlinking, dropping, fresh, alive, overlapped>>

----------------------------------------------------------------------------
(* releaseLock, from withPilotFileLock's finally block.                    *)

BeginRelease(a) ==
  /\ At(a, "critical")
  /\ Goto(a, "release")
  /\ UNCHANGED <<lock, marker, seenMarker, seenLock, unlinking, dropping, fresh, alive, overlapped>>

RecheckRelease(a) ==
  /\ At(a, "release")
  /\ Goto(a, IF lock = a THEN "unlinkOwn" ELSE "idle")
  /\ UNCHANGED <<lock, marker, seenMarker, seenLock, unlinking, dropping, fresh, alive, overlapped>>

UnlinkRelease(a) ==
  /\ At(a, "unlinkOwn")
  /\ lock' = NoFile
  /\ Goto(a, "idle")
  /\ UNCHANGED <<marker, seenMarker, seenLock, unlinking, dropping, fresh, alive, overlapped>>

----------------------------------------------------------------------------
(* The environment: a process dies at any point, taking all its actors     *)
(* with it; an empty file outlives the grace period.                       *)

Crash(p) ==
  /\ p \in alive
  /\ alive' = alive \ {p}
  /\ UNCHANGED <<pc, lock, marker, seenMarker, seenLock, unlinking, dropping, fresh, overlapped>>

Age ==
  /\ fresh
  /\ fresh' = FALSE
  /\ UNCHANGED <<pc, lock, marker, seenMarker, seenLock, unlinking, dropping, alive, overlapped>>

(* The steps an event loop owes to a call of acquireLock or releaseLock    *)
(* already under way.                                                      *)
LoopStep(a) ==
  \/ Retry(a) \/ RecoverStaleReaper(a) \/ RecheckMarker(a) \/ UnlinkMarker(a)
  \/ ConfirmNoMarker(a) \/ LinkLock(a) \/ VerifyLock(a) \/ InspectLock(a)
  \/ TryAcquireReaper(a) \/ VerifyMarker(a) \/ ReapStaleLock(a) \/ EndReap(a)
  \/ RecheckRelease(a) \/ UnlinkRelease(a)

LockRemoval(a) == RecheckLock(a) \/ UnlinkLock(a)
MarkerRemoval(a) == RecheckOwnMarker(a) \/ UnlinkOwnMarker(a)

Step(a) ==
  \/ Start(a) \/ TimeOut(a) \/ BeginRelease(a)
  \/ LoopStep(a) \/ LockRemoval(a) \/ MarkerRemoval(a)

Next ==
  \/ \E a \in Actors : Step(a)
  \/ \E p \in Pids : Crash(p)
  \/ Age

Spec == Init /\ [][Next]_vars

(* A started call keeps being scheduled while its process lives, and time  *)
(* passes; nothing forces a process to start, time out, release or crash.  *)
Fairness ==
  /\ \A a \in Actors : WF_vars(LoopStep(a)) /\ WF_vars(LockRemoval(a)) /\ WF_vars(MarkerRemoval(a))
  /\ WF_vars(Age)

FairSpec == Spec /\ Fairness

----------------------------------------------------------------------------
(* Every variable stays in its type.                                       *)
TypeOK ==
  /\ pc \in [Actors -> Labels]
  /\ lock \in Actors \cup {NoFile, Orphan}
  /\ marker \in Actors \cup {NoFile}
  /\ seenMarker \in [Actors -> Actors \cup {NoFile}]
  /\ seenLock \in [Actors -> Actors \cup {NoFile, Orphan}]
  /\ unlinking \in [Actors -> Progress]
  /\ dropping \in [Actors -> Progress]
  /\ fresh \in BOOLEAN
  /\ alive \subseteq Pids
  /\ overlapped \in BOOLEAN

Holds(a) == At(a, "critical")

(* At most one live actor is between the end of acquireLock and the start  *)
(* of releaseLock: what every caller of withPilotFileLock relies on.       *)
MutualExclusion == \A a, b \in Actors : Holds(a) /\ Holds(b) => a = b

(* The lock can fail to exclude only after the removals of two live        *)
(* reapers have overlapped: with one removal at a time, crashes at any     *)
(* point, late unlinks, timeouts and orphan files never let two actors in. *)
ExclusionUntilOverlap == ~overlapped => MutualExclusion

HoldsMarker(a) == pc[a] \in {"verifyMarker", "reapRead"} \/ (pc[a] = "reaping" /\ dropping[a] # "none")

(* As long as no actor died holding the marker, at most one actor is       *)
(* inside the part of reapStaleLock that the marker brackets.              *)
ReaperExclusion ==
  (\A a \in Actors : HoldsMarker(a) => Running(a))
    => \A a, b \in Actors : HoldsMarker(a) /\ HoldsMarker(b) => a = b

(* The lock of a live owner leaves the path only through the owner's own   *)
(* release, until two removals have overlapped.                            *)
LiveLockKept ==
  [][\A a \in Actors : lock = a /\ lock' # a /\ Running(a) /\ ~overlapped => At(a, "unlinkOwn")]_vars

(* A lock left by a dead owner goes away as long as somebody keeps asking  *)
(* for it, even when a reaper died on the job.                             *)
Waiting(a) == Running(a) /\ pc[a] \notin {"idle", "critical", "release", "unlinkOwn"}
StaleLockReaped ==
  \A f \in Actors \cup {Orphan} :
    (lock = f /\ ~OwnerExists(f)) ~> (lock # f \/ \A a \in Actors : ~Waiting(a))

(* locking.mjs promises of unlinkOwnedSnapshot: "A replacement owner is    *)
(* never removed merely because the old owner's PID is dead": a live       *)
(* owner's lock leaves the path only through its own release.              *)
ReplacementOwnerKept ==
  [][\A a \in Actors : lock = a /\ lock' # a /\ Running(a) => At(a, "unlinkOwn")]_vars
=============================================================================
