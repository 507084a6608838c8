------------------------ MODULE PilotFileLock_proof ------------------------
(***************************************************************************)
(* Theorems about the file lock, for every set of actors and processes.    *)
(***************************************************************************)
EXTENDS PilotFileLock, TLAPS

(* The labels at which a live actor's own lock must be on the path.        *)
OwnsLock(a) == Running(a) /\ pc[a] \in {"verify", "critical", "release", "unlinkOwn"}

Removing(a) == Running(a) /\ unlinking[a] # "none"

(* Until two removals overlap, a linked lock stays with its live owner,    *)
(* and the lock under removal is the one inspected: its owner is dead, and *)
(* nobody else can take it off the path.                                   *)
OwnedByLive == \A a \in Actors : OwnsLock(a) => lock = a
RemovalTargetsDead ==
  \A a \in Actors : Removing(a) => lock = seenLock[a] /\ lock # NoFile /\ ~OwnerExists(lock)
OneRemoval == \A a, b \in Actors : Removing(a) /\ Removing(b) => a = b
RemovalWhileReaping == \A a \in Actors : unlinking[a] # "none" => pc[a] = "reaping"

LockInv ==
  /\ TypeOK
  /\ RemovalWhileReaping
  /\ ~overlapped => OwnedByLive /\ RemovalTargetsDead /\ OneRemoval

(* Every variable of PilotFileLock stays in its type.                      *)
LEMMA TypeStep == TypeOK /\ [Next]_vars => TypeOK'
<1> SUFFICES ASSUME TypeOK, [Next]_vars PROVE TypeOK'
  OBVIOUS
<1> USE FileAssumption DEF TypeOK, Labels, Progress, At, Goto
<1>1. ASSUME NEW a \in Actors, Step(a) PROVE TypeOK'
  <2>1. CASE Start(a) \/ TimeOut(a) \/ BeginRelease(a)
    BY <2>1 DEF Start, TimeOut, BeginRelease
  <2>2. CASE Retry(a) \/ RecoverStaleReaper(a) \/ RecheckMarker(a)
    BY <2>2 DEF Retry, RecoverStaleReaper, RecheckMarker
  <2>3. CASE UnlinkMarker(a) \/ ConfirmNoMarker(a) \/ LinkLock(a)
    BY <2>3 DEF UnlinkMarker, ConfirmNoMarker, LinkLock
  <2>4. CASE VerifyLock(a) \/ InspectLock(a) \/ TryAcquireReaper(a) \/ VerifyMarker(a)
    BY <2>4 DEF VerifyLock, InspectLock, TryAcquireReaper, VerifyMarker
  <2>5. CASE ReapStaleLock(a)
    BY <2>5, ZenonT(60) DEF ReapStaleLock
  <2>6. CASE EndReap(a) \/ RecheckRelease(a) \/ UnlinkRelease(a)
    BY <2>6 DEF EndReap, RecheckRelease, UnlinkRelease
  <2>7. CASE LockRemoval(a)
    BY <2>7 DEF LockRemoval, RecheckLock, UnlinkLock
  <2>8. CASE MarkerRemoval(a)
    BY <2>8 DEF MarkerRemoval, RecheckOwnMarker, UnlinkOwnMarker
  <2> QED
    BY <1>1, <2>1, <2>2, <2>3, <2>4, <2>5, <2>6, <2>7, <2>8 DEF Step, LoopStep
<1>2. ASSUME NEW p \in Pids, Crash(p) PROVE TypeOK'
  BY <1>2 DEF Crash
<1>3. CASE Age
  BY <1>3 DEF Age
<1>4. CASE UNCHANGED vars
  BY <1>4 DEF vars
<1> QED
  BY <1>1, <1>2, <1>3, <1>4 DEF Next

(* Type correctness of the file-lock protocol.                             *)
THEOREM TypeCorrect == Spec => []TypeOK
<1>1. Init => TypeOK
  BY FileAssumption DEF Init, TypeOK, Labels, Progress
<1> QED
  BY <1>1, TypeStep, PTL DEF Spec

----------------------------------------------------------------------------
(* A step of an actor that leaves the lock, the removals and the processes *)
(* alone, and does not enter the labels of an owner, keeps the invariant.  *)
LEMMA QuietStep ==
  ASSUME LockInv, TypeOK', NEW a \in Actors, NEW label \in Labels,
         pc[a] # "reaping", Goto(a, label),
         OwnsLock(a) \/ label \notin {"verify", "critical", "release", "unlinkOwn"},
         UNCHANGED <<lock, seenLock, unlinking, alive, overlapped>>
  PROVE  LockInv'
<1> USE DEF LockInv, TypeOK, Goto, Running, OwnsLock, Removing, OwnerExists
<1>1. RemovalWhileReaping'
  BY DEF RemovalWhileReaping
<1>2. ASSUME ~overlapped PROVE OwnedByLive' /\ RemovalTargetsDead' /\ OneRemoval'
  <2>1. OwnedByLive'
    BY <1>2 DEF OwnedByLive
  <2>2. RemovalTargetsDead'
    BY <1>2 DEF RemovalTargetsDead
  <2>3. OneRemoval'
    BY <1>2 DEF OneRemoval
  <2> QED
    BY <2>1, <2>2, <2>3
<1> QED
  BY <1>1, <1>2

LEMMA LockStep == LockInv /\ [Next]_vars => LockInv'
<1> SUFFICES ASSUME LockInv, [Next]_vars PROVE LockInv'
  OBVIOUS
<1>0. TypeOK'
  BY TypeStep DEF LockInv
<1> USE <1>0
<1>1. ASSUME NEW a \in Actors, Step(a) PROVE LockInv'
  <2>1. CASE Start(a)
    BY <2>1, QuietStep DEF Start, At, Labels
  <2>2. CASE TimeOut(a)
    BY <2>2, QuietStep DEF TimeOut, At, Labels
  <2>3. CASE BeginRelease(a)
    BY <2>3, QuietStep DEF BeginRelease, At, Labels, OwnsLock
  <2>4. CASE Retry(a)
    BY <2>4, QuietStep DEF Retry, At, Labels
  <2>5. CASE RecoverStaleReaper(a)
    <3> DEFINE l == IF marker = NoFile THEN "link" ELSE IF OwnerExists(marker) THEN "retry" ELSE "recheckMarker"
    <3>1. l \in Labels /\ l \notin {"verify", "critical", "release", "unlinkOwn"}
      BY DEF Labels
    <3>2. Goto(a, l) /\ pc[a] # "reaping" /\ UNCHANGED <<lock, seenLock, unlinking, alive, overlapped>>
      BY <2>5 DEF RecoverStaleReaper, At
    <3> QED
      BY <3>1, <3>2, QuietStep
  <2>6. CASE RecheckMarker(a)
    BY <2>6, QuietStep DEF RecheckMarker, At, Labels
  <2>7. CASE UnlinkMarker(a)
    BY <2>7, QuietStep DEF UnlinkMarker, At, Labels
  <2>8. CASE ConfirmNoMarker(a)
    BY <2>8, QuietStep DEF ConfirmNoMarker, At, Labels
  <2>9. CASE LinkLock(a)
    <3>1. CASE lock # NoFile
      BY <2>9, <3>1, QuietStep DEF LinkLock, At, Labels
    <3>2. CASE lock = NoFile
      <4> USE DEF LockInv, TypeOK, LinkLock, At, Goto, OwnsLock, Running
      <4>1. lock' = a /\ pc' = [pc EXCEPT ![a] = "verify"] /\ UNCHANGED <<unlinking, seenLock, alive, overlapped>>
        BY <2>9, <3>2
      <4>2. RemovalWhileReaping'
        BY <2>9, <4>1 DEF RemovalWhileReaping
      <4>3. ASSUME ~overlapped PROVE OwnedByLive' /\ RemovalTargetsDead' /\ OneRemoval'
        <5>1. \A b \in Actors : ~OwnsLock(b) /\ ~Removing(b)
          BY <3>2, <4>3, FileAssumption DEF OwnedByLive, RemovalTargetsDead
        <5>2. OwnedByLive'
          BY <4>1, <5>1 DEF OwnedByLive
        <5>3. RemovalTargetsDead' /\ OneRemoval'
          BY <4>1, <5>1 DEF RemovalTargetsDead, OneRemoval, Removing
        <5> QED
          BY <5>2, <5>3
      <4> QED
        BY <4>1, <4>2, <4>3
    <3> QED
      BY <3>1, <3>2
  <2>10. CASE VerifyLock(a)
    <3>1. OwnsLock(a) /\ pc[a] # "reaping"
      BY <2>10 DEF VerifyLock, At, OwnsLock
    <3> DEFINE l == IF lock = a THEN "critical" ELSE IF lock = NoFile THEN "idle" ELSE "inspect"
    <3>2. l \in Labels /\ Goto(a, l) /\ UNCHANGED <<lock, seenLock, unlinking, alive, overlapped>>
      BY <2>10 DEF VerifyLock, Labels
    <3> QED
      BY <3>1, <3>2, QuietStep
  <2>11. CASE InspectLock(a)
    BY <2>11, QuietStep DEF InspectLock, At, Labels
  <2>12. CASE TryAcquireReaper(a)
    BY <2>12, QuietStep DEF TryAcquireReaper, At, Labels
  <2>13. CASE VerifyMarker(a)
    BY <2>13, QuietStep DEF VerifyMarker, At, Labels
  <2>14. CASE ReapStaleLock(a)
    <3> USE DEF LockInv, TypeOK, ReapStaleLock, At, Goto, Running
    <3>1. RemovalWhileReaping'
      BY <2>14 DEF RemovalWhileReaping
    <3>2. ASSUME ~overlapped' PROVE OwnedByLive' /\ RemovalTargetsDead' /\ OneRemoval'
      <4>1. ~overlapped
        BY <2>14, <3>2
      <4>2. OwnedByLive'
        BY <2>14, <4>1 DEF OwnedByLive, OwnsLock
      <4>3. CASE ~Stale(lock)
        BY <2>14, <4>1, <4>2, <4>3 DEF RemovalTargetsDead, OneRemoval, Removing, OwnerExists
      <4>4. CASE Stale(lock)
        <5>1. \A b \in Actors : b # a => ~Removing(b)
          BY <2>14, <3>2, <4>4 DEF Removing
        <5>2. \A b \in Actors : b # a => ~Removing(b)'
          BY <2>14, <4>4, <5>1 DEF Removing
        <5>3. RemovalTargetsDead'
          BY <2>14, <4>4, <5>2 DEF RemovalTargetsDead, Stale, OwnerExists
        <5>4. OneRemoval'
          BY <5>2 DEF OneRemoval
        <5> QED
          BY <4>2, <5>3, <5>4
      <4> QED
        BY <4>2, <4>3, <4>4
    <3> QED
      BY <3>1, <3>2
  <2>15. CASE RecheckLock(a)
    <3> USE DEF LockInv, TypeOK, RecheckLock, At, Running
    <3>1. RemovalWhileReaping'
      BY <2>15 DEF RemovalWhileReaping
    <3>2. \A b \in Actors : Removing(b)' => Removing(b)
      BY <2>15 DEF Removing
    <3>3. ASSUME ~overlapped PROVE OwnedByLive' /\ RemovalTargetsDead' /\ OneRemoval'
      BY <2>15, <3>2, <3>3 DEF OwnedByLive, RemovalTargetsDead, OneRemoval, OwnsLock, OwnerExists
    <3> QED
      BY <2>15, <3>1, <3>3
  <2>16. CASE UnlinkLock(a)
    <3> USE DEF LockInv, TypeOK, UnlinkLock, At, Running
    <3>1. RemovalWhileReaping'
      BY <2>16 DEF RemovalWhileReaping
    <3>2. ASSUME ~overlapped PROVE OwnedByLive' /\ RemovalTargetsDead' /\ OneRemoval'
      <4>1. Removing(a) /\ ~OwnerExists(lock)
        BY <2>16, <3>2 DEF RemovalTargetsDead, Removing
      <4>2. \A b \in Actors : ~OwnsLock(b)
        BY <3>2, <4>1 DEF OwnedByLive, OwnsLock, OwnerExists
      <4>3. \A b \in Actors : ~Removing(b)'
        BY <2>16, <3>2, <4>1 DEF OneRemoval, Removing
      <4> QED
        BY <2>16, <4>2, <4>3 DEF OwnedByLive, RemovalTargetsDead, OneRemoval, OwnsLock
    <3> QED
      BY <2>16, <3>1, <3>2
  <2>17. CASE MarkerRemoval(a)
    BY <2>17 DEF LockInv, TypeOK, MarkerRemoval, RecheckOwnMarker, UnlinkOwnMarker, At, Running,
       RemovalWhileReaping, OwnedByLive, RemovalTargetsDead, OneRemoval, OwnsLock, Removing, OwnerExists
  <2>18. CASE EndReap(a)
    BY <2>18 DEF LockInv, TypeOK, EndReap, At, Goto, Running,
       RemovalWhileReaping, OwnedByLive, RemovalTargetsDead, OneRemoval, OwnsLock, Removing, OwnerExists
  <2>19. CASE RecheckRelease(a)
    BY <2>19, QuietStep DEF RecheckRelease, At, Labels, OwnsLock
  <2>20. CASE UnlinkRelease(a)
    <3> USE DEF LockInv, TypeOK, UnlinkRelease, At, Goto, Running
    <3>1. RemovalWhileReaping'
      BY <2>20 DEF RemovalWhileReaping
    <3>2. ASSUME ~overlapped PROVE OwnedByLive' /\ RemovalTargetsDead' /\ OneRemoval'
      <4>1. lock = a /\ OwnerExists(lock)
        BY <2>20, <3>2 DEF OwnedByLive, OwnsLock, OwnerExists
      <4>2. \A b \in Actors : ~Removing(b)
        BY <3>2, <4>1 DEF RemovalTargetsDead
      <4>3. \A b \in Actors : b # a => ~OwnsLock(b)
        BY <3>2, <4>1 DEF OwnedByLive
      <4> QED
        BY <2>20, <4>2, <4>3 DEF OwnedByLive, RemovalTargetsDead, OneRemoval, OwnsLock, Removing
    <3> QED
      BY <2>20, <3>1, <3>2
  <2> QED
    BY <1>1, <2>1, <2>2, <2>3, <2>4, <2>5, <2>6, <2>7, <2>8, <2>9, <2>10, <2>11, <2>12, <2>13,
       <2>14, <2>15, <2>16, <2>17, <2>18, <2>19, <2>20 DEF Step, LoopStep, LockRemoval
<1>2. ASSUME NEW p \in Pids, Crash(p) PROVE LockInv'
  BY <1>2 DEF LockInv, Crash, Running, OwnerExists,
     RemovalWhileReaping, OwnedByLive, RemovalTargetsDead, OneRemoval, OwnsLock, Removing
<1>3. CASE Age \/ UNCHANGED vars
  BY <1>3 DEF LockInv, Age, vars, Running, OwnerExists,
     RemovalWhileReaping, OwnedByLive, RemovalTargetsDead, OneRemoval, OwnsLock, Removing
<1> QED
  BY <1>1, <1>2, <1>3 DEF Next

LEMMA LockInvariant == Spec => []LockInv
<1>1. Init => LockInv
  BY FileAssumption DEF Init, LockInv, TypeOK, Labels, Progress, RemovalWhileReaping,
     OwnedByLive, RemovalTargetsDead, OneRemoval, OwnsLock, Removing
<1> QED
  BY <1>1, LockStep, PTL DEF Spec

(* withPilotFileLock excludes as long as no two reapers' removals overlap. *)
THEOREM Exclusion == Spec => []ExclusionUntilOverlap
<1>1. LockInv => ExclusionUntilOverlap
  BY DEF LockInv, ExclusionUntilOverlap, MutualExclusion, OwnedByLive, OwnsLock, Holds, At
<1> QED
  BY <1>1, LockInvariant, PTL

(* Until then a live owner's lock leaves the path only by its own release. *)
THEOREM OwnerKeepsLock == Spec => LiveLockKept
<1> DEFINE Kept == \A a \in Actors : lock = a /\ lock' # a /\ Running(a) /\ ~overlapped => At(a, "unlinkOwn")
<1>1. LockInv /\ [Next]_vars => [Kept]_vars
  <2> SUFFICES ASSUME LockInv, Next, NEW a \in Actors,
                      lock = a, lock' # a, Running(a), ~overlapped
               PROVE  At(a, "unlinkOwn")
    BY DEF vars
  <2>1. PICK b \in Actors : LinkLock(b) \/ UnlinkLock(b) \/ UnlinkRelease(b)
    BY DEF Next, Step, LoopStep, LockRemoval, MarkerRemoval, Start, TimeOut, BeginRelease, Retry,
       RecoverStaleReaper, RecheckMarker, UnlinkMarker, ConfirmNoMarker, VerifyLock, InspectLock,
       TryAcquireReaper, VerifyMarker, ReapStaleLock, EndReap, RecheckRelease, RecheckLock,
       RecheckOwnMarker, UnlinkOwnMarker, Crash, Age
  <2>2. ~LinkLock(b)
    BY FileAssumption DEF LinkLock
  <2>3. ~UnlinkLock(b)
    BY DEF UnlinkLock, At, LockInv, RemovalTargetsDead, Removing, OwnerExists, Running
  <2>4. b = a
    BY <2>1, <2>2, <2>3 DEF UnlinkRelease, At, LockInv, OwnedByLive, OwnsLock
  <2> QED
    BY <2>1, <2>2, <2>3, <2>4 DEF UnlinkRelease
<1> QED
  BY <1>1, LockInvariant, PTL DEF Spec, LiveLockKept

----------------------------------------------------------------------------
(* The marker.  A marker on the path is held by the actor that linked it;  *)
(* an actor about to unlink a marker it found stale has seen a holder die; *)
(* while no holder has died, whoever holds the marker has it on the path.  *)
MarkerHeld == \A a \in Actors : marker = a => HoldsMarker(a)
StaleSeen == \A a \in Actors :
  pc[a] \in {"recheckMarker", "unlinkMarker"} => \E d \in Actors : HoldsMarker(d) /\ ~Running(d)
NoDeadHolder == \A a \in Actors : HoldsMarker(a) => Running(a)
HolderOnPath == \A a \in Actors : HoldsMarker(a) => marker = a

MarkerInv ==
  /\ TypeOK
  /\ MarkerHeld
  /\ StaleSeen
  /\ NoDeadHolder => HolderOnPath

(* A dead holder stays one: its labels are frozen.                         *)
LEMMA DeadHolderFrozen ==
  ASSUME TypeOK, [Next]_vars, NEW d \in Actors, HoldsMarker(d), ~Running(d)
  PROVE  HoldsMarker(d)' /\ ~Running(d)'
<1> USE DEF TypeOK, HoldsMarker, Running, At, Goto
<1>1. ASSUME NEW a \in Actors, Step(a) PROVE a # d /\ HoldsMarker(d)' /\ ~Running(d)'
  <2>1. CASE Start(a) \/ TimeOut(a) \/ BeginRelease(a)
    BY <2>1 DEF Start, TimeOut, BeginRelease
  <2>2. CASE Retry(a) \/ RecoverStaleReaper(a) \/ RecheckMarker(a)
    BY <2>2 DEF Retry, RecoverStaleReaper, RecheckMarker
  <2>3. CASE UnlinkMarker(a) \/ ConfirmNoMarker(a) \/ LinkLock(a)
    BY <2>3 DEF UnlinkMarker, ConfirmNoMarker, LinkLock
  <2>4. CASE VerifyLock(a) \/ InspectLock(a) \/ TryAcquireReaper(a) \/ VerifyMarker(a)
    BY <2>4 DEF VerifyLock, InspectLock, TryAcquireReaper, VerifyMarker
  <2>5. CASE ReapStaleLock(a) \/ EndReap(a) \/ RecheckRelease(a) \/ UnlinkRelease(a)
    BY <2>5 DEF ReapStaleLock, EndReap, RecheckRelease, UnlinkRelease
  <2>6. CASE LockRemoval(a) \/ MarkerRemoval(a)
    BY <2>6 DEF LockRemoval, RecheckLock, UnlinkLock, MarkerRemoval, RecheckOwnMarker, UnlinkOwnMarker
  <2> QED
    BY <1>1, <2>1, <2>2, <2>3, <2>4, <2>5, <2>6 DEF Step, LoopStep
<1>2. ASSUME NEW p \in Pids, Crash(p) PROVE HoldsMarker(d)' /\ ~Running(d)'
  BY <1>2 DEF Crash
<1>3. CASE Age \/ UNCHANGED vars
  BY <1>3 DEF Age, vars
<1> QED
  BY <1>1, <1>2, <1>3 DEF Next

(* A step that leaves the marker path, its holders and the processes alone *)
(* and does not judge a marker stale keeps the marker's invariant.         *)
LEMMA MarkerQuiet ==
  ASSUME MarkerInv, TypeOK', [Next]_vars,
         \A b \in Actors : HoldsMarker(b)' <=> HoldsMarker(b),
         \A b \in Actors : Running(b)' => Running(b),
         \A b \in Actors : pc'[b] \in {"recheckMarker", "unlinkMarker"}
                             => pc[b] \in {"recheckMarker", "unlinkMarker"},
         marker' = marker
  PROVE  MarkerInv'
<1>1. MarkerHeld'
  BY DEF MarkerInv, MarkerHeld
<1>2. StaleSeen'
  <2> SUFFICES ASSUME NEW a \in Actors, pc'[a] \in {"recheckMarker", "unlinkMarker"}
               PROVE  \E d \in Actors : HoldsMarker(d)' /\ ~Running(d)'
    BY DEF StaleSeen
  <2>1. PICK d \in Actors : HoldsMarker(d) /\ ~Running(d)
    BY DEF MarkerInv, StaleSeen
  <2> QED
    BY <2>1, DeadHolderFrozen DEF MarkerInv
<1>3. NoDeadHolder' => HolderOnPath'
  BY DEF MarkerInv, NoDeadHolder, HolderOnPath
<1> QED
  BY <1>1, <1>2, <1>3 DEF MarkerInv

(* A dead holder now is one afterwards: StaleSeen is stable, and the       *)
(* premise NoDeadHolder, once lost, does not return.                       *)
LEMMA DeadHolderStable ==
  ASSUME MarkerInv, [Next]_vars
  PROVE  /\ NoDeadHolder' => NoDeadHolder
         /\ (\E d \in Actors : HoldsMarker(d) /\ ~Running(d))
              => (\E d \in Actors : HoldsMarker(d)' /\ ~Running(d)')
BY DeadHolderFrozen DEF MarkerInv, NoDeadHolder

LEMMA MarkerStep == MarkerInv /\ [Next]_vars => MarkerInv'
<1> SUFFICES ASSUME MarkerInv, [Next]_vars PROVE MarkerInv'
  OBVIOUS
<1>0. TypeOK /\ TypeOK'
  BY TypeStep DEF MarkerInv
<1> USE <1>0
<1>1. ASSUME NEW a \in Actors, Step(a) PROVE MarkerInv'
  <2> USE DEF TypeOK, At, Goto, HoldsMarker, Running
  <2>1. CASE Start(a) \/ TimeOut(a) \/ BeginRelease(a) \/ Retry(a) \/ ConfirmNoMarker(a)
    BY <2>1, MarkerQuiet DEF Start, TimeOut, BeginRelease, Retry, ConfirmNoMarker
  <2>2. CASE LinkLock(a) \/ VerifyLock(a) \/ InspectLock(a)
    BY <2>2, MarkerQuiet DEF LinkLock, VerifyLock, InspectLock
  <2>3. CASE EndReap(a) \/ RecheckRelease(a) \/ UnlinkRelease(a) \/ LockRemoval(a)
    BY <2>3, MarkerQuiet DEF EndReap, RecheckRelease, UnlinkRelease, LockRemoval, RecheckLock, UnlinkLock
  <2>4. CASE RecheckMarker(a)
    BY <2>4, MarkerQuiet DEF RecheckMarker
  <2>5. CASE ReapStaleLock(a)
    BY <2>5, MarkerQuiet DEF ReapStaleLock
  <2>6. CASE RecoverStaleReaper(a)
    <3>1. CASE marker = NoFile \/ OwnerExists(marker)
      BY <2>6, <3>1, MarkerQuiet DEF RecoverStaleReaper
    <3>2. CASE marker # NoFile /\ ~OwnerExists(marker)
      <4>1. marker \in Actors /\ HoldsMarker(marker) /\ ~Running(marker)
        BY <3>2 DEF OwnerExists, MarkerInv, MarkerHeld
      <4>2. \A b \in Actors : HoldsMarker(b)' <=> HoldsMarker(b)
        BY <2>6, <3>2 DEF RecoverStaleReaper
      <4>3. \E d \in Actors : HoldsMarker(d)' /\ ~Running(d)'
        BY <4>1, DeadHolderStable
      <4>4. marker' = marker
        BY <2>6 DEF RecoverStaleReaper
      <4> QED
        BY <4>2, <4>3, <4>4 DEF MarkerInv, MarkerHeld, StaleSeen, NoDeadHolder
    <3> QED
      BY <3>1, <3>2
  <2>7. CASE UnlinkMarker(a)
    <3>1. \E d \in Actors : HoldsMarker(d)' /\ ~Running(d)'
      BY <2>7, DeadHolderStable DEF UnlinkMarker, MarkerInv, StaleSeen
    <3>2. marker' = NoFile
      BY <2>7 DEF UnlinkMarker
    <3> QED
      BY <3>1, <3>2, FileAssumption DEF MarkerInv, MarkerHeld, StaleSeen, NoDeadHolder
  <2>8. CASE TryAcquireReaper(a)
    <3>1. CASE marker # NoFile
      BY <2>8, <3>1, MarkerQuiet DEF TryAcquireReaper
    <3>2. CASE marker = NoFile
      <4>1. marker' = a /\ pc' = [pc EXCEPT ![a] = "verifyMarker"] /\ dropping' = dropping
        BY <2>8, <3>2 DEF TryAcquireReaper
      <4>2. MarkerHeld'
        BY <4>1 DEF MarkerHeld
      <4>3. StaleSeen'
        BY <4>1, DeadHolderStable DEF StaleSeen, MarkerInv
      <4>4. ASSUME NoDeadHolder' PROVE HolderOnPath'
        <5>1. \A b \in Actors : ~HoldsMarker(b)
          BY <3>2, <4>4, DeadHolderStable, FileAssumption DEF MarkerInv, HolderOnPath
        <5> QED
          BY <4>1, <5>1 DEF HolderOnPath
      <4> QED
        BY <4>2, <4>3, <4>4 DEF MarkerInv
    <3> QED
      BY <3>1, <3>2
  <2>9. CASE VerifyMarker(a)
    <3>1. CASE marker = a
      BY <2>9, <3>1, MarkerQuiet DEF VerifyMarker
    <3>2. CASE marker # a
      <4>1. \A b \in Actors : HoldsMarker(b)' <=> (HoldsMarker(b) /\ b # a)
        BY <2>9, <3>2 DEF VerifyMarker
      <4>2. marker' = marker /\ pc' = [pc EXCEPT ![a] = "retry"]
        BY <2>9, <3>2 DEF VerifyMarker
      <4>3. MarkerHeld'
        BY <3>2, <4>1, <4>2 DEF MarkerInv, MarkerHeld
      <4>4. StaleSeen'
        BY <4>2, DeadHolderStable DEF StaleSeen, MarkerInv
      <4>5. NoDeadHolder' => HolderOnPath'
        BY <4>1, <4>2, DeadHolderStable DEF MarkerInv, HolderOnPath
      <4> QED
        BY <4>3, <4>4, <4>5 DEF MarkerInv
    <3> QED
      BY <3>1, <3>2
  <2>10. CASE RecheckOwnMarker(a)
    <3>1. CASE marker = a
      BY <2>10, <3>1, MarkerQuiet DEF RecheckOwnMarker
    <3>2. CASE marker # a
      <4>1. \A b \in Actors : HoldsMarker(b)' <=> (HoldsMarker(b) /\ b # a)
        BY <2>10, <3>2 DEF RecheckOwnMarker
      <4>2. marker' = marker /\ pc' = pc
        BY <2>10 DEF RecheckOwnMarker
      <4>3. MarkerHeld'
        BY <3>2, <4>1, <4>2 DEF MarkerInv, MarkerHeld
      <4>4. StaleSeen'
        BY <4>2, DeadHolderStable DEF StaleSeen, MarkerInv
      <4>5. NoDeadHolder' => HolderOnPath'
        BY <4>1, <4>2, DeadHolderStable DEF MarkerInv, HolderOnPath
      <4> QED
        BY <4>3, <4>4, <4>5 DEF MarkerInv
    <3> QED
      BY <3>1, <3>2
  <2>11. CASE UnlinkOwnMarker(a)
    <3>1. \A b \in Actors : HoldsMarker(b)' <=> (HoldsMarker(b) /\ b # a)
      BY <2>11 DEF UnlinkOwnMarker
    <3>2. marker' = NoFile /\ pc' = pc /\ HoldsMarker(a)
      BY <2>11 DEF UnlinkOwnMarker
    <3>3. MarkerHeld'
      BY <3>2, FileAssumption DEF MarkerHeld
    <3>4. StaleSeen'
      BY <3>2, DeadHolderStable DEF StaleSeen, MarkerInv
    <3>5. ASSUME NoDeadHolder' PROVE HolderOnPath'
      BY <3>1, <3>2, <3>5, DeadHolderStable DEF MarkerInv, HolderOnPath
    <3> QED
      BY <3>3, <3>4, <3>5 DEF MarkerInv
  <2> QED
    BY <1>1, <2>1, <2>2, <2>3, <2>4, <2>5, <2>6, <2>7, <2>8, <2>9, <2>10, <2>11
    DEF Step, LoopStep, MarkerRemoval
<1>2. ASSUME NEW p \in Pids, Crash(p) PROVE MarkerInv'
  BY <1>2, MarkerQuiet DEF Crash, Running, HoldsMarker
<1>3. CASE Age \/ UNCHANGED vars
  BY <1>3, MarkerQuiet DEF Age, vars, Running, HoldsMarker
<1> QED
  BY <1>1, <1>2, <1>3 DEF Next

(* The marker admits one reaper at a time as long as none died with it.    *)
THEOREM OneReaper == Spec => []ReaperExclusion
<1>1. Init => MarkerInv
  BY FileAssumption, ZenonT(60) DEF Init, MarkerInv, TypeOK, Labels, Progress, MarkerHeld, StaleSeen,
     HolderOnPath, HoldsMarker
<1>2. MarkerInv => ReaperExclusion
  BY DEF MarkerInv, NoDeadHolder, HolderOnPath, ReaperExclusion
<1> QED
  BY <1>1, <1>2, MarkerStep, PTL DEF Spec
=============================================================================
