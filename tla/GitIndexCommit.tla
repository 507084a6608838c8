--------------------------- MODULE GitIndexCommit ---------------------------
(***************************************************************************)
(* How the pilot commits approved files without disturbing what the user   *)
(* has staged (commitPaths in scripts/auto-pilot-loop.mjs): the commit is  *)
(* built in an isolated index, HEAD is moved by a compare-and-swap, and    *)
(* the real index follows by renaming a candidate that was built under     *)
(* Git's own index.lock.  A hard link beside the index, the evidence,      *)
(* proves to a later commit that an index.lock is the pilot's, so that it  *)
(* can finish or drop what a crash left behind.                            *)
(*                                                                         *)
(* A session is one call of commitPaths.  Sessions exclude one another by  *)
(* commit.lock (PilotFileLock), so there is one at a time; it may die      *)
(* anywhere, and an update-ref process it started may outlive it.  The     *)
(* user works with ordinary Git at the same time.                          *)
(*                                                                         *)
(* The contents of a tree or an index are the tasks whose files it has in  *)
(* their approved version, and how often the user has staged something.    *)
(***************************************************************************)
EXTENDS Naturals

CONSTANTS
  Tasks,
  MaxCommits,   \* bound on the commits made
  MaxStaged     \* bound on the user's stagings

\* What the bounds must be; the harness assumes it of its instance.
BoundsAssumption == MaxCommits \in Nat /\ MaxStaged \in Nat

VARIABLES
  head,       \* HEAD; commit 0 is what the repository starts from
  made,       \* number of commit objects
  parentOf, treeOf,
  index,      \* the real index: its contents, and the inode they are on
  lock,       \* the inode at index.lock
  evidence,   \* commits whose recovery file exists
  written,    \* commits whose candidate index is complete ...
  candidate,  \* ... and its contents
  at,         \* where the session stands
  task, cur, base, copy,   \* its task, commit, HEAD it read, and copy of the index
  child,      \* its update-ref process is running
  orphans,    \* commits with an update-ref process that outlived its session
  user,       \* the Git command the user has under way
  staged,     \* history: stagings of the user
  byHand      \* history: the user removed an index.lock that was in the way

gitObjects == <<made, parentOf, treeOf>>
files == <<index, lock, evidence, written, candidate>>
session == <<task, cur, base, copy>>
vars == <<head, gitObjects, files, at, session, child, orphans, user, staged, byHand>>

Commits == 1 .. MaxCommits
Contents == [done : SUBSET Tasks, user : 0 .. MaxStaged]

(* Inodes: Git's own files, and the pilot's by their commit.               *)
Free == 0
Foreign == MaxCommits + 1
GitInode == 0
OnInode(contents, inode) == [done |-> contents.done, user |-> contents.user, inode |-> inode]
Of(idx) == [done |-> idx.done, user |-> idx.user]

Labels == {"idle", "recover", "classify", "forward", "forwarded", "publish", "discard",
           "dropEvidence", "parent", "open", "link", "copy", "write", "updateRef", "waitRef",
           "finalize", "finish", "rollback", "rollbackEvidence"}

NoContents == [done |-> {}, user |-> 0]

Init ==
  /\ head = 0 /\ made = 0
  /\ parentOf = [c \in Commits |-> 0]
  /\ treeOf = [c \in 0 .. MaxCommits |-> NoContents]
  /\ index = OnInode(NoContents, GitInode)
  /\ lock = Free
  /\ evidence = {} /\ written = {}
  /\ candidate = [c \in Commits |-> NoContents]
  /\ at = "idle" /\ task \in Tasks /\ cur = 0 /\ base = 0 /\ copy = NoContents
  /\ child = FALSE /\ orphans = {}
  /\ user = [op |-> "none", base |-> 0]
  /\ staged = 0
  /\ byHand = FALSE

Others == <<user, staged, byHand>>
Goto(from, to) == at = from /\ at' = to

NewCommit(c, parent, tree) ==
  /\ made' = c
  /\ parentOf' = [parentOf EXCEPT ![c] = parent]
  /\ treeOf' = [treeOf EXCEPT ![c] = tree]

----------------------------------------------------------------------------
(* recoverPendingRealIndex                                                 *)

Start(t) ==
  /\ Goto("idle", "recover")
  /\ task' = t
  /\ UNCHANGED <<head, gitObjects, files, cur, base, copy, child, orphans, Others>>

NothingPending ==
  /\ Goto("recover", "parent") /\ evidence = {}
  /\ UNCHANGED <<head, gitObjects, files, session, child, orphans, Others>>

ReadPending ==
  /\ Goto("recover", "classify")
  /\ cur' \in Commits /\ evidence = {cur'}
  /\ base' = head
  /\ UNCHANGED <<head, gitObjects, files, task, copy, child, orphans, Others>>

Owned == lock = cur

(* Mutant: a complete candidate before update-ref is dropped as well.      *)
VerdictDiscarding ==
  IF base = parentOf[cur]
  THEN IF lock = Foreign \/ head # base THEN "idle" ELSE "discard"
  ELSE IF base = cur THEN "publish" ELSE "idle"

(* What is to be done about the pending commit; "idle" when it needs a     *)
(* person.  Before update-ref, a complete candidate may have an update-ref *)
(* under way, so it is finished; a partial one can be dropped.             *)
Verdict ==
  IF base = parentOf[cur]
  THEN IF lock = Foreign THEN "idle"
       ELSE IF cur \in written THEN (IF Owned THEN "forward" ELSE "idle")
       ELSE IF head = cur THEN "publish"
       ELSE IF head = base THEN "discard" ELSE "idle"
  ELSE IF base = cur THEN "publish" ELSE "idle"

Classify ==
  /\ at = "classify" /\ at' = Verdict
  /\ UNCHANGED <<head, gitObjects, files, session, child, orphans, Others>>

Forward ==
  /\ Goto("forward", "forwarded")
  /\ child' = TRUE
  /\ UNCHANGED <<head, gitObjects, files, session, orphans, Others>>

Forwarded ==
  /\ at = "forwarded" /\ ~child
  /\ at' = IF head = cur THEN "publish" ELSE "idle"
  /\ UNCHANGED <<head, gitObjects, files, session, child, orphans, Others>>

Discard ==
  /\ Goto("discard", "dropEvidence")
  /\ lock' = IF Owned THEN Free ELSE lock
  /\ UNCHANGED <<head, gitObjects, index, evidence, written, candidate, session, child, orphans, Others>>

(* Mutant: without a lock, the candidate is put in place of the index.     *)
PublishUnlocked ==
  /\ at = "publish" /\ lock # Foreign /\ head = cur
  /\ index' = OnInode(candidate[cur], cur)
  /\ lock' = Free
  /\ at' = "dropEvidence"
  /\ UNCHANGED <<head, gitObjects, evidence, written, candidate, session, child, orphans, Others>>

(* The owned lock becomes the index; without a lock, the index must be the *)
(* candidate already.                                                      *)
Publish ==
  /\ at = "publish"
  /\ IF Owned /\ head = cur
     THEN /\ index' = OnInode(candidate[cur], cur)
          /\ lock' = Free
          /\ at' = "dropEvidence"
     ELSE /\ at' = IF lock = Free /\ (index.inode = cur \/ Of(index) = candidate[cur]) THEN "dropEvidence" ELSE "idle"
          /\ UNCHANGED <<index, lock>>
  /\ UNCHANGED <<head, gitObjects, evidence, written, candidate, session, child, orphans, Others>>

DropEvidence(from, to) ==
  /\ Goto(from, to)
  /\ evidence' = evidence \ {cur}
  /\ UNCHANGED <<head, gitObjects, index, lock, written, candidate, session, child, orphans, Others>>

EndRecovery == DropEvidence("dropEvidence", "parent")

----------------------------------------------------------------------------
(* commitPathsUnlocked, and acquireOwnedGitIndexLock and                   *)
(* prepareRealIndexUpdate under it                                         *)

(* The parent is read before staging, hooks and hash checks; a file that   *)
(* HEAD has in its approved version leaves nothing to commit.              *)
ReadParent ==
  /\ at = "parent"
  /\ base' = head
  /\ at' = IF task \in treeOf[head].done THEN "idle" ELSE "open"
  /\ UNCHANGED <<head, gitObjects, files, task, cur, copy, child, orphans, Others>>

(* A hook, or a file that changed since its approval, rejects the commit.  *)
RejectCommit ==
  /\ Goto("open", "idle")
  /\ UNCHANGED <<head, gitObjects, files, session, child, orphans, Others>>

(* The commit object, then its recovery file.                              *)
OpenEvidence ==
  /\ Goto("open", "link") /\ made < MaxCommits
  /\ cur' = made + 1
  /\ NewCommit(cur', base, [treeOf[base] EXCEPT !.done = @ \cup {task}])
  /\ evidence' = evidence \cup {cur'}
  /\ UNCHANGED <<head, index, lock, written, candidate, task, base, copy, child, orphans, Others>>

LinkLock ==
  /\ Goto("link", "copy") /\ lock = Free
  /\ lock' = cur
  /\ UNCHANGED <<head, gitObjects, index, evidence, written, candidate, session, child, orphans, Others>>

(* GIT_INDEX_LOCKED, or linking fails for another reason.                  *)
TimeOut ==
  /\ Goto("link", "idle")
  /\ evidence' = evidence \ {cur}
  /\ UNCHANGED <<head, gitObjects, index, lock, written, candidate, session, child, orphans, Others>>

CopyIndex ==
  /\ Goto("copy", "write")
  /\ copy' = Of(index)
  /\ UNCHANGED <<head, gitObjects, files, task, cur, base, child, orphans, Others>>

(* The copy, with the commit's files brought up to it, is written through  *)
(* the owned inode and verified.                                           *)
WriteCandidate ==
  /\ Goto("write", "updateRef")
  /\ candidate' = [candidate EXCEPT ![cur] = [copy EXCEPT !.done = @ \cup {task}]]
  /\ written' = written \cup {cur}
  /\ UNCHANGED <<head, gitObjects, index, lock, evidence, session, child, orphans, Others>>

(* Syncing the link, copying, writing or verifying fails: cleanupLock.     *)
PrepareFails ==
  /\ at \in {"copy", "write"} /\ at' = "rollback"
  /\ UNCHANGED <<head, gitObjects, files, session, child, orphans, Others>>

StartUpdateRef ==
  /\ Goto("updateRef", "waitRef")
  /\ child' = TRUE
  /\ UNCHANGED <<head, gitObjects, files, session, orphans, Others>>

(* HEAD decides, not the exit code; when it names neither the commit nor   *)
(* its parent, or cannot be read, lock and evidence stay for a person.     *)
UpdateRefDone ==
  /\ at = "waitRef" /\ ~child
  /\ at' \in {"idle", IF head = cur THEN "finalize" ELSE IF head = base THEN "rollback" ELSE "idle"}
  /\ UNCHANGED <<head, gitObjects, files, session, child, orphans, Others>>

Finalize ==
  /\ Goto("finalize", "finish") /\ Owned
  /\ index' = OnInode(candidate[cur], cur)
  /\ lock' = Free
  /\ UNCHANGED <<head, gitObjects, evidence, written, candidate, session, child, orphans, Others>>

(* The rename, or syncing the directory after it, fails: the commit stands *)
(* and what is left is recovered by the next one.                          *)
FinalizeFails ==
  /\ at \in {"finalize", "finish"} /\ at' = "idle"
  /\ UNCHANGED <<head, gitObjects, files, session, child, orphans, Others>>

Finish == DropEvidence("finish", "idle")

Rollback ==
  /\ Goto("rollback", "rollbackEvidence")
  /\ lock' = IF Owned THEN Free ELSE lock
  /\ UNCHANGED <<head, gitObjects, index, evidence, written, candidate, session, child, orphans, Others>>

EndRollback == DropEvidence("rollbackEvidence", "idle")

----------------------------------------------------------------------------
(* git update-ref HEAD c parent, run by a session or by an orphan of one.  *)

(* Mutant: update-ref is not told the old value.                           *)
UpdateRefUnchecked(c) == head' = c

(* It may also fail for a reason of its own.                               *)
UpdateRef(c) == head' \in {head, IF head = parentOf[c] THEN c ELSE head}

RunChild ==
  /\ child /\ child' = FALSE
  /\ UpdateRef(cur)
  /\ UNCHANGED <<gitObjects, files, at, session, orphans, Others>>

RunOrphan(c) ==
  /\ c \in orphans /\ orphans' = orphans \ {c}
  /\ UpdateRef(c)
  /\ UNCHANGED <<gitObjects, files, at, session, child, Others>>

Crash ==
  /\ at # "idle" /\ at' = "idle"
  /\ child' = FALSE
  /\ orphans' = IF child THEN orphans \cup {cur} ELSE orphans
  /\ UNCHANGED <<head, gitObjects, files, session, Others>>

----------------------------------------------------------------------------
(* The user's Git: git add and git commit hold index.lock throughout.      *)

UserLock(op) ==
  /\ user.op = "none" /\ lock = Free
  /\ user' = [op |-> op, base |-> head]
  /\ lock' = Foreign
  /\ UNCHANGED <<head, gitObjects, index, evidence, written, candidate, at, session, child, orphans,
                 staged, byHand>>

UserDone == user' = [op |-> "none", base |-> 0] /\ lock' = Free

UserAdd ==
  /\ user.op = "add" /\ staged < MaxStaged
  /\ staged' = staged + 1
  /\ index' = OnInode([Of(index) EXCEPT !.user = @ + 1], GitInode)
  /\ UserDone
  /\ UNCHANGED <<head, gitObjects, evidence, written, candidate, at, session, child, orphans, byHand>>

(* What the index holds is committed, unless HEAD has moved meanwhile.     *)
UserCommit ==
  /\ user.op = "commit" /\ Of(index) # treeOf[head] /\ made < MaxCommits
  /\ head = user.base
  /\ NewCommit(made + 1, head, Of(index))
  /\ head' = made'
  /\ index' = [index EXCEPT !.inode = GitInode]
  /\ UserDone
  /\ UNCHANGED <<evidence, written, candidate, at, session, child, orphans, staged, byHand>>

UserGivesUp ==
  /\ user.op # "none" /\ UserDone
  /\ UNCHANGED <<head, gitObjects, index, evidence, written, candidate, at, session, child, orphans,
                 staged, byHand>>

(* Git suggests to remove the index.lock of a process that crashed.        *)
RemoveLockByHand ==
  /\ at = "idle" /\ lock \in Commits
  /\ lock' = Free
  /\ byHand' = TRUE
  /\ UNCHANGED <<head, gitObjects, index, evidence, written, candidate, at, session, child, orphans,
                 user, staged>>

Recovery ==
  \/ NothingPending \/ ReadPending \/ Classify \/ Forward \/ Forwarded \/ Discard \/ Publish \/ EndRecovery

Commit ==
  \/ ReadParent \/ RejectCommit \/ OpenEvidence \/ LinkLock \/ TimeOut \/ CopyIndex
  \/ WriteCandidate \/ PrepareFails \/ StartUpdateRef \/ UpdateRefDone
  \/ Finalize \/ FinalizeFails \/ Finish \/ Rollback \/ EndRollback

Next ==
  \/ \E t \in Tasks : Start(t)
  \/ Recovery \/ Commit \/ RunChild \/ Crash
  \/ \E c \in Commits : RunOrphan(c)
  \/ \E op \in {"add", "commit"} : UserLock(op)
  \/ UserAdd \/ UserCommit \/ UserGivesUp \/ RemoveLockByHand

Spec == Init /\ [][Next]_vars

----------------------------------------------------------------------------
(* Every variable stays in its type.                                       *)
TypeOK ==
  /\ head \in 0 .. MaxCommits /\ made \in 0 .. MaxCommits
  /\ parentOf \in [Commits -> 0 .. MaxCommits]
  /\ treeOf \in [0 .. MaxCommits -> Contents]
  /\ index \in [done : SUBSET Tasks, user : 0 .. MaxStaged, inode : 0 .. MaxCommits]
  /\ lock \in 0 .. MaxCommits + 1
  /\ evidence \subseteq Commits /\ written \subseteq Commits
  /\ candidate \in [Commits -> Contents]
  /\ at \in Labels
  /\ task \in Tasks /\ cur \in 0 .. MaxCommits /\ base \in 0 .. MaxCommits /\ copy \in Contents
  /\ child \in BOOLEAN /\ orphans \subseteq Commits
  /\ user \in [op : {"none", "add", "commit"}, base : 0 .. MaxCommits]
  /\ staged \in 0 .. MaxStaged
  /\ byHand \in BOOLEAN

(* Nothing the user staged is ever lost from the index: not by publishing  *)
(* a candidate, by recovering one, or after the lock was removed by hand.  *)
StagingKept == index.user = staged

(* When no commit is under way or pending, the index has what HEAD has:    *)
(* a crash or a late update-ref never leaves a commit half published, for  *)
(* the user's next commit to undo.                                         *)
IndexFollowsHead == lock = Free /\ evidence = {} => treeOf[head].done \subseteq index.done

KeepsTasks == ~byHand => treeOf[head].done \subseteq (treeOf[head].done)'

(* HEAD never loses a task it had, whatever update-refs come late, unless  *)
(* the user tore the pilot's lock away.                                    *)
NothingReverted == [][KeepsTasks]_vars

(* CHANGELOG.md: "Recovered pilot-owned Git `index.lock` files across      *)
(* process crashes on either side of the atomic `HEAD` update".            *)
OwnedLockRecovered ==
  at = "idle" /\ lock \in Commits => evidence = {lock} /\ head \in {lock, parentOf[lock]}
=============================================================================
