---- MODULE Installer ----
(***************************************************************************)
(* va-auto-pilot init and upgrade (bin/va-auto-pilot.mjs): scaffolding a   *)
(* project, and bringing it to the version of another package. Nothing is  *)
(* locked. A command may die at any write or stop at a file it refuses,    *)
(* users edit and create files meanwhile, and a file system may refuse to  *)
(* rename over a file. Packages are numbered; what a package ships for a   *)
(* path is its number. Left out: dry runs, which change nothing, the files *)
(* of a demo, and package.json, to which init adds what is missing.        *)
(***************************************************************************)
EXTENDS Naturals, Sequences, SequencesExt

CONSTANTS
  Sessions,     \* processes that run a command
  Packages,     \* versions of the package, positive numbers
  Templates,    \* the template paths, in the order they are walked
  Scripts,      \* the script paths, likewise
  UserState,    \* NEVER_OVERWRITE
  WithTokens,   \* the templates with {{TOKEN}}s, which cannot be compared
  Config,       \* .va-auto-pilot/config.yaml
  Own,          \* what a user wrote
  Folder,       \* a directory, where a file is expected
  MaxCommands,  \* bound: commands begun
  MaxFaults     \* bound: deaths, refused renames, edits of users

Paths == ToSet(Templates) \cup ToSet(Scripts)

\* What the constants must be; the harness assumes it of its instance.
InstallerAssumption ==
  /\ Packages \subseteq Nat \ {0}
  /\ UserState \cup WithTokens \cup {Config} \subseteq ToSet(Templates) /\ Config \in UserState
  /\ Templates \in Seq(ToSet(Templates)) /\ Scripts \in Seq(ToSet(Scripts))
  /\ ToSet(Templates) \cap ToSet(Scripts) = {}

VARIABLES
  disk,      \* the content of each path
  backups,   \* the contents set aside beside a path
  version,   \* .va-auto-pilot/version.json; 0: none
  sentinel,  \* .va-auto-pilot/.upgrade-in-progress
  sess,      \* what every command is doing
  past,      \* history: known, the paths that have held a file; own, those users
             \* wrote; yielded, those a command may take; loose, that commands overlapped or a scaffold was begun again
  used       \* the bounds' counters

vars == <<disk, backups, version, sentinel, sess, past, used>>

Nothing == 0

Idle == [at |-> "idle", cmd |-> "none", pkg |-> 0, force |-> FALSE, todo |-> <<>>, skip |-> {},
         clean |-> FALSE, seen |-> {}, old |-> Nothing]

TypeOK ==
  /\ disk \in [Paths -> Packages \cup {Nothing, Own, Folder}]
  /\ version \in Packages \cup {0} /\ sentinel \in BOOLEAN
  /\ \A p \in Paths : backups[p] \subseteq Packages \cup {Own}
  /\ \A s \in Sessions : ToSet(sess[s].todo) \subseteq Paths
  /\ past.own \subseteq Paths /\ past.yielded \subseteq Paths

\* A project a package was installed in, or none, and perhaps files of its own.
Init ==
  /\ version \in Packages \cup {0}
  /\ \/ version # 0 /\ disk = [p \in Paths |-> version] /\ past = [known |-> Paths, own |-> {}, yielded |-> {}, loose |-> FALSE]
     \/ \E own \in SUBSET (ToSet(Templates) \ UserState) :
          /\ version = 0 /\ disk = [p \in Paths |-> IF p \in own THEN Own ELSE Nothing]
          /\ past = [known |-> own, own |-> own, yielded |-> {}, loose |-> FALSE]
  /\ backups = [p \in Paths |-> {}] /\ sentinel = FALSE
  /\ sess = [s \in Sessions |-> Idle] /\ used = [commands |-> 0, faults |-> 0]

-----------------------------------------------------------------------------
(* Commands. *)

Go(s, at) == sess' = [sess EXCEPT ![s].at = at]
End(s) == sess' = [sess EXCEPT ![s] = Idle]

Exists(p) == disk[p] # Nothing

\* assertSafeDestination: a regular file, or nothing.
Safe(p) == disk[p] # Folder

Alone(s) == \A x \in Sessions \ {s} : sess[x].at = "idle"

Begun(s, cmd, pkg, force, at, todo, skip) ==
  /\ sess' = [x \in Sessions |->
                IF x = s THEN [at |-> at, cmd |-> cmd, pkg |-> pkg, force |-> force, todo |-> todo,
                               skip |-> skip, clean |-> Alone(s), seen |-> past.own, old |-> Nothing]
                ELSE [sess[x] EXCEPT !.clean = FALSE]]
  /\ used' = [used EXCEPT !.commands = @ + 1]

\* Every path is checked before anything is written. A second scaffold over an
\* installed one leaves the version as it is until its end.
BeginInit(s, pkg, force) ==
  /\ sess[s].at = "idle" /\ used.commands < MaxCommands
  /\ \A p \in Paths : Safe(p)
  /\ Begun(s, "init", pkg, force, "file", Templates \o Scripts, {})
  /\ past' = [past EXCEPT !.loose = @ \/ ~Alone(s) \/ (force /\ version # 0)]
  /\ UNCHANGED <<disk, backups, version, sentinel>>

\* What an upgrade does to a template, judged before anything is written: user
\* state is skipped, a missing file created, another only taken with --force.
Upgradable(p, pkg, force) ==
  /\ p \notin UserState
  /\ Exists(p) => force /\ (p \in WithTokens \/ disk[p] # pkg)

Skipped(pkg, force) == {p \in ToSet(Templates) : ~Upgradable(p, pkg, force)}

\* Mutant: the sentinel is written when the files have been.
FirstStepFiles == "file"

FirstStep == "sentinel"

\* A sentinel asks for --force; a project is known by its version or its config.
BeginUpgrade(s, pkg, force) ==
  /\ sess[s].at = "idle" /\ used.commands < MaxCommands
  /\ sentinel => force
  /\ version # 0 \/ Exists(Config)
  /\ version # pkg
  /\ \A p \in Paths \ UserState : Safe(p)
  /\ Begun(s, "upgrade", pkg, force, FirstStep, Scripts \o Templates, Skipped(pkg, force))
  /\ past' = [past EXCEPT !.loose = @ \/ ~Alone(s)]
  /\ UNCHANGED <<disk, backups, version, sentinel>>

\* "Already up to date": nothing is written.
UpToDate(s, pkg, force) ==
  /\ sess[s].at = "idle" /\ used.commands < MaxCommands
  /\ sentinel => force
  /\ version = pkg
  /\ used' = [used EXCEPT !.commands = @ + 1]
  /\ UNCHANGED <<disk, backups, version, sentinel, sess, past>>

WriteSentinel(s) ==
  /\ sess[s].at = "sentinel" /\ sentinel' = TRUE /\ Go(s, "file")
  /\ UNCHANGED <<disk, backups, version, past, used>>

-----------------------------------------------------------------------------
(* One file: writeFileSafely. *)

At(s) == sess[s].todo[1]

\* init refuses a file that is there, unless it is forced; an upgrade has judged it.
Refuses(s) == sess[s].cmd = "init" /\ ~sess[s].force /\ Exists(At(s))

Look(s) ==
  /\ sess[s].at = "file" /\ sess[s].todo # <<>> /\ At(s) \notin sess[s].skip
  /\ IF Refuses(s) THEN End(s)
     ELSE sess' = [sess EXCEPT ![s].at = "writing",
                               ![s].seen = IF sess[s].cmd = "init" THEN past.own ELSE @]
  /\ UNCHANGED <<disk, backups, version, sentinel, past, used>>

\* What needs no writing is passed over.
PassOver(s) ==
  /\ sess[s].at = "file" /\ sess[s].todo # <<>> /\ At(s) \in sess[s].skip
  /\ sess' = [sess EXCEPT ![s].todo = Tail(@)]
  /\ UNCHANGED <<disk, backups, version, sentinel, past, used>>

\* The command was told to overwrite the file, or the user wrote it after it had looked.
MayTake(s) ==
  \/ sess[s].force /\ (sess[s].cmd = "upgrade" => At(s) \notin UserState)
  \/ At(s) \notin sess[s].seen

Yield(s) == past' = [past EXCEPT !.yielded = IF MayTake(s) THEN @ \cup {At(s)} ELSE @,
                                !.known = @ \cup {At(s)}]

Written(s) == sess' = [sess EXCEPT ![s].at = "file", ![s].todo = Tail(@)]

\* The new file is complete in a temporary one before it takes the path.
Rename(s) ==
  /\ sess[s].at = "writing" /\ Safe(At(s))
  /\ disk' = [disk EXCEPT ![At(s)] = sess[s].pkg]
  /\ Yield(s) /\ Written(s)
  /\ UNCHANGED <<backups, version, sentinel, used>>

Fault == used.faults < MaxFaults /\ used' = [used EXCEPT !.faults = @ + 1]

Aside(p) == [backups EXCEPT ![p] = @ \cup {disk[p]}]

\* A file system that does not rename over a file: the old one steps aside.
SetAside(s) ==
  /\ sess[s].at = "writing" /\ Safe(At(s)) /\ Exists(At(s)) /\ Fault
  /\ backups' = Aside(At(s))
  /\ disk' = [disk EXCEPT ![At(s)] = Nothing]
  /\ sess' = [sess EXCEPT ![s].at = "aside", ![s].old = disk[At(s)]]
  /\ Yield(s)
  /\ UNCHANGED <<version, sentinel>>

PutNew(s) ==
  /\ sess[s].at = "aside" /\ Safe(At(s))
  /\ disk' = [disk EXCEPT ![At(s)] = sess[s].pkg]
  /\ Go(s, "placed")
  /\ UNCHANGED <<backups, version, sentinel, past, used>>

DropBackup(s) ==
  /\ sess[s].at = "placed"
  /\ backups' = [backups EXCEPT ![At(s)] = @ \ {sess[s].old}] /\ Written(s)
  /\ UNCHANGED <<disk, version, sentinel, past, used>>

\* The second rename fails, too: the old file comes back, and the command ends.
PutBack(s) ==
  /\ sess[s].at = "aside"
  /\ IF Exists(At(s)) \/ sess[s].old \notin backups[At(s)] THEN UNCHANGED <<disk, backups>>
     ELSE /\ disk' = [disk EXCEPT ![At(s)] = sess[s].old]
          /\ backups' = [backups EXCEPT ![At(s)] = @ \ {sess[s].old}]
  /\ End(s)
  /\ UNCHANGED <<version, sentinel, past, used>>

\* A directory in the place of a file ends the command.
Stop(s) ==
  /\ sess[s].at \in {"writing", "aside"} /\ ~Safe(At(s))
  /\ End(s)
  /\ UNCHANGED <<disk, backups, version, sentinel, past, used>>

-----------------------------------------------------------------------------
(* The end. *)

WriteVersion(s) ==
  /\ sess[s].at = "file" /\ sess[s].todo = <<>>
  /\ version' = sess[s].pkg
  /\ IF sess[s].cmd = "upgrade" THEN Go(s, "unlink") ELSE End(s)
  /\ past' = [past EXCEPT !.loose = @ /\ ~(sess[s].clean /\ Alone(s))]
  /\ UNCHANGED <<disk, backups, sentinel, used>>

RemoveSentinel(s) ==
  /\ sess[s].at = "unlink" /\ sentinel' = FALSE /\ End(s)
  /\ UNCHANGED <<disk, backups, version, past, used>>

Die(s) ==
  /\ Fault /\ sess[s].at # "idle" /\ End(s)
  /\ UNCHANGED <<disk, backups, version, sentinel, past>>

\* Users change and create files that are theirs to change.
UserEdits(p) ==
  /\ Fault /\ p \notin ToSet(Scripts) /\ disk[p] # Folder
  /\ \/ disk' = [disk EXCEPT ![p] = Own]
        /\ past' = [past EXCEPT !.known = @ \cup {p}, !.own = @ \cup {p}, !.yielded = @ \ {p}]
     \/ disk[p] = Nothing /\ disk' = [disk EXCEPT ![p] = Folder]
        /\ past' = [past EXCEPT !.known = @ \ {p}, !.own = @ \ {p}]
  /\ UNCHANGED <<backups, version, sentinel, sess>>

Command(s) ==
  \/ \E pkg \in Packages, force \in BOOLEAN :
       BeginInit(s, pkg, force) \/ BeginUpgrade(s, pkg, force) \/ UpToDate(s, pkg, force)
  \/ WriteSentinel(s) \/ Look(s) \/ PassOver(s) \/ Rename(s) \/ SetAside(s) \/ PutNew(s) \/ DropBackup(s) \/ PutBack(s)
  \/ Stop(s) \/ WriteVersion(s) \/ RemoveSentinel(s) \/ Die(s)

Next == (\E s \in Sessions : Command(s)) \/ (\E p \in Paths : UserEdits(p))

Spec == Init /\ [][Next]_vars

-----------------------------------------------------------------------------
(* Properties. *)

\* version.json tells the truth: without a sentinel that marks an interrupted
\* upgrade, every script is of the version it names, whatever died, was refused
\* or was repeated with whatever package. The exceptions, until a command that ran
\* alone has ended, are commands that overlapped and a scaffold begun over another.
VersionIsWhole ==
  version # 0 /\ ~sentinel /\ ~past.loose => \A p \in ToSet(Scripts) : disk[p] = version

\* No file goes missing, at its path or set aside beside it, by a rename that fails
\* or a death; and what users wrote stays unless a command was told to overwrite it:
\* an upgrade never takes user state, nor, without --force, a file that was there
\* when it looked (NEVER_OVERWRITE, writeFileSafely).
NothingLost ==
  /\ \A p \in past.known : Exists(p) \/ backups[p] # {}
  /\ \A p \in past.own : disk[p] = Own \/ Own \in backups[p] \/ p \in past.yielded

\* "Re-run with --force to continue the upgrade." (runUpgrade): after that the
\* upgrade is no longer marked as interrupted.
Continued == used'.commands # used.commands /\ sess' = sess => ~sentinel'
ForceContinues == [][Continued]_vars
====
