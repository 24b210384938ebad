-------------------------- MODULE PackageManager --------------------------
(***************************************************************************)
(* Installation of the bundled reloadium package under ~/.reloadium        *)
(* (rw/pkg, rw/service/Service.java).                                      *)
(*                                                                         *)
(* The plugin ships wheels of its built-in version.  An install unpacks    *)
(* every wheel the machine accepts into its directory, then writes the     *)
(* launcher, then the version file; version.txt is what decides later      *)
(* whether anything has to be installed.  Installs run as background tasks *)
(* started when the IDE starts and by a periodic check.  The IDE may be    *)
(* killed between any two steps and come back with a newer plugin; any     *)
(* file operation may fail.                                                *)
(*                                                                         *)
(* A directory is missing, broken (some files of a wheel are not there) or *)
(* holds all files of a wheel of some version; files of older wheels that  *)
(* deleteDirectory failed to remove are not modelled.                      *)
(***************************************************************************)
EXTENDS Naturals, FiniteSets

CONSTANTS
    Wheel,        \* the wheels this machine accepts (PackageManager.getWheels)
    Dir,          \* directories under the package root
    dst,          \* dst[w]: the directory of w (BaseWheel.getDstDirName)
    Task,         \* background tasks the progress manager may run
    Missing, Broken,
    MaxVersion,   \* bound: versions of the plugin
    MaxFaults     \* bound: crashes, failed operations, removals by the user

ASSUME PackageAssumption ==
    /\ dst \in [Wheel -> Dir]
    /\ Missing \notin Nat /\ Broken \notin Nat
    /\ MaxVersion \in Nat /\ MaxFaults \in Nat

VARIABLES
    running,      \* the IDE runs
    builtin,      \* PackageManager.builtinVersion
    version,      \* the content of version.txt
    dirs,         \* the content of each directory
    launcher,     \* the content of the launcher file
    installing,   \* PackageManager.installing
    checker,      \* Service.checkIfStillGood: where the scheduler's thread is
    task,         \* where each InstallTask is
    todo,         \* the wheels its install has not unpacked yet
    current,      \* the wheel it is unpacking, as a set
    faults,       \* number of faults so far
    swallowed,    \* (history) the latest launcher could not be written
    downgraded    \* (history) an older plugin came back and installed nothing yet

disk == <<version, dirs, launcher>>
ide == <<running, builtin>>
work == <<todo, current>>
history == <<swallowed, downgraded>>
vars == <<ide, disk, installing, checker, task, work, faults, history>>

File == Nat \cup {Missing, Broken}

\* Nothing is installed and the IDE has not been started yet.
Init ==
    /\ running = FALSE
    /\ builtin = 1
    /\ version = Missing
    /\ dirs = [d \in Dir |-> Missing]
    /\ launcher = Missing
    /\ installing = FALSE
    /\ checker = "waiting"
    /\ task = [t \in Task |-> "none"]
    /\ todo = [t \in Task |-> {}]
    /\ current = [t \in Task |-> {}]
    /\ faults = 0
    /\ swallowed = FALSE /\ downgraded = FALSE

\* PackageManager.shouldInstall: version.txt cannot be read or differs.
shouldInstall == version # builtin

Fault == faults < MaxFaults /\ faults' = faults + 1

-----------------------------------------------------------------------------
(* Service *)

\* PackageManager.run: the flag is raised and a task is queued.
Run(t) ==
    /\ task[t] = "none"
    /\ installing' = TRUE
    /\ task' = [task EXCEPT ![t] = "queued"]

\* Service.init, when the IDE starts with the same plugin, a newer or an older
\* one.
Start(v, t) ==
    /\ ~running
    /\ running' = TRUE
    /\ builtin' = v
    /\ downgraded' = (downgraded \/ v < builtin)
    /\ Run(t)
    /\ UNCHANGED <<disk, checker, work, faults, swallowed>>

\* checkIfStillGood, every ten minutes: shouldInstall() ...
Check ==
    /\ running /\ checker = "waiting"
    /\ checker' = IF shouldInstall THEN "checked" ELSE "waiting"
    /\ UNCHANGED <<ide, disk, installing, task, work, faults, history>>

\* ... && !isInstalling(), read later: run.
Reinstall(t) ==
    /\ running /\ checker = "checked" /\ ~installing
    /\ checker' = "waiting"
    /\ Run(t)
    /\ UNCHANGED <<ide, disk, work, faults, history>>

SkipReinstall ==
    /\ running /\ checker = "checked" /\ installing
    /\ checker' = "waiting"
    /\ UNCHANGED <<ide, disk, installing, task, work, faults, history>>

-----------------------------------------------------------------------------
(* InstallTask.runTask and PackageManager.install *)

\* The finally block: the task ends and the flag is lowered.
EndTask(t) ==
    /\ task' = [task EXCEPT ![t] = "none"]
    /\ installing' = FALSE
    /\ todo' = [todo EXCEPT ![t] = {}]
    /\ current' = [current EXCEPT ![t] = {}]

\* shouldInstall() holds once more, and getWheels() finds wheels.
Begin(t) ==
    /\ task[t] = "queued" /\ shouldInstall /\ Wheel # {}
    /\ task' = [task EXCEPT ![t] = "unpack"]
    /\ todo' = [todo EXCEPT ![t] = Wheel]
    /\ UNCHANGED <<ide, disk, installing, checker, current, faults, history>>

\* Nothing to do, or no wheel for this machine: the task ends, and in the
\* second case the version file is not written.
NothingToDo(t) ==
    /\ task[t] = "queued" /\ (~shouldInstall \/ Wheel = {})
    /\ EndTask(t)
    /\ UNCHANGED <<ide, disk, checker, faults, history>>

\* BaseWheel.unpack up to mkdirs: the wheel is copied to a temporary
\* directory, the old directory deleted (a failure is ignored and leaves some
\* of its files) and created again.
ClearDir(t, w) ==
    /\ task[t] = "unpack" /\ w \in todo[t] /\ current[t] = {}
    /\ current' = [current EXCEPT ![t] = {w}]
    /\ dirs' = [dirs EXCEPT ![dst[w]] = Broken]
    /\ UNCHANGED <<ide, version, launcher, installing, checker, task, todo,
                   faults, history>>

\* The wheel is extracted and copied to its directory.
PutDirectory(t, w) ==
    /\ task[t] = "unpack" /\ current[t] = {w}
    /\ dirs' = [dirs EXCEPT ![dst[w]] = builtin]
    /\ todo' = [todo EXCEPT ![t] = @ \ {w}]
    /\ current' = [current EXCEPT ![t] = {}]
    /\ UNCHANGED <<ide, version, launcher, installing, checker, task, faults,
                   history>>

\* Mutant: a wheel that cannot be copied is skipped.
UnpackFailsQuietly(t) ==
    /\ task[t] = "unpack" /\ Fault
    /\ \E w \in todo[t] : todo' = [todo EXCEPT ![t] = @ \ {w}]
    /\ current' = [current EXCEPT ![t] = {}]
    /\ UNCHANGED <<ide, disk, installing, checker, task, history>>

\* Mutant: the flag is lowered only when the install succeeds.
UnpackFailsUnfinished(t) ==
    /\ task[t] = "unpack" /\ Fault
    /\ task' = [task EXCEPT ![t] = "none"]
    /\ todo' = [todo EXCEPT ![t] = {}]
    /\ current' = [current EXCEPT ![t] = {}]
    /\ UNCHANGED <<ide, disk, installing, checker, history>>

\* unpack throws, before or after the directory was cleared.
UnpackFails(t) ==
    /\ task[t] = "unpack" /\ Fault
    /\ EndTask(t)
    /\ UNCHANGED <<ide, disk, checker, history>>

\* All wheels are unpacked: the launcher file is opened, which empties it.
OpenLauncher(t) ==
    /\ task[t] = "unpack" /\ todo[t] = {}
    /\ task' = [task EXCEPT ![t] = "launcher"]
    /\ launcher' = Broken
    /\ UNCHANGED <<ide, version, dirs, installing, checker, work, faults, history>>

WriteLauncher(t) ==
    /\ task[t] = "launcher"
    /\ task' = [task EXCEPT ![t] = "version"]
    /\ launcher' = builtin
    /\ swallowed' = FALSE
    /\ UNCHANGED <<ide, version, dirs, installing, checker, work, faults, downgraded>>

\* installLauncher catches the IOException and the install goes on.
LauncherFails(t) ==
    /\ task[t] = "launcher" /\ Fault
    /\ task' = [task EXCEPT ![t] = "version"]
    /\ swallowed' = TRUE
    /\ UNCHANGED <<ide, disk, installing, checker, work, downgraded>>

\* version.txt is opened, which empties it ...
OpenVersion(t) ==
    /\ task[t] = "version"
    /\ task' = [task EXCEPT ![t] = "write"]
    /\ version' = Broken
    /\ UNCHANGED <<ide, dirs, launcher, installing, checker, work, faults, history>>

\* ... and written.
WriteVersion(t) ==
    /\ task[t] = "write"
    /\ task' = [task EXCEPT ![t] = "finally"]
    /\ version' = builtin
    /\ downgraded' = FALSE
    /\ UNCHANGED <<ide, dirs, launcher, installing, checker, work, faults, swallowed>>

VersionFails(t) ==
    /\ task[t] \in {"version", "write"} /\ Fault
    /\ EndTask(t)
    /\ UNCHANGED <<ide, disk, checker, history>>

Finish(t) ==
    /\ task[t] = "finally"
    /\ EndTask(t)
    /\ UNCHANGED <<ide, disk, checker, faults, history>>

-----------------------------------------------------------------------------
(* Environment *)

\* The IDE is killed or quits; what is on disk stays.
Stop ==
    /\ running /\ Fault
    /\ running' = FALSE
    /\ installing' = FALSE
    /\ checker' = "waiting"
    /\ task' = [t \in Task |-> "none"]
    /\ todo' = [t \in Task |-> {}]
    /\ current' = [t \in Task |-> {}]
    /\ UNCHANGED <<builtin, disk, history>>

\* The user removes ~/.reloadium while no install is running.
RemovePackage ==
    /\ Fault
    /\ \A t \in Task : task[t] \in {"none", "queued"}
    /\ version' = Missing
    /\ dirs' = [d \in Dir |-> Missing]
    /\ launcher' = Missing
    /\ UNCHANGED <<ide, installing, checker, task, work, history>>

-----------------------------------------------------------------------------
Service == Check \/ SkipReinstall \/ \E t \in Task : Reinstall(t)

InstallTask(t) ==
    \/ Begin(t) \/ NothingToDo(t)
    \/ \E w \in Wheel : ClearDir(t, w) \/ PutDirectory(t, w)
    \/ OpenLauncher(t) \/ WriteLauncher(t) \/ OpenVersion(t) \/ WriteVersion(t)
    \/ Finish(t)

InstallFails(t) == UnpackFails(t) \/ LauncherFails(t) \/ VersionFails(t)

Next ==
    \/ \E v \in 1..MaxVersion, t \in Task : Start(v, t)
    \/ Service
    \/ \E t \in Task : InstallTask(t) \/ InstallFails(t)
    \/ Stop \/ RemovePackage

Spec == Init /\ [][Next]_vars

\* The scheduler repeats its check and the progress manager runs its tasks.
Fairness == WF_vars(Service) /\ \A t \in Task : WF_vars(InstallTask(t))

FairSpec == Spec /\ Fairness

-----------------------------------------------------------------------------
(* Properties *)

TaskPc == {"none", "queued", "unpack", "launcher", "version", "write", "finally"}

\* The types of the state, and that an install holds a wheel only while it
\* unpacks it.
TypeOK ==
    /\ running \in BOOLEAN /\ builtin \in Nat
    /\ version \in File /\ dirs \in [Dir -> File] /\ launcher \in File
    /\ installing \in BOOLEAN
    /\ checker \in {"waiting", "checked"}
    /\ task \in [Task -> TaskPc]
    /\ todo \in [Task -> SUBSET Wheel]
    /\ current \in [Task -> SUBSET Wheel]
    /\ \A t \in Task : current[t] \subseteq todo[t]
    /\ \A t \in Task : task[t] # "unpack" => todo[t] = {}
    /\ faults \in Nat /\ swallowed \in BOOLEAN /\ downgraded \in BOOLEAN

\* An install is writing to the disk.
Active(t) == task[t] \in {"unpack", "launcher", "version", "write"}

\* What shouldInstall() relies on: a version file that names the built-in
\* version stands for a complete package, whatever was killed or failed before
\* and however often the plugin was updated.  Two cases are left out because
\* the code gets them wrong: the launcher after an install that ignored the
\* failure to write it, and an older plugin that comes back after a newer one
\* was killed in the middle of its install, which is told by the old version
\* file that nothing has to be done.
VersionImpliesComplete ==
    version = builtin /\ ~downgraded =>
        /\ \A w \in Wheel : dirs[dst[w]] = builtin
        /\ launcher = builtin \/ swallowed

\* The installing flag keeps installs apart: the periodic check never starts a
\* second task while one is queued or running.
OneInstallAtATime ==
    \A t, u \in Task : task[t] # "none" /\ task[u] # "none" => t = u

\* What an installed package can be relied on for (PackageManager.install): its
\* version file tells the truth, and no two installs write to it at once.
InstallSound == VersionImpliesComplete /\ OneInstallAtATime

\* A package that is good is never taken apart by an install, although the
\* periodic check may queue a task on the strength of an outdated answer.
NeverTouchesGoodPackage ==
    [][ (\E t \in Task : Active(t)) /\ dirs' # dirs => version # builtin ]_vars

\* Why they hold: the inductive invariant.  A task runs only under the flag,
\* while the IDE runs and version.txt does not name the built-in version; the
\* wheels an install has dealt with are complete, or will be when the wheel it
\* is unpacking into the same directory is; and no version file names a plugin
\* newer than the running one unless that one is a downgrade.
FlagInvariant ==
    /\ OneInstallAtATime
    /\ \A t \in Task : task[t] # "none" => installing /\ running

DiskInvariant ==
    /\ \A t \in Task :
        /\ Active(t) => version # builtin
        /\ task[t] = "unpack" =>
              \A w \in Wheel \ todo[t] :
                  dirs[dst[w]] = builtin \/ \E x \in current[t] : dst[x] = dst[w]
        /\ task[t] \in {"launcher", "version", "write"} =>
              \A w \in Wheel : dirs[dst[w]] = builtin
        /\ task[t] \in {"version", "write"} => launcher = builtin \/ swallowed
    /\ ~downgraded /\ version \in Nat => version \leq builtin
    /\ VersionImpliesComplete

\* While the IDE runs, a package that is missing, damaged or outdated is
\* installed sooner or later, failed attempts notwithstanding.
Repaired == running /\ shouldInstall ~> ~running \/ ~shouldInstall

-----------------------------------------------------------------------------
\* The machine of the run: it accepts three wheels, two of them for one directory, as
\* macOS does with the two cp311 universal wheels (WheelFactory, BaseWheel.getDstDirName).
DstDir == [w \in Wheel |-> IF w \in {"cp310", "cp311a"} THEN w ELSE "cp311a"]

===========================================================================
