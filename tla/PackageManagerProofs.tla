----------------------- MODULE PackageManagerProofs -----------------------
(***************************************************************************)
(* The package manager's invariants, proved for any set of wheels, any     *)
(* assignment of wheels to directories, any number of background tasks,    *)
(* versions and faults.  TypeOK and FlagInvariant are each inductive      *)
(* given the types; DiskInvariant is inductive relative to both, because   *)
(* what one install leaves on disk can be relied on only while no other    *)
(* install runs.                                                           *)
(***************************************************************************)
EXTENDS PackageManager, TLAPS

\* Every step is one action of one task or of the IDE.
LEMMA NextCases ==
    ASSUME Next
    PROVE  \/ \E v \in 1..MaxVersion, t \in Task : Start(v, t)
           \/ Check
           \/ SkipReinstall
           \/ \E t \in Task : Reinstall(t)
           \/ \E t \in Task : Begin(t)
           \/ \E t \in Task : NothingToDo(t)
           \/ \E t \in Task, w \in Wheel : ClearDir(t, w)
           \/ \E t \in Task, w \in Wheel : PutDirectory(t, w)
           \/ \E t \in Task : OpenLauncher(t)
           \/ \E t \in Task : WriteLauncher(t)
           \/ \E t \in Task : OpenVersion(t)
           \/ \E t \in Task : WriteVersion(t)
           \/ \E t \in Task : Finish(t)
           \/ \E t \in Task : UnpackFails(t)
           \/ \E t \in Task : LauncherFails(t)
           \/ \E t \in Task : VersionFails(t)
           \/ Stop
           \/ RemovePackage
BY Zenon DEF Next, Service, InstallTask, InstallFails

\* Every action keeps the types.
LEMMA TypeStep ==
    ASSUME TypeOK, Next
    PROVE  TypeOK'
<1> USE DEF File, TaskPc, ide, disk, work, history
<1>1. CASE \E v \in 1..MaxVersion, t \in Task : Start(v, t)
  BY <1>1, PackageAssumption DEF TypeOK, Start, Run
<1>2. CASE Check \/ SkipReinstall \/ \E t \in Task : Reinstall(t)
  BY <1>2 DEF TypeOK, Check, SkipReinstall, Reinstall, Run
<1>3. CASE \E t \in Task : Begin(t)
  BY <1>3 DEF TypeOK, Begin
<1>4. CASE \E t \in Task : NothingToDo(t) \/ Finish(t)
  BY ZenonT(40), <1>4 DEF TypeOK, NothingToDo, Finish, EndTask
<1>5. CASE \E t \in Task, w \in Wheel : ClearDir(t, w)
  BY <1>5, PackageAssumption DEF TypeOK, ClearDir
<1>6. CASE \E t \in Task, w \in Wheel : PutDirectory(t, w)
  BY <1>6, PackageAssumption DEF TypeOK, PutDirectory
<1>7. CASE \E t \in Task : OpenLauncher(t)
  BY <1>7 DEF TypeOK, OpenLauncher
<1>8. CASE \E t \in Task : WriteLauncher(t) \/ OpenVersion(t) \/ WriteVersion(t)
  BY ZenonT(40), <1>8 DEF TypeOK, WriteLauncher, OpenVersion, WriteVersion
<1>9. CASE \E t \in Task : UnpackFails(t) \/ VersionFails(t)
  <2>1. faults' \in Nat
    BY <1>9 DEF TypeOK, UnpackFails, VersionFails, Fault
  <2> QED
    BY ZenonT(40), <1>9, <2>1 DEF TypeOK, UnpackFails, VersionFails, EndTask
<1>10. CASE \E t \in Task : LauncherFails(t)
  BY <1>10 DEF TypeOK, LauncherFails, Fault
<1>11. CASE Stop
  <2>1. faults' \in Nat
    BY <1>11 DEF TypeOK, Stop, Fault
  <2> QED
    BY <1>11, <2>1 DEF TypeOK, Stop
<1>12. CASE RemovePackage
  <2>1. faults' \in Nat
    BY <1>12 DEF TypeOK, RemovePackage, Fault
  <2> QED
    BY <1>12, <2>1 DEF TypeOK, RemovePackage
<1> QED
  BY NextCases, <1>1, <1>2, <1>3, <1>4, <1>5, <1>6, <1>7, <1>8, <1>9, <1>10, <1>11,
     <1>12

\* The types hold in every reachable state of the package manager.
THEOREM TypeCorrect == Spec => []TypeOK
<1>1. Init => TypeOK
  <2> SUFFICES ASSUME Init PROVE TypeOK
    OBVIOUS
  <2>1. /\ running \in BOOLEAN /\ builtin \in Nat /\ faults \in Nat
        /\ swallowed \in BOOLEAN /\ downgraded \in BOOLEAN /\ installing \in BOOLEAN
    BY DEF Init
  <2> QED
    BY <2>1 DEF Init, TypeOK, File, TaskPc
<1>2. TypeOK /\ UNCHANGED vars => TypeOK'
  BY DEF TypeOK, vars, ide, disk, work, history
<1> QED
  BY <1>1, <1>2, TypeStep, PTL DEF Spec

-----------------------------------------------------------------------------
\* A task is started only while no other exists.
LEMMA FlagStep ==
    ASSUME TypeOK, FlagInvariant, Next
    PROVE  FlagInvariant'
<1> USE DEF FlagInvariant, OneInstallAtATime, TypeOK, TaskPc, ide
<1>1. CASE \E v \in 1..MaxVersion, t \in Task : Start(v, t)
  BY <1>1 DEF Start, Run
<1>2. CASE Check \/ SkipReinstall \/ RemovePackage
  BY <1>2 DEF Check, SkipReinstall, RemovePackage
<1>3. CASE \E t \in Task : Reinstall(t)
  BY <1>3 DEF Reinstall, Run
<1>4. CASE \E t \in Task : Begin(t) \/ OpenLauncher(t) \/ WriteLauncher(t)
                             \/ OpenVersion(t) \/ WriteVersion(t) \/ LauncherFails(t)
  BY <1>4 DEF Begin, OpenLauncher, WriteLauncher, OpenVersion, WriteVersion, LauncherFails
<1>5. CASE \E t \in Task, w \in Wheel : ClearDir(t, w) \/ PutDirectory(t, w)
  BY <1>5 DEF ClearDir, PutDirectory
<1>6. CASE \E t \in Task : NothingToDo(t) \/ Finish(t) \/ UnpackFails(t) \/ VersionFails(t)
  BY <1>6 DEF NothingToDo, Finish, UnpackFails, VersionFails, EndTask
<1>7. CASE Stop
  BY <1>7 DEF Stop
<1> QED
  BY NextCases, <1>1, <1>2, <1>3, <1>4, <1>5, <1>6, <1>7

\* The flag, together with the check made when a task starts, keeps installs
\* apart (PackageManager.installing).
THEOREM OneInstallCorrect == Spec => []OneInstallAtATime
<1>1. Init => FlagInvariant
  BY DEF Init, FlagInvariant, OneInstallAtATime
<1>2. FlagInvariant /\ UNCHANGED vars => FlagInvariant'
  BY DEF FlagInvariant, OneInstallAtATime, vars, ide
<1>3. FlagInvariant => OneInstallAtATime
  BY DEF FlagInvariant
<1> QED
  BY <1>1, <1>2, <1>3, FlagStep, TypeCorrect, PTL DEF Spec

-----------------------------------------------------------------------------
\* The part of DiskInvariant about one task.
TaskDisk(t) ==
    /\ Active(t) => version # builtin
    /\ task[t] = "unpack" =>
          \A w \in Wheel \ todo[t] :
              dirs[dst[w]] = builtin \/ \E x \in current[t] : dst[x] = dst[w]
    /\ task[t] \in {"launcher", "version", "write"} =>
          \A w \in Wheel : dirs[dst[w]] = builtin
    /\ task[t] \in {"version", "write"} => launcher = builtin \/ swallowed

\* An action of a task has to answer only for that task: there is no other.
LEMMA OnlyTask ==
    ASSUME TypeOK, FlagInvariant, NEW t \in Task, task[t] # "none",
           NEW pc \in TaskPc, task' = [task EXCEPT ![t] = pc], TaskDisk(t)',
           (~downgraded /\ version \in Nat => version \leq builtin)',
           VersionImpliesComplete'
    PROVE  DiskInvariant'
<1>1. ASSUME NEW u \in Task, u # t PROVE task'[u] = "none"
  BY <1>1 DEF FlagInvariant, OneInstallAtATime, TypeOK
<1>2. ASSUME NEW u \in Task PROVE TaskDisk(u)'
  BY <1>1 DEF TaskDisk, Active
<1> QED
  BY <1>2 DEF DiskInvariant, TaskDisk

\* The parts of DiskInvariant that OnlyTask needs, one by one.
LEMMA DiskParts ==
    ASSUME DiskInvariant, NEW t \in Task
    PROVE  /\ TaskDisk(t)
           /\ ~downgraded /\ version \in Nat => version \leq builtin
           /\ VersionImpliesComplete
BY DEF DiskInvariant, TaskDisk

\* Every action keeps what is on disk in line with the version file.
LEMMA DiskStep ==
    ASSUME TypeOK, FlagInvariant, DiskInvariant, Next
    PROVE  DiskInvariant'
<1> USE DEF ide, disk, work, history
<1>1. CASE \E v \in 1..MaxVersion, t \in Task : Start(v, t)
  <2> PICK v \in 1..MaxVersion, t \in Task : Start(v, t)
    BY <1>1
  <2>1. \A u \in Task : ~Active(u)' /\ task'[u] \in {"none", "queued"}
    BY DEF Start, Run, FlagInvariant, TypeOK, Active
  <2>2. v \in Nat /\ builtin \in Nat /\ version \in File
    BY PackageAssumption DEF TypeOK
  <2>3. ~downgraded' => ~downgraded /\ builtin \leq v
    <3>1. ~downgraded' => ~downgraded /\ ~(v < builtin)
      BY Zenon DEF Start
    <3>2. ~(v < builtin) => builtin \leq v
      BY <2>2
    <3> QED
      BY <3>1, <3>2
  <2>4. (~downgraded /\ version \in Nat => version \leq builtin)'
    BY <2>2, <2>3 DEF Start, DiskInvariant
  <2>5. VersionImpliesComplete'
    <3> SUFFICES ASSUME version' = builtin', ~downgraded'
                 PROVE  version = builtin /\ builtin' = builtin
      BY <2>3 DEF VersionImpliesComplete, DiskInvariant, Start
    <3> QED
      BY <2>2, <2>3 DEF Start, DiskInvariant
  <2> QED
    BY <2>1, <2>4, <2>5 DEF DiskInvariant
<1>2. CASE Check \/ SkipReinstall
  BY <1>2 DEF Check, SkipReinstall, DiskInvariant, Active, VersionImpliesComplete
<1>3. CASE \E t \in Task : Reinstall(t)
  BY <1>3 DEF Reinstall, Run, DiskInvariant, Active, VersionImpliesComplete, TypeOK
<1>4. ASSUME NEW t \in Task, Begin(t) PROVE DiskInvariant'
  <2>1. TaskDisk(t)'
    BY <1>4 DEF Begin, shouldInstall, TaskDisk, TypeOK, Active
  <2> QED
    BY <1>4, <2>1, DiskParts, OnlyTask DEF Begin, TaskPc, VersionImpliesComplete
<1>5. ASSUME NEW t \in Task,
             NothingToDo(t) \/ Finish(t) \/ UnpackFails(t) \/ VersionFails(t)
      PROVE  DiskInvariant'
  <2>1. TaskDisk(t)'
    BY <1>5 DEF NothingToDo, Finish, UnpackFails, VersionFails, EndTask, TaskDisk,
                TypeOK, Active
  <2> QED
    BY <1>5, <2>1, DiskParts, OnlyTask
       DEF NothingToDo, Finish, UnpackFails, VersionFails, EndTask, TaskPc,
           VersionImpliesComplete
<1>6. ASSUME NEW t \in Task, NEW w \in Wheel, ClearDir(t, w) PROVE DiskInvariant'
  <2>1. TaskDisk(t)'
    BY <1>6, DiskParts, PackageAssumption DEF ClearDir, TaskDisk, TypeOK, Active
  <2>2. version # builtin
    BY <1>6, DiskParts DEF ClearDir, TaskDisk, Active
  <2>3. task' = [task EXCEPT ![t] = "unpack"]
    BY <1>6 DEF ClearDir, TypeOK
  <2> QED
    BY <1>6, <2>1, <2>2, <2>3, DiskParts, OnlyTask
       DEF ClearDir, TaskPc, VersionImpliesComplete
<1>7. ASSUME NEW t \in Task, NEW w \in Wheel, PutDirectory(t, w) PROVE DiskInvariant'
  <2>1. TaskDisk(t)'
    BY <1>7, DiskParts, PackageAssumption DEF PutDirectory, TaskDisk, TypeOK, Active
  <2>2. version # builtin
    BY <1>7, DiskParts DEF PutDirectory, TaskDisk, Active
  <2>3. task' = [task EXCEPT ![t] = "unpack"]
    BY <1>7 DEF PutDirectory, TypeOK
  <2> QED
    BY <1>7, <2>1, <2>2, <2>3, DiskParts, OnlyTask
       DEF PutDirectory, TaskPc, VersionImpliesComplete
<1>8. ASSUME NEW t \in Task, OpenLauncher(t) PROVE DiskInvariant'
  <2>1. TaskDisk(t)'
    BY <1>8, DiskParts DEF OpenLauncher, TaskDisk, TypeOK, Active
  <2>2. version # builtin
    BY <1>8, DiskParts DEF OpenLauncher, TaskDisk, Active
  <2> QED
    BY <1>8, <2>1, <2>2, DiskParts, OnlyTask
       DEF OpenLauncher, TaskPc, VersionImpliesComplete
<1>9. ASSUME NEW t \in Task, WriteLauncher(t) \/ LauncherFails(t) PROVE DiskInvariant'
  <2>1. TaskDisk(t)'
    BY <1>9, DiskParts DEF WriteLauncher, LauncherFails, TaskDisk, TypeOK, Active
  <2>2. version # builtin
    BY <1>9, DiskParts DEF WriteLauncher, LauncherFails, TaskDisk, Active
  <2> QED
    BY <1>9, <2>1, <2>2, DiskParts, OnlyTask
       DEF WriteLauncher, LauncherFails, TaskPc, VersionImpliesComplete
<1>10. ASSUME NEW t \in Task, OpenVersion(t) PROVE DiskInvariant'
  <2>1. TaskDisk(t)'
    BY <1>10, DiskParts, PackageAssumption DEF OpenVersion, TaskDisk, TypeOK, Active
  <2>2. version' # builtin' /\ version' \notin Nat
    BY <1>10, PackageAssumption DEF OpenVersion, TypeOK
  <2> QED
    BY <1>10, <2>1, <2>2, OnlyTask DEF OpenVersion, TaskPc, VersionImpliesComplete
<1>11. ASSUME NEW t \in Task, WriteVersion(t) PROVE DiskInvariant'
  <2>1. TaskDisk(t)'
    BY <1>11 DEF WriteVersion, TaskDisk, TypeOK, Active
  <2>2. VersionImpliesComplete'
    BY <1>11, DiskParts DEF WriteVersion, TaskDisk, VersionImpliesComplete
  <2>3. (~downgraded /\ version \in Nat => version \leq builtin)'
    BY <1>11 DEF WriteVersion, TypeOK
  <2> QED
    BY <1>11, <2>1, <2>2, <2>3, OnlyTask DEF WriteVersion, TaskPc
<1>12. CASE Stop
  BY <1>12 DEF Stop, DiskInvariant, VersionImpliesComplete, Active
<1>13. CASE RemovePackage
  BY <1>13, PackageAssumption
     DEF RemovePackage, DiskInvariant, VersionImpliesComplete, Active, TypeOK
<1> QED
  BY NextCases, <1>1, <1>2, <1>3, <1>4, <1>5, <1>6, <1>7, <1>8, <1>9, <1>10, <1>11,
     <1>12, <1>13

\* FlagInvariant and DiskInvariant hold in every reachable state.
LEMMA Invariants == Spec => [](TypeOK /\ FlagInvariant /\ DiskInvariant)
<1>1. Init => FlagInvariant /\ DiskInvariant
  BY PackageAssumption
     DEF Init, FlagInvariant, OneInstallAtATime, DiskInvariant, Active,
         VersionImpliesComplete
<1>2. FlagInvariant /\ DiskInvariant /\ UNCHANGED vars => FlagInvariant' /\ DiskInvariant'
  BY DEF FlagInvariant, OneInstallAtATime, DiskInvariant, Active,
         VersionImpliesComplete, vars, ide, disk, work, history
<1> QED
  BY <1>1, <1>2, FlagStep, DiskStep, TypeCorrect, PTL DEF Spec

\* A version file that names the built-in version stands for a complete
\* package, whatever was interrupted or failed before (PackageManager.install
\* writes it last, PackageManager.shouldInstall trusts it).
THEOREM VersionCorrect == Spec => []VersionImpliesComplete
<1>1. DiskInvariant => VersionImpliesComplete
  BY DEF DiskInvariant
<1> QED
  BY <1>1, Invariants, PTL

\* An install never takes a good package apart (the second shouldInstall() in
\* InstallTask.runTask).
THEOREM GoodPackageKept == Spec => NeverTouchesGoodPackage
<1>1. DiskInvariant /\ [Next]_vars =>
        [(\E t \in Task : Active(t)) /\ dirs' # dirs => version # builtin]_vars
  BY DEF DiskInvariant
<1> QED
  BY <1>1, Invariants, PTL DEF Spec, NeverTouchesGoodPackage

\* What an installed package can be relied on for (PackageManager.install).
THEOREM InstallCorrect == Spec => []InstallSound
BY VersionCorrect, OneInstallCorrect, PTL DEF InstallSound
===========================================================================
