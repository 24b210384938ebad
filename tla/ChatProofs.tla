----------------------------- MODULE ChatProofs ----------------------------
(***************************************************************************)
(* The AI chat, for any number of editors, dialogs, posted saves, prompts  *)
(* and answers.                                                            *)
(*                                                                         *)
(* First the chat file: the dialogs of an editor, its side panel and the   *)
(* file agree with each other, and no conversation gets lost.  TypeOK      *)
(* needs StoreInvariant (the size of the active dialog is a number because *)
(* that dialog is in the map) and StoreInvariant needs TypeOK, so the two  *)
(* are shown together; KeptInvariant rests on both.                        *)
(*                                                                         *)
(* Then one dialog: the answer being generated is the one that STOP        *)
(* reaches and is made from the prompt it answers.                         *)
(***************************************************************************)
EXTENDS ChatStore, ChatDialog, FiniteSetTheorems, TLAPS

\* The ids and sizes are intervals that start at 0.
LEMMA Ranges ==
    /\ MaxId \in Nat /\ MaxSize \in Nat
    /\ Id \subseteq Nat /\ 0 \in Id /\ 0 \in 0..MaxSize
    /\ \A n \in Id : n < MaxId => n + 1 \in Id
  <1>1. MaxId \in Nat /\ MaxSize \in Nat
    BY ChatStoreAssumption
  <1> QED
    BY <1>1 DEF Id

\* A map of dialogs is a function from some ids to sizes.
LEMMA MapFacts ==
    ASSUME NEW ds \in DialogMap
    PROVE  /\ DOMAIN ds \subseteq Id
           /\ ds \in [DOMAIN ds -> 0..MaxSize]
  BY DEF DialogMap

\* Whatever is such a function is a map of dialogs.
LEMMA IsMap ==
    ASSUME NEW ids \in SUBSET Id, NEW ds \in [ids -> 0..MaxSize]
    PROVE  ds \in DialogMap
  BY DEF DialogMap

\* HashMap.remove
LEMMA WithoutFacts ==
    ASSUME NEW ds \in DialogMap, NEW d \in Id
    PROVE  Without(ds, d) \in DialogMap /\ DOMAIN Without(ds, d) = DOMAIN ds \ {d}
  <1>1. Without(ds, d) \in [DOMAIN ds \ {d} -> 0..MaxSize]
    BY MapFacts DEF Without
  <1> QED
    BY <1>1, MapFacts, IsMap

\* HashMap.put
LEMMA WithFacts ==
    ASSUME NEW ds \in DialogMap, NEW d \in Id, NEW n \in 0..MaxSize
    PROVE  With(ds, d, n) \in DialogMap /\ DOMAIN With(ds, d, n) = DOMAIN ds \cup {d}
  <1>1. With(ds, d, n) \in [DOMAIN ds \cup {d} -> 0..MaxSize]
    BY MapFacts DEF With
  <1> QED
    BY <1>1, MapFacts, IsMap

\* A dialog in the map gets another size.
LEMMA ResizeFacts ==
    ASSUME NEW ds \in DialogMap, NEW d \in DOMAIN ds, NEW n \in 0..MaxSize
    PROVE  [ds EXCEPT ![d] = n] \in DialogMap /\ DOMAIN [ds EXCEPT ![d] = n] = DOMAIN ds
  <1>1. [ds EXCEPT ![d] = n] \in [DOMAIN ds -> 0..MaxSize]
    BY MapFacts
  <1> QED
    BY <1>1, MapFacts, IsMap

\* A chat with one dialog, and none.
LEMMA OneDialogFacts ==
    ASSUME NEW d \in Id
    PROVE  OneDialog(d) \in DialogMap /\ DOMAIN OneDialog(d) = {d}
  <1>1. OneDialog(d) \in [{d} -> 0..MaxSize]
    BY Ranges DEF OneDialog
  <1> QED
    BY <1>1, IsMap

LEMMA NoDialogsFacts == NoDialogs \in DialogMap
  <1>1. NoDialogs \in [{} -> 0..MaxSize]
    BY DEF NoDialogs
  <1> QED
    BY <1>1, IsMap

\* Nothing about a part of the state changes when its variables do not.
LEMMA SamePart ==
    /\ DiskType /\ UNCHANGED disk => DiskType'
    /\ ManagerType /\ UNCHANGED memory => ManagerType'
    /\ PanelType /\ UNCHANGED panel => PanelType'
    /\ EditorType /\ UNCHANGED <<opened, answer, queue, mixed>> => EditorType'
  BY DEF DiskType, ManagerType, PanelType, EditorType, disk, memory, panel

\* A posted save keeps the queue a sequence of editors.
LEMMA SaveType ==
    ASSUME queue \in Seq(Editor), NEW e \in Editor
    PROVE  Append(queue, e) \in Seq(Editor) /\ queue \o <<e, e>> \in Seq(Editor)
  OBVIOUS

-----------------------------------------------------------------------------
LEMMA InitTypes == Init => TypeOK
  <1> SUFFICES ASSUME Init PROVE TypeOK
    OBVIOUS
  <1>1. DiskType
    BY NoDialogsFacts, Ranges DEF Init, DiskType, NoContent, Idle
  <1>2. ManagerType
    BY OneDialogFacts, Ranges DEF Init, ManagerType
  <1>3. PanelType
    BY Ranges DEF Init, PanelType
  <1>4. EditorType
    <2>1. opened \in SUBSET Editor /\ mixed \in BOOLEAN
      BY DEF Init
    <2>2. answer \in [Editor -> [Id -> {"none", "attached", "detached"}]]
      BY DEF Init
    <2>3. queue \in Seq(Editor)
      BY DEF Init
    <2> QED
      BY <2>1, <2>2, <2>3 DEF EditorType
  <1> QED
    BY <1>1, <1>2, <1>3, <1>4 DEF TypeOK

\* What a single dialog grows to when the user submits or a chunk arrives.
LEMMA GrowType ==
    ASSUME ManagerType, NEW e \in Editor, NEW d \in DOMAIN dialogs[e],
           dialogs[e][d] < MaxSize,
           dialogs' = [dialogs EXCEPT ![e][d] = @ + 1]
    PROVE  /\ dialogs' \in [Editor -> DialogMap]
           /\ \A x \in Editor : DOMAIN dialogs'[x] = DOMAIN dialogs[x]
  <1>1. dialogs[e] \in DialogMap
    BY DEF ManagerType
  <1>2. dialogs[e][d] \in 0..MaxSize
    BY <1>1, MapFacts
  <1>3. dialogs[e][d] + 1 \in 0..MaxSize
    BY <1>2, Ranges
  <1>4. /\ [dialogs[e] EXCEPT ![d] = dialogs[e][d] + 1] \in DialogMap
        /\ DOMAIN [dialogs[e] EXCEPT ![d] = dialogs[e][d] + 1] = DOMAIN dialogs[e]
    BY <1>1, <1>3, ResizeFacts
  <1>5. dialogs' = [dialogs EXCEPT ![e] = [dialogs[e] EXCEPT ![d] = dialogs[e][d] + 1]]
    BY DEF ManagerType
  <1> QED
    BY <1>4, <1>5 DEF ManagerType

LEMMA StepTypes == TypeOK /\ StoreInvariant /\ Next => TypeOK'
  <1> SUFFICES ASSUME TypeOK, StoreInvariant, Next PROVE TypeOK'
    OBVIOUS
  <1>t. DiskType /\ ManagerType /\ PanelType /\ EditorType
    BY DEF TypeOK
  <1>q. \A e \in Editor : Append(queue, e) \in Seq(Editor) /\ queue \o <<e, e>> \in Seq(Editor)
    BY <1>t, SaveType DEF EditorType
  <1>1. ASSUME NEW e \in Editor, Open(e) PROVE TypeOK'
    <2>1. DiskType'
      BY <1>t, <1>1, SamePart DEF Open
    <2>2. file.kind = "chat" => file.dialogs \in DialogMap /\ DOMAIN file.dialogs \subseteq Id /\ file.active \in Id
      BY <1>t, MapFacts DEF DiskType
    <2>3. OneDialog(0) \in DialogMap /\ 0 \in Id
      BY OneDialogFacts, Ranges
    <2>4. ManagerType' /\ PanelType' /\ queue' \in Seq(Editor)
      <3>1. CASE LoadContent(e)
        BY <1>t, <2>2, <3>1 DEF LoadContent, ManagerType, PanelType, EditorType
      <3>2. CASE LoadNothing(e)
        BY <1>t, <1>q, <2>3, <3>2 DEF LoadNothing, save, ManagerType, PanelType
      <3> QED
        BY <1>1, <3>1, <3>2 DEF Open
    <2>5. opened' \in SUBSET Editor /\ answer' = answer
      BY <1>t, <1>1 DEF Open, EditorType
    <2>6. mixed' \in BOOLEAN
      BY <1>1 DEF Open
    <2> QED
      BY <1>t, <2>1, <2>4, <2>5, <2>6 DEF TypeOK, EditorType
  <1>2. ASSUME NEW e \in Editor, Close(e) PROVE TypeOK'
    <2>1. DiskType' /\ ManagerType' /\ PanelType'
      BY <1>t, <1>2, SamePart DEF Close
    <2>2. EditorType'
      BY <1>t, <1>2 DEF Close, EditorType
    <2> QED
      BY <2>1, <2>2 DEF TypeOK
  <1>3. ASSUME NEW e \in Editor, newDialog(e) PROVE TypeOK'
    <2>1. idCounter[e] + 1 \in Id /\ dialogs[e] \in DialogMap
      BY <1>t, <1>3, Ranges DEF newDialog, ManagerType
    <2>2. With(dialogs[e], idCounter[e] + 1, 0) \in DialogMap
      BY <2>1, WithFacts, Ranges
    <2>3. DiskType'
      BY <1>t, <1>3, SamePart DEF newDialog
    <2>4. ManagerType'
      BY <1>t, <1>3, <2>1, <2>2 DEF newDialog, ManagerType
    <2>5. PanelType'
      BY <1>t, <1>3, <2>1 DEF newDialog, PanelType
    <2>6. EditorType'
      BY <1>t, <1>q, <1>3 DEF newDialog, save, EditorType
    <2> QED
      BY <2>3, <2>4, <2>5, <2>6 DEF TypeOK
  <1>4. ASSUME NEW e \in Editor, Submit(e) PROVE TypeOK'
    <2>1. active[e] \in DOMAIN dialogs[e] /\ active[e] \in Id
      BY <1>t DEF StoreInvariant, PanelFollowsManager, ManagerType
    <2>2. DiskType' /\ PanelType'
      BY <1>t, <1>4, SamePart DEF Submit
    <2>3. ManagerType'
      BY <1>t, <1>4, <2>1, GrowType DEF Submit, ManagerType
    <2>4. answer' \in [Editor -> [Id -> {"none", "attached", "detached"}]]
      BY <1>t, <1>4, <2>1 DEF Submit, EditorType
    <2>5. EditorType'
      BY <1>t, <1>q, <1>4, <2>4 DEF Submit, EditorType
    <2> QED
      BY <2>2, <2>3, <2>5 DEF TypeOK
  <1>5. ASSUME NEW e \in Editor, NEW d \in Id, onRenameDialog(e, d) PROVE TypeOK'
    <2>1. DiskType' /\ ManagerType' /\ PanelType'
      BY <1>t, <1>5, SamePart DEF onRenameDialog
    <2>2. EditorType'
      BY <1>t, <1>q, <1>5 DEF onRenameDialog, save, EditorType
    <2> QED
      BY <2>1, <2>2 DEF TypeOK
  <1>6. ASSUME NEW e \in Editor, NEW d \in Id, clear(e, d) PROVE TypeOK'
    <2>1. OneDialog(d) \in DialogMap
      BY OneDialogFacts
    <2>2. DiskType'
      BY <1>t, <1>6, Ranges DEF clear, Forget, DiskType
    <2>3. ManagerType'
      BY <1>t, <1>6, <2>1 DEF clear, ManagerType
    <2>4. PanelType'
      BY <1>t, <1>6, SamePart DEF clear
    <2>5. answer' \in [Editor -> [Id -> {"none", "attached", "detached"}]]
      BY <1>t, <1>6 DEF clear, EditorType
    <2>6. EditorType'
      BY <1>t, <1>q, <1>6, <2>5 DEF clear, save, EditorType
    <2> QED
      BY <2>2, <2>3, <2>4, <2>6 DEF TypeOK
  <1>7. ASSUME NEW e \in Editor, NEW d \in Id, deleteDialog(e, d) PROVE TypeOK'
    <2>1. /\ dialogs[e] \in DialogMap /\ DOMAIN dialogs[e] \subseteq Id
          /\ Without(dialogs[e], d) \in DialogMap
      BY <1>t, MapFacts, WithoutFacts DEF ManagerType
    <2>2. DiskType'
      BY <1>t, <1>7, Ranges DEF deleteDialog, Forget, DiskType
    <2>3. ManagerType' /\ PanelType'
      BY <1>t, <1>7, <2>1 DEF deleteDialog, ManagerType, PanelType
    <2>4. EditorType'
      BY <1>t, <1>q, <1>7 DEF deleteDialog, save, EditorType
    <2> QED
      BY <2>2, <2>3, <2>4 DEF TypeOK
  <1>8. ASSUME NEW e \in Editor, NEW d \in Id, onDialogPressed(e, d) PROVE TypeOK'
    <2>1. DiskType'
      BY <1>t, <1>8, SamePart DEF onDialogPressed
    <2>2. ManagerType' /\ PanelType'
      BY <1>t, <1>8 DEF onDialogPressed, ManagerType, PanelType
    <2>3. EditorType'
      BY <1>t, <1>q, <1>8 DEF onDialogPressed, save, EditorType
    <2> QED
      BY <2>1, <2>2, <2>3 DEF TypeOK
  <1>9. ASSUME NEW e \in Editor, NEW d \in Id, Chunk(e, d) PROVE TypeOK'
    <2>1. DiskType' /\ PanelType' /\ EditorType'
      BY <1>t, <1>9, SamePart DEF Chunk
    <2>2. ManagerType'
      BY <1>t, <1>9, GrowType DEF Chunk, ManagerType
    <2> QED
      BY <2>1, <2>2 DEF TypeOK
  <1>10. ASSUME NEW e \in Editor, NEW d \in Id, Complete(e, d) PROVE TypeOK'
    <2>1. DiskType' /\ ManagerType' /\ PanelType'
      BY <1>t, <1>10, SamePart DEF Complete
    <2>2. answer' \in [Editor -> [Id -> {"none", "attached", "detached"}]]
      BY <1>t, <1>10 DEF Complete, EditorType
    <2>3. EditorType'
      BY <1>t, <1>q, <1>10, <2>2 DEF Complete, save, EditorType
    <2> QED
      BY <2>1, <2>3 DEF TypeOK
  <1>11. CASE doSave
    <2>1. Head(queue) \in Editor /\ queue' \in Seq(Editor)
      BY <1>t, <1>11 DEF doSave, EditorType
    <2>2. DiskType'
      BY <1>t, <1>11, <2>1, NoDialogsFacts, Ranges
         DEF doSave, FileContent, NoContent, DiskType, ManagerType
    <2>3. ManagerType' /\ PanelType'
      BY <1>t, <1>11, SamePart DEF doSave
    <2>4. EditorType'
      BY <1>t, <1>11, <2>1 DEF doSave, EditorType
    <2> QED
      BY <2>2, <2>3, <2>4 DEF TypeOK
  <1>12. CASE doSaveFails
    <2>1. queue' \in Seq(Editor)
      BY <1>t, <1>12 DEF doSaveFails, EditorType
    <2>2. DiskType' /\ ManagerType' /\ PanelType'
      BY <1>t, <1>12, SamePart DEF doSaveFails
    <2>3. EditorType'
      BY <1>t, <1>12, <2>1 DEF doSaveFails, EditorType
    <2> QED
      BY <2>2, <2>3 DEF TypeOK
  <1>13. CASE Written
    <2>1. writing.dialogs \in DialogMap
      BY <1>t DEF DiskType
    <2>2. \A i \in DOMAIN writing.dialogs : writing.dialogs[i] \in 0..MaxSize
      BY <2>1, MapFacts
    <2>3. safe' \in [Id -> 0..MaxSize]
      BY <1>t, <1>13, <2>2 DEF Written, DiskType
    <2>4. DiskType'
      BY <1>t, <1>13, <2>3, NoDialogsFacts, Ranges DEF Written, Idle, DiskType
    <2>5. ManagerType' /\ PanelType' /\ EditorType'
      BY <1>t, <1>13, SamePart DEF Written
    <2> QED
      BY <2>4, <2>5 DEF TypeOK
  <1>14. CASE WriteFails
    <2>1. DiskType'
      BY <1>t, <1>14, NoDialogsFacts, Ranges DEF WriteFails, Idle, DiskType
    <2>2. ManagerType' /\ PanelType' /\ EditorType'
      BY <1>t, <1>14, SamePart DEF WriteFails
    <2> QED
      BY <2>1, <2>2 DEF TypeOK
  <1>15. CASE Crash
    <2>1. writing' = Idle /\ file' = file /\ safe' = safe
      BY <1>15 DEF Crash
    <2>2. broken' \in BOOLEAN
      BY <1>15 DEF Crash
    <2>3. DiskType'
      BY <1>t, <2>1, <2>2, NoDialogsFacts, Ranges DEF Idle, DiskType
    <2>4. ManagerType' /\ PanelType'
      BY <1>t, <1>15, SamePart DEF Crash
    <2>5. queue' \in Seq(Editor)
      BY <1>15 DEF Crash
    <2>6. EditorType'
      BY <1>t, <1>15, <2>5 DEF Crash, EditorType
    <2> QED
      BY <2>3, <2>4, <2>6 DEF TypeOK
  <1> QED
    BY <1>1, <1>2, <1>3, <1>4, <1>5, <1>6, <1>7, <1>8, <1>9, <1>10, <1>11, <1>12, <1>13,
       <1>14, <1>15 DEF Next

-----------------------------------------------------------------------------
LEMMA InitStore == Init => StoreInvariant
  <1> SUFFICES ASSUME Init PROVE StoreInvariant
    OBVIOUS
  <1>1. DOMAIN OneDialog(0) = {0} /\ 0 \in Id
    BY OneDialogFacts, Ranges
  <1>2. LoadableFile /\ Loadable(writing)
    BY DEF Init, LoadableFile, Loadable, NoContent, Idle
  <1>3. FreshIds
    BY <1>1 DEF Init, FreshIds
  <1>4. PanelFollowsManager
    BY <1>1 DEF Init, PanelFollowsManager
  <1> QED
    BY <1>2, <1>3, <1>4 DEF StoreInvariant

\* The part of the invariant about an editor, and the part about the file.
LEMMA SameEditors ==
    ASSUME FreshIds, PanelFollowsManager, UNCHANGED <<memory, panel>>
    PROVE  FreshIds' /\ PanelFollowsManager'
  BY DEF FreshIds, PanelFollowsManager, memory, panel

LEMMA SameFile ==
    ASSUME LoadableFile, Loadable(writing), UNCHANGED <<file, writing>>
    PROVE  LoadableFile' /\ Loadable(writing)'
  BY DEF LoadableFile, Loadable

LEMMA StepStore == TypeOK /\ StoreInvariant /\ Next => StoreInvariant'
  <1> SUFFICES ASSUME TypeOK, StoreInvariant, Next PROVE StoreInvariant'
    OBVIOUS
  <1>t. DiskType /\ ManagerType /\ PanelType /\ EditorType
    BY DEF TypeOK
  <1>s. LoadableFile /\ Loadable(writing) /\ FreshIds /\ PanelFollowsManager
    BY DEF StoreInvariant
  <1>1. ASSUME NEW e \in Editor, Open(e) PROVE StoreInvariant'
    <2>1. LoadableFile' /\ Loadable(writing)'
      BY <1>s, <1>1, SameFile DEF Open, disk
    <2>2. CASE LoadContent(e)
      <3>1. file.active \in DOMAIN file.dialogs
        BY <1>s, <2>2 DEF LoadContent, LoadableFile, Loadable
      <3>2. FreshIds'
        BY <1>t, <1>s, <2>2 DEF LoadContent, FreshIds, ManagerType
      <3>3. PanelFollowsManager'
        BY <1>t, <1>s, <2>2, <3>1 DEF LoadContent, PanelFollowsManager, ManagerType, PanelType
      <3> QED
        BY <2>1, <3>2, <3>3 DEF StoreInvariant
    <2>3. CASE LoadNothing(e)
      <3>1. DOMAIN OneDialog(0) = {0} /\ 0 \in Id
        BY OneDialogFacts, Ranges
      <3>2. FreshIds'
        BY <1>t, <1>s, <2>3, <3>1, Ranges DEF LoadNothing, FreshIds, ManagerType
      <3>3. PanelFollowsManager'
        BY <1>t, <1>s, <2>3, <3>1 DEF LoadNothing, PanelFollowsManager, ManagerType, PanelType
      <3> QED
        BY <2>1, <3>2, <3>3 DEF StoreInvariant
    <2> QED
      BY <1>1, <2>2, <2>3 DEF Open
  <1>2. ASSUME NEW e \in Editor, Close(e) PROVE StoreInvariant'
    BY <1>s, <1>2, SameEditors, SameFile DEF Close, disk, StoreInvariant
  <1>3. ASSUME NEW e \in Editor, newDialog(e) PROVE StoreInvariant'
    <2> DEFINE n == idCounter[e] + 1
    <2>1. n \in Id /\ idCounter[e] \in Nat /\ dialogs[e] \in DialogMap
      BY <1>t, <1>3, Ranges DEF newDialog, ManagerType
    <2>2. DOMAIN With(dialogs[e], n, 0) = DOMAIN dialogs[e] \cup {n}
      BY <2>1, WithFacts, Ranges
    <2>3. dialogs' = [dialogs EXCEPT ![e] = With(dialogs[e], n, 0)]
      BY <1>3 DEF newDialog
    <2>4. FreshIds'
      <3> SUFFICES ASSUME NEW x \in Editor, NEW d \in Id, d \in DOMAIN dialogs'[x]
                   PROVE  d <= idCounter'[x]
        BY DEF FreshIds
      <3>1. CASE x = e
        BY <1>t, <1>s, <1>3, <2>1, <2>2, <2>3, <3>1, Ranges DEF newDialog, FreshIds, ManagerType
      <3>2. CASE x # e
        BY <1>t, <1>s, <1>3, <2>3, <3>2 DEF newDialog, FreshIds, ManagerType
      <3> QED
        BY <3>1, <3>2
    <2>5. PanelFollowsManager'
      BY <1>t, <1>s, <1>3, <2>2, <2>3
         DEF newDialog, PanelFollowsManager, ManagerType, PanelType
    <2>6. LoadableFile' /\ Loadable(writing)'
      BY <1>s, <1>3, SameFile DEF newDialog, disk
    <2> QED
      BY <2>4, <2>5, <2>6 DEF StoreInvariant
  <1>4. ASSUME NEW e \in Editor, Submit(e) PROVE StoreInvariant'
    <2>1. active[e] \in DOMAIN dialogs[e]
      BY <1>s DEF PanelFollowsManager
    <2>2. \A x \in Editor : DOMAIN dialogs'[x] = DOMAIN dialogs[x]
      BY <1>t, <1>4, <2>1, GrowType DEF Submit
    <2>3. FreshIds' /\ PanelFollowsManager'
      BY <1>s, <1>4, <2>2 DEF Submit, panel, FreshIds, PanelFollowsManager
    <2>4. LoadableFile' /\ Loadable(writing)'
      BY <1>s, <1>4, SameFile DEF Submit, disk
    <2> QED
      BY <2>3, <2>4 DEF StoreInvariant
  <1>5. ASSUME NEW e \in Editor, NEW d \in Id, onRenameDialog(e, d) PROVE StoreInvariant'
    BY <1>s, <1>5, SameEditors, SameFile DEF onRenameDialog, disk, StoreInvariant
  <1>6. ASSUME NEW e \in Editor, NEW d \in Id, clear(e, d) PROVE StoreInvariant'
    <2>1. \A x \in Editor : DOMAIN dialogs'[x] = DOMAIN dialogs[x]
      BY <1>t, <1>6, OneDialogFacts DEF clear, ManagerType
    <2>2. FreshIds' /\ PanelFollowsManager'
      BY <1>s, <1>6, <2>1 DEF clear, panel, FreshIds, PanelFollowsManager
    <2>3. LoadableFile' /\ Loadable(writing)'
      BY <1>s, <1>6, SameFile DEF clear
    <2> QED
      BY <2>2, <2>3 DEF StoreInvariant
  <1>7. ASSUME NEW e \in Editor, NEW d \in Id, deleteDialog(e, d) PROVE StoreInvariant'
    <2>1. DOMAIN Without(dialogs[e], d) = DOMAIN dialogs[e] \ {d}
      BY <1>t, WithoutFacts DEF ManagerType
    <2>2. dialogs' = [dialogs EXCEPT ![e] = Without(dialogs[e], d)]
      BY <1>7 DEF deleteDialog
    <2>3. FreshIds'
      BY <1>t, <1>s, <1>7, <2>1, <2>2 DEF deleteDialog, FreshIds, ManagerType
    <2>4. PanelFollowsManager'
      BY ZenonT(40), <1>t, <1>s, <1>7, <2>1, <2>2
         DEF deleteDialog, PanelFollowsManager, ManagerType, PanelType
    <2>5. LoadableFile' /\ Loadable(writing)'
      BY <1>s, <1>7, SameFile DEF deleteDialog
    <2> QED
      BY <2>3, <2>4, <2>5 DEF StoreInvariant
  <1>8. ASSUME NEW e \in Editor, NEW d \in Id, onDialogPressed(e, d) PROVE StoreInvariant'
    <2>1. FreshIds'
      BY <1>s, <1>8 DEF onDialogPressed, FreshIds
    <2>2. PanelFollowsManager'
      BY <1>t, <1>s, <1>8 DEF onDialogPressed, PanelFollowsManager, ManagerType, PanelType
    <2>3. LoadableFile' /\ Loadable(writing)'
      BY <1>s, <1>8, SameFile DEF onDialogPressed, disk
    <2> QED
      BY <2>1, <2>2, <2>3 DEF StoreInvariant
  <1>9. ASSUME NEW e \in Editor, NEW d \in Id, Chunk(e, d) PROVE StoreInvariant'
    <2>1. \A x \in Editor : DOMAIN dialogs'[x] = DOMAIN dialogs[x]
      BY <1>t, <1>9, GrowType DEF Chunk
    <2>2. FreshIds' /\ PanelFollowsManager'
      BY <1>s, <1>9, <2>1 DEF Chunk, panel, FreshIds, PanelFollowsManager
    <2>3. LoadableFile' /\ Loadable(writing)'
      BY <1>s, <1>9, SameFile DEF Chunk, disk
    <2> QED
      BY <2>2, <2>3 DEF StoreInvariant
  <1>10. ASSUME NEW e \in Editor, NEW d \in Id, Complete(e, d) PROVE StoreInvariant'
    BY <1>s, <1>10, SameEditors, SameFile DEF Complete, disk, StoreInvariant
  <1>11. CASE doSave
    <2>1. Head(queue) \in Editor
      BY <1>t, <1>11 DEF doSave, EditorType
    <2>2. LoadableFile'
      BY <1>11 DEF doSave, LoadableFile, Loadable, NoContent
    <2>3. Loadable(writing)'
      BY <1>s, <1>11, <2>1 DEF doSave, Loadable, FileContent, PanelFollowsManager
    <2>4. FreshIds' /\ PanelFollowsManager'
      BY <1>s, <1>11, SameEditors DEF doSave
    <2> QED
      BY <2>2, <2>3, <2>4 DEF StoreInvariant
  <1>12. CASE doSaveFails
    BY <1>s, <1>12, SameEditors, SameFile DEF doSaveFails, disk, StoreInvariant
  <1>13. CASE Written
    <2>1. LoadableFile' /\ Loadable(writing)'
      BY <1>s, <1>13 DEF Written, LoadableFile, Loadable, Idle
    <2> QED
      BY <1>s, <1>13, <2>1, SameEditors DEF Written, StoreInvariant
  <1>14. CASE WriteFails
    <2>1. LoadableFile' /\ Loadable(writing)'
      BY <1>s, <1>14 DEF WriteFails, LoadableFile, Loadable, Idle
    <2> QED
      BY <1>s, <1>14, <2>1, SameEditors DEF WriteFails, StoreInvariant
  <1>15. CASE Crash
    <2>1. LoadableFile' /\ Loadable(writing)'
      BY <1>s, <1>15 DEF Crash, LoadableFile, Loadable, Idle
    <2> QED
      BY <1>s, <1>15, <2>1, SameEditors DEF Crash, StoreInvariant
  <1> QED
    BY <1>1, <1>2, <1>3, <1>4, <1>5, <1>6, <1>7, <1>8, <1>9, <1>10, <1>11, <1>12, <1>13,
       <1>14, <1>15 DEF Next

\* TypeOK and StoreInvariant hold in every state of the chat store.
THEOREM StoreCorrect == Spec => [](TypeOK /\ StoreInvariant)
  <1>1. Init => TypeOK /\ StoreInvariant
    BY InitTypes, InitStore
  <1>2. TypeOK /\ StoreInvariant /\ [Next]_vars => (TypeOK /\ StoreInvariant)'
    <2>1. CASE Next
      BY <2>1, StepTypes, StepStore
    <2>2. CASE UNCHANGED vars
      <3> SUFFICES ASSUME TypeOK, StoreInvariant, UNCHANGED vars
                   PROVE  TypeOK' /\ StoreInvariant'
        BY <2>2
      <3>1. TypeOK'
        BY SamePart DEF vars, TypeOK
      <3>2. StoreInvariant'
        BY SameEditors, SameFile DEF vars, disk, StoreInvariant
      <3> QED
        BY <3>1, <3>2
    <2> QED
      BY <2>1, <2>2
  <1> QED
    BY <1>1, <1>2, PTL DEF Spec

\* load never meets an active dialog that the file does not hold, whatever the
\* editors of the file do and wherever a write was cut short.
THEOREM FileIsLoadable == Spec => []LoadableFile
  BY StoreCorrect, PTL DEF StoreInvariant

\* The side panel shows the dialogs of the manager, and the active one is open,
\* after any sequence of opening, creating, deleting and pressing.
THEOREM PanelFollows == Spec => []PanelFollowsManager
  BY StoreCorrect, PTL DEF StoreInvariant

\* newDialog never takes an id that is in use.
THEOREM IdsAreFresh == Spec => []FreshIds
  BY StoreCorrect, PTL DEF StoreInvariant

-----------------------------------------------------------------------------
\* Who is in the queue after a save was posted or taken.
LEMMA QueueFacts ==
    ASSUME queue \in Seq(Editor), NEW e \in Editor, NEW x \in Editor
    PROVE  /\ (\E i \in DOMAIN Append(queue, e) : Append(queue, e)[i] = x)
                 => x = e \/ \E i \in DOMAIN queue : queue[i] = x
           /\ (\E i \in DOMAIN (queue \o <<e, e>>) : (queue \o <<e, e>>)[i] = x)
                 => x = e \/ \E i \in DOMAIN queue : queue[i] = x
           /\ queue # <<>> =>
                 /\ (\E i \in DOMAIN Tail(queue) : Tail(queue)[i] = x)
                       => \E i \in DOMAIN queue : queue[i] = x
                 /\ \E i \in DOMAIN queue : queue[i] = Head(queue)
  <1>1. ASSUME NEW i \in DOMAIN Append(queue, e), Append(queue, e)[i] = x
        PROVE  x = e \/ \E j \in DOMAIN queue : queue[j] = x
    <2>1. i \in 1..Len(queue) + 1 /\ Len(queue) \in Nat /\ DOMAIN queue = 1..Len(queue)
      BY <1>1
    <2>2. i \in 1..Len(queue) => Append(queue, e)[i] = queue[i]
      OBVIOUS
    <2>3. i = Len(queue) + 1 => Append(queue, e)[i] = e
      OBVIOUS
    <2> QED
      BY <1>1, <2>1, <2>2, <2>3
  <1>2. ASSUME NEW i \in DOMAIN (queue \o <<e, e>>), (queue \o <<e, e>>)[i] = x
        PROVE  x = e \/ \E j \in DOMAIN queue : queue[j] = x
    <2>1. /\ i \in 1..Len(queue) + 2 /\ Len(queue) \in Nat /\ DOMAIN queue = 1..Len(queue)
      BY <1>2
    <2>2. i \in 1..Len(queue) => (queue \o <<e, e>>)[i] = queue[i]
      OBVIOUS
    <2>3. i \in Len(queue) + 1..Len(queue) + 2 => (queue \o <<e, e>>)[i] = e
      OBVIOUS
    <2> QED
      BY <1>2, <2>1, <2>2, <2>3
  <1>3. ASSUME queue # <<>>, NEW i \in DOMAIN Tail(queue), Tail(queue)[i] = x
        PROVE  \E j \in DOMAIN queue : queue[j] = x
    <2>1. i + 1 \in DOMAIN queue /\ queue[i + 1] = x
      BY <1>3
    <2> QED
      BY <2>1
  <1>4. ASSUME queue # <<>> PROVE \E j \in DOMAIN queue : queue[j] = Head(queue)
    <2>1. 1 \in DOMAIN queue /\ queue[1] = Head(queue)
      BY <1>4
    <2> QED
      BY <2>1
  <1> QED
    BY <1>1, <1>2, <1>3, <1>4

\* Only opening an editor gives it something to save: whoever posts a save or
\* waits for an answer had one before.
LEMMA MaySaveShrinks ==
    ASSUME EditorType, NEW x \in Editor, Next, \A e \in Editor : ~Open(e), MaySave(x)'
    PROVE  MaySave(x)
  <1> USE DEF EditorType, MaySave
  <1>1. ASSUME NEW e \in Editor, MaySave(e), opened' = opened, answer' = answer,
               queue' = Append(queue, e)
        PROVE  MaySave(x)
    BY <1>1, QueueFacts
  <1>2. ASSUME NEW e \in Editor, Close(e) PROVE MaySave(x)
    BY <1>2 DEF Close
  <1>3. ASSUME NEW e \in Editor, newDialog(e) PROVE MaySave(x)
    BY <1>1, <1>3 DEF newDialog, save
  <1>4. ASSUME NEW e \in Editor, Submit(e) PROVE MaySave(x)
    <2>1. CASE x = e
      BY <1>4, <2>1 DEF Submit
    <2>2. CASE x # e
      <3>1. answer'[x] = answer[x] /\ opened' = opened /\ queue' = queue \o <<e, e>>
        BY <1>4, <2>2 DEF Submit
      <3> QED
        BY <2>2, <3>1, QueueFacts
    <2> QED
      BY <2>1, <2>2
  <1>5. ASSUME NEW e \in Editor, NEW d \in Id,
               onRenameDialog(e, d) \/ deleteDialog(e, d) \/ onDialogPressed(e, d)
        PROVE  MaySave(x)
    BY <1>1, <1>5 DEF onRenameDialog, deleteDialog, onDialogPressed, save
  <1>6. ASSUME NEW e \in Editor, NEW d \in Id, clear(e, d) PROVE MaySave(x)
    <2>1. CASE x = e
      BY <1>6, <2>1 DEF clear
    <2>2. CASE x # e
      <3>1. answer'[x] = answer[x] /\ opened' = opened /\ queue' = Append(queue, e)
        BY <1>6, <2>2 DEF clear, save
      <3> QED
        BY <2>2, <3>1, QueueFacts
    <2> QED
      BY <2>1, <2>2
  <1>7. ASSUME NEW e \in Editor, NEW d \in Id, Chunk(e, d) PROVE MaySave(x)
    BY <1>7 DEF Chunk
  <1>8. ASSUME NEW e \in Editor, NEW d \in Id, Complete(e, d) PROVE MaySave(x)
    <2>1. CASE x = e
      BY <1>8, <2>1 DEF Complete
    <2>2. CASE x # e
      <3>1. answer'[x] = answer[x] /\ opened' = opened /\ queue' = Append(queue, e)
        BY <1>8, <2>2 DEF Complete, save
      <3> QED
        BY <2>2, <3>1, QueueFacts
    <2> QED
      BY <2>1, <2>2
  <1>9. CASE doSave \/ doSaveFails
    <2>1. queue' = Tail(queue) /\ queue # <<>> /\ opened' = opened /\ answer' = answer
      BY <1>9 DEF doSave, doSaveFails
    <2> QED
      BY <2>1, QueueFacts
  <1>10. CASE Written \/ WriteFails
    BY <1>10 DEF Written, WriteFails
  <1>11. CASE Crash
    BY <1>11 DEF Crash
  <1> QED
    BY <1>2, <1>3, <1>4, <1>5, <1>6, <1>7, <1>8, <1>9, <1>10, <1>11 DEF Next

\* What covers a content keeps what that content keeps, and covering composes.
LEMMA CoversKeeps ==
    ASSUME DiskType, NEW ds \in DialogMap, NEW es \in DialogMap, Covers(es, ds)
    PROVE  /\ Keeps(ds) => Keeps(es)
           /\ \A fs \in DialogMap : Covers(ds, fs) => Covers(es, fs)
  <1>1. /\ ds \in [DOMAIN ds -> 0..MaxSize] /\ es \in [DOMAIN es -> 0..MaxSize]
        /\ \A fs \in DialogMap : fs \in [DOMAIN fs -> 0..MaxSize]
    BY MapFacts
  <1>2. safe \in [Id -> 0..MaxSize] /\ MaxSize \in Nat
    BY Ranges DEF DiskType
  <1>3. ASSUME Keeps(ds), NEW d \in Id, safe[d] > 0 PROVE d \in DOMAIN es /\ es[d] >= safe[d]
    <2>1. d \in DOMAIN ds /\ ds[d] >= safe[d] /\ d \in DOMAIN es /\ es[d] >= ds[d]
      BY <1>3 DEF Keeps, Covers
    <2>2. ds[d] \in Nat /\ es[d] \in Nat /\ safe[d] \in Nat
      BY <1>1, <1>2, <2>1
    <2> QED
      BY <2>1, <2>2
  <1>4. ASSUME NEW fs \in DialogMap, Covers(ds, fs), NEW d \in DOMAIN fs
        PROVE  d \in DOMAIN es /\ es[d] >= fs[d]
    <2>1. d \in DOMAIN ds /\ ds[d] >= fs[d] /\ d \in DOMAIN es /\ es[d] >= ds[d]
      BY <1>4 DEF Covers
    <2>2. ds[d] \in Nat /\ es[d] \in Nat /\ fs[d] \in Nat
      BY <1>1, <1>2, <1>4, <2>1
    <2> QED
      BY <2>1, <2>2
  <1> QED
    BY <1>3, <1>4 DEF Keeps, Covers

\* A map covers itself.
LEMMA CoversSelf == ASSUME NEW ds \in DialogMap PROVE Covers(ds, ds)
  <1>1. ds \in [DOMAIN ds -> 0..MaxSize] /\ MaxSize \in Nat
    BY MapFacts, Ranges
  <1> QED
    BY <1>1 DEF Covers

\* A step that touches neither the disk nor what an editor that may save has said,
\* but to add to it, keeps the conversations.
LEMMA KeptFrame ==
    ASSUME TypeOK, TypeOK', KeptInvariant, UNCHANGED <<disk, mixed>>,
           \A x \in Editor : MaySave(x)' => MaySave(x),
           \A x \in Editor : Covers(dialogs'[x], dialogs[x])
    PROVE  KeptInvariant'
  <1> SUFFICES ASSUME ~mixed, ~broken PROVE KeptInvariant'
    BY DEF KeptInvariant, disk
  <1>1. \A x \in Editor : dialogs[x] \in DialogMap /\ dialogs'[x] \in DialogMap
    BY DEF TypeOK, ManagerType
  <1>2. DiskType /\ writing.dialogs \in DialogMap
    BY DEF TypeOK, DiskType
  <1>3. \A x \in Editor : MaySave(x)' =>
           /\ Keeps(dialogs'[x])
           /\ writing.kind = "chat" => Covers(dialogs'[x], writing.dialogs)
    BY <1>1, <1>2, CoversKeeps DEF KeptInvariant
  <1>4. UNCHANGED <<file, writing, broken, safe, mixed>>
    BY DEF disk
  <1>5. \A ds \in DialogMap : Keeps(ds)' <=> Keeps(ds)
    BY <1>4 DEF Keeps
  <1> QED
    BY <1>3, <1>4 DEF KeptInvariant, Keeps, Covers

\* A dialog that grows, and a dialog that is added, cover what was there.
LEMMA GrowCovers ==
    ASSUME ManagerType, NEW e \in Editor, NEW d \in DOMAIN dialogs[e],
           dialogs' = [dialogs EXCEPT ![e][d] = @ + 1]
    PROVE  \A x \in Editor : Covers(dialogs'[x], dialogs[x])
  <1> SUFFICES ASSUME NEW x \in Editor, NEW c \in DOMAIN dialogs[x]
               PROVE  c \in DOMAIN dialogs'[x] /\ dialogs'[x][c] >= dialogs[x][c]
    BY DEF Covers
  <1>1. dialogs[x] \in [DOMAIN dialogs[x] -> 0..MaxSize] /\ MaxSize \in Nat
    BY MapFacts, Ranges DEF ManagerType
  <1>2. dialogs[x][c] \in Nat
    BY <1>1
  <1>3. CASE x = e
    BY <1>2, <1>3 DEF ManagerType
  <1>4. CASE x # e
    BY <1>2, <1>4 DEF ManagerType
  <1> QED
    BY <1>3, <1>4

LEMMA AddCovers ==
    ASSUME ManagerType, FreshIds, NEW e \in Editor, idCounter[e] < MaxId,
           dialogs' = [dialogs EXCEPT ![e] = With(dialogs[e], idCounter[e] + 1, 0)]
    PROVE  \A x \in Editor : Covers(dialogs'[x], dialogs[x])
  <1> SUFFICES ASSUME NEW x \in Editor, NEW c \in DOMAIN dialogs[x]
               PROVE  c \in DOMAIN dialogs'[x] /\ dialogs'[x][c] >= dialogs[x][c]
    BY DEF Covers
  <1>1. /\ dialogs[x] \in [DOMAIN dialogs[x] -> 0..MaxSize] /\ MaxSize \in Nat
        /\ DOMAIN dialogs[x] \subseteq Id /\ c \in Nat /\ idCounter[x] \in Nat
    BY MapFacts, Ranges DEF ManagerType
  <1>2. dialogs[x][c] \in Nat /\ c <= idCounter[x]
    BY <1>1 DEF FreshIds
  <1>3. CASE x = e
    <2>1. dialogs'[x] = With(dialogs[e], idCounter[e] + 1, 0) /\ c # idCounter[e] + 1
      BY <1>1, <1>2, <1>3 DEF ManagerType
    <2> QED
      BY <1>2, <1>3, <2>1 DEF With
  <1>4. CASE x # e
    BY <1>2, <1>4 DEF ManagerType
  <1> QED
    BY <1>3, <1>4

LEMMA StepKept ==
    ASSUME TypeOK, TypeOK', StoreInvariant, KeptInvariant, Next
    PROVE  KeptInvariant'
  <1>t. DiskType /\ ManagerType /\ EditorType
    BY DEF TypeOK
  <1>m. \A x \in Editor : dialogs[x] \in DialogMap /\ dialogs'[x] \in DialogMap
    BY DEF TypeOK, ManagerType
  <1>d. file.dialogs \in DialogMap /\ writing.dialogs \in DialogMap
    BY <1>t DEF DiskType
  <1>k. ~mixed /\ ~broken =>
          /\ \A x, y \in Editor : MaySave(x) /\ MaySave(y) => x = y
          /\ \A x \in Editor : MaySave(x) => Keeps(dialogs[x])
          /\ writing.kind = "chat" => /\ Keeps(writing.dialogs)
                                      /\ \A x \in Editor : MaySave(x) =>
                                            Covers(dialogs[x], writing.dialogs)
          /\ writing.kind = "idle" => /\ Keeps(file.dialogs)
                                      /\ \A d \in Id : safe[d] > 0 => file.kind = "chat"
    BY DEF KeptInvariant
  <1>1. ASSUME NEW e \in Editor, Open(e) PROVE KeptInvariant'
    <2> SUFFICES ASSUME ~mixed', ~broken' PROVE KeptInvariant'
      BY DEF KeptInvariant
    <2>1. ~mixed /\ ~broken /\ writing.kind = "idle" /\ \A x \in Editor : ~MaySave(x)
      BY <1>1 DEF Open, EdtIdle, disk
    <2>2. UNCHANGED <<file, writing, safe>>
      BY <1>1 DEF Open, disk
    <2>3. ASSUME NEW x \in Editor, MaySave(x)' PROVE x = e
      <3>1. queue' = queue \/ queue' = Append(queue, e)
        BY <1>1 DEF Open, LoadContent, LoadNothing, save
      <3>2. opened' = opened \cup {e} /\ answer' = answer
        BY <1>1 DEF Open
      <3> QED
        BY <1>t, <2>1, <2>3, <3>1, <3>2, QueueFacts DEF MaySave, EditorType
    <2>4. Keeps(dialogs'[e])
      <3>1. CASE LoadContent(e)
        <4>1. dialogs'[e] = file.dialogs
          BY <1>t, <3>1 DEF LoadContent, ManagerType
        <4> QED
          BY <1>k, <2>1, <4>1
      <3>2. CASE LoadNothing(e)
        BY <1>k, <2>1, <3>2 DEF LoadNothing, Keeps
      <3> QED
        BY <1>1, <3>1, <3>2 DEF Open
    <2> QED
      BY <1>k, <2>1, <2>2, <2>3, <2>4 DEF KeptInvariant, Keeps
  <1>2. ASSUME \A e \in Editor : ~Open(e), UNCHANGED <<disk, mixed>>,
               \A x \in Editor : Covers(dialogs'[x], dialogs[x])
        PROVE  KeptInvariant'
    BY <1>t, <1>2, MaySaveShrinks, KeptFrame
  <1>c. dialogs' = dialogs => \A x \in Editor : Covers(dialogs'[x], dialogs[x])
    BY <1>m, CoversSelf
  <1>3. ASSUME NEW e \in Editor, Close(e) \/ newDialog(e) \/ Submit(e) PROVE KeptInvariant'
    <2>1. CASE \E x \in Editor : Open(x)
      BY <1>1, <2>1
    <2>2. CASE \A x \in Editor : ~Open(x)
      <3>1. UNCHANGED <<disk, mixed>>
        BY <1>3 DEF Close, newDialog, Submit
      <3>2. CASE Close(e)
        BY <1>2, <1>c, <2>2, <3>1, <3>2 DEF Close, memory
      <3>3. CASE newDialog(e)
        BY <1>2, <1>t, <2>2, <3>1, <3>3, AddCovers DEF newDialog, StoreInvariant
      <3>4. CASE Submit(e)
        <4>1. active[e] \in DOMAIN dialogs[e]
          BY DEF StoreInvariant, PanelFollowsManager
        <4> QED
          BY <1>2, <1>t, <2>2, <3>1, <3>4, <4>1, GrowCovers DEF Submit
      <3> QED
        BY <1>3, <3>2, <3>3, <3>4
    <2> QED
      BY <2>1, <2>2
  <1>4. ASSUME NEW e \in Editor, NEW d \in Id,
               onRenameDialog(e, d) \/ onDialogPressed(e, d) \/ Chunk(e, d) \/ Complete(e, d)
        PROVE  KeptInvariant'
    <2>1. CASE \E x \in Editor : Open(x)
      BY <1>1, <2>1
    <2>2. CASE \A x \in Editor : ~Open(x)
      <3>1. UNCHANGED <<disk, mixed>>
        BY <1>4 DEF onRenameDialog, onDialogPressed, Chunk, Complete
      <3>2. CASE Chunk(e, d)
        BY <1>2, <1>t, <2>2, <3>1, <3>2, GrowCovers DEF Chunk
      <3>3. CASE ~Chunk(e, d)
        BY <1>2, <1>4, <1>c, <2>2, <3>1, <3>3
           DEF onRenameDialog, onDialogPressed, Complete, memory
      <3> QED
        BY <3>2, <3>3
    <2> QED
      BY <2>1, <2>2
  <1>5. ASSUME \A e \in Editor : ~Open(e), NEW e \in Editor, NEW d \in Id,
               clear(e, d) \/ deleteDialog(e, d)
        PROVE  KeptInvariant'
    <2> SUFFICES ASSUME ~mixed', ~broken' PROVE KeptInvariant'
      BY DEF KeptInvariant
    <2>1. /\ ~mixed /\ ~broken /\ writing.kind = "idle" /\ MaySave(e)
          /\ UNCHANGED <<file, writing>> /\ safe' = [safe EXCEPT ![d] = 0]
      BY <1>5 DEF clear, deleteDialog, EdtIdle, Forget, MaySave
    <2>2. \A x \in Editor : MaySave(x)' => x = e
      BY <1>5, <1>k, <1>t, <2>1, MaySaveShrinks
    <2>3. \A c \in Id : safe'[c] > 0 => c # d /\ safe'[c] = safe[c]
      BY <1>t, <2>1 DEF DiskType
    <2>4. \A c \in DOMAIN dialogs[e] : c # d => c \in DOMAIN dialogs'[e] /\ dialogs'[e][c] = dialogs[e][c]
      <3>1. CASE clear(e, d)
        BY <3>1 DEF clear
      <3>2. CASE deleteDialog(e, d)
        BY <1>t, <3>2 DEF deleteDialog, Without, ManagerType
      <3> QED
        BY <1>5, <3>1, <3>2
    <2>5. Keeps(dialogs[e]) /\ Keeps(file.dialogs)
      BY <1>k, <2>1
    <2>6. (Keeps(dialogs[e])) => (Keeps(dialogs[e]))'
      BY <2>3, <2>4 DEF Keeps
    <2>7. (Keeps(file.dialogs))' /\ \A c \in Id : safe'[c] > 0 => file'.kind = "chat"
      BY <1>k, <2>1, <2>3, <2>5 DEF Keeps
    <2> QED
      BY <2>1, <2>2, <2>5, <2>6, <2>7 DEF KeptInvariant
  <1>6. ASSUME \A e \in Editor : ~Open(e), doSave PROVE KeptInvariant'
    <2> SUFFICES ASSUME ~mixed', ~broken' PROVE KeptInvariant'
      BY DEF KeptInvariant
    <2> DEFINE h == Head(queue)
    <2>1. h \in Editor /\ MaySave(h)
      BY <1>6, <1>t, QueueFacts DEF doSave, EditorType, MaySave
    <2>2. /\ ~mixed /\ ~broken /\ writing'.kind = "chat" /\ writing'.dialogs = dialogs[h]
          /\ UNCHANGED <<dialogs, safe>>
      BY <1>6 DEF doSave, FileContent, memory
    <2>3. \A x \in Editor : MaySave(x)' => x = h
      BY <1>6, <1>k, <1>t, <2>1, <2>2, MaySaveShrinks
    <2>4. Keeps(dialogs[h]) /\ Covers(dialogs[h], dialogs[h])
      BY <1>k, <1>m, <2>1, <2>2, CoversSelf
    <2> QED
      BY <2>2, <2>3, <2>4 DEF KeptInvariant, Keeps, Covers
  <1>7. CASE doSaveFails
    <2>1. CASE \E x \in Editor : Open(x)
      BY <1>1, <2>1
    <2>2. CASE \A x \in Editor : ~Open(x)
      BY <1>2, <1>7, <1>c, <2>2 DEF doSaveFails, memory
    <2> QED
      BY <2>1, <2>2
  <1>8. ASSUME \A e \in Editor : ~Open(e), Written PROVE KeptInvariant'
    <2> SUFFICES ASSUME ~mixed', ~broken' PROVE KeptInvariant'
      BY DEF KeptInvariant
    <2>1. /\ ~mixed /\ ~broken /\ writing.kind = "chat"
          /\ file' = writing /\ writing' = Idle /\ dialogs' = dialogs
          /\ \A x \in Editor : MaySave(x)' => MaySave(x)
      BY <1>8, <1>t, MaySaveShrinks DEF Written, memory
    <2>2. ASSUME NEW ds \in DialogMap, Keeps(ds), Covers(ds, writing.dialogs)
          PROVE  \A d \in Id : safe'[d] > 0 => d \in DOMAIN ds /\ ds[d] >= safe'[d]
      <3> SUFFICES ASSUME NEW d \in Id, safe'[d] > 0 PROVE d \in DOMAIN ds /\ ds[d] >= safe'[d]
        OBVIOUS
      <3>1. \/ safe'[d] = safe[d]
            \/ d \in DOMAIN writing.dialogs /\ safe'[d] = writing.dialogs[d]
        BY <1>8 DEF Written
      <3> QED
        BY <2>2, <3>1 DEF Keeps, Covers
    <2>3. Keeps(writing.dialogs) /\ Covers(writing.dialogs, writing.dialogs)
      BY <1>d, <1>k, <2>1, CoversSelf
    <2>4. ASSUME NEW x \in Editor, MaySave(x)' PROVE (Keeps(dialogs[x]))'
      <3>1. Keeps(dialogs[x]) /\ Covers(dialogs[x], writing.dialogs)
        BY <1>k, <2>1, <2>4
      <3> QED
        BY <1>m, <2>1, <2>2, <3>1 DEF Keeps
    <2>5. (Keeps(file.dialogs))'
      BY <1>d, <2>1, <2>2, <2>3 DEF Keeps
    <2>6. writing'.kind = "idle" /\ file'.kind = "chat"
      BY <2>1 DEF Idle
    <2>7. \A x, y \in Editor : MaySave(x)' /\ MaySave(y)' => x = y
      BY <1>k, <2>1
    <2> QED
      BY <2>4, <2>5, <2>6, <2>7 DEF KeptInvariant
  <1>9. CASE WriteFails
    BY <1>9 DEF WriteFails, KeptInvariant
  <1>10. CASE Crash
    <2> SUFFICES ASSUME ~mixed', ~broken' PROVE KeptInvariant'
      BY DEF KeptInvariant
    <2>1. ~mixed /\ ~broken /\ writing.kind = "idle" /\ UNCHANGED <<file, safe>> /\ writing' = Idle
      BY <1>10, <1>t DEF Crash, DiskType
    <2>2. \A x \in Editor : ~MaySave(x)'
      BY <1>10 DEF Crash, MaySave
    <2> QED
      BY <1>k, <2>1, <2>2 DEF KeptInvariant, Keeps, Idle
  <1> QED
    BY <1>1, <1>3, <1>4, <1>5, <1>6, <1>7, <1>8, <1>9, <1>10 DEF Next

\* What was saved and not deleted is in the file, as long as no write was cut short
\* and no editor was opened while another one could still save.
THEOREM ConversationsKeptCorrect == Spec => []ConversationsKept
  <1>1. Init => KeptInvariant
    <2> SUFFICES ASSUME Init PROVE KeptInvariant
      OBVIOUS
    <2>1. \A d \in Id : ~(safe[d] > 0)
      BY DEF Init
    <2>2. \A x \in Editor : ~MaySave(x)
      BY DEF Init, MaySave
    <2> QED
      BY <2>1, <2>2 DEF KeptInvariant, Keeps, Init, Idle
  <1>2. TypeOK /\ StoreInvariant /\ TypeOK' /\ KeptInvariant /\ [Next]_vars => KeptInvariant'
    <2>1. ASSUME KeptInvariant, UNCHANGED vars PROVE KeptInvariant'
      BY <2>1 DEF vars, disk, memory, KeptInvariant, Keeps, Covers, MaySave
    <2> QED
      BY <2>1, StepKept
  <1>3. TypeOK /\ KeptInvariant => ConversationsKept
    BY DEF KeptInvariant, ConversationsKept, Keeps
  <1> QED
    BY <1>1, <1>2, <1>3, StoreCorrect, PTL DEF Spec

\* What a chat file and the editors that show it keep, for any number of editors and
\* dialogs.
THEOREM StoreKeptCorrect == Spec => []StoreKept
  BY StoreCorrect, ConversationsKeptCorrect, PTL DEF StoreInvariant, StoreKept

-----------------------------------------------------------------------------
(* One dialog: how its lists of messages change.                            *)

\* A message at the end of a list.
LEMMA AppendMessage ==
  ASSUME NEW ms \in Seq(DialogMessage), NEW m \in DialogMessage
  PROVE  /\ Append(ms, m) \in Seq(DialogMessage) /\ Append(ms, m) # <<>>
         /\ Last(Append(ms, m)) = m
         /\ \A i \in DOMAIN ms : i \in DOMAIN Append(ms, m) /\ Append(ms, m)[i] = ms[i]
                                 /\ i <= Len(ms)
         /\ Len(ms) + 1 \in DOMAIN Append(ms, m) /\ Append(ms, m)[Len(ms) + 1] = m
         /\ \A i \in DOMAIN Append(ms, m) : i \in DOMAIN ms \/ i = Len(ms) + 1
         /\ Len(ms) \in Nat
  BY DEF Last

\* What is sent of a list with one more message: a prompt is the last of it, and what
\* has no role changes nothing.
LEMMA AppendSent ==
  ASSUME NEW ms \in Seq(DialogMessage), NEW m \in DialogMessage
  PROVE  /\ \A i \in Sent(Append(ms, m)) :
                Append(ms, m)[i] = m \/ (i \in Sent(ms) /\ Append(ms, m)[i] = ms[i])
         /\ m.type = "user" => EndsWith(Append(ms, m), m.n)
         /\ \A k : m.type = "re" /\ EndsWith(ms, k) => EndsWith(Append(ms, m), k)
  <1> DEFINE a == Append(ms, m)
  <1>1. /\ \A i \in DOMAIN ms : i \in DOMAIN a /\ a[i] = ms[i] /\ i <= Len(ms)
        /\ Len(ms) + 1 \in DOMAIN a /\ a[Len(ms) + 1] = m
        /\ \A i \in DOMAIN a : i \in DOMAIN ms \/ i = Len(ms) + 1
        /\ Len(ms) \in Nat /\ \A i \in DOMAIN ms : i \in Nat
    BY AppendMessage
  <1> HIDE DEF a
  <1>2. \A i \in Sent(a) : a[i] = m \/ (i \in Sent(ms) /\ a[i] = ms[i])
    BY <1>1 DEF Sent
  <1>3. ASSUME m.type = "user" PROVE EndsWith(a, m.n)
    <2>1. Len(ms) + 1 \in Sent(a)
      BY <1>1, <1>3 DEF Sent
    <2>2. \A j \in Sent(a) : j <= Len(ms) + 1
      BY <1>1 DEF Sent
    <2> QED
      BY <1>1, <1>3, <2>1, <2>2 DEF EndsWith
  <1>4. ASSUME NEW k, m.type = "re", EndsWith(ms, k) PROVE EndsWith(a, k)
    <2>1. Sent(a) = Sent(ms)
      BY <1>1, <1>4 DEF Sent
    <2>2. \A i \in Sent(ms) : a[i] = ms[i]
      BY <1>1 DEF Sent
    <2> QED
      BY <1>4, <2>1, <2>2 DEF EndsWith
  <1> QED
    BY <1>2, <1>3, <1>4 DEF a

\* More of an answer changes nothing of which messages there are.
LEMMA AnswerGrows ==
  ASSUME NEW ms \in Seq(DialogMessage), NEW k \in Prompt
  PROVE  /\ append(k, ms) \in Seq(DialogMessage)
         /\ Sent(append(k, ms)) = Sent(ms)
         /\ \A i \in DOMAIN ms : /\ append(k, ms)[i].n = ms[i].n
                                 /\ append(k, ms)[i].type = ms[i].type
         /\ \A j : EndsWith(ms, j) => EndsWith(append(k, ms), j)
         /\ ms # <<>> => /\ append(k, ms) # <<>>
                         /\ Last(append(k, ms)).n = Last(ms).n
                         /\ Last(append(k, ms)).type = Last(ms).type
  <1> DEFINE a == append(k, ms)
  <1>1. DOMAIN a = DOMAIN ms /\ DOMAIN ms = 1..Len(ms) /\ Len(ms) \in Nat
    BY DEF append
  <1>2. ASSUME NEW i \in DOMAIN ms
        PROVE  a[i] \in DialogMessage /\ a[i].n = ms[i].n /\ a[i].type = ms[i].type
    <2>1. ms[i] \in DialogMessage
      OBVIOUS
    <2>2. CASE ms[i].type = "ai" /\ ms[i].n = k
      <3>1. a[i] = [ms[i] EXCEPT !.tokens = @ + 1]
        BY <2>2 DEF append
      <3> QED
        BY <2>1, <3>1 DEF DialogMessage
    <2>3. CASE ~(ms[i].type = "ai" /\ ms[i].n = k)
      <3>1. a[i] = ms[i]
        BY <2>3 DEF append
      <3> QED
        BY <2>1, <3>1
    <2> QED
      BY <2>2, <2>3
  <1>3. a \in Seq(DialogMessage)
    <2>1. a = [i \in 1..Len(ms) |-> a[i]]
      BY <1>1 DEF append
    <2> QED
      BY <1>1, <1>2, <2>1
  <1>4. Len(a) = Len(ms)
    BY <1>1, <1>3
  <1> HIDE DEF a
  <1>5. Sent(a) = Sent(ms)
    BY <1>1, <1>2 DEF Sent
  <1>6. \A j : EndsWith(ms, j) => EndsWith(a, j)
    BY <1>1, <1>2, <1>5 DEF EndsWith, Sent
  <1>7. ASSUME ms # <<>> PROVE a # <<>> /\ Last(a).n = Last(ms).n /\ Last(a).type = Last(ms).type
    <2>1. Len(ms) \in DOMAIN ms
      BY <1>1, <1>7
    <2>2. a # <<>>
      BY <1>3, <1>4, <2>1, <1>1
    <2> QED
      BY <1>2, <1>4, <2>1, <2>2 DEF Last
  <1> QED
    BY <1>2, <1>3, <1>5, <1>6, <1>7 DEF a

\* What getAcceptedMessages returns is an end of the list.
LEMMA AcceptedIsEnd ==
  ASSUME NEW ms \in Seq(DialogMessage)
  PROVE  \E n \in 1..(Len(ms) + 1) : getAcceptedMessages(ms) = SubSeq(ms, n, Len(ms))
  <1> DEFINE kept == {i \in DOMAIN ms : \A j \in i..Len(ms) : Fits(ms, j)}
  <1>1. Len(ms) \in Nat /\ DOMAIN ms = 1..Len(ms)
    OBVIOUS
  <1>2. IsFiniteSet(1..Len(ms)) /\ Cardinality(1..Len(ms)) = Len(ms)
    <2>1. /\ IsFiniteSet(1..Len(ms))
          /\ Cardinality(1..Len(ms)) = IF 1 > Len(ms) THEN 0 ELSE Len(ms) - 1 + 1
      BY <1>1, FS_Interval
    <2> QED
      BY <1>1, <2>1
  <1>3. kept \subseteq 1..Len(ms)
    BY <1>1
  <1> HIDE DEF kept
  <1>4. IsFiniteSet(kept) /\ Cardinality(kept) <= Len(ms)
    BY <1>2, <1>3, FS_Subset
  <1>5. Cardinality(kept) \in Nat
    BY <1>4, FS_CardinalityType
  <1>6. Len(ms) - Cardinality(kept) + 1 \in 1..(Len(ms) + 1)
    BY <1>1, <1>4, <1>5
  <1>7. getAcceptedMessages(ms) = SubSeq(ms, Len(ms) - Cardinality(kept) + 1, Len(ms))
    BY DEF getAcceptedMessages, kept
  <1> QED
    BY <1>6, <1>7

\* What is sent of them is sent of the list; and if anything is, the prompt at the end.
LEMMA AcceptedSent ==
  ASSUME NEW ms \in Seq(DialogMessage)
  PROVE  LET acc == getAcceptedMessages(ms)
         IN  /\ acc \in Seq(DialogMessage)
             /\ \A i \in Sent(acc) : \E j \in Sent(ms) : acc[i] = ms[j]
             /\ \A k : EndsWith(ms, k) /\ Sent(acc) # {} => EndsWith(acc, k)
  <1> DEFINE acc == getAcceptedMessages(ms)
  <1>1. PICK n \in 1..(Len(ms) + 1) : acc = SubSeq(ms, n, Len(ms))
    BY AcceptedIsEnd
  <1>2. Len(ms) \in Nat /\ n \in Nat /\ 1 <= n /\ n <= Len(ms) + 1 /\ DOMAIN ms = 1..Len(ms)
    OBVIOUS
  <1>3. /\ acc \in Seq(DialogMessage)
        /\ DOMAIN acc = 1..(Len(ms) - n + 1)
        /\ \A i \in DOMAIN acc : acc[i] = ms[i + n - 1]
    BY <1>1, <1>2
  <1> HIDE DEF acc
  <1>4. \A i \in DOMAIN acc : i \in Nat /\ i + n - 1 \in DOMAIN ms
    BY <1>2, <1>3
  <1>5. \A i \in Sent(acc) : i + n - 1 \in Sent(ms) /\ acc[i] = ms[i + n - 1]
    BY <1>3, <1>4 DEF Sent
  <1>6. ASSUME NEW k, EndsWith(ms, k), Sent(acc) # {} PROVE EndsWith(acc, k)
    <2>1. PICK i \in Sent(ms) : ms[i].type = "user" /\ ms[i].n = k /\ \A j \in Sent(ms) : j <= i
      BY <1>6 DEF EndsWith
    <2>2. PICK x \in Sent(acc) : TRUE
      BY <1>6
    <2>3. i \in 1..Len(ms) /\ x \in DOMAIN acc /\ x + n - 1 <= i
      BY <1>2, <1>5, <2>1 DEF Sent
    <2>4. i - n + 1 \in DOMAIN acc /\ (i - n + 1) + n - 1 = i
      BY <1>2, <1>3, <1>4, <2>3
    <2>5. i - n + 1 \in Sent(acc) /\ acc[i - n + 1] = ms[i]
      BY <1>3, <2>1, <2>4 DEF Sent
    <2>6. ASSUME NEW j \in Sent(acc) PROVE j <= i - n + 1
      <3>1. j + n - 1 <= i /\ j \in Nat
        BY <1>4, <1>5, <2>1 DEF Sent
      <3> QED
        BY <1>2, <2>3, <3>1
    <2> QED
      BY <2>1, <2>5, <2>6 DEF EndsWith
  <1> QED
    BY <1>3, <1>5, <1>6 DEF acc

-----------------------------------------------------------------------------
(* One dialog: its steps.                                                   *)

\* The steps of the client and the worker that leave the messages, the prompts and
\* what is known of them alone.
Quiet(k) == makeCall(k) \/ makeCallThrows(k) \/ AssignCall(k) \/ onComplete(k)
            \/ onErrorThrows(k) \/ onFailureComplete(k)

\* What a step about the answer of k changes of its phase.
LEMMA PhaseSet ==
  ASSUME DialogTypeOK, NEW k \in Prompt,
         NEW to \in {"queued", "streaming", "errored", "failed", "done", "dead"},
         phase' = [phase EXCEPT ![k] = to]
  PROVE  /\ phase' \in [Prompt -> {"none", "queued", "streaming", "errored", "failed", "done", "dead"}]
         /\ phase'[k] = to /\ \A j \in Prompt : j # k => phase'[j] = phase[j]
  BY DEF DialogTypeOK

\* A prompt's message has the types.
LEMMA MessageType ==
  ASSUME NEW type \in {"user", "ai", "re"}, NEW n \in Prompt, NEW tokens \in Nat
  PROVE  /\ Message(type, n, tokens) \in DialogMessage
         /\ Message(type, n, tokens).type = type /\ Message(type, n, tokens).n = n
  BY DEF Message, DialogMessage

\* The quiet steps keep types and invariant: only the button and one phase change.
LEMMA QuietKeeps ==
  ASSUME DialogTypeOK, DialogInvariant, NEW k \in Prompt, Quiet(k)
  PROVE  DialogTypeOK' /\ DialogInvariant'
  <1>1. /\ UNCHANGED <<edt, messages, submits, history, cleared, cancelled, naming>>
        /\ call' = call \/ call' = call \cup {k}
        /\ stuck' \in BOOLEAN
    BY DEF Quiet, makeCall, makeCallThrows, AssignCall, onComplete, onErrorThrows,
           onFailureComplete, naming, DialogTypeOK
  <1>2. \/ UNCHANGED phase /\ phase[k] # "none"
        \/ \E to \in {"streaming", "done", "dead"} : phase' = [phase EXCEPT ![k] = to]
    BY DEF Quiet, makeCall, makeCallThrows, AssignCall, onComplete, onErrorThrows,
           onFailureComplete, SetPhase, stream
  <1>3. phase[k] # "none" /\ phase \in [Prompt -> {"none", "queued", "streaming", "errored", "failed", "done", "dead"}]
    BY DEF Quiet, makeCall, makeCallThrows, AssignCall, onComplete, onErrorThrows,
           onFailureComplete, DialogTypeOK
  <1>4. /\ phase' \in [Prompt -> {"none", "queued", "streaming", "errored", "failed", "done", "dead"}]
        /\ \A j \in Prompt : j # k => phase'[j] = phase[j]
        /\ phase'[k] # "none"
    BY <1>2, <1>3, PhaseSet
  <1>5. button' \in {"SUBMIT", "STOP"}
    BY DEF Quiet, makeCall, makeCallThrows, AssignCall, onComplete, onErrorThrows,
           onFailureComplete, DialogTypeOK
  <1>6. doubles' \in Nat /\ (doubles' = doubles \/ doubles' = doubles + 1)
    BY DEF Quiet, makeCall, makeCallThrows, AssignCall, onComplete, onErrorThrows,
           onFailureComplete, DialogTypeOK
  <1>7. DialogTypeOK'
    BY <1>1, <1>4, <1>5, <1>6 DEF DialogTypeOK, naming
  <1>8. /\ k \in Generating' => k \in Generating /\ button' = button
        /\ \A j \in Prompt : j # k => (j \in Generating' <=> j \in Generating)
        /\ k \in Generating' => phase[k] \in {"queued", "streaming"} \/ phase' = phase
    <2>1. \A j \in Prompt : j # k => (j \in Generating' <=> j \in Generating)
      BY <1>4 DEF Generating
    <2>2. CASE makeCall(k)
      BY <2>1, <2>2, <1>4, PhaseSet DEF makeCall, Generating
    <2>3. CASE AssignCall(k)
      BY <2>1, <2>3 DEF AssignCall, Generating
    <2>4. CASE makeCallThrows(k) \/ onComplete(k) \/ onErrorThrows(k) \/ onFailureComplete(k)
      <3>1. phase'[k] \in {"dead", "done"}
        BY <2>4, <1>3 DEF makeCallThrows, onComplete, onErrorThrows, onFailureComplete, SetPhase
      <3> QED
        BY <2>1, <3>1 DEF Generating
    <2> QED
      BY <2>2, <2>3, <2>4 DEF Quiet
  <1>9. /\ (doubles' = 0 => doubles = 0)
        /\ (button' = button \/ (doubles' = 0 => k \in Generating \/ button # "STOP"))
    <2>1. doubles' = 0 => doubles = 0
      BY <1>6 DEF DialogTypeOK
    <2>2. CASE makeCall(k) \/ makeCallThrows(k) \/ AssignCall(k) \/ onErrorThrows(k)
      BY <2>1, <2>2 DEF makeCall, makeCallThrows, AssignCall, onErrorThrows
    <2>3. CASE onComplete(k)
      BY <2>1, <2>3 DEF onComplete, Generating
    <2>4. CASE onFailureComplete(k)
      BY <2>1, <2>4 DEF onFailureComplete, DialogTypeOK
    <2> QED
      BY <2>2, <2>3, <2>4 DEF Quiet
  <1>a. \A j \in Prompt : phase'[j] # "none" => j <= submits
    BY <1>3, <1>4 DEF DialogInvariant
  <1>b. edt = "answer" =>
          /\ submits \in Prompt /\ phase'[submits] = "none" /\ submits \notin cleared
          /\ EndsWith(messages, submits)
          /\ doubles' = 0 => button' = "STOP"
    <2> SUFFICES ASSUME edt = "answer"
                 PROVE  /\ submits \in Prompt /\ phase'[submits] = "none" /\ submits \notin cleared
                        /\ EndsWith(messages, submits)
                        /\ doubles' = 0 => button' = "STOP"
      OBVIOUS
    <2>1. /\ submits \in Prompt /\ phase[submits] = "none" /\ submits \notin cleared
          /\ EndsWith(messages, submits)
          /\ doubles = 0 => button = "STOP"
      BY DEF DialogInvariant
    <2>2. submits # k
      BY <2>1, <1>3
    <2>3. doubles = 0 => k \notin Generating
      BY DEF DialogInvariant
    <2> QED
      BY <2>1, <2>2, <2>3, <1>4, <1>9
  <1>c. ASSUME NEW j \in Generating'
        PROVE  /\ EndsWith(history[j], j)
               /\ j \notin cleared => \A i \in Sent(history[j]) : history[j][i].n \notin cleared
               /\ doubles' = 0 => j = submits /\ button' = "STOP" /\ edt = "idle"
               /\ doubles' = 0 /\ j \notin cleared /\ phase'[j] # "errored" =>
                     /\ messages # <<>>
                     /\ Last(messages).type = "ai" /\ Last(messages).n = j
    <2>1. j \in Prompt /\ j \in Generating
      BY <1>8 DEF Generating
    <2>2. phase'[j] # "errored" => phase[j] # "errored"
      BY <1>4, <1>8, <2>1
    <2>3. doubles = 0 => j = submits /\ button = "STOP" /\ edt = "idle"
      BY <2>1 DEF DialogInvariant
    <2>4. doubles' = 0 => button' = "STOP"
      <3> SUFFICES ASSUME doubles' = 0, button' # button PROVE FALSE
        BY <2>3, <1>9
      <3>1. k \in Generating /\ j = submits
        BY <1>9, <2>3
      <3>2. k = submits
        BY <1>9, <3>1 DEF DialogInvariant
      <3> QED
        BY <1>8, <3>1, <3>2
    <2> QED
      BY <2>1, <2>2, <2>3, <2>4, <1>9 DEF DialogInvariant
  <1>d. DialogInvariant'
    <2>1. \A i \in Sent(messages) : messages[i].n <= submits /\ messages[i].n \notin cleared
      BY DEF DialogInvariant
    <2> HIDE DEF DialogInvariant
    <2>2. UNCHANGED <<edt, messages, submits, history, cleared>>
      BY <1>1
    <2> QED
      BY <1>a, <1>b, <1>c, <2>1, <2>2 DEF DialogInvariant
  <1> QED
    BY <1>7, <1>d

\* The steps that touch no answer keep types and invariant; a submit that throws finds
\* the button released, and nothing else changes it here.
LEMMA AsideKeeps ==
  ASSUME DialogTypeOK, DialogInvariant,
         \/ SubmitThrows \/ Cancel \/ \E n \in {NewChat, UserName} : renameTo(n)
         \/ \E k \in Prompt : onProposedName(k) \/ NoProposal(k)
  PROVE  DialogTypeOK' /\ DialogInvariant'
  <1>0. \A k \in Prompt : k \in Nat
    BY DialogAssumption DEF Prompt
  <1>1. /\ UNCHANGED <<edt, messages, submits, phase, call, history, doubles, cleared>>
        /\ button' = button \/ button' = "STOP"
        /\ stuck' \in BOOLEAN
    BY DEF SubmitThrows, Cancel, renameTo, onProposedName, NoProposal, stream, DialogTypeOK
  <1>2. cancelled' \subseteq Prompt
    <2>1. CASE Cancel
      <3>1. Last(messages) \in DialogMessage
        BY <2>1 DEF Cancel, DialogTypeOK, Last
      <3>2. Last(messages).n \in Prompt
        BY <3>1 DEF DialogMessage
      <3> QED
        BY <2>1, <3>2 DEF Cancel, DialogTypeOK
    <2>2. CASE UNCHANGED cancelled
      BY <2>2 DEF DialogTypeOK
    <2> QED
      BY <2>1, <2>2 DEF SubmitThrows, renameTo, onProposedName, NoProposal, stream
  <1>3. name' \in [by : {"nobody", "user", "prompt"}, n : Nat] /\ proposals' \subseteq Prompt
    <2>1. CASE UNCHANGED naming
      BY <2>1 DEF naming, DialogTypeOK
    <2>2. ASSUME NEW n \in {NewChat, UserName}, renameTo(n)
          PROVE  name' \in [by : {"nobody", "user", "prompt"}, n : Nat] /\ proposals' \subseteq Prompt
      BY <2>2 DEF renameTo, NewChat, UserName, DialogTypeOK
    <2>3. ASSUME NEW k \in Prompt, onProposedName(k) \/ NoProposal(k)
          PROVE  name' \in [by : {"nobody", "user", "prompt"}, n : Nat] /\ proposals' \subseteq Prompt
      BY <1>0, <2>3 DEF onProposedName, NoProposal, NameFor, DialogTypeOK
    <2> QED
      BY <2>1, <2>2, <2>3 DEF SubmitThrows, Cancel
  <1>4. DialogTypeOK'
    BY <1>1, <1>2, <1>3 DEF DialogTypeOK
  <1> QED
    BY <1>1, <1>4 DEF DialogInvariant, Generating, DialogTypeOK

\* A prompt: nothing is generated then, unless the button was released twice.
LEMMA SubmitKeeps ==
  ASSUME DialogTypeOK, DialogInvariant, NEW tokens \in PromptTokens, SubmitPrompt(tokens)
  PROVE  DialogTypeOK' /\ DialogInvariant'
  <1> DEFINE k == submits + 1
             m == Message("user", k, tokens)
  <1>1. /\ edt = "idle" /\ submits < MaxPrompts /\ button = "SUBMIT"
        /\ button' = "STOP" /\ edt' = "answer" /\ submits' = k
        /\ messages' = Append(messages, m)
        /\ UNCHANGED <<phase, call, cancelled, history, stuck, doubles, cleared>>
    BY DEF SubmitPrompt, stream
  <1>2. k \in Prompt /\ k \in Nat /\ tokens \in Nat /\ submits \in Nat /\ k > submits
        /\ \A j \in Prompt : j \in Nat
    <2>1. submits \in Nat /\ MaxPrompts \in Nat /\ tokens \in Nat
      BY DialogAssumption DEF DialogTypeOK
    <2> QED
      BY <1>1, <2>1 DEF Prompt
  <1>3. m \in DialogMessage /\ m.type = "user" /\ m.n = k
    BY <1>2, MessageType
  <1>4. name' \in [by : {"nobody", "user", "prompt"}, n : Nat] /\ proposals' \subseteq Prompt
    BY <1>2 DEF SubmitPrompt, NameFor, DialogTypeOK
  <1> HIDE DEF m
  <1>5. /\ messages' \in Seq(DialogMessage) /\ EndsWith(messages', k)
        /\ \A i \in Sent(messages') :
             messages'[i] = m \/ (i \in Sent(messages) /\ messages'[i] = messages[i])
    <2>1. messages \in Seq(DialogMessage)
      BY DEF DialogTypeOK
    <2>2. \A i \in Sent(Append(messages, m)) :
             Append(messages, m)[i] = m
             \/ (i \in Sent(messages) /\ Append(messages, m)[i] = messages[i])
      BY <1>3, <2>1, AppendSent
    <2>3. EndsWith(Append(messages, m), k)
      BY <1>3, <2>1, AppendSent
    <2> HIDE DEF k
    <2> QED
      BY <1>1, <1>3, <2>1, <2>2, <2>3, AppendMessage
  <1>6. k \in 0..MaxPrompts /\ cleared \subseteq 1..k
    <2>1. MaxPrompts \in Nat /\ cleared \subseteq 1..submits
      BY DialogAssumption DEF DialogTypeOK
    <2> QED
      BY <1>1, <1>2, <2>1
  <1>7. DialogTypeOK'
    BY <1>1, <1>4, <1>5, <1>6 DEF DialogTypeOK
  <1>8. \A j \in Prompt : phase[j] # "none" => j <= submits
    BY DEF DialogInvariant
  <1>9. phase[k] = "none" /\ k \notin cleared
    BY <1>2, <1>8 DEF DialogTypeOK
  <1>a. \A j \in Generating : /\ EndsWith(history[j], j)
                              /\ j \notin cleared => \A i \in Sent(history[j]) :
                                                        history[j][i].n \notin cleared
                              /\ doubles # 0
    BY <1>1 DEF DialogInvariant
  <1>b. \A i \in Sent(messages') : messages'[i].n <= k /\ messages'[i].n \notin cleared
    <2> SUFFICES ASSUME NEW i \in Sent(messages')
                 PROVE  messages'[i].n <= k /\ messages'[i].n \notin cleared
      OBVIOUS
    <2>1. CASE messages'[i] = m
      BY <2>1, <1>2, <1>3, <1>9
    <2>2. CASE i \in Sent(messages) /\ messages'[i] = messages[i]
      <3>1. messages[i].n <= submits /\ messages[i].n \notin cleared
        BY <2>2 DEF DialogInvariant
      <3>2. messages[i] \in DialogMessage
        BY <2>2 DEF Sent, DialogTypeOK
      <3>3. messages[i].n \in Nat
        BY <1>2, <3>2 DEF DialogMessage
      <3> QED
        BY <2>2, <3>1, <3>3, <1>2
    <2> QED
      BY <1>5, <2>1, <2>2
  <1>c. \A j \in Prompt : phase[j] # "none" => j <= k
    BY <1>2, <1>8
  <1>d. Generating' = Generating
    BY <1>1 DEF Generating
  <1> HIDE DEF k, DialogInvariant
  <1>e. DialogInvariant'
    BY <1>1, <1>2, <1>5, <1>9, <1>a, <1>b, <1>c, <1>d DEF DialogInvariant
  <1> QED
    BY <1>7, <1>e

\* The answer begins: it is the only one, and its history ends with its prompt.
LEMMA AddAiKeeps ==
  ASSUME DialogTypeOK, DialogInvariant, addAiMessage
  PROVE  DialogTypeOK' /\ DialogInvariant'
  <1> DEFINE m == Message("ai", submits, 0)
             acc == getAcceptedMessages(messages)
  <1>1. /\ edt = "answer" /\ edt' = "idle"
        /\ history' = [history EXCEPT ![submits] = acc]
        /\ messages' = Append(messages, m)
        /\ UNCHANGED <<submits, call, cancelled, name, proposals, stuck, doubles, cleared>>
    BY DEF addAiMessage, naming
  <1>2. /\ submits \in Prompt /\ phase[submits] = "none" /\ submits \notin cleared
        /\ EndsWith(messages, submits)
        /\ doubles = 0 => button = "STOP"
    BY <1>1 DEF DialogInvariant
  <1>3. m \in DialogMessage /\ m.type = "ai" /\ m.n = submits
    BY <1>2, MessageType
  <1> HIDE DEF m
  <1>4. /\ messages' \in Seq(DialogMessage) /\ messages' # <<>> /\ Last(messages') = m
        /\ \A i \in Sent(messages') :
             messages'[i] = m \/ (i \in Sent(messages) /\ messages'[i] = messages[i])
    <2>1. messages \in Seq(DialogMessage)
      BY DEF DialogTypeOK
    <2>2. \A i \in Sent(Append(messages, m)) :
             Append(messages, m)[i] = m
             \/ (i \in Sent(messages) /\ Append(messages, m)[i] = messages[i])
      BY <1>3, <2>1, AppendSent
    <2> QED
      BY <1>1, <1>3, <2>1, <2>2, AppendMessage, AppendSent
  <1>5. /\ acc \in Seq(DialogMessage)
        /\ \A i \in Sent(acc) : \E j \in Sent(messages) : acc[i] = messages[j]
        /\ Sent(acc) # {} => EndsWith(acc, submits)
    BY <1>2, AcceptedSent DEF DialogTypeOK
  <1> HIDE DEF acc
  <1>6. /\ history' \in [Prompt -> Seq(DialogMessage)] /\ history'[submits] = acc
        /\ \A j \in Prompt : j # submits => history'[j] = history[j]
    BY <1>1, <1>2, <1>5 DEF DialogTypeOK
  <1>7. \/ /\ Sent(acc) # {} /\ phase' = [phase EXCEPT ![submits] = "queued"] /\ button' = button
        \/ /\ phase' = [phase EXCEPT ![submits] = "done"] /\ button' = "SUBMIT"
    BY <1>6 DEF addAiMessage
  <1>8. /\ phase' \in [Prompt -> {"none", "queued", "streaming", "errored", "failed", "done", "dead"}]
        /\ \A j \in Prompt : j # submits => phase'[j] = phase[j]
        /\ phase'[submits] = "done" \/ (phase'[submits] = "queued" /\ Sent(acc) # {} /\ button' = button)
    BY <1>2, <1>7, PhaseSet
  <1>9. DialogTypeOK'
    <2>1. button' \in {"SUBMIT", "STOP"}
      BY <1>7 DEF DialogTypeOK
    <2> QED
      BY <1>1, <1>4, <1>6, <1>8, <2>1 DEF DialogTypeOK
  <1>a. \A i \in Sent(messages) : messages[i].n <= submits /\ messages[i].n \notin cleared
    BY DEF DialogInvariant
  <1>b. \A i \in Sent(messages') : messages'[i].n <= submits /\ messages'[i].n \notin cleared
    <2>1. submits <= submits
      BY DEF DialogTypeOK
    <2> QED
      BY <1>2, <1>3, <1>4, <1>a, <2>1
  <1>c. \A j \in Prompt : phase'[j] # "none" => j <= submits
    <2>1. submits <= submits
      BY DEF DialogTypeOK
    <2> QED
      BY <1>8, <2>1 DEF DialogInvariant
  <1>d. \A j \in Generating : doubles # 0
    BY <1>1 DEF DialogInvariant
  <1>e. ASSUME NEW j \in Generating'
        PROVE  /\ EndsWith(history'[j], j)
               /\ j \notin cleared => \A i \in Sent(history'[j]) : history'[j][i].n \notin cleared
               /\ doubles = 0 => j = submits /\ button' = "STOP"
               /\ doubles = 0 /\ j \notin cleared /\ phase'[j] # "errored" =>
                     Last(messages').type = "ai" /\ Last(messages').n = j
    <2>1. CASE j = submits
      <3>1. phase'[submits] = "queued"
        BY <2>1, <1>8 DEF Generating
      <3>2. Sent(acc) # {} /\ button' = button
        BY <1>8, <3>1
      <3>3. \A i \in Sent(acc) : acc[i].n \notin cleared
        BY <1>5, <1>a
      <3> QED
        BY <2>1, <3>2, <3>3, <1>2, <1>3, <1>4, <1>5, <1>6
    <2>2. CASE j # submits
      <3>1. j \in Prompt /\ j \in Generating
        BY <2>2, <1>8 DEF Generating
      <3>2. /\ EndsWith(history[j], j)
            /\ j \notin cleared => \A i \in Sent(history[j]) : history[j][i].n \notin cleared
        BY <3>1 DEF DialogInvariant
      <3> QED
        BY <2>2, <3>1, <3>2, <1>6, <1>d
    <2> QED
      BY <2>1, <2>2
  <1> HIDE DEF DialogInvariant
  <1>f. DialogInvariant'
    BY <1>1, <1>4, <1>b, <1>c, <1>e DEF DialogInvariant
  <1> QED
    BY <1>9, <1>f

\* Clearing: every prompt there was is one that was cleared.
LEMMA ClearKeeps ==
  ASSUME DialogTypeOK, DialogInvariant, clearMessages
  PROVE  DialogTypeOK' /\ DialogInvariant'
  <1>1. /\ edt = "idle" /\ messages' = <<>> /\ name' = NewChat /\ cleared' = 1..submits
        /\ UNCHANGED <<button, edt, submits, phase, call, cancelled, history, proposals, stuck, doubles>>
    BY DEF clearMessages, stream
  <1>2. DialogTypeOK'
    <2>1. <<>> \in Seq(DialogMessage) /\ NewChat \in [by : {"nobody", "user", "prompt"}, n : Nat]
      BY DEF NewChat
    <2> QED
      BY <1>1, <2>1 DEF DialogTypeOK
  <1>3. Sent(messages') = {}
    BY <1>1 DEF Sent
  <1>4. \A k \in Generating : k \in 1..submits
    <2> SUFFICES ASSUME NEW k \in Generating PROVE k \in 1..submits
      OBVIOUS
    <2>1. k \in Prompt /\ k <= submits
      BY DEF DialogInvariant, Generating
    <2> QED
      BY <2>1, DialogAssumption DEF Prompt, DialogTypeOK
  <1>5. Generating' = Generating
    BY <1>1 DEF Generating
  <1> QED
    BY <1>1, <1>2, <1>3, <1>4, <1>5 DEF DialogInvariant

\* More of an answer, or the message of its error: no message comes or goes.
LEMMA MessageKeeps ==
  ASSUME DialogTypeOK, DialogInvariant, NEW k \in Prompt, onMessage(k) \/ onError(k)
  PROVE  DialogTypeOK' /\ DialogInvariant'
  <1>1. /\ phase[k] = "streaming" /\ messages' = append(k, messages)
        /\ UNCHANGED <<button, edt, submits, call, cancelled, history, name, proposals, stuck,
                       doubles, cleared>>
        /\ phase' = phase \/ phase' = [phase EXCEPT ![k] = "errored"]
    BY DEF onMessage, onError, SetPhase, stream, naming
  <1>2. /\ phase' \in [Prompt -> {"none", "queued", "streaming", "errored", "failed", "done", "dead"}]
        /\ \A j \in Prompt : j # k => phase'[j] = phase[j]
        /\ phase'[k] \in {"streaming", "errored"}
    BY <1>1, PhaseSet DEF DialogTypeOK
  <1>3. /\ messages' \in Seq(DialogMessage) /\ Sent(messages') = Sent(messages)
        /\ \A i \in DOMAIN messages : messages'[i].n = messages[i].n
        /\ \A j : EndsWith(messages, j) => EndsWith(messages', j)
        /\ messages # <<>> => /\ messages' # <<>>
                              /\ Last(messages').n = Last(messages).n
                              /\ Last(messages').type = Last(messages).type
    BY <1>1, AnswerGrows DEF DialogTypeOK
  <1>4. DialogTypeOK'
    BY <1>1, <1>2, <1>3 DEF DialogTypeOK
  <1>5. Generating' = Generating /\ \A j \in Prompt : phase'[j] # "errored" => phase'[j] = phase[j]
    BY <1>1, <1>2 DEF Generating
  <1>6. \A i \in Sent(messages') : messages'[i].n <= submits /\ messages'[i].n \notin cleared
    BY <1>3 DEF DialogInvariant, Sent
  <1>7. \A j \in Prompt : phase'[j] # "none" => j <= submits
    BY <1>1, <1>2 DEF DialogInvariant
  <1>8. edt = "answer" =>
          /\ submits \in Prompt /\ phase'[submits] = "none" /\ submits \notin cleared
          /\ EndsWith(messages', submits)
          /\ doubles = 0 => button = "STOP"
    <2>1. edt = "answer" => /\ submits \in Prompt /\ phase[submits] = "none"
                            /\ submits \notin cleared /\ EndsWith(messages, submits)
                            /\ doubles = 0 => button = "STOP"
      BY DEF DialogInvariant
    <2> QED
      BY <1>1, <1>2, <1>3, <2>1
  <1>9. ASSUME NEW j \in Generating'
        PROVE  /\ EndsWith(history[j], j)
               /\ j \notin cleared => \A i \in Sent(history[j]) : history[j][i].n \notin cleared
               /\ doubles = 0 => j = submits /\ button = "STOP" /\ edt = "idle"
               /\ doubles = 0 /\ j \notin cleared /\ phase'[j] # "errored" =>
                     /\ messages' # <<>>
                     /\ Last(messages').type = "ai" /\ Last(messages').n = j
    <2>1. j \in Generating /\ j \in Prompt
      BY <1>5 DEF Generating
    <2> QED
      BY <2>1, <1>3, <1>5 DEF DialogInvariant
  <1> HIDE DEF DialogInvariant
  <1>a. DialogInvariant'
    BY <1>1, <1>6, <1>7, <1>8, <1>9 DEF DialogInvariant
  <1> QED
    BY <1>4, <1>a

\* A failed answer: the button is released, and a message without a role may be added.
LEMMA FailureKeeps ==
  ASSUME DialogTypeOK, DialogInvariant, NEW k \in Prompt, onFailure(k)
  PROVE  DialogTypeOK' /\ DialogInvariant'
  <1> DEFINE m == Message("re", k, 1)
  <1>1. /\ phase[k] = "errored" /\ phase' = [phase EXCEPT ![k] = "failed"]
        /\ messages' = Append(messages, m) \/ messages' = messages
        /\ button' = "SUBMIT"
        /\ UNCHANGED <<edt, submits, call, cancelled, history, name, proposals, stuck, doubles, cleared>>
    BY DEF onFailure, SetPhase, naming
  <1>2. /\ phase' \in [Prompt -> {"none", "queued", "streaming", "errored", "failed", "done", "dead"}]
        /\ \A j \in Prompt : j # k => phase'[j] = phase[j]
        /\ phase'[k] = "failed"
    BY <1>1, PhaseSet
  <1>3. m \in DialogMessage /\ m.type = "re"
    BY MessageType
  <1> HIDE DEF m
  <1>4. /\ messages' \in Seq(DialogMessage)
        /\ \A i \in Sent(messages') : i \in Sent(messages) /\ messages'[i] = messages[i]
        /\ \A j : EndsWith(messages, j) => EndsWith(messages', j)
    <2>1. CASE messages' = messages
      BY <2>1 DEF DialogTypeOK
    <2>2. CASE messages' = Append(messages, m)
      <3>1. \A i \in Sent(messages') : messages'[i] # m
        BY <1>3 DEF Sent
      <3> QED
        <4>1. messages \in Seq(DialogMessage)
          BY DEF DialogTypeOK
        <4>2. \A i \in Sent(Append(messages, m)) :
                 Append(messages, m)[i] = m
                 \/ (i \in Sent(messages) /\ Append(messages, m)[i] = messages[i])
          BY <1>3, <4>1, AppendSent
        <4>3. \A j : EndsWith(messages, j) => EndsWith(Append(messages, m), j)
          BY <1>3, <4>1, AppendSent
        <4> QED
          BY <2>2, <3>1, <1>3, <4>1, <4>2, <4>3, AppendMessage
    <2> QED
      BY <1>1, <2>1, <2>2
  <1>5. DialogTypeOK'
    BY <1>1, <1>2, <1>4 DEF DialogTypeOK
  <1>6. k \in Generating /\ Generating' = Generating \ {k}
    BY <1>1, <1>2 DEF Generating
  <1>7. doubles = 0 => k = submits /\ edt = "idle"
    BY <1>6 DEF DialogInvariant
  <1>8. doubles = 0 => Generating' = {}
    BY <1>6, <1>7 DEF DialogInvariant
  <1>9. \A i \in Sent(messages') : messages'[i].n <= submits /\ messages'[i].n \notin cleared
    BY <1>4 DEF DialogInvariant
  <1>a. \A j \in Prompt : phase'[j] # "none" => j <= submits
    BY <1>1, <1>2 DEF DialogInvariant
  <1>b. edt = "answer" =>
          /\ submits \in Prompt /\ phase'[submits] = "none" /\ submits \notin cleared
          /\ EndsWith(messages', submits)
          /\ doubles # 0
    <2>1. edt = "answer" => /\ submits \in Prompt /\ phase[submits] = "none"
                            /\ submits \notin cleared /\ EndsWith(messages, submits)
      BY DEF DialogInvariant
    <2> QED
      BY <1>1, <1>2, <1>4, <1>7, <2>1
  <1>c. ASSUME NEW j \in Generating'
        PROVE  /\ EndsWith(history[j], j)
               /\ j \notin cleared => \A i \in Sent(history[j]) : history[j][i].n \notin cleared
               /\ doubles # 0
    BY <1>6, <1>8 DEF DialogInvariant
  <1> HIDE DEF DialogInvariant
  <1>d. DialogInvariant'
    BY <1>1, <1>9, <1>a, <1>b, <1>c DEF DialogInvariant
  <1> QED
    BY <1>5, <1>d

\* The types and the invariant hold in every reachable state of a dialog.
THEOREM DialogCorrect == DialogSpec => [](DialogTypeOK /\ DialogInvariant)
  <1>1. DialogInit => DialogTypeOK /\ DialogInvariant
    <2> SUFFICES ASSUME DialogInit PROVE DialogTypeOK /\ DialogInvariant
      OBVIOUS
    <2>1. /\ <<>> \in Seq(DialogMessage) /\ 0 \in 0..MaxPrompts
          /\ NewChat \in [by : {"nobody", "user", "prompt"}, n : Nat]
      BY DialogAssumption DEF NewChat
    <2>2. Sent(messages) = {} /\ Generating = {}
      BY DEF DialogInit, Sent, Generating
    <2> QED
      BY <2>1, <2>2 DEF DialogInit, DialogTypeOK, DialogInvariant
  <1>2. DialogTypeOK /\ DialogInvariant /\ [DialogNext]_dialogVars
          => DialogTypeOK' /\ DialogInvariant'
    <2> SUFFICES ASSUME DialogTypeOK, DialogInvariant, [DialogNext]_dialogVars
                 PROVE  DialogTypeOK' /\ DialogInvariant'
      OBVIOUS
    <2>1. CASE UNCHANGED dialogVars
      BY <2>1 DEF dialogVars, stream, naming, DialogTypeOK, DialogInvariant, Generating
    <2>2. CASE DialogNext
      BY <2>2, QuietKeeps, AsideKeeps, SubmitKeeps, AddAiKeeps, ClearKeeps, MessageKeeps,
         FailureKeeps DEF DialogNext, User, Answer, Quiet
    <2> QED
      BY <2>1, <2>2
  <1> QED
    BY <1>1, <1>2, PTL DEF DialogSpec

\* STOP reaches the answer being generated, which was made from the prompt it answers
\* and from nothing the user had cleared (Dialog.cancel, Model.getAcceptedMessages), for
\* any prompts, answers, lengths and limits.
THEOREM AnswerOfThisPromptCorrect == DialogSpec => []AnswerOfThisPrompt
  <1>1. DialogInvariant => AnswerOfThisPrompt
    BY DEF DialogInvariant, AnswerOfThisPrompt
  <1> QED
    BY <1>1, DialogCorrect, PTL

===========================================================================
