----------------------------- MODULE ChatStore ----------------------------
(***************************************************************************)
(* A chat file and the editors that show it: the dialogs each editor keeps *)
(* (rw/ai/dialog/DialogManager.java), the side panel with a button for     *)
(* each (rw/ai/chat/Chat.java, ChatComponent.java, SidePanel.java), saving *)
(* and loading.                                                            *)
(*                                                                         *)
(* Every editor of the file has a manager of its own, which reads the file *)
(* once, when the editor is opened, and later overwrites it.  A save is    *)
(* only posted; it runs on the event dispatch thread, where it truncates   *)
(* the file and writes all the dialogs.  Answers arrive on other threads   *)
(* meanwhile, also for an editor that was closed: nothing cancels them.    *)
(* Of a dialog only its size matters: a prompt with its empty answer adds  *)
(* one, and so does a chunk of an answer.                                  *)
(***************************************************************************)
EXTENDS Integers, Sequences, FiniteSets

CONSTANTS
    Editor,         \* the Chat objects
    MaxId,          \* bound: ids of dialogs
    MaxSize,        \* bound: size of a dialog
    MaxQueue        \* bound: saves posted and not run

ASSUME ChatStoreAssumption == {MaxId, MaxSize, MaxQueue} \subseteq Nat

Id == 0..MaxId

VARIABLES
    file,       \* the chat file
    opened,     \* the editors that are open
    dialogs,    \* DialogManager.dialogs of each editor
    active,     \* DialogManager.activeDialog
    idCounter,  \* DialogManager.idCounter
    buttons,    \* SidePanel.dialogButtons
    view,       \* the dialog in ChatComponent.mainPanel
    answer,     \* the answer each dialog waits for
    queue,      \* saves posted with invokeLater: the editors they are for
    writing,    \* the file is truncated and this content is being written
    mixed,      \* (history) an editor was opened while another could still save
    broken,     \* (history) a write was cut short
    safe        \* (history) the largest size each dialog was saved with since
                \* the user last deleted it

memory == <<dialogs, active, idCounter>>
panel == <<buttons, view>>
disk == <<file, writing, broken, safe>>
vars == <<disk, opened, memory, panel, answer, queue, mixed>>

\* Dialogs by their ids, like a HashMap: the sizes of the ids in use.
DialogMap == UNION {[ids -> 0..MaxSize] : ids \in SUBSET Id}
OneDialog(d) == [i \in {d} |-> 0]
NoDialogs == [i \in {} |-> 0]
Without(ds, d) == [i \in DOMAIN ds \ {d} |-> ds[i]]
With(ds, d, n) == [i \in DOMAIN ds \cup {d} |-> IF i = d THEN n ELSE ds[i]]

\* DialogManager.FileContent
FileContent(a, ds) == [kind |-> "chat", active |-> a, dialogs |-> ds]

\* A file that load makes nothing of: blank, cut short or of another version.
NoContent == [kind |-> "unusable", active |-> 0, dialogs |-> NoDialogs]
Idle == [kind |-> "idle", active |-> 0, dialogs |-> NoDialogs]

Init ==
    /\ file = NoContent /\ writing = Idle
    /\ mixed = FALSE /\ broken = FALSE
    /\ safe = [i \in Id |-> 0]
    /\ opened = {}
    /\ dialogs = [e \in Editor |-> OneDialog(0)]
    /\ active = [e \in Editor |-> 0] /\ idCounter = [e \in Editor |-> 0]
    /\ buttons = [e \in Editor |-> {0}] /\ view = [e \in Editor |-> 0]
    /\ answer = [e \in Editor |-> [i \in Id |-> "none"]]
    /\ queue = <<>>

\* The event dispatch thread is in no save, and there is room for n more.
EdtIdle(n) == writing.kind = "idle" /\ Len(queue) + n <= MaxQueue

\* DialogManager.save
save(e) == queue' = Append(queue, e)

\* An editor that still has something to save, open or not
MaySave(e) ==
    \/ e \in opened
    \/ \E i \in DOMAIN queue : queue[i] = e
    \/ \E i \in Id : answer[e][i] # "none"

-----------------------------------------------------------------------------
(* Opening and closing *)

\* Mutant: the counter starts anew in every editor.
LoadContentCounterKept(e) ==
    /\ file.kind = "chat"
    /\ dialogs' = [dialogs EXCEPT ![e] = file.dialogs]
    /\ idCounter' = [idCounter EXCEPT ![e] = 0]
    /\ active' = [active EXCEPT ![e] = file.active]
    /\ buttons' = [buttons EXCEPT ![e] = DOMAIN file.dialogs]
    /\ view' = [view EXCEPT ![e] = file.active]
    /\ UNCHANGED queue

\* DialogManager.load and the half of Chat.load that shows what it has read
LoadContent(e) ==
    /\ file.kind = "chat"
    /\ dialogs' = [dialogs EXCEPT ![e] = file.dialogs]
    /\ \E n \in DOMAIN file.dialogs :
          /\ \A i \in DOMAIN file.dialogs : i <= n
          /\ idCounter' = [idCounter EXCEPT ![e] = n]
    /\ active' = [active EXCEPT ![e] = file.active]
    /\ buttons' = [buttons EXCEPT ![e] = DOMAIN file.dialogs]
    /\ view' = [view EXCEPT ![e] = file.active]
    /\ UNCHANGED queue

\* The other half: a chat with one new dialog, which is saved.
LoadNothing(e) ==
    /\ file.kind # "chat"
    /\ dialogs' = [dialogs EXCEPT ![e] = OneDialog(0)]
    /\ idCounter' = [idCounter EXCEPT ![e] = 0]
    /\ active' = [active EXCEPT ![e] = 0]
    /\ buttons' = [buttons EXCEPT ![e] = {0}]
    /\ view' = [view EXCEPT ![e] = 0]
    /\ save(e)

\* ChatProvider.createEditor; a Chat nothing refers to any more is a new one.
Open(e) ==
    /\ EdtIdle(1) /\ ~MaySave(e)
    /\ LoadContent(e) \/ LoadNothing(e)
    /\ opened' = opened \cup {e}
    /\ mixed' = (mixed \/ \E x \in Editor : MaySave(x))
    /\ UNCHANGED <<disk, answer>>

\* Chat.dispose: answers under way go on, and so do posted saves.
Close(e) ==
    /\ EdtIdle(0) /\ e \in opened
    /\ opened' = opened \ {e}
    /\ UNCHANGED <<disk, memory, panel, answer, queue, mixed>>

-----------------------------------------------------------------------------
(* The user *)

\* Chat.newDialog: nothing as long as the active dialog is empty.
newDialog(e) ==
    /\ EdtIdle(1) /\ e \in opened
    /\ dialogs[e][active[e]] # 0
    /\ idCounter[e] < MaxId
    /\ idCounter' = [idCounter EXCEPT ![e] = @ + 1]
    /\ dialogs' = [dialogs EXCEPT ![e] = With(@, idCounter[e] + 1, 0)]
    /\ active' = [active EXCEPT ![e] = idCounter[e] + 1]
    /\ buttons' = [buttons EXCEPT ![e] = @ \cup {idCounter[e] + 1}]
    /\ view' = [view EXCEPT ![e] = idCounter[e] + 1]
    /\ save(e)
    /\ UNCHANGED <<disk, opened, answer, mixed>>

\* Dialog.addUserMessage and addAiMessage: two messages, each saved.
Submit(e) ==
    LET d == active[e] IN
    /\ EdtIdle(2) /\ e \in opened
    /\ answer[e][d] = "none"
    /\ dialogs[e][d] < MaxSize
    /\ dialogs' = [dialogs EXCEPT ![e][d] = @ + 1]
    /\ answer' = [answer EXCEPT ![e][d] = "attached"]
    /\ queue' = queue \o <<e, e>>
    /\ UNCHANGED <<disk, opened, active, idCounter, panel, mixed>>

\* Chat.onRenameDialog; names are left out.
onRenameDialog(e, d) ==
    /\ EdtIdle(1) /\ e \in opened /\ d \in buttons[e]
    /\ save(e)
    /\ UNCHANGED <<disk, opened, memory, panel, answer, mixed>>

\* What the user deletes need not be kept.
Forget(d) == safe' = [safe EXCEPT ![d] = 0]

\* Chat.onDeleteDialog for the only dialog: Dialog.clear gives it a new model,
\* which the answer under way does not write to.
clear(e, d) ==
    /\ EdtIdle(1) /\ e \in opened /\ d \in buttons[e]
    /\ DOMAIN dialogs[e] = {d}
    /\ dialogs' = [dialogs EXCEPT ![e] = OneDialog(d)]
    /\ answer' = [answer EXCEPT ![e][d] = IF @ = "none" THEN "none" ELSE "detached"]
    /\ Forget(d)
    /\ save(e)
    /\ UNCHANGED <<file, writing, broken, opened, active, idCounter, panel, mixed>>

\* Chat.onDeleteDialog otherwise: whichever dialog the map lists last is active
\* then.
deleteDialog(e, d) ==
    /\ EdtIdle(1) /\ e \in opened /\ d \in buttons[e]
    /\ DOMAIN dialogs[e] # {d}
    /\ buttons' = [buttons EXCEPT ![e] = @ \ {d}]
    /\ dialogs' = [dialogs EXCEPT ![e] = Without(@, d)]
    /\ \E a \in DOMAIN dialogs[e] \ {d} :
          /\ active' = [active EXCEPT ![e] = a]
          /\ view' = [view EXCEPT ![e] = a]
    /\ Forget(d)
    /\ save(e)
    /\ UNCHANGED <<file, writing, broken, opened, idCounter, answer, mixed>>

\* Chat.onDialogPressed
onDialogPressed(e, d) ==
    /\ EdtIdle(1) /\ e \in opened /\ d \in buttons[e]
    /\ view' = [view EXCEPT ![e] = d]
    /\ active' = [active EXCEPT ![e] = d]
    /\ save(e)
    /\ UNCHANGED <<disk, opened, dialogs, idCounter, buttons, answer, mixed>>

-----------------------------------------------------------------------------
(* The threads of the HTTP client *)

\* A chunk of an answer is added to its message; nothing is saved.
Chunk(e, d) ==
    /\ answer[e][d] = "attached" /\ d \in DOMAIN dialogs[e]
    /\ dialogs[e][d] < MaxSize
    /\ dialogs' = [dialogs EXCEPT ![e][d] = @ + 1]
    /\ UNCHANGED <<disk, opened, active, idCounter, panel, answer, queue, mixed>>

\* The answer is complete, or has failed: aiMessageListener.onComplete.
Complete(e, d) ==
    /\ answer[e][d] # "none" /\ Len(queue) < MaxQueue
    /\ answer' = [answer EXCEPT ![e][d] = "none"]
    /\ save(e)
    /\ UNCHANGED <<disk, opened, memory, panel, mixed>>

-----------------------------------------------------------------------------
(* DialogManager.doSave on the event dispatch thread *)

\* The dialogs are serialised and the file is opened, which truncates it.
doSave ==
    /\ writing.kind = "idle" /\ queue # <<>>
    /\ queue' = Tail(queue)
    /\ writing' = FileContent(active[Head(queue)], dialogs[Head(queue)])
    /\ file' = NoContent
    /\ UNCHANGED <<broken, safe, opened, memory, panel, answer, mixed>>

\* A dialog changes while it is serialised: the save ends before the file is
\* touched.
doSaveFails ==
    /\ writing.kind = "idle" /\ queue # <<>>
    /\ \E d \in Id : answer[Head(queue)][d] # "none"
    /\ queue' = Tail(queue)
    /\ UNCHANGED <<disk, opened, memory, panel, answer, mixed>>

\* FileUtils.writeStringToFile returns.
Written ==
    /\ writing.kind = "chat"
    /\ file' = writing /\ writing' = Idle
    /\ safe' = [i \in Id |-> IF i \in DOMAIN writing.dialogs /\ writing.dialogs[i] > safe[i]
                             THEN writing.dialogs[i] ELSE safe[i]]
    /\ UNCHANGED <<broken, opened, memory, panel, answer, queue, mixed>>

\* It throws, or the IDE dies, and the file holds a part of the text.
WriteFails ==
    /\ writing.kind = "chat"
    /\ writing' = Idle /\ broken' = TRUE
    /\ UNCHANGED <<file, safe, opened, memory, panel, answer, queue, mixed>>

\* The IDE ends: posted saves are not run.
Crash ==
    /\ opened' = {} /\ queue' = <<>>
    /\ answer' = [e \in Editor |-> [i \in Id |-> "none"]]
    /\ writing' = Idle
    /\ broken' = (broken \/ writing.kind = "chat")
    /\ UNCHANGED <<file, safe, memory, panel, mixed>>

-----------------------------------------------------------------------------
Next ==
    \/ \E e \in Editor : Open(e) \/ Close(e) \/ newDialog(e) \/ Submit(e)
    \/ \E e \in Editor, d \in Id :
          \/ onRenameDialog(e, d) \/ clear(e, d) \/ deleteDialog(e, d) \/ onDialogPressed(e, d)
          \/ Chunk(e, d) \/ Complete(e, d)
    \/ doSave \/ doSaveFails \/ Written \/ WriteFails \/ Crash

Spec == Init /\ [][Next]_vars

-----------------------------------------------------------------------------
(* Properties *)

DiskType ==
    /\ file \in [kind : {"chat", "unusable"}, active : Id, dialogs : DialogMap]
    /\ writing \in [kind : {"chat", "idle"}, active : Id, dialogs : DialogMap]
    /\ broken \in BOOLEAN
    /\ safe \in [Id -> 0..MaxSize]

ManagerType ==
    /\ dialogs \in [Editor -> DialogMap]
    /\ active \in [Editor -> Id]
    /\ idCounter \in [Editor -> Id]

PanelType == buttons \in [Editor -> SUBSET Id] /\ view \in [Editor -> Id]

EditorType ==
    /\ opened \in SUBSET Editor
    /\ answer \in [Editor -> [Id -> {"none", "attached", "detached"}]]
    /\ queue \in Seq(Editor)
    /\ mixed \in BOOLEAN

\* The types of the state: saves are of editors, ids and sizes are in range, and
\* what is kept, written and read are maps of dialogs.
TypeOK == DiskType /\ ManagerType /\ PanelType /\ EditorType

\* load never meets an active dialog that the file does not hold: it would
\* throw after filling the map of dialogs, and the chat would go on with a new
\* dialog and without buttons for the others.
Loadable(content) == content.kind = "chat" => content.active \in DOMAIN content.dialogs
LoadableFile == Loadable(file)

\* newDialog never takes the id of a dialog the editor has, whatever was
\* deleted before and wherever the ids of the file came from.
FreshIds == \A e \in Editor, d \in Id : d \in DOMAIN dialogs[e] => d <= idCounter[e]

\* The side panel and the manager agree, although each is told separately: a
\* button for every dialog, and the active one is shown.
PanelFollowsManager ==
    \A e \in Editor :
        /\ buttons[e] = DOMAIN dialogs[e]
        /\ active[e] \in DOMAIN dialogs[e]
        /\ view[e] = active[e]

\* What makes these hold together: a content being written will be the file.
StoreInvariant ==
    /\ LoadableFile /\ Loadable(writing)
    /\ FreshIds /\ PanelFollowsManager

\* What the user has said and not deleted stays in the file, over deleting,
\* switching, closing and opening again and over crashes, unless a write was
\* cut short, or an editor was opened while another one, perhaps a closed one
\* with an answer under way, could still overwrite the file.
ConversationsKept ==
    ~mixed /\ ~broken /\ writing.kind = "idle" =>
        \A d \in Id : safe[d] > 0 =>
            /\ file.kind = "chat" /\ d \in DOMAIN file.dialogs
            /\ file.dialogs[d] >= safe[d]

\* Its inductive form: at most one editor may still save, and it has everything that
\* is to be kept, also what is being written at the moment.
Keeps(ds) == \A d \in Id : safe[d] > 0 => d \in DOMAIN ds /\ ds[d] >= safe[d]

Covers(ds, content) == \A d \in DOMAIN content : d \in DOMAIN ds /\ ds[d] >= content[d]

KeptInvariant ==
    ~mixed /\ ~broken =>
        /\ \A x, y \in Editor : MaySave(x) /\ MaySave(y) => x = y
        /\ \A e \in Editor : MaySave(e) =>
              /\ Keeps(dialogs[e])
              /\ writing.kind = "chat" => Covers(dialogs[e], writing.dialogs)
        /\ writing.kind = "chat" => Keeps(writing.dialogs)
        /\ writing.kind = "idle" =>
              Keeps(file.dialogs) /\ \A d \in Id : safe[d] > 0 => file.kind = "chat"

\* What a chat file and the editors that show it keep (DialogManager, Chat).
StoreKept == LoadableFile /\ FreshIds /\ PanelFollowsManager /\ ConversationsKept

===========================================================================
