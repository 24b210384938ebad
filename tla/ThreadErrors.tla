--------------------------- MODULE ThreadErrors ---------------------------
(***************************************************************************)
(* The errors of the threads of a debugged process, as marked in the       *)
(* editor (rw/stack/ThreadErrorManager.java, rw/stack/ThreadError.java and *)
(* rw/highlights/ErrorHighlighter.java; the events ThreadErrorEvent and    *)
(* ClearThreadError; RunConfHandler.activate and deactivate).              *)
(*                                                                         *)
(* ThreadError.active changes at once, on whatever thread calls; the       *)
(* editor follows on the event dispatch thread.  The manager's methods are *)
(* synchronized and are one step each.  An error is identified with its    *)
(* ErrorHighlighter; its block inlay is counted for one open editor.       *)
(***************************************************************************)
EXTENDS Edt

CONSTANTS
    ErrorHighlighter,   \* the highlighters of errors
    Thread,             \* threads of the debugged process
    MaxPauses           \* bound: suspensions of the debugged process

ASSUME ThreadErrorsAssumption ==
    /\ ErrorHighlighter \subseteq Highlighter
    /\ None \notin Thread /\ MaxPauses \in Nat

VARIABLES
    threadErrors,  \* ThreadErrorManager.threadErrors, None where there is none
    lastThreadId,  \* ThreadErrorManager.lastThreadId
    flag,          \* flag[h]: ThreadError.active
    inlays,        \* inlays[h]: block inlays of h that are in the editor
    suspended,     \* the thread the debugger is suspended in (getActiveThread)
    front,         \* RunConfHandler.active: the debugger tab is in front
    fresh,         \* highlighters that have not been created yet
    switches,      \* number of tab switches so far
    pauses,        \* number of suspensions so far
    overwritten,   \* (history) errors replaced by a newer one of their thread
    late,          \* (history) activated since the tab was deactivated
    since,         \* (history) activated since onThreadChanged did its work
    missed         \* (history) their line was not in the document

manager == <<threadErrors, lastThreadId>>
tab == <<front, switches>>
debugger == <<suspended, pauses>>
history == <<overwritten, late, since, missed>>
errorState == <<manager, flag, inlays, debugger, tab, fresh, history>>
vars == <<edt, errorState>>

Init ==
    /\ EdtInit
    /\ threadErrors = [t \in Thread |-> None]
    /\ lastThreadId = None
    /\ flag = [h \in ErrorHighlighter |-> FALSE]
    /\ inlays = [h \in ErrorHighlighter |-> 0]
    /\ suspended = None
    /\ front = TRUE
    /\ fresh = ErrorHighlighter
    /\ switches = 0 /\ pauses = 0
    /\ overwritten = {} /\ late = {} /\ since = {} /\ missed = {}

-----------------------------------------------------------------------------
(* ThreadError *)

\* The errors in the map, and those of threads other than t.
Errors == {threadErrors[t] : t \in Thread} \ {None}
ErrorsExcept(t) == {threadErrors[u] : u \in Thread \ {t}} \ {None}

\* ThreadError.activate, for each of hs
activate(hs) ==
    /\ invokeLater("show", hs)
    /\ flag' = [h \in ErrorHighlighter |-> flag[h] \/ h \in hs]
    /\ since' = since \cup hs

\* ThreadError.deactivate, for each of hs
deactivate(hs) ==
    /\ invokeLater("hide", hs)
    /\ flag' = [h \in ErrorHighlighter |-> flag[h] /\ h \notin hs]

-----------------------------------------------------------------------------
(* The session's reader thread *)

\* ThreadErrorManager.onThreadError: an error the thread already had is
\* replaced in the map, and stays as it is in the editor.
onThreadError(t, h) ==
    /\ h \in fresh
    /\ fresh' = fresh \ {h}
    /\ activate({h})
    /\ threadErrors' = [threadErrors EXCEPT ![t] = h]
    /\ overwritten' = overwritten \cup ({threadErrors[t]} \ {None})
    /\ late' = IF front THEN late ELSE late \cup {h}
    /\ UNCHANGED <<device, lastThreadId, inlays, debugger, tab, missed>>

\* onThreadErrorClear
onThreadErrorClear(t) ==
    /\ threadErrors[t] # None
    /\ deactivate({threadErrors[t]})
    /\ threadErrors' = [threadErrors EXCEPT ![t] = None]
    /\ UNCHANGED <<device, lastThreadId, inlays, debugger, tab, fresh, history>>

-----------------------------------------------------------------------------
(* The event dispatch thread *)

\* The error onThreadChanged activates: the one of the thread the debugger is
\* in, unless it is active.
ToActivate ==
    IF suspended = None THEN {}
    ELSE {h \in {threadErrors[suspended]} \ {None} : ~flag[h]}

\* stackFrameChanged, onThreadChanged: nothing if the debugger is still in the
\* thread it was in; otherwise the errors of other threads are deactivated and
\* the error of this one activated.
onThreadChanged ==
    /\ suspended = None \/ lastThreadId # suspended
    /\ lastThreadId' = suspended
    /\ queue' = post(post(queue, "hide", ErrorsExcept(suspended)), "show", ToActivate)
    /\ flag' = [h \in ErrorHighlighter |->
                   h \in ToActivate \/ (flag[h] /\ h \notin ErrorsExcept(suspended))]
    /\ late' = IF front THEN late ELSE late \cup ToActivate
    /\ since' = {}
    /\ UNCHANGED <<device, threadErrors, inlays, debugger, tab, fresh, overwritten, missed>>

\* RunConfHandler.activate: the error of the active thread is activated,
\* whether or not it is active already.
Activate ==
    /\ switches < MaxSwitches
    /\ switches' = switches + 1
    /\ front' = TRUE
    /\ activate(IF suspended = None THEN {} ELSE {threadErrors[suspended]} \ {None})
    /\ UNCHANGED <<device, manager, inlays, debugger, fresh, overwritten, late, missed>>

\* RunConfHandler.deactivate: another tab is selected or the process exited
\* (then on the thread that reports it).
Deactivate ==
    /\ switches < MaxSwitches
    /\ switches' = switches + 1
    /\ front' = FALSE
    /\ deactivate(Errors)
    /\ late' = {}
    /\ UNCHANGED <<device, manager, inlays, debugger, fresh, overwritten, since, missed>>

-----------------------------------------------------------------------------
(* The runnables: ErrorHighlighter.show and hide *)

\* show adds an inlay even when the line is highlighted already.
RunShow ==
    /\ Show
    /\ inlays' = [h \in ErrorHighlighter |->
                     IF h \in Head(queue).on THEN inlays[h] + 1 ELSE inlays[h]]
    /\ UNCHANGED missed

\* The line is not in the document any more: getLineStartOffset throws.
RunShowNoLine ==
    /\ ShowNoLine
    /\ missed' = missed \cup Head(queue).on
    /\ UNCHANGED inlays

\* Mutant: hide forgets the inlays of a highlighted line.
RunHideKeepsInlays ==
    /\ Hide
    /\ inlays' = [h \in ErrorHighlighter |->
                     IF h \in Head(queue).on /\ ~device[h] THEN 0 ELSE inlays[h]]
    /\ UNCHANGED missed

\* hide disposes of all inlays.
RunHide ==
    /\ Hide
    /\ inlays' = [h \in ErrorHighlighter |->
                     IF h \in Head(queue).on THEN 0 ELSE inlays[h]]
    /\ UNCHANGED missed

RunEdt ==
    /\ RunShow \/ RunShowNoLine \/ RunHide
    /\ UNCHANGED <<manager, flag, debugger, tab, fresh, overwritten, late, since>>

-----------------------------------------------------------------------------
(* The debugger (external) *)

Suspend(t) ==
    /\ pauses < MaxPauses
    /\ suspended' = t /\ pauses' = pauses + 1
    /\ UNCHANGED <<edt, manager, flag, inlays, tab, fresh, history>>

Resume ==
    /\ suspended # None
    /\ suspended' = None
    /\ UNCHANGED <<edt, manager, flag, inlays, pauses, tab, fresh, history>>

-----------------------------------------------------------------------------
Next ==
    \/ \E t \in Thread : (\E h \in fresh : onThreadError(t, h)) \/ onThreadErrorClear(t)
    \/ onThreadChanged
    \/ Activate \/ Deactivate
    \/ RunEdt
    \/ Resume \/ \E t \in Thread : Suspend(t)

Spec == Init /\ [][Next]_vars

-----------------------------------------------------------------------------
(* Properties *)

Used == ErrorHighlighter \ fresh

\* The types of the state, and that only errors that exist are in the map, in
\* the editor or on their way to it.
TypeOK ==
    /\ EdtType
    /\ threadErrors \in [Thread -> Used \cup {None}]
    /\ lastThreadId \in Thread \cup {None} /\ suspended \in Thread \cup {None}
    /\ flag \in [ErrorHighlighter -> BOOLEAN]
    /\ inlays \in [ErrorHighlighter -> Nat]
    /\ front \in BOOLEAN
    /\ fresh \subseteq ErrorHighlighter
    /\ switches \in Nat /\ pauses \in Nat
    /\ overwritten \subseteq Used /\ late \subseteq Used
    /\ since \subseteq Used /\ missed \subseteq Used
    /\ \A h \in fresh : ~device[h] /\ ~flag[h]
    /\ \A i \in DOMAIN queue : queue[i].on \subseteq Used

Displayed(h) == device[h] \/ inlays[h] > 0

\* The editor follows ThreadError.active although the two change on different
\* threads: once the event dispatch thread is idle, exactly the active errors
\* are displayed, except for those whose line was gone when it was their turn.
DisplayFollowsFlag ==
    Idle => \A h \in ErrorHighlighter :
        /\ Displayed(h) => flag[h]
        /\ flag[h] => device[h] \/ h \in missed

\* An error the process has cleared does not stay in the editor, however the
\* clearing interleaves with thread and tab switches.  The exception is an
\* error that a second one of its thread had replaced in the map before:
\* onThreadError does not deactivate it, and nothing else can reach it.
ClearedErrorsVanish ==
    Idle => \A h \in ErrorHighlighter : Displayed(h) => h \in Errors \cup overwritten

\* A tab that is not in front displays no errors, except those activated after
\* it was deactivated (neither onThreadError nor onThreadChanged asks) and
\* replaced ones.
HiddenTabShowsNoError ==
    Idle /\ ~front => \A h \in ErrorHighlighter : Displayed(h) => h \in late \cup overwritten

\* Errors switch with the thread: after onThreadChanged did its work for a
\* thread, only the error of that thread is displayed, until another one
\* arrives or the tab is activated; replaced errors excepted.
ErrorsSwitch ==
    Idle /\ lastThreadId # None => \A h \in ErrorHighlighter :
        Displayed(h) /\ h \in Errors =>
            h = threadErrors[lastThreadId] \/ h \in since

\* What the editor shows of the errors (ThreadErrorManager, ErrorHighlighter):
\* it follows the flags, forgets what was cleared, hides with the tab and
\* switches with the thread.
ErrorsShown ==
    DisplayFollowsFlag /\ ClearedErrorsVanish /\ HiddenTabShowsNoError /\ ErrorsSwitch

\* Why they hold.
FollowInvariant ==
    \A h \in ErrorHighlighter :
        /\ WillShow(h) => flag[h]
        /\ flag[h] => WillShow(h) \/ h \in missed
        /\ inlays[h] > 0 => device[h]

MapInvariant ==
    /\ \A t, u \in Thread : threadErrors[t] = threadErrors[u] => t = u \/ threadErrors[t] = None
    /\ \A h \in ErrorHighlighter : flag[h] =>
        /\ h \in Errors \cup overwritten
        /\ front \/ h \in late \cup overwritten
        /\ h \in Errors /\ lastThreadId # None =>
               h = threadErrors[lastThreadId] \/ h \in since

===========================================================================
