--------------------------- MODULE FrameProgress ---------------------------
(***************************************************************************)
(* The indicator of the line a frame is executing                          *)
(* (rw/profile/FrameProgressRenderer.java, driven by                       *)
(* rw/session/events/LineProfile.java and by RunConfHandler.activate and   *)
(* deactivate).                                                            *)
(*                                                                         *)
(* The session's reader thread replaces the highlighter on every           *)
(* LineProfile event; tab switches and the end of the process read the     *)
(* same field on other threads, without a lock.                            *)
(***************************************************************************)
EXTENDS Edt

CONSTANT LineHighlighter    \* the highlighters of this indicator

ASSUME LineAssumption == LineHighlighter \subseteq Highlighter

VARIABLES
    highlighter,   \* FrameProgressRenderer.highlighter
    lineFresh,     \* highlighters that have not been created yet
    reader,        \* where the reader thread is in renderFrameProgress
    lineActive,    \* RunConfHandler.active: the tab is in front
    lineSwitches,  \* number of tab switches so far
    stopped,       \* (history) the latest event said the frame had stopped
    reshown,       \* (history) activate showed it while it was being replaced
    lineLate       \* (history) told to show since the tab was deactivated

lineHistory == <<stopped, reshown, lineLate>>
lineState == <<highlighter, lineFresh, reader, lineActive, lineSwitches, lineHistory>>
lineVars == <<edt, lineState>>

LineInit ==
    /\ EdtInit
    /\ highlighter = None
    /\ lineFresh = LineHighlighter
    /\ reader = "idle"
    /\ lineActive = TRUE
    /\ lineSwitches = 0
    /\ stopped = FALSE
    /\ reshown = {} /\ lineLate = {}

-----------------------------------------------------------------------------
(* The reader thread: LineProfile.handle *)

\* renderFrameProgress: the old highlighter, if any, is told to hide.
HideOld == invokeLater("hide", {highlighter} \ {None})

\* An event that says the frame has stopped: the field keeps its highlighter.
LineStop ==
    /\ reader = "idle"
    /\ HideOld
    /\ stopped' = TRUE
    /\ UNCHANGED <<device, highlighter, lineFresh, reader, lineActive, lineSwitches,
                   reshown, lineLate>>

\* Mutant: the old highlighter is hidden only when the frame stops.
LineBeginKeepsOld ==
    /\ reader = "idle" /\ lineFresh # {}
    /\ reader' = "hidden"
    /\ stopped' = FALSE
    /\ UNCHANGED <<edt, highlighter, lineFresh, lineActive, lineSwitches, reshown,
                   lineLate>>

\* An event that says where the frame is, up to the construction of the new
\* highlighter.
LineBegin ==
    /\ reader = "idle" /\ lineFresh # {}
    /\ HideOld
    /\ reader' = "hidden"
    /\ stopped' = FALSE
    /\ UNCHANGED <<device, highlighter, lineFresh, lineActive, lineSwitches,
                   reshown, lineLate>>

\* The field is assigned ...
LineCreate(h) ==
    /\ reader = "hidden" /\ h \in lineFresh
    /\ highlighter' = h
    /\ lineFresh' = lineFresh \ {h}
    /\ reader' = "created"
    /\ UNCHANGED <<edt, lineActive, lineSwitches, lineHistory>>

\* ... and the new highlighter is told to show.
LineShow ==
    /\ reader = "created"
    /\ invokeLater("show", {highlighter})
    /\ reader' = "idle"
    /\ lineLate' = IF lineActive THEN lineLate ELSE lineLate \cup {highlighter}
    /\ UNCHANGED <<device, highlighter, lineFresh, lineActive, lineSwitches,
                   stopped, reshown>>

-----------------------------------------------------------------------------
(* Other threads *)

\* RunConfHandler.activate: the tab comes to the front.
ActivateLine ==
    /\ lineSwitches < MaxSwitches
    /\ lineSwitches' = lineSwitches + 1
    /\ lineActive' = TRUE
    /\ invokeLater("show", {highlighter} \ {None})
    /\ reshown' = IF reader = "hidden" THEN reshown \cup ({highlighter} \ {None}) ELSE reshown
    /\ UNCHANGED <<device, highlighter, lineFresh, reader, stopped, lineLate>>

\* RunConfHandler.deactivate: another tab comes to the front, or the process
\* has exited.
DeactivateLine ==
    /\ lineSwitches < MaxSwitches
    /\ lineSwitches' = lineSwitches + 1
    /\ lineActive' = FALSE
    /\ HideOld
    /\ lineLate' = {}
    /\ UNCHANGED <<device, highlighter, lineFresh, reader, stopped, reshown>>

LineRun == (Show \/ ShowNoLine \/ Hide) /\ UNCHANGED lineState

LineNext ==
    \/ LineStop \/ LineBegin \/ (\E h \in lineFresh : LineCreate(h)) \/ LineShow
    \/ ActivateLine \/ DeactivateLine
    \/ LineRun

LineSpec == LineInit /\ [][LineNext]_lineVars

-----------------------------------------------------------------------------
(* Properties *)

LineUsed == LineHighlighter \ lineFresh

\* The types of the state, and that only highlighters that exist are drawn,
\* waiting for the event dispatch thread or kept in the field.
LineTypeOK ==
    /\ EdtType
    /\ highlighter \in LineUsed \cup {None}
    /\ lineFresh \subseteq LineHighlighter
    /\ reader \in {"idle", "hidden", "created"}
    /\ reader = "created" => highlighter # None
    /\ lineActive \in BOOLEAN /\ stopped \in BOOLEAN
    /\ lineSwitches \in Nat
    /\ reshown \subseteq LineUsed /\ lineLate \subseteq LineUsed
    /\ \A h \in lineFresh : ~device[h]
    /\ \A i \in DOMAIN queue : queue[i].on \subseteq LineUsed

\* Line indicators do not pile up: once the reader and the event dispatch
\* thread are idle, the only line that can be marked is the one of the latest
\* event.  The exception is a race in the code: a tab that comes to the front
\* after the old highlighter was told to hide and before the field is replaced
\* shows the old one again, and no later event hides it.
OneLineShown ==
    Idle /\ reader = "idle" =>
        \A h \in LineHighlighter : device[h] => h = highlighter \/ h \in reshown

\* A tab that is not in front marks no line, except for events that were
\* handled after it was deactivated (LineProfile.handle does not ask whether
\* the handler is active) and for the race above.
HiddenTabShowsNoLine ==
    Idle /\ ~lineActive => \A h \in LineHighlighter : device[h] => h \in lineLate \cup reshown

\* What the editor shows of the line being executed (FrameProgressRenderer).
LineShown == OneLineShown /\ HiddenTabShowsNoLine

\* Why the two hold: what will be shown when the queue has run.
WillShowInvariant ==
    \A h \in LineHighlighter : WillShow(h) =>
        /\ h \in reshown \/ (h = highlighter /\ reader # "hidden")
        /\ h \in reshown \/ lineActive \/ h \in lineLate
===========================================================================
