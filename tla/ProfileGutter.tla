--------------------------- MODULE ProfileGutter ---------------------------
(***************************************************************************)
(* The coloured gutter that shows the active profiler's values of a file   *)
(* (rw/profile/ProfilePreviewRenderer.java, with FileValuesRenderer;       *)
(* LineProfiler.update, activate and deactivate; NoneProfiler), redrawn by *)
(* LineProfile.handle on the session's reader thread and by RunConfHandler *)
(* .activate, deactivate and onQuickConfigChange on the event dispatch     *)
(* thread.                                                                 *)
(*                                                                         *)
(* Every redraw replaces the FileValuesRenderer of the file by a new one,  *)
(* the Highlighter of module Edt.  Nothing is locked while a profiler's    *)
(* list of renderers is replaced.  Of the values only the lines that have  *)
(* one matter here.                                                        *)
(***************************************************************************)
EXTENDS Edt, FiniteSets

CONSTANTS
    Renderer,      \* the FileValuesRenderers that may be created
    Line,          \* lines of the file
    LineSets,      \* the sets of lines a LineProfile event brings values for
    MaxEvents      \* bound: LineProfile and LineProfileClear events

ASSUME GutterAssumption ==
    /\ Renderer \subseteq Highlighter
    /\ LineSets \subseteq SUBSET Line
    /\ MaxEvents \in Nat

Profiler == {"time", "memory", "none"}
Drawer == {"reader", "edt"}

VARIABLES
    lines,            \* lines[p]: keys of the map CumulateType.DEFAULT
    known,            \* the file is a key of LineProfiler.values
    renderers,        \* renderers[p]: ProfilePreviewRenderer.fileValuesRenderers
    gutterFresh,      \* renderers that have not been created yet
    activeProfiler,   \* RunConfHandler.activeProfiler
    active,           \* RunConfHandler.active
    pc,               \* where each thread is in a redraw
    on,               \* the profiler it redraws
    own,              \* the renderer it has created
    activating,       \* the event dispatch thread is in RunConfHandler.activate
    gutterEvents, gutterSwitches, \* counters
    moved,            \* the lines changed while the event dispatch thread was
                      \* iterating over them
    overlaps,         \* (history) redraws begun while the other thread was in one
    gutterFront,      \* (history) the tab was brought to the front and not left
    lost,             \* (history) a gutter was not drawn: its lines were gone or
                      \* the iteration failed
    gutterLate        \* (history) a redraw began, or was under way, since the
                      \* tab was deactivated

work == <<pc, on, own, activating>>
gutterHistory == <<overlaps, gutterFront, lost, gutterLate>>
gutterState == <<lines, known, renderers, gutterFresh, activeProfiler, active, work,
                 gutterEvents, gutterSwitches, moved, gutterHistory>>
gutterVars == <<edt, gutterState>>

GutterInit ==
    /\ EdtInit
    /\ lines = [p \in Profiler |-> {}] /\ known = FALSE
    /\ renderers = [p \in Profiler |-> {}]
    /\ gutterFresh = Renderer
    /\ activeProfiler \in Profiler
    /\ active = TRUE
    /\ pc = [t \in Drawer |-> "idle"]
    /\ on = [t \in Drawer |-> "none"]
    /\ own = [t \in Drawer |-> None]
    /\ activating = FALSE
    /\ gutterEvents = 0 /\ gutterSwitches = 0
    /\ moved = FALSE
    /\ overlaps = 0 /\ gutterFront = TRUE /\ lost = FALSE /\ gutterLate = FALSE

-----------------------------------------------------------------------------
(* ProfilePreviewRenderer.activate and update, on either thread *)

Other(t) == CHOOSE u \in Drawer : u # t
InRedraw(t) == pc[t] \notin {"idle", "update"}

NoteOverlap(t) == overlaps' = IF InRedraw(Other(t)) THEN overlaps + 1 ELSE overlaps

\* ProfilePreviewRenderer.deactivate
deactivateRenderers(p) == invokeLater("hide", renderers[p])

\* deactivate, which update calls twice in a row
Begin(t, p) ==
    /\ deactivateRenderers(p)
    /\ on' = [on EXCEPT ![t] = p]
    /\ pc' = [pc EXCEPT ![t] = "clear"]
    /\ NoteOverlap(t)
    /\ gutterLate' = TRUE

\* fileValuesRenderers.clear()
Clear(t) ==
    /\ pc[t] = "clear"
    /\ renderers' = [renderers EXCEPT ![on[t]] = {}]
    /\ pc' = [pc EXCEPT ![t] = "add"]
    /\ UNCHANGED <<edt, lines, known, gutterFresh, activeProfiler, active, on, own,
                   activating, gutterEvents, gutterSwitches, moved, gutterHistory>>

\* The thread leaves its redraw; only at the end of RunConfHandler.activate is
\* the tab marked active.
Leave(t) ==
    /\ pc' = [pc EXCEPT ![t] = "idle"]
    /\ own' = [own EXCEPT ![t] = None]
    /\ IF t = "edt" THEN active' = (active \/ activating) /\ activating' = FALSE
       ELSE UNCHANGED <<active, activating>>

\* No profile of a file yet.
AddNone(t) ==
    /\ pc[t] = "add" /\ (~known \/ on[t] = "none")
    /\ Leave(t)
    /\ UNCHANGED <<edt, lines, known, renderers, gutterFresh, activeProfiler, on,
                   gutterEvents, gutterSwitches, moved, gutterHistory>>

\* A renderer for the file, in the list before it is drawn.  Its activate
\* returns at once when the file has no values.
Add(t, r) ==
    /\ pc[t] = "add" /\ known /\ on[t] # "none"
    /\ gutterFresh' = gutterFresh \ {r}
    /\ renderers' = [renderers EXCEPT ![on[t]] = @ \cup {r}]
    /\ IF lines[on[t]] = {} THEN Leave(t)
       ELSE /\ pc' = [pc EXCEPT ![t] = "measure"]
            /\ own' = [own EXCEPT ![t] = r]
            /\ UNCHANGED <<active, activating>>
    /\ moved' = IF t = "edt" THEN FALSE ELSE moved
    /\ UNCHANGED <<edt, lines, known, activeProfiler, on, gutterEvents,
                   gutterSwitches, gutterHistory>>

\* The first and the last line are found, and the runnable that draws the
\* gutter is posted.
Draw(t) ==
    /\ pc[t] = "measure"
    /\ lines[on[t]] # {}
    /\ invokeLater("show", {own[t]})
    /\ Leave(t)
    /\ UNCHANGED <<device, lines, known, renderers, gutterFresh, activeProfiler, on,
                   gutterEvents, gutterSwitches, moved, gutterHistory>>

\* Collections.min and max iterate over the live map: when the reader changes
\* it they may throw ConcurrentModificationException, or NoSuchElementException
\* when it is empty now.  The exception leaves RunConfHandler.activate too.
DrawAborts ==
    /\ pc["edt"] = "measure" /\ moved
    /\ pc' = [pc EXCEPT !["edt"] = "idle"]
    /\ own' = [own EXCEPT !["edt"] = None]
    /\ activating' = FALSE
    /\ lost' = TRUE
    /\ UNCHANGED <<edt, lines, known, renderers, gutterFresh, activeProfiler,
                   active, on, gutterEvents, gutterSwitches, moved, overlaps,
                   gutterFront, gutterLate>>

-----------------------------------------------------------------------------
(* The reader thread *)

Measuring(p) == pc["edt"] = "measure" /\ on["edt"] = p

NoteMove == moved' = (moved \/ \E p \in Profiler : Measuring(p) /\ lines'[p] # lines[p])

\* Mutant: the event does not redraw.
LineProfileUnseen(ls, ms) ==
    /\ pc["reader"] = "idle" /\ gutterEvents < MaxEvents
    /\ gutterEvents' = gutterEvents + 1
    /\ known' = TRUE
    /\ lines' = [lines EXCEPT !["time"] = @ \cup ls, !["memory"] = @ \cup ms]
    /\ NoteMove
    /\ UNCHANGED <<edt, renderers, gutterFresh, activeProfiler, active, work,
                   gutterSwitches, gutterHistory>>

\* LineProfile.handle up to the redraw: the values of both profilers.
LineProfile(ls, ms) ==
    /\ pc["reader"] = "idle" /\ gutterEvents < MaxEvents
    /\ gutterEvents' = gutterEvents + 1
    /\ known' = TRUE
    /\ lines' = [lines EXCEPT !["time"] = @ \cup ls, !["memory"] = @ \cup ms]
    /\ NoteMove
    /\ pc' = [pc EXCEPT !["reader"] = "update"]
    /\ UNCHANGED <<edt, renderers, gutterFresh, activeProfiler, active, on, own,
                   activating, gutterSwitches, gutterHistory>>

\* getActiveProfiler().update()
Update ==
    /\ pc["reader"] = "update"
    /\ Begin("reader", activeProfiler)
    /\ UNCHANGED <<device, lines, known, renderers, gutterFresh, activeProfiler,
                   active, own, activating, gutterEvents, gutterSwitches, moved,
                   gutterFront, lost>>

\* LineProfileClear.handle: nothing is redrawn.
LineProfileClear(ls) ==
    /\ pc["reader"] = "idle" /\ gutterEvents < MaxEvents
    /\ gutterEvents' = gutterEvents + 1
    /\ lines' = [lines EXCEPT !["time"] = @ \ ls]
    /\ NoteMove
    /\ UNCHANGED <<edt, known, renderers, gutterFresh, activeProfiler, active, work,
                   gutterSwitches, gutterHistory>>

-----------------------------------------------------------------------------
(* The event dispatch thread, and the end of the process on its own thread *)

EdtIdle == pc["edt"] = "idle"

\* RunConfHandler.activate; NoneProfiler.activate does nothing.
ActivateProfiler ==
    /\ EdtIdle /\ gutterSwitches < MaxSwitches
    /\ gutterSwitches' = gutterSwitches + 1
    /\ gutterFront' = TRUE
    /\ IF activeProfiler = "none"
       THEN active' = TRUE /\ UNCHANGED <<queue, pc, on, activating, overlaps,
                                          gutterLate>>
       ELSE Begin("edt", activeProfiler) /\ activating' = TRUE /\ UNCHANGED active
    /\ UNCHANGED <<device, lines, known, renderers, gutterFresh, activeProfiler,
                   own, gutterEvents, moved, lost>>

\* RunConfHandler.onQuickConfigChange: the old profiler's gutter goes ...
onQuickConfigChange ==
    /\ EdtIdle /\ gutterSwitches < MaxSwitches
    /\ gutterSwitches' = gutterSwitches + 1
    /\ deactivateRenderers(activeProfiler)
    /\ pc' = [pc EXCEPT !["edt"] = "switch"]
    /\ NoteOverlap("edt")
    /\ UNCHANGED <<device, lines, known, renderers, gutterFresh, activeProfiler,
                   active, on, own, activating, gutterEvents, moved, gutterFront,
                   lost, gutterLate>>

\* ... and the new one's comes.
SwitchProfiler(p) ==
    /\ pc["edt"] = "switch"
    /\ activeProfiler' = p
    /\ IF p = "none"
       THEN Leave("edt") /\ NoteOverlap("edt") /\ UNCHANGED <<queue, on,
                                                              gutterLate>>
       ELSE Begin("edt", p) /\ UNCHANGED <<own, active, activating>>
    /\ UNCHANGED <<device, lines, known, renderers, gutterFresh, gutterEvents,
                   gutterSwitches, moved, gutterFront, lost>>

\* RunConfHandler.deactivate, also from onProcessExit on another thread
DeactivateProfiler ==
    /\ gutterSwitches < MaxSwitches
    /\ gutterSwitches' = gutterSwitches + 1
    /\ active' = FALSE /\ gutterFront' = FALSE
    /\ deactivateRenderers(activeProfiler)
    /\ gutterLate' = \E t \in Drawer : InRedraw(t)
    /\ UNCHANGED <<device, lines, known, renderers, gutterFresh, activeProfiler,
                   work, gutterEvents, moved, overlaps, lost>>

\* A runnable of the queue.
Run ==
    /\ EdtIdle
    /\ \/ (Show \/ Hide) /\ UNCHANGED lost
       \/ ShowNoLine /\ lost' = TRUE
    /\ UNCHANGED <<lines, known, renderers, gutterFresh, activeProfiler, active,
                   work, gutterEvents, gutterSwitches, moved, overlaps, gutterFront,
                   gutterLate>>

GutterNext ==
    \/ \E t \in Drawer : Clear(t) \/ AddNone(t) \/ (\E r \in gutterFresh : Add(t, r)) \/ Draw(t)
    \/ DrawAborts
    \/ \E ls, ms \in LineSets : LineProfile(ls, ms)
    \/ Update
    \/ \E ls \in LineSets : LineProfileClear(ls)
    \/ ActivateProfiler \/ onQuickConfigChange \/ (\E p \in Profiler : SwitchProfiler(p))
    \/ DeactivateProfiler
    \/ Run

GutterSpec == GutterInit /\ [][GutterNext]_gutterVars

-----------------------------------------------------------------------------
(* Properties *)

\* The types of the state; a thread of execution holds a renderer exactly while
\* it is between adding and drawing it.
GutterTypeOK ==
    /\ EdtType
    /\ lines \in [Profiler -> SUBSET Line] /\ known \in BOOLEAN
    /\ renderers \in [Profiler -> SUBSET Renderer]
    /\ gutterFresh \subseteq Renderer
    /\ activeProfiler \in Profiler /\ active \in BOOLEAN
    /\ pc \in [Drawer -> {"idle", "update", "switch", "clear", "add", "measure"}]
    /\ on \in [Drawer -> Profiler]
    /\ own \in [Drawer -> Renderer \cup {None}]
    /\ \A t \in Drawer : pc[t] = "measure" <=> own[t] # None
    /\ activating \in BOOLEAN
    /\ gutterEvents \in 0..MaxEvents /\ gutterSwitches \in 0..MaxSwitches
    /\ moved \in BOOLEAN
    /\ overlaps \in Nat /\ {gutterFront, lost, gutterLate} \subseteq BOOLEAN

Drawn == {r \in Renderer : device[r]}
Quiet == Idle /\ \A t \in Drawer : pc[t] = "idle"

\* Redraws that overlap leave at most one gutter too many each.  As long as none
\* overlap, the one that is drawn is one its profiler's list still knows, so that
\* the next redraw or the next RunConfHandler.deactivate can remove it.
GutterBound ==
    Quiet => /\ Cardinality(Drawn) <= 1 + overlaps
             /\ overlaps = 0 => Drawn \subseteq renderers[activeProfiler]

\* However redraws overlap, in the end the active profiler's values have a
\* gutter the list knows, unless the document has lost their lines, an
\* iteration over them failed or the tab is not active.
ValuesAreShown ==
    /\ Quiet /\ active /\ gutterFront /\ ~lost
    /\ activeProfiler # "none" /\ lines[activeProfiler] # {}
    => Drawn \cap renderers[activeProfiler] # {}

\* A tab that was deactivated shows no gutter, unless redraws overlapped or an
\* event of the process, or a change of the configuration, came later.
HiddenTabShowsNoGutter == Quiet /\ ~active /\ ~gutterLate /\ overlaps = 0 => Drawn = {}

\* What ProfilePreviewRenderer.update leaves in the editor, whatever the two
\* threads were doing: no gutter too many, the values of the active profiler
\* shown, and nothing of a tab that was left.
GutterFollows == GutterBound /\ ValuesAreShown /\ HiddenTabShowsNoGutter

\* Why it holds.  What will be drawn when the queue has run, and the redraws that
\* may each add one to it:
ToBeDrawn == {r \in Renderer : WillShow(r)}
Redrawing(t) == IF InRedraw(t) THEN 1 ELSE 0
Busy == Redrawing("reader") + Redrawing("edt")

\* A redraw that will leave the active profiler's list a renderer to be drawn, or
\* draw none.
Renews(t) ==
    \/ pc[t] = "switch"
    \/ /\ on[t] = activeProfiler
       /\ \/ pc[t] \in {"clear", "add"}
          \/ pc[t] = "measure" /\ own[t] \in renderers[activeProfiler]

\* The next redraw or RunConfHandler.deactivate will find one in the list.
InHand == ToBeDrawn \cap renderers[activeProfiler] # {} \/ \E t \in Drawer : Renews(t)

\* Each overlap pays for one renderer that may be left behind by a redraw; with
\* none in the list there is one less than that.
CountInvariant ==
    /\ IsFiniteSet(ToBeDrawn)
    /\ Cardinality(ToBeDrawn) + Busy <= IF InHand THEN 1 + overlaps ELSE overlaps

\* The values have a renderer in the list, or one will come.
ShownInvariant ==
    /\ (\E p \in Profiler : lines[p] # {}) => known
    /\ gutterFront /\ ~lost /\ activeProfiler # "none" /\ lines[activeProfiler] # {}
           => InHand \/ pc["reader"] = "update"

\* Nothing was begun since the tab was deactivated but a change of profilers that
\* has not got to its redraw.
HiddenInvariant ==
    ~active /\ ~gutterLate =>
        /\ \A t \in Drawer : pc[t] \in {"idle", "update", "switch"}
        /\ overlaps = 0 => ToBeDrawn = {}

GutterInvariant == CountInvariant /\ ShownInvariant /\ HiddenInvariant

===========================================================================
