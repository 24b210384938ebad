------------------------------ MODULE MCEditor ------------------------------
(* What the plugin marks in an editor, one part at a time: the errors of the
   threads (ThreadErrors), the line a frame is executing (FrameProgress), the
   gutter of a profiler (ProfileGutter) and the values it is about
   (FileValues).  Each part has highlighters of its own and they
   share nothing but the queue of the event dispatch thread, which lags at most
   MaxQueue runnables behind. *)
EXTENDS ThreadErrors, FrameProgress, ProfileGutter, FileValues, TLC

CONSTANT MaxQueue       \* bound: runnables waiting

VARIABLE part           \* what this behaviour is about

MCTimeValues == {1 :> 5, 1 :> 1, 1 :> 3 @@ 2 :> 0, 2 :> 4 @@ 3 :> 2}
MCMemoryValues == {1 :> -3 @@ 2 :> 0, 1 :> 2}

\* One region, two side by side, one in another.
MCFoldRegions ==
    {<< <<1, 2>> >>, << <<1, 2>>, <<3, 3>> >>, << <<1, 3>>, <<2, 3>> >>}

editorVars == <<part, edt, errorState, lineState, gutterState, valueVars>>

EditorInit ==
    /\ part \in {"errors", "line", "gutter", "values"}
    /\ Init /\ LineInit /\ GutterInit /\ ValuesInit
    /\ part # "gutter" => activeProfiler = "none"

EditorNext ==
    /\ UNCHANGED part
    /\ \/ part = "errors" /\ Next /\ UNCHANGED <<lineState, gutterState, valueVars>>
       \/ part = "line" /\ LineNext /\ UNCHANGED <<errorState, gutterState, valueVars>>
       \/ part = "gutter" /\ GutterNext /\ UNCHANGED <<errorState, lineState, valueVars>>
       \/ part = "values" /\ ValuesNext /\ UNCHANGED <<edt, errorState, lineState, gutterState>>

EditorSpec == EditorInit /\ [][EditorNext]_editorVars

QueueBound == Len(queue) <= IF part = "errors" THEN MaxQueue ELSE MaxQueue + 1

\* One permutation of the highlighters of all parts at a time, as each behaviour
\* uses those of one part.
Along(p, S) ==
    LET f == CHOOSE f \in [ErrorHighlighter -> S] :
                 \A x, y \in ErrorHighlighter : f[x] = f[y] => x = y
    IN  [s \in S |-> f[p[CHOOSE x \in ErrorHighlighter : f[x] = s]]]

Reorderings ==
    {p @@ Along(p, LineHighlighter) @@ Along(p, Renderer) :
        p \in Permutations(ErrorHighlighter)} \cup Permutations(Thread)
=============================================================================
