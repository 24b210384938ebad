SPECIFICATION EditorSpec
CONSTANTS
    Highlighter = {e1, e2, e3, l1, l2, l3, r1, r2, r3}
    ErrorHighlighter = {e1, e2, e3}
    LineHighlighter = {l1, l2, l3}
    Renderer = {r1, r2, r3}
    Thread = {t1, t2}
    Frame = {f, g}
    None = None
    Line = {1, 2}
    LineSets = {{}, {1}, {1, 2}}
    MaxSwitches = 2
    MaxPauses = 2
    MaxEvents = 2
    LineCount = 3
    NoValue = NoValue
    TimeValues <- MCTimeValues
    MemoryValues <- MCMemoryValues
    FoldRegions <- MCFoldRegions
    MaxFileEvents = 3
    MaxQueue = 2
CONSTRAINT QueueBound
SYMMETRY Reorderings
INVARIANTS ErrorsShown LineShown GutterFollows ValuesSound
CHECK_DEADLOCK FALSE
