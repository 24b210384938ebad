---------------------------- MODULE FileValues ----------------------------
(***************************************************************************)
(* What the line profilers know of one file (rw/profile/FileValues.java),  *)
(* as the events LineProfile and LineProfileClear fill and empty it        *)
(* (LineProfile.java, LineProfileClear.java, TimeProfiler.java,            *)
(* MemoryProfiler.java, LineProfiler.clearLines).                          *)
(*                                                                         *)
(* Only the session's reader thread changes these maps, and every method   *)
(* of FileValues is synchronized, so an event is one step here.  What the  *)
(* event dispatch thread sees between two steps is module ProfileGutter.   *)
(* A map without an entry for a line has None there.                       *)
(***************************************************************************)
EXTENDS Integers, FiniteSets, SequencesExt

CONSTANTS
    LineCount,      \* number of lines of the file
    Frame,          \* names of frames
    NoValue,
    TimeValues,     \* LineProfile.timeValues of the events: functions on lines
    MemoryValues,   \* LineProfile.memoryValues of the events
    FoldRegions,    \* collapsed regions of the editor: sequences of <<first, last>>
    MaxFileEvents   \* bound: events

FileLine == 1..LineCount

\* Times are not negative; a line may have released more memory than it took.
ASSUME ValuesAssumption ==
    /\ LineCount \in Nat
    /\ NoValue \notin Int /\ NoValue \notin Frame
    /\ \A v \in TimeValues : DOMAIN v \subseteq FileLine /\ \A l \in DOMAIN v : v[l] \in Nat
    /\ \A v \in MemoryValues : DOMAIN v \subseteq FileLine /\ \A l \in DOMAIN v : v[l] \in Int
    /\ FoldRegions \subseteq Seq(FileLine \X FileLine)

\* The two profilers, each with a FileValues of its own.
FileProfiler == {"time", "memory"}

VARIABLES
    add, mean, max, min, last,   \* FileValues.values of each profiler, by CumulateType
    lineToFrame,                 \* FileValues.lineToFrame
    events,                      \* counter
    samples                      \* (history) the values since a line was cleared

valueVars == <<add, mean, max, min, last, lineToFrame, events, samples>>

EveryLine(x) == [p \in FileProfiler |-> [l \in FileLine |-> x]]

\* FileValues(): all maps empty
ValuesInit ==
    /\ add = EveryLine(NoValue) /\ mean = EveryLine(NoValue) /\ last = EveryLine(NoValue)
    /\ max = EveryLine(NoValue) /\ min = EveryLine(NoValue)
    /\ lineToFrame = EveryLine(NoValue)
    /\ events = 0
    /\ samples = EveryLine(<<>>)

-----------------------------------------------------------------------------
(* FileValues.update *)

getOrDefault(x, default) == IF x = NoValue THEN default ELSE x

\* Division of a long by 2, which rounds towards zero.
Half(x) == IF x >= 0 THEN x \div 2 ELSE -((-x) \div 2)

newAdd(a, x) == x + getOrDefault(a, 0)

newMean(m, x) == Half(x + getOrDefault(m, x))

newMax(m, x) == IF x > getOrDefault(m, 0) THEN x ELSE m

\* The current minimum is looked up in the map of the maxima.
newMin(n, m, x) == IF m = NoValue \/ x < m THEN x ELSE n

\* The lines of v that count: those with a value other than 0.
Sampled(v) == {l \in DOMAIN v : v[l] # 0}

\* One map after an update with v: new[l] on the lines that count.
Put(old, v, new) == [l \in FileLine |-> IF l \in Sampled(v) THEN new[l] ELSE old[l]]

newFrames(old, v, frame, frameLine) ==
    [l \in FileLine |-> IF l \in DOMAIN v \cup {frameLine} THEN frame ELSE old[l]]

\* LineProfile.handle: onLineProfileEvent of the time profiler and of the
\* memory profiler, both with the frame and the line it starts on.
LineProfileValues(timeValues, memoryValues, frame, frameLine) ==
    LET v == [p \in FileProfiler |-> IF p = "time" THEN timeValues ELSE memoryValues]
        S(p) == Sampled(v[p])
    IN  /\ events < MaxFileEvents
        /\ events' = events + 1
        /\ add' = [p \in FileProfiler |->
              Put(add[p], v[p], [l \in S(p) |-> newAdd(add[p][l], v[p][l])])]
        /\ mean' = [p \in FileProfiler |->
              Put(mean[p], v[p], [l \in S(p) |-> newMean(mean[p][l], v[p][l])])]
        /\ max' = [p \in FileProfiler |->
              Put(max[p], v[p], [l \in S(p) |-> newMax(max[p][l], v[p][l])])]
        /\ min' = [p \in FileProfiler |->
              Put(min[p], v[p], [l \in S(p) |-> newMin(min[p][l], max[p][l], v[p][l])])]
        /\ last' = [p \in FileProfiler |-> Put(last[p], v[p], v[p])]
        /\ lineToFrame' = [p \in FileProfiler |->
              newFrames(lineToFrame[p], v[p], frame, frameLine)]
        /\ samples' = [p \in FileProfiler |->
              Put(samples[p], v[p], [l \in S(p) |-> Append(samples[p][l], v[p][l])])]

\* FileValues.clear(start, end) on one map
clear(f, lines) == [f EXCEPT !["time"] = [l \in FileLine |-> IF l \in lines THEN NoValue ELSE @[l]]]

\* LineProfileClear.handle, with the lines of all its ranges: the time
\* profiler only; the names of the frames stay.
LineProfileClearValues(lines) ==
    /\ events < MaxFileEvents
    /\ events' = events + 1
    /\ add' = clear(add, lines) /\ mean' = clear(mean, lines) /\ last' = clear(last, lines)
    /\ max' = clear(max, lines) /\ min' = clear(min, lines)
    /\ UNCHANGED lineToFrame
    /\ samples' = [samples EXCEPT !["time"] =
          [l \in FileLine |-> IF l \in lines THEN <<>> ELSE @[l]]]

ValuesNext ==
    \/ \E v \in TimeValues, m \in MemoryValues, frame \in Frame, line \in FileLine :
          LineProfileValues(v, m, frame, line)
    \/ \E lines \in SUBSET FileLine : LineProfileClearValues(lines)

ValuesSpec == ValuesInit /\ [][ValuesNext]_valueVars

-----------------------------------------------------------------------------
(* FileValues.getFoldedValues *)

Valued(vals, lines) == {l \in lines : vals[l] # NoValue}

SumOver(vals, lines) == FoldSet(LAMBDA l, s : s + vals[l], 0, Valued(vals, lines))

\* Mutant: the sum stays on the first line.
FoldFirst(region, vals) ==
    IF Valued(vals, region[1]..region[2]) = {} THEN vals
    ELSE [vals EXCEPT ![region[1]] = SumOver(vals, region[1]..region[2])]

\* One collapsed region: all its lines show the sum of those with a value.
Fold(region, vals) ==
    LET lines == region[1]..region[2]
    IN  IF Valued(vals, lines) = {} THEN vals
        ELSE [l \in FileLine |-> IF l \in lines THEN SumOver(vals, lines) ELSE vals[l]]

\* The values of the lines of the frame (of all lines without one), then the
\* collapsed regions from the last to the first.
getFoldedValues(p, f, frame, regions) ==
    FoldRight(Fold, regions,
              [l \in FileLine |-> IF frame = NoValue \/ lineToFrame[p][l] = frame
                                  THEN f[p][l] ELSE NoValue])

-----------------------------------------------------------------------------
(* Properties *)

Sum(s) == FoldLeft(LAMBDA x, y : x + y, 0, s)
Largest(s) == CHOOSE x \in ToSet(s) : \A y \in ToSet(s) : y <= x
Smallest(s) == CHOOSE x \in ToSet(s) : \A y \in ToSet(s) : x <= y

\* After any events the maps ADD, LAST and MAX are what the values received
\* since the line was last cleared say: their sum, the last one and the
\* largest one (FileValues.update keeps no maximum below 1).  A line without
\* values is in no map.
AggregatesFollowSamples ==
    \A p \in FileProfiler, l \in FileLine :
        LET s == samples[p][l]
        IN  IF s = <<>> THEN {add[p][l], mean[p][l], max[p][l], min[p][l], last[p][l]} = {NoValue}
            ELSE /\ add[p][l] = Sum(s)
                 /\ last[p][l] = Last(s)
                 /\ max[p][l] = IF Largest(s) > 0 THEN Largest(s) ELSE NoValue

\* The running mean of FileValues.update, which halves at every event and
\* rounds towards zero, never leaves the range of the values it is a mean of.
MeanBounded ==
    \A p \in FileProfiler, l \in FileLine :
        LET s == samples[p][l]
        IN  s # <<>> => mean[p][l] \in Smallest(s)..Largest(s)

\* Every line with a value has a frame, also after LineProfileClear: the
\* lookup lineToFrame.get(line).equals(frame) of getFoldedValues finds one.
FrameKnown ==
    \A p \in FileProfiler, l \in FileLine : add[p][l] # NoValue => lineToFrame[p][l] # NoValue

\* The value a line should have: the sum of what was received for it since it
\* was last cleared.
Total(p) == [l \in FileLine |-> IF samples[p][l] = <<>> THEN NoValue ELSE Sum(samples[p][l])]

Covers(region, l) == l \in region[1]..region[2]

\* The collapsed regions of an editor where no two share a line.
SideBySide ==
    {regions \in FoldRegions : \A i, j \in DOMAIN regions, l \in FileLine :
        Covers(regions[i], l) /\ Covers(regions[j], l) => i = j}

\* The lines of profiler p with these collapsed regions, as FoldedSum says below.
RegionsSummed(p, regions, total) ==
    LET shown == getFoldedValues(p, add, NoValue, regions)
        Lines(i) == regions[i][1]..regions[i][2]
        Filled == {i \in DOMAIN regions : Valued(total, Lines(i)) # {}}
    IN  /\ regions \in SideBySide =>
              /\ \A l \in FileLine :
                    (\A i \in Filled : ~Covers(regions[i], l)) => shown[l] = total[l]
              /\ \A i \in Filled, l \in FileLine :
                    Covers(regions[i], l) => shown[l] = SumOver(total, Lines(i))
        /\ p = "time" /\ 1 \in Filled =>
              \A l \in Lines(1) : /\ shown[l] = shown[regions[1][1]]
                                  /\ shown[l] >= SumOver(total, Lines(1))

\* What getFoldedValues shows after any events of FileValues.update and
\* clear: with collapsed regions none of which is in another, each line of a
\* region shows the sum of all values received for the region since its lines
\* were cleared, each other line the sum of its own (without any value nothing
\* is folded).  With other regions inside the first one, whose sums are counted
\* on each of their lines, all lines of the first show the same time, and no
\* less than its sum.  For a frame, a line shows its sum or nothing.
FoldedSum ==
    \A p \in FileProfiler :
        LET total == Total(p)
        IN  /\ Valued(total, FileLine) # {} =>
                  \A regions \in FoldRegions : RegionsSummed(p, regions, total)
            /\ \A frame \in Frame :
                  LET shown == getFoldedValues(p, add, frame, <<>>)
                  IN  \A l \in FileLine : shown[l] \in {NoValue, total[l]}

\* What FileValues has to show, whatever events came and whatever was cleared.
ValuesSound == AggregatesFollowSamples /\ MeanBounded /\ FrameKnown /\ FoldedSum

===========================================================================
