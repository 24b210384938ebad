----------------------------- MODULE DedupQueue -----------------------------
(* What watchdog promises of the queue between emitters and observer           *)
(* (SkipRepeatsQueue in src/src/watchdog/utils/bricks.py): a FIFO that drops an *)
(* item only while an equal one is the newest still waiting. The calls of put   *)
(* are visible, so that dropping any other item is not a step of this module.   *)
EXTENDS Naturals, Sequences

CONSTANT Items

VARIABLES waiting,    \* the items in the queue
          calls,      \* number of calls of put
          given       \* the item of the last call

Init == waiting = <<>> /\ calls = 0

Put(x) ==
  /\ calls' = calls + 1 /\ given' = x
  /\ waiting' = IF waiting # <<>> /\ waiting[Len(waiting)] = x
                THEN waiting ELSE Append(waiting, x)

Get == waiting # <<>> /\ waiting' = Tail(waiting) /\ UNCHANGED <<calls, given>>

Next == (\E x \in Items : Put(x)) \/ Get

Spec == Init /\ [][Next]_<<waiting, calls, given>>
=============================================================================
