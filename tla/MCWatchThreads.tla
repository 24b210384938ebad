--------------------------- MODULE MCWatchThreads ---------------------------
(* The threads of a file watcher. In two parts of the behaviours the observer, *)
(* its emitters and the application: with one watch, or with several that have   *)
(* one handler and no events. In the third the buffer and the emitter of one     *)
(* inotify watch, which the others take as one emitter.                          *)
EXTENDS Observer, InotifyBuffer

VARIABLE part

allVars == <<part, vars, bufVars>>

MCInit == /\ part \in {"dispatch", "emitters", "inotify"} /\ Init /\ BufInit
          /\ part # "inotify" => dir = {}

\* which emitter object is the first to be created makes no difference
FirstOf(S) == CHOOSE x \in S : TRUE
Confined ==
  /\ est'[FirstOf(Emitters)] = "unused" => \A e \in Emitters : est'[e] = "unused"
  /\ IF part = "dispatch"
     THEN \A w \in Watches \ {FirstOf(Watches)} : handlers'[w] = {}
     ELSE puts' = 0 /\ \A w \in Watches : handlers'[w] \subseteq {FirstOf(Handlers)}

OfInotify(A) == part = "inotify" /\ A /\ UNCHANGED <<part, vars>>

MCNext ==
  \/ part # "inotify" /\ Next /\ Confined /\ UNCHANGED <<part, bufVars>>
  \/ OfInotify(BufNext)

\* the observer's threads do nothing in the other part: none is started
MCSpec ==
  /\ MCInit /\ [][MCNext]_allVars /\ Fairness
  /\ WF_allVars(OfInotify(BufferStep)) /\ WF_allVars(OfInotify(TakerStep))
  /\ WF_allVars(OfInotify(StopStep)) /\ WF_allVars(OfInotify(Ripen))

\* stop() ends every thread. Of the observer: emitters that run are told so and joined,
\* its own thread leaves its loop, whatever calls and handlers are under way. An emitter
\* goes on only when schedule() came after the unschedule_all of stop(), while the
\* observer's thread is still alive or with another start() to come, and when a start()
\* that fails at the same time breaks the loop over the emitters. Of an inotify watch:
\* both threads end, whether the buffer waits in read, the emitter in the queue or in its
\* sleep, and also when the emitter stops itself at the same time.
StopEndsThreads ==
  Stopping \/ emitterStop ~> IF part # "inotify" THEN Ended ELSE BothEnded
=============================================================================
