------------------------------ MODULE Observer ------------------------------
(* The file watcher of the Python package: watchdog's BaseObserver, its         *)
(* emitters and the queue between them (src/src/watchdog/observers/api.py,      *)
(* utils/bricks.py, utils/__init__.py).                                         *)
(*                                                                             *)
(* Threads: the application's, the observer's own (Disp), one per emitter.      *)
(* `lock` is BaseObserver._lock, a re-entrant lock: the observer holds it while *)
(* it calls handlers, and a handler may call the observer.                      *)
EXTENDS Naturals, Sequences

CONSTANTS Apps,          \* application threads
          Disp,          \* the observer's thread
          Watches,       \* keys of ObservedWatch: (path, recursive)
          Handlers,      \* event handlers
          Events,        \* file system events, equal when their keys are
          Emitters,      \* emitter objects the run may create
          None,
          MaxPuts,       \* bound: calls of queue_event
          MaxOps         \* bound: calls of the observer's methods

Threads == Apps \cup {Disp}

ASSUME ObserverAssumption ==
  /\ Disp \notin Apps
  /\ None \notin Threads \cup Watches \cup Handlers \cup Events \cup Emitters
  /\ MaxPuts \in Nat /\ MaxOps \in Nat

VARIABLES
  lock,        \* owner of _lock, or None
  handlers,    \* _handlers: watch -> set, {} when the watch is not a key
  emitterFor,  \* _emitter_for_watch
  emitters,    \* the set _emitters
  shrunk,      \* an emitter left it since the loop that goes through it began
  watches,     \* _watches
  est,         \* emitter -> "unused", "new", "check", "work", "dead"
  estop,       \* emitter -> _stopped_event
  ewatch,      \* emitter -> its watch
  queue,       \* EventQueue: sequence of [id, item]
  lastItem,    \* _last_item, an entry of the queue or None
  unfinished,  \* unfinished_tasks
  alive,       \* the observer's thread: "new", "alive", "dead"
  stopped,     \* its _stopped_event
  pc, arg,     \* where each thread is; the emitters it starts or joins
  current,     \* the observer's thread: the item taken from the queue,
  todo,        \* the copied handlers still to call
  running,     \* and the handler being called, or None
  puts, ops,   \* bound counters
  given,       \* history: the item of the last put
  swept,       \* history: stop() has come to its unschedule_all
  missed       \* history: emitters scheduled later, or that it left untold

obsVars == <<handlers, emitterFor, emitters, shrunk, watches>>
emVars == <<est, estop, ewatch>>
qVars == <<queue, lastItem, unfinished>>
disp == <<current, todo, running>>
sweep == <<swept, missed>>
hist == <<puts, ops, given, swept, missed>>
vars == <<lock, handlers, emitterFor, emitters, shrunk, watches, est, estop, ewatch, queue, lastItem,
          unfinished, alive, stopped, pc, arg, current, todo, running, puts, ops, given, swept, missed>>

Item == Events \X Watches
Entry == [id : 0..MaxPuts, item : Item]

ASSUME EntryAssumption == None \notin Entry

TypeOK ==
  /\ lock \in Threads \cup {None}
  /\ handlers \in [Watches -> SUBSET Handlers]
  /\ emitterFor \in [Watches -> Emitters \cup {None}] /\ emitters \subseteq Emitters
  /\ watches \subseteq Watches
  /\ est \in [Emitters -> {"unused", "new", "check", "work", "dead"}]
  /\ estop \in [Emitters -> BOOLEAN]
  /\ ewatch \in [Emitters -> Watches \cup {None}]
  /\ queue \in Seq(Entry) /\ lastItem \in Entry \cup {None}
  /\ unfinished \in Nat
  /\ alive \in {"new", "alive", "dead"} /\ stopped \in BOOLEAN
  /\ pc \in [Threads -> {"idle", "starting", "stopping", "joinOne", "stopAll", "joinAll",
                         "joinFailed", "check", "get", "got", "each"}]
  /\ puts \in 0..MaxPuts /\ ops \in 0..MaxOps
  /\ arg \in [Threads -> SUBSET Emitters]
  /\ current \in Item \cup {None} /\ todo \subseteq Handlers
  /\ running \in Handlers \cup {None} /\ given \in Item \cup {None}
  /\ shrunk \in BOOLEAN /\ swept \in BOOLEAN /\ missed \subseteq Emitters

Init ==
  /\ lock = None
  /\ handlers = [w \in Watches |-> {}] /\ emitterFor = [w \in Watches |-> None]
  /\ emitters = {} /\ shrunk = FALSE /\ watches = {}
  /\ est = [e \in Emitters |-> "unused"] /\ estop = [e \in Emitters |-> FALSE]
  /\ ewatch = [e \in Emitters |-> None]
  /\ queue = <<>> /\ lastItem = None /\ unfinished = 0
  /\ alive = "new" /\ stopped = FALSE
  /\ pc = [t \in Threads |-> IF t = Disp THEN "check" ELSE "idle"]
  /\ arg = [t \in Threads |-> {}]
  /\ current = None /\ todo = {} /\ running = None
  /\ puts = 0 /\ ops = 0 /\ given = None /\ swept = FALSE /\ missed = {}

-----------------------------------------------------------------------------
(* The queue.                                                                  *)

\* SkipRepeatsQueue._put under Queue.put, which adds 1 to unfinished_tasks
QueuePut(x) ==
  IF lastItem # None /\ lastItem.item = x
  THEN UNCHANGED <<queue, lastItem, unfinished>>
  ELSE LET entry == [id |-> puts, item |-> x]
       IN  /\ queue' = Append(queue, entry) /\ lastItem' = entry
           /\ unfinished' = unfinished + 1

\* mutant: the last item is not forgotten when it leaves the queue
MutQueueGet == queue' = Tail(queue) /\ UNCHANGED lastItem

\* SkipRepeatsQueue._get: identity, not equality, decides the reset
QueueGet ==
  /\ queue' = Tail(queue)
  /\ lastItem' = IF Head(queue) = lastItem THEN None ELSE lastItem

-----------------------------------------------------------------------------
(* Emitters: EventEmitter on BaseThread.                                       *)

\* EventEmitter.run: the test of the loop
EmitterCheck(e) ==
  /\ est[e] = "check"
  /\ est' = [est EXCEPT ![e] = IF estop[e] THEN "dead" ELSE "work"]
  /\ UNCHANGED <<lock, obsVars, estop, ewatch, qVars, alive, stopped, pc, arg, hist, disp>>

\* queue_events: puts events, returns at its timeout or when it has read them
QueueEvent(e, ev) ==
  /\ est[e] = "work" /\ puts < MaxPuts
  /\ QueuePut(<<ev, ewatch[e]>>)
  /\ puts' = puts + 1 /\ given' = <<ev, ewatch[e]>>
  /\ UNCHANGED <<lock, obsVars, emVars, alive, stopped, pc, arg, ops, sweep, disp>>

QueueEventsReturns(e) ==
  /\ est[e] = "work"
  /\ est' = [est EXCEPT ![e] = "check"]
  /\ UNCHANGED <<lock, obsVars, estop, ewatch, qVars, alive, stopped, pc, arg, hist, disp>>

\* the watched path is gone: the emitter stops itself and stays registered
EmitterStopsItself(e) ==
  /\ est[e] = "work" /\ ~estop[e]
  /\ estop' = [estop EXCEPT ![e] = TRUE] /\ est' = [est EXCEPT ![e] = "check"]
  /\ UNCHANGED <<lock, obsVars, ewatch, qVars, alive, stopped, pc, arg, hist, disp>>

\* BaseThread.start of an emitter: on_thread_start, then the thread; a thread
\* starts once, yet on_thread_start has run before that is found out
StartOk(e) == est[e] = "new"

-----------------------------------------------------------------------------
(* Methods of the observer. A caller is an application thread, or the           *)
(* observer's thread inside a handler.                                          *)

CanCall(t) == /\ ops < MaxOps
              /\ IF t = Disp THEN pc[t] = "each" /\ running # None ELSE pc[t] = "idle"
Back(t) == IF t = Disp THEN "each" ELSE "idle"
MayEnter(t) == lock \in {None, t}
LockAfter(t) == IF t = Disp THEN Disp ELSE None

\* schedule: the handler is added first; the emitter is created when the watch has
\* none, and started when the observer's thread is alive. A failing start leaves
\* handler and emitter behind and `watches` without the watch.
Schedule(t, h, w) ==
  /\ CanCall(t) /\ MayEnter(t)
  /\ handlers' = [handlers EXCEPT ![w] = @ \cup {h}]
  /\ \/ /\ emitterFor[w] # None
        /\ watches' = watches \cup {w}
        /\ UNCHANGED <<emitterFor, emitters, emVars, missed>>
     \/ /\ emitterFor[w] = None
        /\ \E e \in Emitters :
             /\ est[e] = "unused"
             /\ emitterFor' = [emitterFor EXCEPT ![w] = e] /\ emitters' = emitters \cup {e}
             /\ missed' = IF swept THEN missed \cup {e} ELSE missed
             /\ ewatch' = [ewatch EXCEPT ![e] = w]
             /\ \E fails \in IF alive = "alive" THEN BOOLEAN ELSE {FALSE} :
                  /\ est' = [est EXCEPT ![e] = IF alive = "alive" /\ ~fails
                                               THEN "check" ELSE "new"]
                  /\ watches' = IF fails THEN watches ELSE watches \cup {w}
        /\ UNCHANGED estop
  /\ ops' = ops + 1
  /\ UNCHANGED <<lock, shrunk, qVars, alive, stopped, pc, arg, puts, given, swept, disp>>

AddHandlerForWatch(t, h, w) ==
  /\ CanCall(t) /\ MayEnter(t)
  /\ handlers' = [handlers EXCEPT ![w] = @ \cup {h}]
  /\ ops' = ops + 1
  /\ UNCHANGED <<lock, emitterFor, emitters, shrunk, watches, emVars, qVars, alive, stopped,
                 pc, arg, puts, given, sweep, disp>>

\* a handler that is not there is a KeyError that changes nothing
RemoveHandlerForWatch(t, h, w) ==
  /\ CanCall(t) /\ MayEnter(t) /\ h \in handlers[w]
  /\ handlers' = [handlers EXCEPT ![w] = @ \ {h}]
  /\ ops' = ops + 1
  /\ UNCHANGED <<lock, emitterFor, emitters, shrunk, watches, emVars, qVars, alive, stopped,
                 pc, arg, puts, given, sweep, disp>>

\* unschedule and _remove_emitter up to join(): the lock stays held meanwhile
Unschedule(t, w) ==
  /\ CanCall(t) /\ MayEnter(t) /\ emitterFor[w] # None
  /\ lock' = t
  /\ handlers' = [handlers EXCEPT ![w] = {}]
  /\ emitterFor' = [emitterFor EXCEPT ![w] = None]
  /\ emitters' = emitters \ {emitterFor[w]}
  /\ estop' = [estop EXCEPT ![emitterFor[w]] = TRUE]
  /\ pc' = [pc EXCEPT ![t] = "joinOne"]
  /\ arg' = [arg EXCEPT ![t] = {emitterFor[w]}]
  /\ ops' = ops + 1
  /\ UNCHANGED <<shrunk, watches, est, ewatch, qVars, alive, stopped, puts, given, sweep, disp>>

Joined(E) == \A e \in E : est[e] \in {"new", "dead"}   \* new: join raises, ignored

UnscheduleJoined(t) ==
  /\ pc[t] = "joinOne" /\ Joined(arg[t])
  /\ watches' = watches \ {ewatch[e] : e \in arg[t]}
  /\ lock' = LockAfter(t)
  /\ pc' = [pc EXCEPT ![t] = Back(t)] /\ arg' = [arg EXCEPT ![t] = {}]
  /\ UNCHANGED <<handlers, emitterFor, emitters, shrunk, emVars, qVars, alive, stopped, hist, disp>>

\* unschedule_all and _clear_emitters: two loops over the set, to stop and to join all.
\* start() takes out the emitters that fail without the lock: then the turn after is a
\* RuntimeError ("Set changed size during iteration") that leaves both maps as they are.
EnterUnscheduleAll(t) ==
  /\ MayEnter(t) /\ lock' = t
  /\ handlers' = [w \in Watches |-> {}]
  /\ pc' = [pc EXCEPT ![t] = "stopAll"] /\ arg' = [arg EXCEPT ![t] = emitters] /\ shrunk' = FALSE
  /\ UNCHANGED <<emitterFor, emitters, watches, emVars, qVars, alive, puts, given, missed, disp>>

UnscheduleAll(t) ==
  /\ CanCall(t) /\ EnterUnscheduleAll(t) /\ ops' = ops + 1 /\ UNCHANGED <<stopped, swept>>

Leave(t) ==
  /\ lock' = LockAfter(t)
  /\ pc' = [pc EXCEPT ![t] = Back(t)] /\ arg' = [arg EXCEPT ![t] = {}]

NextTurn(t, e) ==
  IF shrunk THEN Leave(t) ELSE arg' = [arg EXCEPT ![t] = @ \ {e}] /\ UNCHANGED <<lock, pc>>

StopOne(t, e) ==
  /\ pc[t] = "stopAll" /\ e \in arg[t] /\ estop' = [estop EXCEPT ![e] = TRUE] /\ NextTurn(t, e)
  /\ missed' = IF shrunk /\ swept THEN missed \cup (arg[t] \ {e}) ELSE missed
  /\ UNCHANGED <<obsVars, est, ewatch, qVars, alive, stopped, puts, ops, given, swept, disp>>

AllStopped(t) ==
  /\ pc[t] = "stopAll" /\ arg[t] = {}
  /\ pc' = [pc EXCEPT ![t] = "joinAll"] /\ arg' = [arg EXCEPT ![t] = emitters] /\ shrunk' = FALSE
  /\ UNCHANGED <<lock, handlers, emitterFor, emitters, watches, emVars, qVars, alive, stopped, hist, disp>>

JoinOne(t, e) ==
  /\ pc[t] = "joinAll" /\ e \in arg[t] /\ Joined({e}) /\ NextTurn(t, e)
  /\ UNCHANGED <<obsVars, emVars, qVars, alive, stopped, hist, disp>>

UnscheduleAllJoined(t) ==
  /\ pc[t] = "joinAll" /\ arg[t] = {}
  /\ emitterFor' = [w \in Watches |-> None] /\ emitters' = {} /\ watches' = {} /\ Leave(t)
  /\ UNCHANGED <<handlers, shrunk, emVars, qVars, alive, stopped, hist, disp>>

\* BaseThread.stop: the event is set without the lock, then on_thread_stop
Stop(t) ==
  /\ CanCall(t)
  /\ stopped' = TRUE /\ pc' = [pc EXCEPT ![t] = "stopping"] /\ ops' = ops + 1
  /\ UNCHANGED <<lock, obsVars, emVars, qVars, alive, arg, puts, given, sweep, disp>>

OnThreadStop(t) ==
  /\ pc[t] = "stopping" /\ EnterUnscheduleAll(t) /\ swept' = TRUE /\ UNCHANGED <<stopped, ops>>

\* start: no lock; the copy of _emitters is taken first, the thread started last
Start(t) ==
  /\ t \in Apps /\ CanCall(t)
  /\ pc' = [pc EXCEPT ![t] = "starting"] /\ arg' = [arg EXCEPT ![t] = emitters]
  /\ ops' = ops + 1
  /\ UNCHANGED <<lock, obsVars, emVars, qVars, alive, stopped, puts, given, sweep, disp>>

StartEmitter(t, e) ==
  /\ pc[t] = "starting" /\ e \in arg[t] /\ StartOk(e)
  /\ est' = [est EXCEPT ![e] = "check"]
  /\ arg' = [arg EXCEPT ![t] = @ \ {e}]
  /\ UNCHANGED <<lock, obsVars, estop, ewatch, qVars, alive, stopped, pc, hist, disp>>

\* the emitter cannot start, or has been started before: _remove_emitter without the lock,
\* and the exception ends start() once the emitter is joined. When the emitter was taken
\* out before, what goes is the entry of a newer one for its watch, and there is a KeyError.
StartEmitterFails(t, e) ==
  /\ pc[t] = "starting" /\ e \in arg[t]
  /\ emitterFor' = [emitterFor EXCEPT ![ewatch[e]] = None]
  /\ IF emitterFor[ewatch[e]] # None /\ e \in emitters
     THEN /\ emitters' = emitters \ {e} /\ shrunk' = TRUE
          /\ estop' = [estop EXCEPT ![e] = TRUE]
          /\ pc' = [pc EXCEPT ![t] = "joinFailed"] /\ arg' = [arg EXCEPT ![t] = {e}]
     ELSE /\ pc' = [pc EXCEPT ![t] = "idle"] /\ arg' = [arg EXCEPT ![t] = {}]  \* KeyError
          /\ UNCHANGED <<emitters, shrunk, estop>>
  /\ UNCHANGED <<lock, handlers, watches, est, ewatch, qVars, alive, stopped, hist, disp>>

StartFailed(t) ==
  /\ pc[t] = "joinFailed" /\ Joined(arg[t])
  /\ pc' = [pc EXCEPT ![t] = "idle"] /\ arg' = [arg EXCEPT ![t] = {}]
  /\ UNCHANGED <<lock, obsVars, emVars, qVars, alive, stopped, hist, disp>>

StartThread(t) ==
  /\ pc[t] = "starting" /\ arg[t] = {}
  /\ alive' = IF alive = "new" THEN "alive" ELSE alive    \* else RuntimeError
  /\ pc' = [pc EXCEPT ![t] = "idle"] /\ arg' = [arg EXCEPT ![t] = {}]
  /\ UNCHANGED <<lock, obsVars, emVars, qVars, stopped, hist, disp>>

-----------------------------------------------------------------------------
(* The observer's thread: EventDispatcher.run and dispatch_events.             *)

DispatcherCheck ==
  /\ alive = "alive" /\ pc[Disp] = "check"
  /\ IF stopped THEN alive' = "dead" /\ UNCHANGED pc
     ELSE pc' = [pc EXCEPT ![Disp] = "get"] /\ UNCHANGED alive
  /\ UNCHANGED <<lock, obsVars, emVars, qVars, stopped, arg, hist, disp>>

DispatcherGet ==
  /\ pc[Disp] = "get" /\ queue # <<>>
  /\ QueueGet /\ UNCHANGED unfinished
  /\ pc' = [pc EXCEPT ![Disp] = "got"] /\ current' = Head(queue).item
  /\ UNCHANGED <<lock, obsVars, emVars, alive, stopped, arg, todo, running, hist>>

\* queue.Empty after the timeout of one second
DispatcherEmpty ==
  /\ pc[Disp] = "get" /\ queue = <<>>
  /\ pc' = [pc EXCEPT ![Disp] = "check"]
  /\ UNCHANGED <<lock, obsVars, emVars, qVars, alive, stopped, arg, disp, hist>>

\* the handlers of the watch are copied under the lock
DispatcherLock ==
  /\ pc[Disp] = "got" /\ lock = None
  /\ lock' = Disp
  /\ pc' = [pc EXCEPT ![Disp] = "each"]
  /\ todo' = handlers[current[2]]
  /\ UNCHANGED <<obsVars, emVars, qVars, alive, stopped, arg, current, running, hist>>

\* mutant: every handler of the copy is called
MutStillRegistered(h) == TRUE

StillRegistered(h) == h \in handlers[current[2]]

\* a handler of the copy is called when it is still registered; until it returns it
\* may call the observer itself
Dispatch(h) ==
  /\ pc[Disp] = "each" /\ running = None /\ h \in todo
  /\ todo' = todo \ {h}
  /\ running' = IF StillRegistered(h) THEN h ELSE None
  /\ UNCHANGED <<lock, obsVars, emVars, qVars, alive, stopped, pc, arg, current, hist>>

HandlerReturns ==
  /\ pc[Disp] = "each" /\ running # None
  /\ running' = None
  /\ UNCHANGED <<lock, obsVars, emVars, qVars, alive, stopped, pc, arg, current, todo, hist>>

\* an exception of the handler leaves the `with` and ends the thread
HandlerRaises ==
  /\ pc[Disp] = "each" /\ running # None
  /\ lock' = None /\ alive' = "dead" /\ pc' = [pc EXCEPT ![Disp] = "check"]
  /\ running' = None /\ todo' = {} /\ current' = None
  /\ UNCHANGED <<obsVars, emVars, qVars, stopped, arg, hist>>

TaskDone ==
  /\ pc[Disp] = "each" /\ running = None /\ todo = {}
  /\ lock' = None /\ unfinished' = unfinished - 1
  /\ pc' = [pc EXCEPT ![Disp] = "check"] /\ current' = None
  /\ UNCHANGED <<obsVars, emVars, queue, lastItem, alive, stopped, arg, todo, running, hist>>

-----------------------------------------------------------------------------
EmitterStep(e) == EmitterCheck(e) \/ QueueEventsReturns(e)
Emitting(e) == EmitterStep(e) \/ EmitterStopsItself(e) \/ \E ev \in Events : QueueEvent(e, ev)

CallReturns(t) ==
  \/ UnscheduleJoined(t) \/ UnscheduleAllJoined(t) \/ OnThreadStop(t) \/ StartThread(t) \/ StartFailed(t)
  \/ AllStopped(t)
  \/ \E e \in Emitters :
        StartEmitter(t, e) \/ StartEmitterFails(t, e) \/ StopOne(t, e) \/ JoinOne(t, e)

Call(t) ==
  \/ \E w \in Watches : Unschedule(t, w)
  \/ \E h \in Handlers, w \in Watches :
        Schedule(t, h, w) \/ AddHandlerForWatch(t, h, w) \/ RemoveHandlerForWatch(t, h, w)
  \/ UnscheduleAll(t) \/ Stop(t) \/ Start(t)

DispatcherStep ==
  \/ DispatcherCheck \/ DispatcherGet \/ DispatcherEmpty \/ DispatcherLock
  \/ (\E h \in Handlers : Dispatch(h)) \/ HandlerReturns \/ TaskDone

\* nothing is left to do: no thread is inside a call and no bound is open
Quiet == /\ \A t \in Apps : pc[t] = "idle"
         /\ \A e \in Emitters : est[e] \in {"unused", "new", "dead"}
         /\ alive # "alive" /\ UNCHANGED vars

Next ==
  \/ \E e \in Emitters : Emitting(e)
  \/ \E t \in Threads : Call(t) \/ CallReturns(t)
  \/ DispatcherStep \/ HandlerRaises
  \/ Quiet

\* every thread that can run is eventually scheduled; the lock is given to a thread
\* that keeps waiting for it; handlers return
Fairness ==
  /\ \A e \in Emitters : WF_vars(EmitterStep(e))
  /\ \A t \in Threads : SF_vars(CallReturns(t))
  /\ SF_vars(DispatcherStep)

Spec == Init /\ [][Next]_vars /\ Fairness

-----------------------------------------------------------------------------
(* Properties.                                                                 *)

\* A handler is called only while it is registered for the watch of the event, also
\* when another handler of the same dispatch, or another thread between the read
\* from the queue and the lock, has just removed it (the re-check in dispatch_events).
CallsOnlyRegistered ==
  [][\A h \in Handlers : running = None /\ running' = h
       => h \in handlers[current[2]] /\ lock = Disp]_vars

\* The queue forgets an event only while an equal one is the newest still waiting, so
\* no change of a file goes unnoticed: the queue of the code, with its _last_item,
\* implements the queue of DedupQueue.
Waiting == [i \in 1..Len(queue) |-> queue[i].item]
Abstract == INSTANCE DedupQueue WITH Items <- Item, waiting <- Waiting, calls <- puts
NoEventForgotten == Abstract!Spec

Stopping == stopped /\ alive = "alive"
Runs(e) == est[e] \in {"check", "work"}
Ended == /\ alive = "dead" /\ \A t \in Apps : pc[t] = "idle"
         /\ \A e \in Emitters : Runs(e) => e \in missed
=============================================================================
