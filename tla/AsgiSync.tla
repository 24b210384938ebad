------------------------------ MODULE AsgiSync ------------------------------
(* async_to_sync and sync_to_async of src/src/asgiref/sync.py with the executor    *)
(* of current_thread_executor.py and the Local of local.py. A frame is one call:    *)
(* a function in a thread or a coroutine in the task of an event loop. What the     *)
(* functions do is free: call into the other world, start tasks, await, return.     *)
EXTENDS Integers, Sequences, FiniteSets, SequencesExt

CONSTANTS
  MaxFrames,      \* bound: calls in one behaviour
  MaxSpawns,      \* bound: tasks started on the side
  MaxContexts     \* bound: tasks that enter a ThreadSensitiveContext

ASSUME CallAssumption == MaxFrames \in Nat \ {0} /\ {MaxSpawns, MaxContexts} \subseteq Nat

VARIABLES
  fr,         \* sequence of frames; a frame is its index
  stack,      \* thread -> sync frames on its stack, the running one last
  phase,      \* loop -> "none", "running", "gather" (its coroutine ended), "ending", "closed"
  q, broken,  \* work queues of the CurrentThreadExecutors, and those that quit
  pool,       \* queues of the single thread (0) and of the threads of contexts
  live,       \* contexts with a thread executor (context_to_thread_executor)
  cur,        \* AsyncToSync.executors.current: context object -> executor, 0: none
  a2s, s2a,   \* the launch maps: task -> thread, thread -> task
  main,       \* threadlocal.main_event_loop: thread -> loop, -1: none
  owned,      \* loop_thread_executors: loops that async_to_sync started
  odd         \* history of what can confuse the library, see SameThread and Returns

asgiVars == <<fr, stack, phase, q, broken, pool, live, cur, a2s, s2a, main, owned, odd>>

Ids == 1..MaxFrames
Loops == 0..MaxFrames       \* 0: the loop of an async program, else that of a call
Main == <<"main", 0>>
Threads == {Main, <<"single", 0>>} \cup ({"loop", "pool", "context"} \X Ids)
Task(n) == <<"task", n>>
NoThread == <<"none", 0>>
Objects == Threads \cup {Task(n) : n \in Ids}

\* above is history: the frames whose calls lead to this one, with it
Frame(kind, by, link, loop, thread, above) ==
  [kind |-> kind, by |-> by, link |-> link, loop |-> loop, thread |-> thread, above |-> above, sens |-> FALSE,
   st |-> "new", sub |-> 0, old |-> 0, set |-> FALSE, dead |-> FALSE, ctx |-> 0, used |-> FALSE, entered |-> 0]

\* an ordinary program, or one that is a coroutine
AsgiInit ==
  /\ \E async \in BOOLEAN :
       /\ fr = <<[Frame(IF async THEN "task" ELSE "sync", 0, "root", 0, Main, {1}) EXCEPT !.st = "run"]>>
       /\ stack = [t \in Threads |-> IF t = Main /\ ~async THEN <<1>> ELSE <<>>]
       /\ phase = [l \in Loops |-> IF l = 0 /\ async THEN "running" ELSE "none"]
  /\ q = [e \in Ids |-> <<>>] /\ broken = {} /\ pool = [c \in Loops |-> <<>>] /\ live = {}
  /\ cur = [o \in Objects |-> 0]
  /\ a2s = [n \in Ids |-> NoThread] /\ s2a = [t \in Threads |-> 0]
  /\ main = [t \in Threads |-> -1] /\ owned = {} /\ odd = {}

\* where the launch maps lead from an object of a context
Leads(o) == IF o[1] = "task" THEN a2s[o[2]] ELSE IF s2a[o] = 0 THEN NoThread ELSE Task(s2a[o])

\* _get_context_id: through both launch maps, as far as they lead
Resolve[k \in Nat] ==
  [o \in Objects |-> IF Leads(o) = NoThread THEN o ELSE IF k = 0 THEN NoThread ELSE Resolve[k - 1][Leads(o)]]

Context(n) == Resolve[2 * MaxFrames][IF fr[n].kind = "task" THEN Task(n) ELSE fr[n].thread]

Runs(l) == phase[l] \in {"running", "gather", "ending"}

\* the code of frame n may take a step
Running(n) ==
  /\ n \in DOMAIN fr /\ fr[n].st = "run"
  /\ IF fr[n].kind = "sync" THEN Last(stack[fr[n].thread]) = n
     ELSE /\ Runs(fr[n].loop)
          /\ ~\E m \in DOMAIN fr : fr[m].kind = "task" /\ fr[m].loop = fr[n].loop /\ fr[m].st = "block"

\* all the calls that lead to frame n are still going on, and none was cancelled
Attached(n) == \A m \in fr[n].above : fr[m].st # "done"
Intact(n) == Attached(n) /\ \A m \in fr[n].above : fr[m].kind = "task" => ~fr[m].set

\* history: the call of a function whose caller was cancelled
Orphan(n) == IF Intact(n) THEN {} ELSE {"orphan"}

-----------------------------------------------------------------------------
(* AsyncToSync *)

\* __init__ and the first half of __call__: the executor this frame will idle with is set;
\* a loop already chosen is used when it runs. force: force_new_loop, or made elsewhere.
Async_call(n, force) ==
  /\ Running(n) /\ fr[n].kind = "sync" /\ Len(fr) < MaxFrames
  /\ LET e == Len(fr) + 1
         loop == main[fr[n].thread]
         use == ~force /\ loop >= 0 /\ Runs(loop)
     IN  /\ fr' = Append([fr EXCEPT ![n].st = "sched", ![n].sub = e, ![n].old = cur[Context(n)]],
                         [Frame("task", n, "call", IF use THEN loop ELSE e, NoThread, fr[n].above \cup {e})
                            EXCEPT !.st = "wait", !.dead = fr[n].dead, !.ctx = fr[n].ctx])
         /\ cur' = [cur EXCEPT ![Context(n)] = e]
  /\ odd' = odd \cup Orphan(n)
  /\ UNCHANGED <<stack, phase, q, broken, pool, live, a2s, s2a, main, owned>>

\* the second half: a loop of its own in a new thread, or call_soon_threadsafe; on a loop
\* that closed in between that raises, and the call ends
Schedule(n) ==
  /\ n \in DOMAIN fr /\ fr[n].st = "sched"
  /\ LET e == fr[n].sub
         loop == fr[e].loop
     IN  \/ /\ loop = e
            /\ phase' = [phase EXCEPT ![e] = "running"] /\ owned' = owned \cup {e}
            /\ fr' = [fr EXCEPT ![n].st = "idle", ![e].st = "new"]
            /\ UNCHANGED <<q, odd>>
         \/ /\ loop # e /\ phase[loop] # "closed"
            /\ fr' = [fr EXCEPT ![n].st = "idle", ![e].st = "new"]
            /\ odd' = IF phase[loop] # "running" THEN odd \cup {"late"} ELSE odd
            /\ UNCHANGED <<phase, owned, q>>
         \/ /\ loop # e /\ phase[loop] = "closed"
            /\ fr' = [fr EXCEPT ![n].st = "idle", ![e].st = "done"]
            /\ q' = [q EXCEPT ![e] = Append(@, 0)]
            /\ UNCHANGED <<phase, owned, odd>>
  /\ UNCHANGED <<stack, broken, pool, live, cur, a2s, s2a, main>>

\* the executor of the outer call, if there was one
AfterCall(n) == fr[n].old

\* run_until_future gets the future: the executor quits, executors.current and the context
\* are put back
Async_return(n) ==
  /\ n \in DOMAIN fr /\ fr[n].st = "idle" /\ Last(stack[fr[n].thread]) = n
  /\ LET e == fr[n].sub
     IN  /\ q[e] # <<>> /\ Head(q[e]) = 0
         /\ q' = [q EXCEPT ![e] = Tail(@)] /\ broken' = broken \cup {e} /\ owned' = owned \ {e}
         /\ cur' = [cur EXCEPT ![Context(n)] = AfterCall(n)]
         /\ fr' = [fr EXCEPT ![n].st = "run", ![n].sub = 0, ![n].old = 0, ![n].dead = fr[e].dead]
         /\ odd' = odd \cup (IF Tail(q[e]) # <<>> THEN {"behind"} ELSE {})
  /\ UNCHANGED <<stack, phase, pool, live, a2s, s2a, main>>

\* main_wrap, and the start of any other task
TaskStart(n) ==
  /\ n \in DOMAIN fr /\ fr[n].kind = "task" /\ fr[n].st = "new"
  /\ Runs(fr[n].loop)
  /\ fr' = [fr EXCEPT ![n].st = "run"]
  /\ a2s' = IF fr[n].link = "call" THEN [a2s EXCEPT ![n] = fr[fr[n].by].thread] ELSE a2s
  /\ UNCHANGED <<stack, phase, q, broken, pool, live, cur, s2a, main, owned, odd>>

\* mutant: only the end of the loop tells, and this loop goes on
MutTold(S) == q

\* the futures that tell the callers of tasks S of a shared loop
Told(S) ==
  [e \in Ids |-> IF e \in S /\ fr[e].link = "call" /\ fr[e].loop # e THEN Append(q[e], 0) ELSE q[e]]

\* the coroutine returns or raises: the result is set, the launch map forgets it. The
\* coroutine a loop was started for ends the loop.
TaskEnd(n) ==
  /\ Running(n) /\ fr[n].kind = "task" /\ ~fr[n].used
  /\ fr' = [fr EXCEPT ![n].st = "done"] /\ q' = Told({n}) /\ a2s' = [a2s EXCEPT ![n] = NoThread]
  /\ phase' = IF fr[n].link = "root" \/ fr[n].loop = n
              THEN [phase EXCEPT ![fr[n].loop] = "gather"] ELSE phase
  /\ UNCHANGED <<stack, broken, pool, live, cur, s2a, main, owned, odd>>

\* _run_event_loop cancels the tasks that are left; what a cancelled task waited for goes on
\* in its thread, or is not begun. A task inside a context leaves it first. One that has not
\* begun never enters the try of main_wrap: nobody sets the result its caller waits for.
CancelAll(l) ==
  /\ phase[l] = "gather"
  /\ LET S == {n \in DOMAIN fr : fr[n].kind = "task" /\ fr[n].loop = l /\ fr[n].st \notin {"done", "wait"}}
         W == {m \in DOMAIN fr : fr[m].kind = "sync" /\ fr[m].by \in S /\ fr[m].st = "new"}
         inside == {n \in S : fr[n].used}
         unbegun == {n \in S : fr[n].st = "new"}
     IN  /\ \A n \in S : fr[n].st # "block"
         /\ fr' = [n \in DOMAIN fr |->
                     IF n \in inside THEN [fr[n] EXCEPT !.st = "run", !.sub = 0, !.set = TRUE]
                     ELSE IF n \in S \cup W THEN [fr[n] EXCEPT !.st = "done"] ELSE fr[n]]
         /\ q' = Told((S \ inside) \ unbegun)
         /\ a2s' = [n \in Ids |-> IF n \in S \ inside THEN NoThread ELSE a2s[n]]
         /\ odd' = odd \cup (IF \E n \in unbegun : fr[n].link = "call" THEN {"late"} ELSE {})
  /\ phase' = [phase EXCEPT ![l] = "ending"]
  /\ UNCHANGED <<stack, broken, pool, live, cur, s2a, main, owned>>

\* the loop is closed and its thread returns; a task that came after the cancelling stays
\* as it is
LoopClose(l) ==
  /\ phase[l] = "ending" /\ phase' = [phase EXCEPT ![l] = "closed"]
  /\ \A n \in DOMAIN fr : fr[n].kind = "task" /\ fr[n].loop = l /\ fr[n].set => fr[n].st = "done"
  /\ q' = IF l = 0 THEN q ELSE [q EXCEPT ![l] = Append(@, 0)]
  /\ odd' = odd \cup (IF \E n \in DOMAIN fr : fr[n].kind = "task" /\ fr[n].loop = l /\ fr[n].st # "done"
                      THEN {"late"} ELSE {})
  /\ UNCHANGED <<fr, stack, broken, pool, live, cur, a2s, s2a, main, owned>>

-----------------------------------------------------------------------------
(* SyncToAsync *)

\* mutant: the thread that idles for this call is not looked for
MutExecutor(n) ==
  IF fr[n].ctx # 0 THEN <<"context", fr[n].ctx>>
  ELSE IF fr[n].loop \in owned THEN <<"current", fr[n].loop>>
  ELSE IF fr[n].dead THEN <<"deadlock", 0>> ELSE <<"single", 0>>

\* where thread-sensitive code called from task n runs
Executor(n) ==
  IF cur[Context(n)] # 0 THEN <<"current", cur[Context(n)]>>
  ELSE IF fr[n].ctx # 0 THEN <<"context", fr[n].ctx>>
  ELSE IF fr[n].loop \in owned THEN <<"current", fr[n].loop>>
  ELSE IF fr[n].dead THEN <<"deadlock", 0>> ELSE <<"single", 0>>

\* the thread that works for an executor
WorkThread(x) == IF x[1] = "current" THEN fr[fr[x[2]].by].thread ELSE x

\* a task in which sensitive code runs that was not called by, but started from, another
Started(n) == fr[n].link = "spawn"

\* __call__ up to the await: refused when it would deadlock or the executor has quit
Sync_call(n, sens) ==
  /\ Running(n) /\ fr[n].kind = "task" /\ Len(fr) < MaxFrames
  /\ LET m == Len(fr) + 1
         x == IF sens THEN Executor(n) ELSE <<"pool", m>>
         dead == fr[n].dead \/ x[1] = "single"
     IN  /\ x[1] # "deadlock" /\ ~(x[1] = "current" /\ x[2] \in broken)
         /\ fr' = Append([fr EXCEPT ![n].st = "await", ![n].sub = m, ![n].dead = dead],
                         [Frame("sync", n, "call", fr[n].loop, WorkThread(x), fr[n].above \cup {m})
                            EXCEPT !.sens = sens, !.dead = dead, !.ctx = fr[n].ctx])
         /\ q' = IF x[1] = "current" THEN [q EXCEPT ![x[2]] = Append(@, m)] ELSE q
         /\ pool' = CASE x[1] = "single"  -> [pool EXCEPT ![0] = Append(@, m)]
                      [] x[1] = "context" -> [pool EXCEPT ![x[2]] = Append(@, m)]
                      [] OTHER -> pool
         /\ live' = IF x[1] = "context" THEN live \cup {x[2]} ELSE live
         /\ odd' = odd \cup Orphan(n) \cup (IF sens /\ Started(n) THEN {"spawned"} ELSE {})
  /\ UNCHANGED <<stack, phase, broken, cur, a2s, s2a, main, owned>>

\* mutant: the launch map is set even for the thread the task came from
MutLaunches(m) == TRUE

\* the task was not launched from this very thread
Launches(m) == a2s[fr[m].by] # fr[m].thread

\* thread_handler: the loop for calls back, and the launch map unless the task was
\* launched from this very thread
Handle(m) ==
  /\ stack' = [stack EXCEPT ![fr[m].thread] = Append(@, m)]
  /\ main' = [main EXCEPT ![fr[m].thread] = fr[m].loop]
  /\ LET set == Launches(m)
     IN  /\ fr' = [fr EXCEPT ![m].st = "run", ![m].set = set]
         /\ s2a' = IF set THEN [s2a EXCEPT ![fr[m].thread] = fr[m].by] ELSE s2a

Skip == UNCHANGED <<stack, main, fr, s2a>>

\* a work item of the thread that idles in frame n; one whose future is cancelled is passed
RunItem(n) ==
  /\ n \in DOMAIN fr /\ fr[n].st = "idle" /\ Last(stack[fr[n].thread]) = n
  /\ LET e == fr[n].sub IN
       /\ q[e] # <<>> /\ Head(q[e]) # 0
       /\ IF fr[Head(q[e])].st = "new" THEN Handle(Head(q[e])) ELSE Skip
       /\ q' = [q EXCEPT ![e] = Tail(@)]
  /\ UNCHANGED <<phase, broken, pool, live, cur, a2s, owned, odd>>

PoolThread(c) == IF c = 0 THEN <<"single", 0>> ELSE <<"context", c>>

\* ThreadPoolExecutor(max_workers=1), external: one after the other
RunPooled(c) ==
  /\ pool[c] # <<>> /\ stack[PoolThread(c)] = <<>>
  /\ IF fr[Head(pool[c])].st = "new" THEN Handle(Head(pool[c])) ELSE Skip
  /\ pool' = [pool EXCEPT ![c] = Tail(@)]
  /\ UNCHANGED <<phase, q, broken, live, cur, a2s, owned, odd>>

\* the default executor of the loop, external: a thread for each
RunDefault(m) ==
  /\ m \in DOMAIN fr /\ fr[m].kind = "sync" /\ fr[m].st = "new" /\ fr[m].thread = <<"pool", m>>
  /\ Handle(m)
  /\ UNCHANGED <<phase, q, broken, pool, live, cur, a2s, owned, odd>>

\* the function returns: the launch map forgets it, and the task goes on, unless cancelled
Sync_return(m) ==
  /\ Running(m) /\ fr[m].kind = "sync"
  /\ stack' = [stack EXCEPT ![fr[m].thread] = Front(@)]
  /\ s2a' = IF fr[m].set THEN [s2a EXCEPT ![fr[m].thread] = 0] ELSE s2a
  /\ LET n == fr[m].by
         done == [fr EXCEPT ![m].st = "done"]
     IN  fr' = IF n > 0 /\ fr[n].st = "await" /\ fr[n].sub = m
               THEN [done EXCEPT ![n].st = "run", ![n].sub = 0, ![n].dead = FALSE]
               ELSE done
  /\ UNCHANGED <<phase, q, broken, pool, live, cur, a2s, main, owned, odd>>

-----------------------------------------------------------------------------
(* Tasks and contexts *)

\* asyncio.create_task, external: the context is copied
Spawn(n) ==
  /\ Running(n) /\ fr[n].kind = "task" /\ Len(fr) < MaxFrames
  /\ Cardinality({m \in DOMAIN fr : fr[m].link = "spawn"}) < MaxSpawns
  /\ fr' = Append([fr EXCEPT ![n].sub = Len(fr) + 1],
                  [Frame("task", n, "spawn", fr[n].loop, NoThread, {Len(fr) + 1})
                     EXCEPT !.dead = fr[n].dead, !.ctx = fr[n].ctx])
  /\ UNCHANGED <<stack, phase, q, broken, pool, live, cur, a2s, s2a, main, owned, odd>>

\* await of a task that was started, external
Join(n) ==
  /\ n \in DOMAIN fr /\ fr[n].kind = "task"
  /\ \/ /\ Running(n) /\ fr[n].sub # 0 /\ fr[fr[n].sub].link = "spawn"
        /\ fr' = [fr EXCEPT ![n].st = "join"]
     \/ /\ fr[n].st = "join" /\ fr[fr[n].sub].st = "done"
        /\ fr' = [fr EXCEPT ![n].st = "run", ![n].sub = 0]
  /\ UNCHANGED <<stack, phase, q, broken, pool, live, cur, a2s, s2a, main, owned, odd>>

\* ThreadSensitiveContext.__aenter__: only the outermost sets the context
EnterContext(n) ==
  /\ Running(n) /\ fr[n].kind = "task" /\ fr[n].ctx = 0 /\ fr[n].entered = 0
  /\ Cardinality({m \in DOMAIN fr : fr[m].entered = 1}) < MaxContexts
  /\ fr' = [fr EXCEPT ![n].ctx = n, ![n].used = TRUE, ![n].entered = 1]
  /\ UNCHANGED <<stack, phase, q, broken, pool, live, cur, a2s, s2a, main, owned, odd>>

\* __aexit__: executor.shutdown() waits for its thread, and the loop with it
ExitContext(n) ==
  /\ Running(n) /\ fr[n].used
  /\ IF n \in live THEN fr' = [fr EXCEPT ![n].st = "block"]
     ELSE fr' = [fr EXCEPT ![n].ctx = 0, ![n].used = FALSE]
  /\ live' = live \ {n}
  /\ odd' = odd \cup (IF pool[n] # <<>> \/ stack[<<"context", n>>] # <<>> THEN {"exit"} ELSE {})
  /\ UNCHANGED <<stack, phase, q, broken, pool, cur, a2s, s2a, main, owned>>

ShutdownDone(n) ==
  /\ n \in DOMAIN fr /\ fr[n].st = "block" /\ pool[n] = <<>> /\ stack[<<"context", n>>] = <<>>
  /\ fr' = [fr EXCEPT ![n].st = "run", ![n].ctx = 0, ![n].used = FALSE]
  /\ UNCHANGED <<stack, phase, q, broken, pool, live, cur, a2s, s2a, main, owned, odd>>

AsgiStep ==
  \/ \E n \in Ids :
       \/ \E b \in BOOLEAN : Async_call(n, b) \/ Sync_call(n, b)
       \/ Schedule(n) \/ Async_return(n) \/ TaskStart(n) \/ TaskEnd(n)
       \/ RunItem(n) \/ RunDefault(n) \/ Sync_return(n)
       \/ Spawn(n) \/ Join(n) \/ EnterContext(n) \/ ExitContext(n) \/ ShutdownDone(n)
  \/ \E l \in Loops : CancelAll(l) \/ LoopClose(l) \/ RunPooled(l)

AsgiSpec == AsgiInit /\ [][AsgiStep]_asgiVars

-----------------------------------------------------------------------------
\* the root of the calls that lead to frame n
RootFrame(n) == CHOOSE m \in fr[n].above : fr[m].link # "call"
Root(n) == IF fr[RootFrame(n)].kind = "task" THEN Task(RootFrame(n)) ELSE fr[RootFrame(n)].thread

\* the functions further up in the calls that lead to frame n; the next is the last of them
Outer(n) == {m \in fr[n].above \ {n} : fr[m].kind = "sync"}

Calm == odd \cap {"spawned", "orphan"} = {}

\* Thread-sensitive code runs in the thread of the function that the calls above it come
\* from, however the calls are nested, with the exceptions of LocalsFollow.
SameThread ==
  Calm => \A n \in DOMAIN fr : \A m \in Outer(n) :
    fr[n].sens /\ (\A k \in Outer(n) : k <= m) => fr[n].thread = fr[m].thread

\* A call shares its locals with its caller and with nobody else, as long as no task that
\* was started on the side runs thread-sensitive code in a thread that waits for a call, and
\* no function calls on after the task that called it, or one further up, was cancelled:
\* it has lost them, and its thread-sensitive code may use the thread of somebody else.
LocalsFollow == Calm => \A n \in DOMAIN fr : Running(n) /\ Attached(n) => Context(n) = Root(n)

AllDone == \A n \in DOMAIN fr : fr[n].st = "done"

\* Every call comes back, unless a loop was shut down under a call into it that had not begun
\* ("late": a task cancelled before its first step sets no result, one added after the
\* cancelling is never run), work came behind the end of the call whose thread was to do it
\* ("behind"), a context was left while its thread worked ("exit"), or a task started on the
\* side used the single thread or one that waits ("spawned").
Returns == <>(odd \ {"orphan"} # {} \/ AllDone)
=============================================================================
