----------------------------- MODULE AsgiServer -----------------------------
(* The instance table of StatelessServer (src/src/asgiref/server.py), and the test  *)
(* communicator with its timeouts (testing.py, timeout.py). Each runs in one event   *)
(* loop: a step goes from one await to the next.                                    *)
EXTENDS Naturals, Sequences, FiniteSets, SequencesExt

CONSTANTS
  Scopes,
  MaxApplications,   \* max_applications
  MaxFutures,        \* bound: applications started
  MaxClock,          \* bound: time.time() as far as it tells calls apart
  MaxOut,            \* bound: messages of the tested application
  MaxTests           \* bound: operations of the communicator

ASSUME ServerAssumption == {MaxApplications, MaxFutures, MaxClock} \subseteq Nat

VARIABLES
  table,      \* application_instances: sequence of [scope, fut, used], in dict order
  future,     \* sequence: state of each application's future
  clock,
  scan,       \* what application_checker still goes through
  handling,   \* the details whose exception is being handled, 0: none
  checker,    \* "run", or "dead" by a CancelledError
  overtaken,  \* history: applications started while an exception was handled
  app, out,   \* the tested application's future and its output queue
  op,         \* what the tester waits in: "idle", "receive", "wait", "drain"
  timer,      \* "none", "set" (call_at), "soon" (call_soon: has no handle)
  task, expired,  \* timeout._task is set; timeout._cancelled
  must,       \* who cancelled the tester's task
  result, tests

serverVars == <<table, future, clock, scan, handling, checker, overtaken>>
testVars == <<app, out, op, timer, task, expired, must, result, tests>>

ServerInit ==
  /\ table = <<>> /\ future = <<>> /\ clock = 0 /\ scan = <<>> /\ handling = 0
  /\ checker = "run" /\ overtaken = {}

TestInit ==
  /\ app = "run" /\ out = 0 /\ op = "idle" /\ timer = "none" /\ task = FALSE
  /\ expired = FALSE /\ must = {} /\ result = "none" /\ tests = 0

-----------------------------------------------------------------------------
(* StatelessServer *)

Over(f) == future[f] \in {"done", "error", "cancelled"}

\* mutant: forgotten, and not stopped
MutStopped(fs, f) == fs

\* delete_application_instance: what has not ended is cancelled
Stopped(fs, f) == IF Over(f) THEN fs ELSE [fs EXCEPT ![f] = "stop"]

\* where the first entry with the smallest last_used is
Oldest(t) == {i \in DOMAIN t : /\ \A j \in DOMAIN t : t[i].used <= t[j].used
                             /\ \A j \in 1..(i - 1) : t[j].used > t[i].used}

\* delete_oldest_application_instance, while there are too many: there never is more
\* than one too many (ServerInvariant), so the loop ends after its first round
Reclaim(t, fs) ==
  IF Len(t) <= MaxApplications THEN {<<t, fs>>}
  ELSE {<<RemoveAt(t, i), Stopped(fs, t[i].fut)>> : i \in Oldest(t)}

\* nothing else runs while the checker does, but for the time it awaits
Free == scan = <<>> \/ handling # 0

InTable(s) == {i \in DOMAIN table : table[i].scope = s}

\* get_or_create_application_instance
GetOrCreate(s) ==
  /\ Free
  /\ \/ /\ InTable(s) # {}
        /\ table' = [i \in DOMAIN table |->
             IF i \in InTable(s) THEN [table[i] EXCEPT !.used = clock] ELSE table[i]]
        /\ UNCHANGED <<future, overtaken>>
     \/ /\ InTable(s) = {} /\ Len(future) < MaxFutures
        /\ \E r \in Reclaim(table, future) :
             /\ future' = Append(r[2], "run")
             /\ table' = Append(r[1], [scope |-> s, fut |-> Len(future) + 1, used |-> clock])
        /\ overtaken' = (IF handling = 0 THEN overtaken ELSE overtaken \cup {Len(future) + 1})
  /\ UNCHANGED <<clock, scan, handling, checker>>

\* an application ends by itself, in one of three ways, or of its cancellation
AppEnds(f) ==
  /\ Free /\ f \in DOMAIN future
  /\ \/ future[f] = "run" /\ \E r \in {"done", "error", "cancelled"} : future' = [future EXCEPT ![f] = r]
     \/ future[f] = "stop" /\ \E r \in {"error", "cancelled"} : future' = [future EXCEPT ![f] = r]
  /\ UNCHANGED <<table, clock, scan, handling, checker, overtaken>>

\* del of a key, if it is one
Without(t, s) ==
  IF \E i \in DOMAIN t : t[i].scope = s
  THEN RemoveAt(t, CHOOSE i \in DOMAIN t : t[i].scope = s) ELSE t

\* application_checker after its sleep: a copy of the table
CheckBegin ==
  /\ checker = "run" /\ scan = <<>> /\ handling = 0 /\ table # <<>>
  /\ scan' = table /\ UNCHANGED <<table, future, clock, handling, checker, overtaken>>

\* one entry of the copy: exception() of a cancelled future raises, and the checker is no
\* more; an error is handed to application_exception, which may take its time
CheckStep ==
  /\ checker = "run" /\ scan # <<>> /\ handling = 0
  /\ LET e == Head(scan) IN
       \/ /\ ~Over(e.fut) /\ scan' = Tail(scan) /\ UNCHANGED <<table, handling, checker>>
       \/ /\ future[e.fut] = "done" /\ scan' = Tail(scan)
          /\ table' = Without(table, e.scope) /\ UNCHANGED <<handling, checker>>
       \/ /\ future[e.fut] = "error" /\ handling' = e.fut /\ UNCHANGED <<table, scan, checker>>
       \/ /\ future[e.fut] = "cancelled" /\ checker' = "dead" /\ UNCHANGED <<table, scan, handling>>
  /\ UNCHANGED <<future, clock, overtaken>>

\* back from application_exception: whatever the scope holds by now goes
Handled ==
  /\ handling # 0 /\ handling' = 0 /\ scan' = Tail(scan)
  /\ table' = Without(table, Head(scan).scope)
  /\ UNCHANGED <<future, clock, checker, overtaken>>

Tick ==
  /\ clock < MaxClock /\ clock' = clock + 1
  /\ UNCHANGED <<table, future, scan, handling, checker, overtaken>>

ServerStep ==
  \/ \E s \in Scopes : GetOrCreate(s)
  \/ \E f \in 1..MaxFutures : AppEnds(f)
  \/ CheckBegin \/ CheckStep \/ Handled \/ Tick

ServerSpec == ServerInit /\ [][ServerStep]_serverVars

-----------------------------------------------------------------------------
(* timeout and ApplicationCommunicator *)

AppOver == app \in {"done", "error", "cancelled"}

\* what future.result() gives
Outcome == CASE app = "error" -> "error" [] app = "cancelled" -> "cancelled" [] OTHER -> "ok"

\* _do_enter, for a timeout of None, of nothing, or of some time
Enter(limit) ==
  /\ timer' = CASE limit = "none" -> timer [] limit = "zero" -> "soon" [] OTHER -> "set"
  /\ task' = (limit # "none") /\ expired' = FALSE

\* mutant: _do_exit cancels the handle, if there is one, and that is all
MutExit == timer' = (IF timer = "set" THEN "none" ELSE timer) /\ UNCHANGED <<task, expired>>

\* _do_exit: a handle is cancelled; the callback that has none finds no task
Exit == timer' = (IF timer = "set" THEN "none" ELSE timer) /\ task' = FALSE /\ UNCHANGED expired

\* receive_output: an error of the application first
receive_output(limit) ==
  /\ op = "idle" /\ tests < MaxTests /\ tests' = tests + 1
  /\ \/ /\ AppOver /\ Outcome # "ok" /\ result' = Outcome
        /\ UNCHANGED <<op, timer, task, expired>>
     \/ /\ ~(AppOver /\ Outcome # "ok") /\ Enter(limit) /\ op' = "receive" /\ result' = "none"
  /\ UNCHANGED <<app, out, must>>

\* wait
WaitForEnd(limit) ==
  /\ op = "idle" /\ tests < MaxTests /\ tests' = tests + 1
  /\ Enter(limit) /\ op' = "wait" /\ result' = "none"
  /\ UNCHANGED <<app, out, must>>

\* _cancel_task; to cancel a task that awaits the future is to cancel the future
TimerFires ==
  /\ timer # "none" /\ timer' = "none"
  /\ must' = (IF task THEN must \cup {"timer"} ELSE must) /\ expired' = (expired \/ task)
  /\ UNCHANGED <<app, out, op, task, result, tests>>

\* somebody else cancels the tester
Outside ==
  /\ op # "idle" /\ "outside" \notin must /\ must' = must \cup {"outside"}
  /\ UNCHANGED <<app, out, op, timer, task, expired, result, tests>>

Received ==
  /\ op = "receive" /\ must = {} /\ out > 0 /\ out' = out - 1
  /\ Exit /\ op' = "idle" /\ result' = "message"
  /\ UNCHANGED <<app, must, tests>>

\* the cancellation arrives in receive_output: a timeout if the timer ran out, even if
\* somebody else cancelled too; then the application is stopped, or its error raised
ReceiveCancelled ==
  /\ op = "receive" /\ must # {} /\ must' = {} /\ Exit
  /\ \/ /\ ~expired /\ op' = "idle" /\ result' = "cancelled" /\ UNCHANGED app
     \/ /\ expired /\ AppOver /\ op' = "idle"
        /\ result' = (IF Outcome = "ok" THEN "timeout" ELSE Outcome) /\ UNCHANGED app
     \/ /\ expired /\ ~AppOver /\ app' = "stop" /\ op' = "drain" /\ UNCHANGED result
  /\ UNCHANGED <<out, tests>>

\* the application has ended after the timeout; a cancellation that comes after that hides
\* its error
Drained ==
  /\ op = "drain" /\ AppOver /\ must' = {} /\ op' = "idle"
  /\ result' = (IF must = {} /\ app = "error" THEN "error" ELSE "timeout")
  /\ UNCHANGED <<app, out, timer, task, expired, tests>>

\* cancelled while it awaits the application: that is cancelled, and its end awaited
WaitCancelled ==
  /\ op \in {"wait", "drain"} /\ must # {} /\ ~AppOver /\ must' = {} /\ app' = "stop"
  /\ UNCHANGED <<out, op, timer, task, expired, result, tests>>

\* wait returns, whether the application ended or was stopped
Waited ==
  /\ op = "wait" /\ AppOver /\ Exit /\ op' = "idle" /\ must' = {}
  /\ result' = (IF app = "error" /\ must = {} THEN "error" ELSE "ok")
  /\ UNCHANGED <<app, out, tests>>

\* stop
StopApp ==
  /\ op = "idle" /\ tests < MaxTests /\ tests' = tests + 1
  /\ IF AppOver THEN result' = Outcome /\ UNCHANGED app ELSE app' = "stop" /\ UNCHANGED result
  /\ UNCHANGED <<out, op, timer, task, expired, must>>

\* the tested application: sends, ends, ends of its cancellation, or goes on in spite of it
TestedApp ==
  /\ \/ app = "run" /\ out < MaxOut /\ out' = out + 1 /\ UNCHANGED app
     \/ app = "run" /\ app' \in {"done", "error"} /\ UNCHANGED out
     \/ app = "stop" /\ app' \in {"cancelled", "error", "done", "run"} /\ UNCHANGED out
  /\ UNCHANGED <<op, timer, task, expired, must, result, tests>>

TestStep ==
  \/ \E l \in {"none", "zero", "some"} : receive_output(l) \/ WaitForEnd(l)
  \/ TimerFires \/ Outside \/ Received \/ ReceiveCancelled \/ Drained
  \/ WaitCancelled \/ Waited \/ StopApp \/ TestedApp

TestSpec == TestInit /\ [][TestStep]_testVars

-----------------------------------------------------------------------------
\* The types of the server's state.
Details == [scope : Scopes, fut : 1..MaxFutures, used : 0..MaxClock]
States == {"run", "stop", "done", "error", "cancelled"}

ServerTypeOK ==
  /\ table \in Seq(Details) /\ scan \in Seq(Details)
  /\ future \in Seq(States)
  /\ clock \in 0..MaxClock /\ handling \in 0..MaxFutures
  /\ checker \in {"run", "dead"} /\ overtaken \subseteq 1..MaxFutures

\* An application that runs is in the table, so that its scope finds it and the limit
\* counts it, unless it was started while the checker was in application_exception.
RunningIsKept ==
  \A f \in DOMAIN future : future[f] = "run" /\ f \notin overtaken =>
     \E i \in DOMAIN table : table[i].fut = f

OneScope(t) == \A i, j \in DOMAIN t : t[i].scope = t[j].scope => i = j

\* Why: what the checker deletes by its scope is what it has seen under that scope, but
\* for what was started meanwhile, and that has ended.
ServerInvariant ==
  /\ Len(table) <= MaxApplications + 1
  /\ \A i \in DOMAIN table : table[i].fut \in DOMAIN future
  /\ \A i \in DOMAIN scan : scan[i].fut \in DOMAIN future
  /\ OneScope(table)
  /\ handling # 0 => scan # <<>> /\ future[Head(scan).fut] = "error"
  /\ \A i \in DOMAIN scan, j \in DOMAIN table : scan[i].scope = table[j].scope =>
        table[j].fut = scan[i].fut \/ table[j].fut \in overtaken
  /\ RunningIsKept

\* The timer of a timeout never cancels the task once the block is left, with or without
\* a handle to stop it by.
NoStrayCancel == op = "idle" => "timer" \notin must

\* Why: _task is set in the block only, and every way out of a call takes the cancellation.
TestInvariant ==
  /\ task => op \in {"receive", "wait"}
  /\ op = "idle" => must = {}
=============================================================================
