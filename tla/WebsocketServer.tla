--------------------------- MODULE WebsocketServer ---------------------------
(* src/src/websocket_server.py: a thread for each connection (handle), a thread of *)
(* the program that sends to all clients, and one that shuts the server down, over  *)
(* the list of clients that nothing locks. A for loop over the list keeps an index. *)
EXTENDS Naturals, Sequences, FiniteSets, SequencesExt

CONSTANTS
  MaxHandlers,    \* bound: connections, numbered as their handshakes come
  MaxSends,       \* bound: calls of send_message_to_all
  MaxReads        \* bound: frames the clients send

ASSUME WsAssumption == {MaxHandlers, MaxSends, MaxReads} \subseteq Nat

VARIABLES
  hs,          \* handler -> where its thread is
  alive, conn, \* handler -> keep_alive; the connection is open
  clients,     \* the list: handlers in the order they came
  look,        \* <<finisher, handler>> -> the index of handler_to_client's loop
  found,       \* <<finisher, handler>> -> the client it looked up is there
  cast,        \* the multicast: [pc, i, all, got, removed]
  down,        \* the shutdown: [pc, i], with the one it finishes, or who is left at the end
  sends, reads     \* bound counters

wsVars == <<hs, alive, conn, clients, look, found, cast, down, sends, reads>>

Handlers == 1..MaxHandlers
Finishers == {"own", "down"}    \* who calls finish(): the handler's thread, the shutdown

WsInit ==
  /\ hs = [h \in Handlers |-> "new"] /\ alive = [h \in Handlers |-> TRUE]
  /\ conn = [h \in Handlers |-> TRUE] /\ clients = <<>>
  /\ look = [x \in Finishers \X Handlers |-> 1] /\ found = [x \in Finishers \X Handlers |-> FALSE]
  /\ cast = [pc |-> "idle", i |-> 1, all |-> {}, got |-> {}, removed |-> 0]
  /\ down = [pc |-> "no", i |-> 1] /\ sends = 0 /\ reads = 0

InList(h) == Contains(clients, h)

-----------------------------------------------------------------------------
(* A connection *)

\* setup and handshake: refused without upgrade or key, or of an exception; else the
\* answer goes out
Handshake(h) ==
  /\ hs[h] = "new" /\ (\A g \in 1..(h - 1) : hs[g] # "new") /\ down.pc # "done"
  /\ \/ hs' = [hs EXCEPT ![h] = "append"] /\ UNCHANGED alive
     \/ hs' = [hs EXCEPT ![h] = "lookup"] /\ alive' = [alive EXCEPT ![h] = FALSE]
  /\ UNCHANGED <<conn, clients, look, found, cast, down, sends, reads>>

\* _new_client_, without the id, which nothing here looks at
Listed(h) ==
  /\ hs[h] = "append" /\ clients' = Append(clients, h)
  /\ hs' = [hs EXCEPT ![h] = "read"]
  /\ UNCHANGED <<alive, conn, look, found, cast, down, sends, reads>>

\* read_next_message: text is handed over and a ping answered at once, a pong and what is not supported passed over; close, no mask, an unknown code or no data end the loop,
\* an exception the thread's work
ReadFrame(h) ==
  /\ hs[h] = "read" /\ alive[h] /\ conn[h] /\ reads < MaxReads /\ reads' = reads + 1
  /\ \/ UNCHANGED <<alive, hs>>
     \/ alive' = [alive EXCEPT ![h] = FALSE] /\ UNCHANGED hs
     \/ hs' = [hs EXCEPT ![h] = "lookup"] /\ UNCHANGED alive
  /\ UNCHANGED <<conn, clients, look, found, cast, down, sends>>

\* the loop of handle ends: keep_alive is off, or the connection was closed and reads fail
LoopEnds(h) ==
  /\ hs[h] = "read" /\ (~alive[h] \/ ~conn[h]) /\ hs' = [hs EXCEPT ![h] = "lookup"]
  /\ UNCHANGED <<alive, conn, clients, look, found, cast, down, sends, reads>>

-----------------------------------------------------------------------------
(* finish: _client_left_ *)

\* the loop of handler_to_client is over: at its client, or at the end of the list
Looked(who, h) == look[<<who, h>>] > Len(clients) \/ clients[look[<<who, h>>]] = h

\* handler_to_client, one turn of its loop, and the callback after the last. When a client
\* further up leaves meanwhile the loop skips one, and may not find its own.
LookUp(who, h) ==
  IF Looked(who, h)
  THEN /\ found' = [found EXCEPT ![<<who, h>>] = look[<<who, h>>] <= Len(clients)]
       /\ look' = [look EXCEPT ![<<who, h>>] = 1]
  ELSE look' = [look EXCEPT ![<<who, h>>] = @ + 1] /\ UNCHANGED found

\* `client in self.clients`
Removes(who, h) == found[<<who, h>>] /\ InList(h)

\* where the client is in the list: it is appended once
Place(h) == CHOOSE i \in DOMAIN clients : clients[i] = h

TakeOut(who, h) ==
  /\ clients' = IF Removes(who, h) THEN RemoveAt(clients, Place(h)) ELSE clients
  /\ found' = [found EXCEPT ![<<who, h>>] = FALSE]
  /\ cast' = IF Removes(who, h) /\ cast.pc = "go" THEN [cast EXCEPT !.removed = @ + 1] ELSE cast

Finish1(h) ==
  /\ hs[h] = "lookup" /\ LookUp("own", h)
  /\ hs' = IF Looked("own", h) THEN [hs EXCEPT ![h] = "remove"] ELSE hs
  /\ UNCHANGED <<alive, conn, clients, cast, down, sends, reads>>

\* and socketserver closes the connection
Finish2(h) ==
  /\ hs[h] = "remove" /\ hs' = [hs EXCEPT ![h] = "ended"] /\ TakeOut("own", h)
  /\ conn' = [conn EXCEPT ![h] = FALSE]
  /\ UNCHANGED <<alive, look, down, sends, reads>>

-----------------------------------------------------------------------------
(* send_message_to_all *)

CastBegin ==
  /\ cast.pc # "go" /\ sends < MaxSends /\ sends' = sends + 1
  /\ cast' = [pc |-> "go", i |-> 1, all |-> Range(clients),
              got |-> {}, removed |-> 0]
  /\ UNCHANGED <<hs, alive, conn, clients, look, found, down, reads>>

\* mutant: the last client is left out
MutMore == cast.i < Len(clients)

More == cast.i <= Len(clients)

\* the next client by index; a connection that is closed here, or that the client has reset,
\* makes send raise, and the rest of the clients get nothing
CastStep ==
  /\ cast.pc = "go"
  /\ \/ ~More /\ cast' = [cast EXCEPT !.pc = "sent"]
     \/ /\ More /\ conn[clients[cast.i]]
        /\ cast' = [cast EXCEPT !.i = @ + 1, !.got = @ \cup {clients[cast.i]}]
     \/ More /\ cast' = [cast EXCEPT !.pc = "raised"]
  /\ UNCHANGED <<hs, alive, conn, clients, look, found, down, sends, reads>>

-----------------------------------------------------------------------------
(* shutdown_gracefully, and shutdown_abruptly that sends no CLOSE *)

Shutdown ==
  /\ down.pc = "no" /\ down' \in [pc : {"close", "alive"}, i : {1}]
  /\ UNCHANGED <<hs, alive, conn, clients, look, found, cast, sends, reads>>

\* send_close to each; a connection closed on one side ends the shutdown with an exception
SendClose ==
  /\ down.pc = "close"
  /\ \/ down.i > Len(clients) /\ down' = [pc |-> "alive", i |-> 1]
     \/ /\ down.i <= Len(clients) /\ conn[clients[down.i]]
        /\ down' = [down EXCEPT !.i = @ + 1]
     \/ down.i <= Len(clients) /\ down' = [down EXCEPT !.pc = "raised"]
  /\ UNCHANGED <<hs, alive, conn, clients, look, found, cast, sends, reads>>

\* _terminate_client_handlers: keep_alive off, finish(), connection closed. finish() takes
\* the client out of the list the loop goes through. When the handler's own thread takes
\* it out between the `in` and the remove of _client_left_, that is a ValueError.
Terminate ==
  /\ down.pc = "alive"
  /\ IF down.i > Len(clients) THEN down' = [pc |-> "done", left |-> Range(clients)] /\ UNCHANGED alive
     ELSE LET h == clients[down.i] IN
          /\ alive' = [alive EXCEPT ![h] = FALSE]
          /\ down' = [pc |-> "look", i |-> down.i + 1, h |-> h]
  /\ UNCHANGED <<hs, conn, clients, look, found, cast, sends, reads>>

TerminateLook(h) ==
  /\ down.pc = "look" /\ down.h = h /\ LookUp("down", h)
  /\ down' = IF Looked("down", h) THEN [down EXCEPT !.pc = "one"] ELSE down
  /\ UNCHANGED <<hs, alive, conn, clients, cast, sends, reads>>

Terminated(h) ==
  /\ down.pc = "one" /\ down.h = h /\ TakeOut("down", h)
  /\ \/ conn' = [conn EXCEPT ![h] = FALSE] /\ down' = [pc |-> "alive", i |-> down.i]
     \/ /\ found[<<"down", h>>] /\ ~InList(h)
        /\ down' = [pc |-> "raised", i |-> down.i] /\ UNCHANGED conn
  /\ UNCHANGED <<hs, alive, look, sends, reads>>

HandlerStep(h) ==
  \/ Handshake(h) \/ Listed(h) \/ ReadFrame(h)
  \/ LoopEnds(h) \/ Finish1(h) \/ Finish2(h) \/ TerminateLook(h) \/ Terminated(h)

WsStep ==
  \/ \E h \in Handlers : HandlerStep(h)
  \/ CastBegin \/ CastStep \/ Shutdown \/ SendClose \/ Terminate

WsSpec == WsInit /\ [][WsStep]_wsVars

-----------------------------------------------------------------------------
\* The types of the state.
Casts == [pc : {"idle", "go", "sent", "raised"}, i : Nat \ {0}, all : SUBSET Handlers,
          got : SUBSET Handlers, removed : Nat]

WsTypeOK ==
  /\ hs \in [Handlers -> {"new", "append", "read", "lookup", "remove", "ended"}]
  /\ alive \in [Handlers -> BOOLEAN] /\ conn \in [Handlers -> BOOLEAN]
  /\ clients \in Seq(Handlers)
  /\ look \in [Finishers \X Handlers -> Nat \ {0}] /\ found \in [Finishers \X Handlers -> BOOLEAN]
  /\ cast \in Casts
  /\ down \in [pc : {"no", "close", "alive", "raised"}, i : Nat \ {0}]
             \cup [pc : {"look", "one"}, i : Nat \ {0}, h : Handlers]
             \cup [pc : {"done"}, left : SUBSET Handlers]
  /\ sends \in 0..MaxSends /\ reads \in 0..MaxReads

\* A message to all reaches every client that is in the list before and after, except for
\* as many as have left it in the meantime, for each of which the loop skips one.
Missed == {h \in cast.all \ cast.got : InList(h)}
ReachesAll == cast.pc = "sent" => Cardinality(Missed) <= cast.removed

\* Why: those are the clients the loop's index has passed without sending. Nobody comes
\* into the list a second time.
Skipped == {h \in cast.all \ cast.got :
              \E i \in 1..Len(clients) : i < cast.i /\ clients[i] = h}

CastInvariant ==
  /\ \A h \in Handlers : h \in cast.all \/ InList(h) => hs[h] \notin {"new", "append"}
  /\ cast.pc = "go" => Cardinality(Skipped) <= cast.removed
  /\ ReachesAll

\* "Ensures request handler for each client is terminated correctly": a shutdown that comes
\* to its end leaves no client in the list.
AllTerminated == down.pc = "done" => down.left = {}
=============================================================================
