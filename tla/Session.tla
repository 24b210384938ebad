------------------------------ MODULE Session ------------------------------
(***************************************************************************)
(* The line protocol between the plugin and the reloadium processes of one *)
(* run (rw/session/Session.java).                                          *)
(*                                                                         *)
(* A Session accepts one socket per Python process.  For each socket a     *)
(* Client thread reads lines; a line is an event or the answer to a        *)
(* command.  Any IDE thread may call Session.send, which goes through the  *)
(* registered clients one after the other: it writes the command and polls *)
(* the two unsynchronised fields cmdReturn and cmdReturnId that the Client *)
(* thread fills.  Lines carry no correlation id: whatever line arrives     *)
(* while cmdReturnId is set becomes the return of the pending command.     *)
(*                                                                         *)
(* Every read or write of a shared field is a step of its own.  The Python *)
(* processes are external: they answer commands in order, or never, and    *)
(* emit events at any time.                                                *)
(***************************************************************************)
EXTENDS Integers, Sequences

CONSTANTS
    Client,       \* the connections, one per Python process
    Sender,       \* the IDE threads that call Session.send
    Completing,   \* those that compute completions; the other is the EDT
    Cmd,          \* command ids
    Completion,   \* those with a class in Session.returns
    Casting,      \* completions whose caller casts the return unchecked
    Plain,        \* stands for the class Cmd.Return
    Null,
    Timeout,      \* the 4000 ms of Client.send, in units of one sleep
    MaxSends,     \* bound: calls of Session.send
    MaxEvents     \* bound: events emitted by each Python process

ASSUME SessionAssumption ==
    /\ Completing \subseteq Sender
    /\ Completion \subseteq Cmd
    /\ Casting \subseteq Completion
    /\ Plain \notin Cmd
    /\ Null \notin Cmd
    /\ Timeout \in Nat /\ MaxSends \in Nat /\ MaxEvents \in Nat

VARIABLES
    serverOpen,   \* serverSocket is open
    acceptPc,     \* the accept loop
    accepting,    \* the client it has in hand
    clients,      \* Session.clients
    socketOpen,   \* the plugin's end of each socket is open
    alive,        \* the process at the other end runs
    inbox,        \* commands written to each process and not yet read by it
    wire,         \* lines written by each process and not yet read
    emitted,      \* number of events emitted by each process
    readerPc,     \* the Client threads
    line,         \* the line each is ingesting
    cmdReturn,    \* Client.cmdReturn
    cmdReturnId,  \* Client.cmdReturnId
    pc,           \* the calls of Session.send, one per thread at most
    cmd,          \* the command of each
    number,       \* (history) which call of Session.send it is
    todo,         \* the clients it has not finished with
    timeout,      \* the local variable of Client.send
    result,       \* what the last finished Client.send returned
    sends,        \* number of calls of Session.send so far
    closePc,      \* Session.close
    cursor,       \* its iterator: the next client
    modCount,     \* and the size of the list it expects
    dropped,      \* lines lost in ingestLine, per client
    finished,     \* calls of Client.send that reset cmdReturnId, per client
    disturbed     \* clients on which the protocol has been disturbed, see below

connection == <<serverOpen, acceptPc, accepting, clients, socketOpen, alive>>
traffic == <<inbox, wire, emitted>>
readers == <<readerPc, line>>
shared == <<cmdReturn, cmdReturnId>>
request == <<cmd, number, todo, timeout, result, sends>>
closing == <<closePc, cursor, modCount>>
history == <<dropped, finished, disturbed>>
vars == <<connection, traffic, readers, shared, pc, request, closing, history>>

\* A line is an event or the answer to the n-th call of Session.send.
Line == [kind : {"event", "answer"}, n : Nat]

\* A Cmd.Return: its class, the line it was made from, and (history) the
\* senders that were between their reset of cmdReturn and their read of it
\* when the reader stored it.
Return == [class : Completion \cup {Plain}, line : Line, during : SUBSET Sender]

ASSUME NullAssumption == Null \notin Return

NoLine == [kind |-> "event", n |-> 0]

Init ==
    /\ serverOpen = TRUE
    /\ acceptPc = "accept"
    /\ accepting = Null
    /\ clients = <<>>
    /\ socketOpen = [c \in Client |-> FALSE]
    /\ alive = [c \in Client |-> FALSE]
    /\ inbox = [c \in Client |-> <<>>]
    /\ wire = [c \in Client |-> <<>>]
    /\ emitted = [c \in Client |-> 0]
    /\ readerPc = [c \in Client |-> "new"]
    /\ line = [c \in Client |-> NoLine]
    /\ cmdReturn = [c \in Client |-> Null]
    /\ cmdReturnId = [c \in Client |-> Null]
    /\ pc = [s \in Sender |-> "idle"]
    /\ cmd = [s \in Sender |-> Null]
    /\ number = [s \in Sender |-> 0]
    /\ todo = [s \in Sender |-> <<>>]
    /\ timeout = [s \in Sender |-> Timeout]
    /\ result = [s \in Sender |-> Null]
    /\ sends = 0
    /\ closePc = "open"
    /\ cursor = 1
    /\ modCount = 0
    /\ dropped = [c \in Client |-> 0]
    /\ finished = [c \in Client |-> 0]
    /\ disturbed = {}

-----------------------------------------------------------------------------
SetReader(c, to) == readerPc' = [readerPc EXCEPT ![c] = to]
SetCall(s, to) == pc' = [pc EXCEPT ![s] = to]

\* Session.send is left, by its return or by an exception.
EndCall(s) ==
    /\ SetCall(s, "idle")
    /\ cmd' = [cmd EXCEPT ![s] = Null]
    /\ number' = [number EXCEPT ![s] = 0]
    /\ todo' = [todo EXCEPT ![s] = <<>>]
    /\ timeout' = [timeout EXCEPT ![s] = Timeout]
    /\ result' = [result EXCEPT ![s] = Null]
    /\ UNCHANGED sends

-----------------------------------------------------------------------------
(* The accept loop, Session.run. *)

\* A process connects and accept() returns its socket.
Connect(c) ==
    /\ acceptPc = "accept" /\ serverOpen
    /\ readerPc[c] = "new" /\ ~alive[c]
    /\ acceptPc' = "start"
    /\ accepting' = c
    /\ socketOpen' = [socketOpen EXCEPT ![c] = TRUE]
    /\ alive' = [alive EXCEPT ![c] = TRUE]
    /\ UNCHANGED <<serverOpen, clients, traffic, readers, shared, pc, request,
                   closing, history>>

\* accept() throws once the server socket is closed; the loop returns.
StopAccepting ==
    /\ acceptPc = "accept" /\ ~serverOpen
    /\ acceptPc' = "stopped"
    /\ UNCHANGED <<serverOpen, accepting, clients, socketOpen, alive, traffic,
                   readers, shared, pc, request, closing, history>>

\* client.start()
StartClient ==
    /\ acceptPc = "start"
    /\ acceptPc' = "add"
    /\ SetReader(accepting, "started")
    /\ UNCHANGED <<serverOpen, accepting, clients, socketOpen, alive, traffic,
                   line, shared, pc, request, closing, history>>

\* clients.add(client), only after the thread was started.
AddClient ==
    /\ acceptPc = "add"
    /\ acceptPc' = "accept"
    /\ accepting' = Null
    /\ clients' = Append(clients, accepting)
    /\ UNCHANGED <<serverOpen, socketOpen, alive, traffic, readers, shared, pc,
                   request, closing, history>>

-----------------------------------------------------------------------------
(* The Client thread, Client.run and Client.ingestLine. *)

\* The streams of the socket are opened; on a closed socket this throws, the
\* thread ends and out stays null.
OpenStreams(c) ==
    /\ readerPc[c] = "started"
    /\ SetReader(c, IF socketOpen[c] THEN "read" ELSE "refused")
    /\ UNCHANGED <<connection, traffic, line, shared, pc, request, closing,
                   history>>

\* readLine() returns the next line.
ReadLine(c) ==
    /\ readerPc[c] = "read" /\ socketOpen[c]
    /\ wire[c] # <<>>
    /\ SetReader(c, "check")
    /\ line' = [line EXCEPT ![c] = Head(wire[c])]
    /\ wire' = [wire EXCEPT ![c] = Tail(@)]
    /\ UNCHANGED <<connection, inbox, emitted, shared, pc, request, closing,
                   history>>

\* Mutant: the end of the stream is not noticed.
EndOfStreamMissed(c) ==
    /\ readerPc[c] = "read"
    /\ ~socketOpen[c]
    /\ SetReader(c, "ended")
    /\ UNCHANGED <<connection, traffic, line, shared, pc, request, closing,
                   history>>

\* readLine() returns null at the end of the stream, or throws: "Connection
\* reset" when the process is gone, whatever lines are still unread, and
\* "closed" on a socket the plugin has closed.  The thread ends.
EndOfStream(c) ==
    /\ readerPc[c] = "read"
    /\ ~socketOpen[c] \/ ~alive[c]
    /\ SetReader(c, "ended")
    /\ UNCHANGED <<connection, traffic, line, shared, pc, request, closing,
                   history>>

\* "if (this.cmdReturnId != null)": the first read of the field.
CheckPending(c) ==
    /\ readerPc[c] = "check"
    /\ SetReader(c, IF cmdReturnId[c] # Null THEN "assign" ELSE "event")
    /\ UNCHANGED <<connection, traffic, line, shared, pc, request, closing,
                   history>>

\* The client a call is working on.
At(s) == Head(todo[s])

\* s has reset cmdReturn of c and has not read it yet.
InWindow(s, c) ==
    /\ pc[s] \in {"id", "print", "poll", "unset", "take"}
    /\ At(s) = c

Pending(c) == {s \in Sender : InWindow(s, c)}

\* The reader is between its first read of cmdReturnId and its last write of
\* cmdReturn for a line.
Ingesting(c) == readerPc[c] \in {"assign", "default"}

MakeReturn(c, class) ==
    [class |-> class, line |-> line[c], during |-> Pending(c)]

\* Mutant: the return class is not looked up.
returnFactoryUntyped(c, id) == MakeReturn(c, Plain)

\* Session.returnFactory: null for a command without a return class.
returnFactory(c, id) ==
    IF id \in Completion THEN MakeReturn(c, id) ELSE Null

\* "this.cmdReturn = this.session.returnFactory(line, this.cmdReturnId)": the
\* second read of cmdReturnId.
AssignReturn(c) ==
    /\ readerPc[c] = "assign" /\ cmdReturnId[c] # Null
    /\ cmdReturn' = [cmdReturn EXCEPT ![c] = returnFactory(c, cmdReturnId[c])]
    /\ disturbed' = IF line[c].kind = "event" THEN disturbed \cup {c} ELSE disturbed
    /\ SetReader(c, "default")
    /\ UNCHANGED <<connection, traffic, line, cmdReturnId, pc, request, closing,
                   dropped, finished>>

\* The field is null by now: returns.get(null) throws, ingestLine swallows the
\* exception, and the line is lost, the event it may hold included.
LoseLine(c) ==
    /\ readerPc[c] = "assign" /\ cmdReturnId[c] = Null
    /\ SetReader(c, "read")
    /\ dropped' = [dropped EXCEPT ![c] = @ + 1]
    /\ UNCHANGED <<connection, traffic, line, shared, pc, request, closing,
                   finished, disturbed>>

\* "if (this.cmdReturn == null) this.cmdReturn = new Cmd.Return()"
DefaultReturn(c) ==
    /\ readerPc[c] = "default"
    /\ cmdReturn' = [cmdReturn EXCEPT ![c] = IF @ = Null THEN MakeReturn(c, Plain) ELSE @]
    /\ SetReader(c, "event")
    /\ UNCHANGED <<connection, traffic, line, cmdReturnId, pc, request, closing,
                   history>>

\* eventFactory and handle(): what an event does is modelled elsewhere; an
\* answer has no known ID and is skipped.
HandleEvent(c) ==
    /\ readerPc[c] = "event"
    /\ SetReader(c, "read")
    /\ UNCHANGED <<connection, traffic, line, shared, pc, request, closing,
                   history>>

-----------------------------------------------------------------------------
(* Session.send and Client.send, on the thread s. *)

\* The clients are copied, then taken in order.  The completion contributors
\* send from completion threads; ReloadFile, DropFrame and QuickConfigCmd are
\* sent from the event dispatch thread.
Send(s, id) ==
    /\ s \in Completing <=> id \in Completion
    /\ pc[s] = "idle" /\ sends < MaxSends
    /\ sends' = sends + 1
    /\ SetCall(s, "loop")
    /\ cmd' = [cmd EXCEPT ![s] = id]
    /\ number' = [number EXCEPT ![s] = sends + 1]
    /\ todo' = [todo EXCEPT ![s] = clients]
    /\ timeout' = [timeout EXCEPT ![s] = Timeout]
    /\ result' = [result EXCEPT ![s] = Null]
    /\ UNCHANGED <<connection, traffic, readers, shared, closing, history>>

\* "this.cmdReturn = null"
ResetReturn(s) ==
    /\ pc[s] = "loop" /\ todo[s] # <<>>
    /\ cmdReturn' = [cmdReturn EXCEPT ![At(s)] = Null]
    /\ SetCall(s, "id")
    /\ disturbed' = IF Pending(At(s)) # {} \/ Ingesting(At(s))
                      THEN disturbed \cup {At(s)} ELSE disturbed
    /\ UNCHANGED <<connection, traffic, readers, cmdReturnId, request, closing,
                   dropped, finished>>

\* "this.cmdReturnId = cmd.getId()"
SetReturnId(s) ==
    /\ pc[s] = "id"
    /\ cmdReturnId' = [cmdReturnId EXCEPT ![At(s)] = cmd[s]]
    /\ SetCall(s, "print")
    /\ UNCHANGED <<connection, traffic, readers, cmdReturn, request, closing,
                   history>>

\* "this.out.println(payload)".  out is null until the Client thread has
\* opened its streams, and println on a closed socket is silent.
Println(s) ==
    /\ pc[s] = "print"
    /\ readerPc[At(s)] \notin {"started", "refused"}
    /\ SetCall(s, "poll")
    /\ inbox' = IF socketOpen[At(s)] /\ alive[At(s)]
                  THEN [inbox EXCEPT ![At(s)] = Append(@, number[s])] ELSE inbox
    /\ UNCHANGED <<connection, wire, emitted, readers, shared, request, closing,
                   history>>

\* The call ends in an exception: the remaining clients are skipped and
\* cmdReturnId keeps its value.
Abort(s) ==
    /\ EndCall(s)
    /\ disturbed' = disturbed \cup {At(s)}
    /\ UNCHANGED <<connection, traffic, readers, shared, closing, dropped, finished>>

\* out is still null: NullPointerException.
PrintlnFails(s) ==
    /\ pc[s] = "print"
    /\ readerPc[At(s)] \in {"started", "refused"}
    /\ Abort(s)

\* Mutant: the loop waits for a return only.
SleepUncounted(s) ==
    /\ pc[s] = "poll"
    /\ cmdReturn[At(s)] = Null
    /\ timeout[s] >= 0
    /\ UNCHANGED vars

\* One turn of the polling loop that finds no return and sleeps.
Sleep(s) ==
    /\ pc[s] = "poll"
    /\ cmdReturn[At(s)] = Null
    /\ timeout[s] >= 0
    /\ timeout' = [timeout EXCEPT ![s] = @ - 1]
    /\ UNCHANGED <<connection, traffic, readers, shared, pc, cmd, number, todo,
                   result, sends, closing, history>>

\* checkCanceled() throws ProcessCanceledException inside the loop: completion
\* runs under a progress indicator that a keystroke cancels.
Cancel(s) ==
    /\ s \in Completing
    /\ pc[s] = "poll"
    /\ cmdReturn[At(s)] = Null
    /\ timeout[s] >= 0
    /\ Abort(s)

\* The loop is left: a return is there, or timeout is below 0.
LeavePoll(s) ==
    /\ pc[s] = "poll"
    /\ cmdReturn[At(s)] # Null \/ timeout[s] < 0
    /\ SetCall(s, "unset")
    /\ disturbed' = IF cmdReturn[At(s)] = Null
                      THEN disturbed \cup {At(s)} ELSE disturbed
    /\ UNCHANGED <<connection, traffic, readers, shared, request, closing,
                   dropped, finished>>

\* "this.cmdReturnId = null"
UnsetReturnId(s) ==
    /\ pc[s] = "unset"
    /\ cmdReturnId' = [cmdReturnId EXCEPT ![At(s)] = Null]
    /\ finished' = [finished EXCEPT ![At(s)] = @ + 1]
    /\ SetCall(s, "take")
    /\ UNCHANGED <<connection, traffic, readers, cmdReturn, request, closing,
                   dropped, disturbed>>

\* "return this.cmdReturn", read once more, and on to the next client.
TakeReturn(s) ==
    /\ pc[s] = "take"
    /\ SetCall(s, "loop")
    /\ result' = [result EXCEPT ![s] = cmdReturn[At(s)]]
    /\ todo' = [todo EXCEPT ![s] = Tail(@)]
    /\ timeout' = [timeout EXCEPT ![s] = Timeout]
    /\ UNCHANGED <<connection, traffic, readers, shared, cmd, number, sends,
                   closing, history>>

\* Session.send returns the return of the last client to its caller.
SendReturns(s) ==
    /\ pc[s] = "loop" /\ todo[s] = <<>>
    /\ EndCall(s)
    /\ UNCHANGED <<connection, traffic, readers, shared, closing, history>>

-----------------------------------------------------------------------------
(* The Python processes (external). *)

\* The process writes the answer to the oldest command it has not answered.
PeerAnswer(c) ==
    /\ alive[c] /\ inbox[c] # <<>>
    /\ wire' = [wire EXCEPT ![c] = Append(@, [kind |-> "answer", n |-> Head(inbox[c])])]
    /\ inbox' = [inbox EXCEPT ![c] = Tail(@)]
    /\ UNCHANGED <<connection, emitted, readers, shared, pc, request, closing,
                   history>>

PeerEvent(c) ==
    /\ alive[c] /\ emitted[c] < MaxEvents
    /\ emitted' = [emitted EXCEPT ![c] = @ + 1]
    /\ wire' = [wire EXCEPT ![c] = Append(@, [kind |-> "event", n |-> emitted[c] + 1])]
    /\ UNCHANGED <<connection, inbox, readers, shared, pc, request, closing,
                   history>>

PeerExit(c) ==
    /\ alive[c]
    /\ alive' = [alive EXCEPT ![c] = FALSE]
    /\ UNCHANGED <<serverOpen, acceptPc, accepting, clients, socketOpen,
                   traffic, readers, shared, pc, request, closing, history>>

-----------------------------------------------------------------------------
(* Session.close, called when the run's process has terminated. *)

\* Mutant: the iteration skips the first client.
CloseServerSkips ==
    /\ closePc = "open"
    /\ serverOpen' = FALSE
    /\ closePc' = "iterate"
    /\ cursor' = 2
    /\ modCount' = Len(clients)
    /\ UNCHANGED <<acceptPc, accepting, clients, socketOpen, alive, traffic,
                   readers, shared, pc, request, history>>

\* serverSocket.close(), and the iterator over clients is created.
CloseServer ==
    /\ closePc = "open"
    /\ serverOpen' = FALSE
    /\ closePc' = "iterate"
    /\ cursor' = 1
    /\ modCount' = Len(clients)
    /\ UNCHANGED <<acceptPc, accepting, clients, socketOpen, alive, traffic,
                   readers, shared, pc, request, history>>

\* c.close() for the client at the cursor.  in.close() waits for the lock of
\* the BufferedReader, which a Client thread inside readLine() holds.
CloseClient ==
    /\ closePc = "iterate"
    /\ cursor <= Len(clients) /\ modCount = Len(clients)
    /\ readerPc[clients[cursor]] # "read"
    /\ socketOpen' = [socketOpen EXCEPT ![clients[cursor]] = FALSE]
    /\ cursor' = cursor + 1
    /\ UNCHANGED <<serverOpen, acceptPc, accepting, clients, alive, traffic,
                   readers, shared, pc, request, closePc, modCount, history>>

\* The iterator has reached the end, or finds that the accept loop has added
\* a client meanwhile (ConcurrentModificationException).
CloseEnds ==
    /\ closePc = "iterate"
    /\ \/ /\ cursor = Len(clients) + 1
          /\ closePc' = "closed"
       \/ /\ cursor <= Len(clients) /\ modCount # Len(clients)
          /\ closePc' = "failed"
    /\ UNCHANGED <<connection, traffic, readers, shared, pc, request, cursor,
                   modCount, history>>

-----------------------------------------------------------------------------
AcceptLoop == StopAccepting \/ StartClient \/ AddClient \/ \E c \in Client : Connect(c)

ClientThread(c) ==
    \/ OpenStreams(c) \/ ReadLine(c) \/ EndOfStream(c) \/ CheckPending(c)
    \/ AssignReturn(c) \/ LoseLine(c) \/ DefaultReturn(c) \/ HandleEvent(c)

\* The steps of a send that is in progress.
SendStep(s) ==
    \/ ResetReturn(s) \/ SetReturnId(s) \/ Println(s) \/ PrintlnFails(s)
    \/ Sleep(s) \/ LeavePoll(s) \/ UnsetReturnId(s) \/ TakeReturn(s) \/ SendReturns(s)

Peer(c) == PeerAnswer(c) \/ PeerEvent(c) \/ PeerExit(c)

CloseSession == CloseServer \/ CloseClient \/ CloseEnds

Next ==
    \/ AcceptLoop
    \/ \E c \in Client : ClientThread(c) \/ Peer(c)
    \/ \E s \in Sender : SendStep(s) \/ Cancel(s) \/ \E id \in Cmd : Send(s, id)
    \/ CloseSession

Spec == Init /\ [][Next]_vars

\* Every started thread keeps running; a process need not answer, but when the
\* run is over it exits.
Fairness ==
    /\ \A s \in Sender : WF_vars(SendStep(s))
    /\ \A c \in Client : WF_vars(ClientThread(c)) /\ WF_vars(closePc # "open" /\ PeerExit(c))
    /\ WF_vars(StopAccepting \/ StartClient \/ AddClient)
    /\ WF_vars(CloseClient \/ CloseEnds)

FairSpec == Spec /\ Fairness

-----------------------------------------------------------------------------
(* Properties *)

CallPc == {"idle", "loop", "id", "print", "poll", "unset", "take"}
ReaderPc == {"new", "started", "read", "check", "assign", "default", "event", "ended", "refused"}

ConnectionType ==
    /\ serverOpen \in BOOLEAN
    /\ acceptPc \in {"accept", "start", "add", "stopped"}
    /\ accepting \in Client \cup {Null}
    /\ acceptPc \in {"start", "add"} => accepting \in Client
    /\ clients \in Seq(Client)
    /\ socketOpen \in [Client -> BOOLEAN]
    /\ alive \in [Client -> BOOLEAN]
    /\ closePc \in {"open", "iterate", "closed", "failed"}
    /\ cursor \in Nat \ {0} /\ modCount \in Nat

TrafficType ==
    /\ inbox \in [Client -> Seq(Nat)]
    /\ wire \in [Client -> Seq(Line)]
    /\ emitted \in [Client -> Nat]

ReaderType ==
    /\ readerPc \in [Client -> ReaderPc]
    /\ line \in [Client -> Line]

ReturnType ==
    /\ cmdReturn \in [Client -> Return \cup {Null}]
    /\ cmdReturnId \in [Client -> Cmd \cup {Null}]

CallType ==
    /\ pc \in [Sender -> CallPc]
    /\ cmd \in [Sender -> Cmd \cup {Null}]
    /\ number \in [Sender -> Nat]
    /\ todo \in [Sender -> Seq(Client)]
    /\ timeout \in [Sender -> -1..Timeout]
    /\ result \in [Sender -> Return \cup {Null}]
    /\ sends \in Nat
    /\ \A s \in Sender : pc[s] \notin {"idle", "loop"} => todo[s] # <<>> /\ cmd[s] \in Cmd
    /\ \A s \in Sender : pc[s] = "loop" => cmd[s] \in Cmd

HistoryType ==
    /\ dropped \in [Client -> Nat]
    /\ finished \in [Client -> Nat]
    /\ disturbed \subseteq Client

\* Every variable keeps its type: in particular a call in Client.send has a
\* client to work on, the accept loop holds a client while it starts and adds
\* it, and the polling loop stops counting one step below zero.
TypeOK ==
    /\ ConnectionType /\ TrafficType /\ ReaderType
    /\ ReturnType /\ CallType /\ HistoryType

\* The return a call of Client.send is about to take was stored after this call
\* reset cmdReturn: no return survives from an earlier command, however many
\* threads send at once and whenever earlier calls timed out or were cancelled.
OwnWindow ==
    \A s \in Sender, c \in Client :
        InWindow(s, c) /\ cmdReturn[c] # Null => s \in cmdReturn[c].during

\* As long as calls on a client do not overlap, none timed out or ended in an
\* exception, no event arrived while one was pending, and none started while
\* ingestLine was still storing an earlier line, the polling protocol is a
\* request-response protocol: Client.send hands its caller the answer to its
\* own command, in the class registered for it.
UndisturbedAnswer ==
    \A s \in Sender, c \in Client :
        InWindow(s, c) /\ pc[s] = "take" /\ c \notin disturbed =>
            /\ cmdReturn[c] # Null
            /\ cmdReturn[c].line = [kind |-> "answer", n |-> number[s]]
            /\ cmdReturn[c].class = IF cmd[s] \in Completion THEN cmd[s] ELSE Plain

\* ingestLine loses a line only when a call of Client.send resets cmdReturnId
\* between its two reads of the field, and each call costs at most one line.
LossBound ==
    \A c \in Client : dropped[c] <= finished[c]

\* Its inductive form: a line that is certain to be lost is already paid for.
LossInvariant ==
    \A c \in Client :
        /\ dropped[c] <= finished[c]
        /\ readerPc[c] = "assign" /\ cmdReturnId[c] = Null => dropped[c] < finished[c]

\* Outside a send no command is pending on a client, unless a call was aborted
\* there: a reader that finds cmdReturnId set then is looking at a leftover.
NoDanglingId ==
    \A c \in Client :
        c \notin disturbed /\ Pending(c) = {} => cmdReturnId[c] = Null

\* What Client.send and ingestLine promise each other: a command gets no earlier
\* return, its own one unless it was disturbed, and leaves nothing behind, and
\* what is lost is bounded.
SendSound == OwnWindow /\ UndisturbedAnswer /\ LossBound /\ NoDanglingId

\* The inductive form of NoDanglingId: on an undisturbed client the call that set
\* cmdReturnId is still going to reset it.
PendingInvariant ==
    \A c \in Client :
        c \notin disturbed /\ cmdReturnId[c] # Null =>
            \E s \in Sender : InWindow(s, c) /\ pc[s] \in {"print", "poll", "unset"}

\* The inductive form of UndisturbedAnswer.  On an undisturbed client at most one
\* call is in its window, and the id it has set is still there.  Of its command at
\* most one trace is under way: in the process's inbox, on the wire, in the
\* reader's hand, or half stored; while it is, the call polls and cmdReturn is null.
Answer(n) == [kind |-> "answer", n |-> n]

AnswersOnWire(c) == {i \in 1..Len(wire[c]) : wire[c][i].kind = "answer"}

InHand(c) == readerPc[c] \in {"check", "assign"} /\ line[c].kind = "answer"

HalfStored(c) == readerPc[c] = "default" /\ cmdReturn[c] = Null

OneCall(c) ==
    \A s \in Sender : InWindow(s, c) =>
        /\ \A t \in Sender : InWindow(t, c) => s = t
        /\ pc[s] \in {"print", "poll", "unset"} => cmdReturnId[c] = cmd[s]
        /\ pc[s] \in {"id", "print"} => cmdReturn[c] = Null /\ readerPc[c] # "default"
        /\ pc[s] \in {"unset", "take"} => cmdReturn[c] # Null
        /\ cmdReturn[c] # Null =>
              /\ cmdReturn[c].line = Answer(number[s])
              /\ cmdReturn[c].class = IF cmd[s] \in Completion THEN cmd[s] ELSE Plain

OneTrace(c) ==
    /\ inbox[c] # <<>> => AnswersOnWire(c) = {} /\ ~InHand(c) /\ ~HalfStored(c)
    /\ AnswersOnWire(c) # {} => ~InHand(c) /\ ~HalfStored(c)
    /\ inbox[c] # <<>> => Tail(inbox[c]) = <<>>
    /\ \A i, j \in AnswersOnWire(c) : i = j

Awaited(c, s) ==
    /\ InWindow(s, c) /\ pc[s] = "poll" /\ cmdReturn[c] = Null
    /\ inbox[c] # <<>> => Head(inbox[c]) = number[s]
    /\ \A i \in AnswersOnWire(c) : wire[c][i] = Answer(number[s])
    /\ InHand(c) \/ HalfStored(c) => line[c] = Answer(number[s])
    /\ HalfStored(c) => cmd[s] \notin Completion

UnderWay(c) ==
    inbox[c] # <<>> \/ AnswersOnWire(c) # {} \/ InHand(c) \/ HalfStored(c)

AnswerInvariant ==
    \A c \in Client \ disturbed :
        /\ OneCall(c) /\ OneTrace(c)
        /\ UnderWay(c) => \E s \in Sender : Awaited(c, s)

\* Session.close does not see a client that the accept loop has accepted and
\* not yet added.  A completed close leaves at most that one socket open.
CloseLeaksAtMostOne ==
    closePc = "closed" =>
        \A c, d \in Client : socketOpen[c] /\ socketOpen[d] => c = d

\* Its inductive form: an open socket belongs to a client in the list or to the one
\* the accept loop has in hand; nothing is accepted once close has begun; the
\* clients before the cursor are closed; and when the iteration has ended, no more
\* than the one in hand is still to come.
InHandOfAccept == IF acceptPc \in {"start", "add"} THEN 1 ELSE 0

CloseInvariant ==
    /\ \A c \in Client : socketOpen[c] =>
          \/ acceptPc \in {"start", "add"} /\ c = accepting
          \/ \E i \in 1..Len(clients) : clients[i] = c
    /\ closePc # "open" => ~serverOpen /\ cursor <= Len(clients) + 1
    /\ closePc # "open" =>
          \A i \in 1..Len(clients) : i < cursor => ~socketOpen[clients[i]]
    /\ closePc = "closed" => Len(clients) + InHandOfAccept <= cursor

\* The import completions cast what Session.send returns to the class of their
\* own command (ImportCompletionContributor, FromImportCompletionContributor).
CastSucceeds ==
    \A s \in Sender :
        /\ pc[s] = "loop" /\ todo[s] = <<>>
        /\ cmd[s] \in Casting /\ result[s] # Null
        => result[s].class = cmd[s]

\* Session.send returns, whatever the processes do and however often another
\* thread resets the fields it polls: each Client.send counts its own sleeps.
SendTerminates == \A s \in Sender : pc[s] # "idle" ~> pc[s] = "idle"

\* Session.close returns once the processes are gone, although it waits for
\* the lock of every Client thread that is inside readLine().
CloseTerminates == closePc = "iterate" ~> closePc \in {"closed", "failed"}

=============================================================================
