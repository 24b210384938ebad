--------------------------- MODULE SessionProofs ---------------------------
(***************************************************************************)
(* Invariance proofs for Session, for any number of clients, senders and   *)
(* commands and any timeout: types, the window in which a return was       *)
(* stored, the bound on lost lines, the reset of cmdReturnId, the answer   *)
(* an undisturbed call gets, and what Session.close leaves open.           *)
(***************************************************************************)
EXTENDS Session, TLAPS

USE DEF connection, traffic, readers, shared, request, closing, history

\* Facts about sequences the steps below need.
LEMMA SeqFacts ==
    ASSUME NEW S, NEW q \in Seq(S)
    PROVE  /\ \A x \in S : Append(q, x) \in Seq(S)
           /\ q # <<>> => Head(q) \in S /\ Tail(q) \in Seq(S)
           /\ <<>> \in Seq(S)
  OBVIOUS

\* A call that is inside Client.send works on one of the clients.
LEMMA AtClient ==
    ASSUME CallType, NEW s \in Sender, todo[s] # <<>>
    PROVE  At(s) \in Client
<1>1. todo[s] \in Seq(Client)
  BY DEF CallType
<1> QED
  BY <1>1, SeqFacts DEF At

\* The list of clients has a length.
LEMMA LenNat == ASSUME ConnectionType PROVE Len(clients) \in Nat
  BY DEF ConnectionType

\* Leaving Session.send keeps the types of the call's state.
LEMMA EndCallType ==
    ASSUME CallType, NEW s \in Sender, EndCall(s) PROVE CallType'
<1>1. Timeout \in -1..Timeout /\ <<>> \in Seq(Client)
  BY SessionAssumption, SeqFacts
<1> QED
  BY <1>1 DEF CallType, CallPc, EndCall, SetCall

\* The initial state and every step of Session keep the types of its state.
THEOREM TypeCorrect == Spec => []TypeOK
<1> USE SessionAssumption
<1> USE DEF TypeOK, ConnectionType, TrafficType, ReaderType, ReturnType, CallType,
            HistoryType, CallPc, ReaderPc, SetReader, SetCall
<1>1. Init => TypeOK
  BY DEF Init, NoLine, Line
<1>2. TypeOK /\ [Next]_vars => TypeOK'
  <2> SUFFICES ASSUME TypeOK, [Next]_vars PROVE TypeOK'
    OBVIOUS
  <2>1. ASSUME NEW c \in Client, Connect(c) PROVE TypeOK'
    BY <2>1 DEF Connect
  <2>2. CASE StopAccepting
    BY <2>2 DEF StopAccepting
  <2>3. CASE StartClient
    BY <2>3 DEF StartClient
  <2>4. CASE AddClient
    <3>1. clients' \in Seq(Client)
      BY <2>4, SeqFacts DEF AddClient
    <3> QED
      BY <2>4, <3>1 DEF AddClient
  <2>5. ASSUME NEW c \in Client, OpenStreams(c) PROVE TypeOK'
    BY <2>5 DEF OpenStreams
  <2>6. ASSUME NEW c \in Client, ReadLine(c) PROVE TypeOK'
    <3>1. wire[c] \in Seq(Line) /\ wire[c] # <<>>
      BY <2>6 DEF ReadLine
    <3>2. Head(wire[c]) \in Line /\ Tail(wire[c]) \in Seq(Line)
      BY <3>1, SeqFacts
    <3> QED
      BY <2>6, <3>2 DEF ReadLine
  <2>7. ASSUME NEW c \in Client, EndOfStream(c) PROVE TypeOK'
    BY <2>7 DEF EndOfStream
  <2>8. ASSUME NEW c \in Client, CheckPending(c) PROVE TypeOK'
    BY <2>8 DEF CheckPending
  <2>9. ASSUME NEW c \in Client, AssignReturn(c) PROVE TypeOK'
    <3>1. Pending(c) \in SUBSET Sender
      BY DEF Pending
    <3>2. \A id \in Cmd : returnFactory(c, id) \in Return \cup {Null}
      BY <3>1 DEF returnFactory, MakeReturn, Return
    <3>3. returnFactory(c, cmdReturnId[c]) \in Return \cup {Null}
      BY <2>9, <3>2 DEF AssignReturn
    <3> QED
      BY <2>9, <3>3 DEF AssignReturn
  <2>10. ASSUME NEW c \in Client, DefaultReturn(c) PROVE TypeOK'
    <3>1. MakeReturn(c, Plain) \in Return
      BY DEF MakeReturn, Return, Pending
    <3> QED
      BY <2>10, <3>1 DEF DefaultReturn
  <2>11. ASSUME NEW c \in Client, HandleEvent(c) PROVE TypeOK'
    BY <2>11 DEF HandleEvent
  <2>12. ASSUME NEW c \in Client, Peer(c) PROVE TypeOK'
    <3>1. CASE PeerAnswer(c)
      <4>1. Head(inbox[c]) \in Nat /\ Tail(inbox[c]) \in Seq(Nat)
        BY <3>1, SeqFacts DEF PeerAnswer
      <4>2. Append(wire[c], [kind |-> "answer", n |-> Head(inbox[c])]) \in Seq(Line)
        BY <4>1, SeqFacts DEF Line
      <4> QED
        BY <3>1, <4>1, <4>2 DEF PeerAnswer
    <3>2. CASE PeerEvent(c)
      <4>1. Append(wire[c], [kind |-> "event", n |-> emitted[c] + 1]) \in Seq(Line)
        BY SeqFacts DEF Line
      <4>2. emitted[c] + 1 \in Nat
        OBVIOUS
      <4> QED
        BY <3>2, <4>1, <4>2 DEF PeerEvent
    <3>3. CASE PeerExit(c)
      BY <3>3 DEF PeerExit
    <3> QED
      BY <2>12, <3>1, <3>2, <3>3 DEF Peer
  <2>13. ASSUME NEW s \in Sender, NEW id \in Cmd, Send(s, id) PROVE TypeOK'
    <3>1. sends + 1 \in Nat /\ Timeout \in -1..Timeout
      OBVIOUS
    <3>2. CallType'
      BY <2>13, <3>1 DEF Send
    <3> QED
      BY <2>13, <3>2 DEF Send
  <2>14. ASSUME NEW s \in Sender, ResetReturn(s) PROVE TypeOK'
    <3>1. At(s) \in Client
      BY <2>14, AtClient DEF ResetReturn
    <3> QED
      BY <2>14, <3>1 DEF ResetReturn
  <2>15. ASSUME NEW s \in Sender, SetReturnId(s) PROVE TypeOK'
    <3>1. At(s) \in Client
      BY <2>15, AtClient DEF SetReturnId
    <3> QED
      BY <2>15, <3>1 DEF SetReturnId
  <2>16. ASSUME NEW s \in Sender, Println(s) PROVE TypeOK'
    <3>1. At(s) \in Client
      BY <2>16, AtClient DEF Println
    <3>2. Append(inbox[At(s)], number[s]) \in Seq(Nat)
      BY <3>1, SeqFacts
    <3> QED
      BY <2>16, <3>1, <3>2 DEF Println
  <2>17. ASSUME NEW s \in Sender, PrintlnFails(s) \/ Cancel(s) PROVE TypeOK'
    <3>1. At(s) \in Client
      BY <2>17, AtClient DEF PrintlnFails, Cancel
    <3>2. Abort(s)
      BY <2>17 DEF PrintlnFails, Cancel
    <3>3. CallType'
      BY <3>2, EndCallType DEF Abort
    <3> QED
      BY <3>1, <3>2, <3>3 DEF Abort
  <2>18. ASSUME NEW s \in Sender, Sleep(s) PROVE TypeOK'
    <3>1. timeout[s] - 1 \in -1..Timeout
      BY SMTT(30), <2>18 DEF Sleep
    <3> QED
      BY <2>18, <3>1 DEF Sleep
  <2>19. ASSUME NEW s \in Sender, LeavePoll(s) PROVE TypeOK'
    <3>1. At(s) \in Client
      BY <2>19, AtClient DEF LeavePoll
    <3> QED
      BY <2>19, <3>1 DEF LeavePoll
  <2>20. ASSUME NEW s \in Sender, UnsetReturnId(s) PROVE TypeOK'
    <3>1. At(s) \in Client
      BY <2>20, AtClient DEF UnsetReturnId
    <3>2. finished[At(s)] + 1 \in Nat
      BY SMTT(30), <3>1
    <3> QED
      BY <2>20, <3>1, <3>2 DEF UnsetReturnId
  <2>21. ASSUME NEW s \in Sender, TakeReturn(s) PROVE TypeOK'
    <3>1. At(s) \in Client
      BY <2>21, AtClient DEF TakeReturn
    <3>2. Tail(todo[s]) \in Seq(Client)
      BY <2>21, SeqFacts DEF TakeReturn
    <3>3. cmdReturn[At(s)] \in Return \cup {Null} /\ Timeout \in -1..Timeout
      BY <3>1
    <3> QED
      BY <2>21, <3>2, <3>3 DEF TakeReturn
  <2>22. ASSUME NEW s \in Sender, SendReturns(s) PROVE TypeOK'
    <3>1. CallType'
      BY <2>22, EndCallType DEF SendReturns
    <3> QED
      BY <2>22, <3>1 DEF SendReturns
  <2>23. CASE CloseSession
    <3>1. CASE CloseServer
      <4>1. Len(clients) \in Nat /\ 1 \in Nat \ {0}
        BY LenNat
      <4> QED
        BY <3>1, <4>1 DEF CloseServer
    <3>2. CASE CloseClient
      <4>1. cursor + 1 \in Nat \ {0}
        OBVIOUS
      <4>2. clients[cursor] \in Client
        BY <3>2 DEF CloseClient
      <4> QED
        BY <3>2, <4>1, <4>2 DEF CloseClient
    <3>3. CASE CloseEnds
      BY <3>3 DEF CloseEnds
    <3> QED
      BY <2>23, <3>1, <3>2, <3>3 DEF CloseSession
  <2>24. ASSUME NEW c \in Client, LoseLine(c) PROVE TypeOK'
    <3>1. dropped[c] + 1 \in Nat
      OBVIOUS
    <3> QED
      BY <2>24, <3>1 DEF LoseLine
  <2>25. CASE UNCHANGED vars
    BY <2>25 DEF vars
  <2> QED
    BY <2>1, <2>2, <2>3, <2>4, <2>5, <2>6, <2>7, <2>8, <2>9, <2>10, <2>11, <2>12,
       <2>13, <2>14, <2>15, <2>16, <2>17, <2>18, <2>19, <2>20, <2>21, <2>22, <2>23,
       <2>24, <2>25 DEF Next, AcceptLoop, ClientThread, SendStep
<1> QED
  BY <1>1, <1>2, PTL DEF Spec

-----------------------------------------------------------------------------
\* Steps of the senders that keep or leave their window and write neither
\* cmdReturn nor, but for the first two, cmdReturnId.
Onwards(s) ==
    \/ SetReturnId(s) \/ UnsetReturnId(s)
    \/ Println(s) \/ PrintlnFails(s) \/ Cancel(s) \/ Sleep(s) \/ LeavePoll(s)
    \/ TakeReturn(s) \/ SendReturns(s) \/ \E id \in Cmd : Send(s, id)

\* Steps of the accept loop, the processes and Session.close.
Outside == AcceptLoop \/ CloseSession \/ \E c \in Client : Peer(c)

\* The steps, by who takes them: the accept loop, the peers and Session.close;
\* a client's thread; a sender, which enters a window only by ResetReturn.
LEMMA NextSplit ==
    [Next]_vars =>
        \/ Outside \/ UNCHANGED vars
        \/ \E c \in Client : ClientThread(c)
        \/ \E s \in Sender : ResetReturn(s) \/ Onwards(s)
  BY DEF Next, SendStep, Outside, Onwards

\* The accept loop, the peers and Session.close leave the calls and the lines
\* being ingested alone.
LEMMA OutsideFrame ==
    Outside => UNCHANGED <<shared, pc, request, history, line>>
  BY DEF Outside, AcceptLoop, Connect, StopAccepting, StartClient, AddClient,
     CloseSession, CloseServer, CloseClient, CloseEnds, Peer, PeerAnswer, PeerEvent,
     PeerExit

\* A client's thread changes no call's place in Client.send and no id.
LEMMA ClientThreadFrame ==
    ASSUME NEW c \in Client, ClientThread(c) PROVE UNCHANGED <<pc, request, cmdReturnId, finished>>
  BY DEF ClientThread, OpenStreams, ReadLine, EndOfStream, CheckPending, AssignReturn,
     LoseLine, DefaultReturn, HandleEvent

\* No step of a sender but ResetReturn enters a window, and none touches
\* another sender.
LEMMA OnwardsWindow ==
    ASSUME CallType, NEW s \in Sender, Onwards(s), NEW t \in Sender, NEW c \in Client,
           InWindow(t, c)'
    PROVE  InWindow(t, c)
<1> USE DEF CallType, CallPc, InWindow, At, SetCall
<1>1. CASE SetReturnId(s) \/ UnsetReturnId(s) \/ Println(s) \/ Sleep(s) \/ LeavePoll(s)
  BY <1>1 DEF SetReturnId, UnsetReturnId, Println, Sleep, LeavePoll
<1>2. CASE PrintlnFails(s) \/ Cancel(s) \/ SendReturns(s)
  BY <1>2 DEF PrintlnFails, Cancel, Abort, SendReturns, EndCall
<1>3. CASE TakeReturn(s)
  BY <1>3 DEF TakeReturn
<1>4. CASE \E id \in Cmd : Send(s, id)
  BY <1>4 DEF Send
<1> QED
  BY <1>1, <1>2, <1>3, <1>4 DEF Onwards

\* A return is only ever handed to calls whose window it was stored in.
THEOREM OwnWindowCorrect == Spec => []OwnWindow
<1>1. Init => OwnWindow
  BY DEF Init, OwnWindow
<1>2. TypeOK /\ OwnWindow /\ [Next]_vars => OwnWindow'
  <2> SUFFICES ASSUME TypeOK, OwnWindow, [Next]_vars,
                      NEW t \in Sender, NEW d \in Client,
                      InWindow(t, d)', cmdReturn'[d] # Null
               PROVE  t \in cmdReturn'[d].during
    BY DEF OwnWindow
  <2> USE DEF TypeOK
  <2>1. CASE Outside \/ UNCHANGED vars
    BY <2>1, OutsideFrame DEF vars, OwnWindow, InWindow, At
  <2>2. ASSUME NEW c \in Client, ClientThread(c) PROVE t \in cmdReturn'[d].during
    <3>1. InWindow(t, d)
      BY <2>2, ClientThreadFrame DEF InWindow, At
    <3>2. CASE c = d /\ (AssignReturn(c) \/ DefaultReturn(c))
      <4>1. t \in Pending(c)
        BY <3>1, <3>2 DEF Pending
      <4>2. \/ cmdReturn'[c].during = Pending(c)
            \/ cmdReturn'[c] = cmdReturn[c]
        BY <3>2, SessionAssumption
           DEF AssignReturn, DefaultReturn, returnFactory, MakeReturn, ReturnType
      <4> QED
        BY <3>1, <3>2, <4>1, <4>2 DEF OwnWindow
    <3>3. CASE ~(c = d /\ (AssignReturn(c) \/ DefaultReturn(c)))
      <4>1. cmdReturn'[d] = cmdReturn[d]
        BY <2>2, <3>3 DEF ClientThread, OpenStreams, ReadLine, EndOfStream, CheckPending,
           AssignReturn, LoseLine, DefaultReturn, HandleEvent, ReturnType
      <4> QED
        BY <3>1, <4>1 DEF OwnWindow
    <3> QED
      BY <3>2, <3>3
  <2>3. ASSUME NEW s \in Sender, ResetReturn(s) PROVE t \in cmdReturn'[d].during
    <3>1. d # At(s) /\ cmdReturn'[d] = cmdReturn[d]
      BY <2>3 DEF ResetReturn, ReturnType
    <3>2. InWindow(t, d)
      BY <2>3, <3>1 DEF ResetReturn, SetCall, InWindow, At, CallType
    <3> QED
      BY <3>1, <3>2 DEF OwnWindow
  <2>4. ASSUME NEW s \in Sender, Onwards(s) PROVE t \in cmdReturn'[d].during
    <3>1. UNCHANGED cmdReturn
      BY <2>4 DEF Onwards, SetReturnId, UnsetReturnId, Println, PrintlnFails, Cancel,
         Abort, Sleep, LeavePoll, TakeReturn, SendReturns, Send
    <3> QED
      BY <2>4, <3>1, OnwardsWindow DEF OwnWindow
  <2> QED
    BY <2>1, <2>2, <2>3, <2>4, NextSplit
<1> QED
  BY <1>1, <1>2, TypeCorrect, PTL DEF Spec

-----------------------------------------------------------------------------
\* Only UnsetReturnId makes cmdReturnId null and only UnsetReturnId raises
\* finished.
LEMMA SenderLossFrame ==
    ASSUME NEW s \in Sender, ResetReturn(s) \/ Onwards(s)
    PROVE  /\ UNCHANGED <<dropped, readerPc>>
           /\ UnsetReturnId(s) \/ UNCHANGED finished
           /\ SetReturnId(s) \/ UnsetReturnId(s) \/ UNCHANGED cmdReturnId
  BY DEF Onwards, ResetReturn, SetReturnId, UnsetReturnId, Println, PrintlnFails, Cancel,
     Abort, Sleep, LeavePoll, TakeReturn, SendReturns, Send

\* ingestLine loses at most one line per finished call of Client.send.
THEOREM LossBoundCorrect == Spec => []LossBound
<1>1. Init => LossInvariant
  <2> SUFFICES ASSUME Init, NEW c \in Client
               PROVE  dropped[c] <= finished[c] /\ readerPc[c] # "assign"
    BY DEF LossInvariant
  <2> QED
    BY DEF Init
<1>2. TypeOK /\ LossInvariant /\ [Next]_vars => LossInvariant'
  <2> SUFFICES ASSUME TypeOK, LossInvariant, [Next]_vars PROVE LossInvariant'
    OBVIOUS
  <2> USE DEF LossInvariant, TypeOK, HistoryType, ReturnType, ReaderType, SetReader
  <2>1. CASE Outside
    <3>1. \A d \in Client : readerPc'[d] = "assign" => readerPc[d] = "assign"
      BY <2>1 DEF Outside, AcceptLoop, Connect, StopAccepting, StartClient, AddClient,
         CloseSession, CloseServer, CloseClient, CloseEnds, Peer, PeerAnswer, PeerEvent,
         PeerExit, ConnectionType
    <3> QED
      BY <2>1, <3>1, OutsideFrame
  <2>2. CASE UNCHANGED vars
    BY <2>2 DEF vars
  <2>3. ASSUME NEW c \in Client, CheckPending(c) PROVE LossInvariant'
    BY <2>3 DEF CheckPending
  <2>4. ASSUME NEW c \in Client, LoseLine(c) PROVE LossInvariant'
    BY <2>4 DEF LoseLine
  <2>5. ASSUME NEW c \in Client,
               \/ OpenStreams(c) \/ ReadLine(c) \/ EndOfStream(c)
               \/ AssignReturn(c) \/ DefaultReturn(c) \/ HandleEvent(c)
        PROVE LossInvariant'
    BY <2>5 DEF OpenStreams, ReadLine, EndOfStream, AssignReturn, DefaultReturn, HandleEvent
  <2>6. ASSUME NEW s \in Sender, UnsetReturnId(s) PROVE LossInvariant'
    <3>1. At(s) \in Client
      BY <2>6, AtClient DEF UnsetReturnId, CallType
    <3> QED
      BY <2>6, <3>1 DEF UnsetReturnId
  <2>7. ASSUME NEW s \in Sender, SetReturnId(s) PROVE LossInvariant'
    <3>1. At(s) \in Client /\ cmd[s] # Null
      BY <2>7, AtClient, SessionAssumption DEF SetReturnId, CallType
    <3> QED
      BY <2>7, <3>1 DEF SetReturnId
  <2>8. ASSUME NEW s \in Sender, ResetReturn(s) \/ Onwards(s),
               ~UnsetReturnId(s), ~SetReturnId(s)
        PROVE LossInvariant'
    BY <2>8, SenderLossFrame
  <2> QED
    BY <2>1, <2>2, <2>3, <2>4, <2>5, <2>6, <2>7, <2>8, NextSplit DEF ClientThread
<1>3. LossInvariant => LossBound
  BY DEF LossInvariant, LossBound
<1> QED
  BY <1>1, <1>2, <1>3, TypeCorrect, PTL DEF Spec

-----------------------------------------------------------------------------
\* s has set cmdReturnId of c and has not reset it yet.
Holds(s, c) == InWindow(s, c) /\ pc[s] \in {"print", "poll", "unset"}

\* A sender keeps its place unless it takes a step itself.
LEMMA HoldsStable ==
    ASSUME CallType, NEW s \in Sender, ResetReturn(s) \/ Onwards(s),
           NEW t \in Sender, t # s, NEW c, Holds(t, c)
    PROVE  Holds(t, c)'
<1>1. pc'[t] = pc[t] /\ todo'[t] = todo[t]
  BY DEF CallType, SetCall, EndCall, Onwards, ResetReturn, SetReturnId, UnsetReturnId,
     Println, PrintlnFails, Cancel, Abort, Sleep, LeavePoll, TakeReturn, SendReturns, Send
<1> QED
  BY <1>1 DEF Holds, InWindow, At

\* Outside a call, an undisturbed client has no pending command.
THEOREM NoDanglingIdCorrect == Spec => []NoDanglingId
<1>1. Init => PendingInvariant
  <2> SUFFICES ASSUME Init, NEW c \in Client PROVE cmdReturnId[c] = Null
    BY DEF PendingInvariant
  <2> QED
    BY DEF Init
<1>2. TypeOK /\ PendingInvariant /\ [Next]_vars => PendingInvariant'
  <2> SUFFICES ASSUME TypeOK, PendingInvariant, [Next]_vars, NEW d \in Client,
                      d \notin disturbed', cmdReturnId'[d] # Null
               PROVE  \E t \in Sender : Holds(t, d)'
    BY DEF PendingInvariant, Holds
  <2> USE DEF TypeOK
  <2>a. ASSUME d \notin disturbed, cmdReturnId[d] # Null
        PROVE  \E t \in Sender : Holds(t, d)
    BY <2>a DEF PendingInvariant, Holds
  <2>1. CASE Outside \/ UNCHANGED vars
    BY <2>1, <2>a, OutsideFrame DEF vars, Holds, InWindow, At
  <2>2. ASSUME NEW c \in Client, ClientThread(c) PROVE \E t \in Sender : Holds(t, d)'
    <3>1. disturbed \subseteq disturbed'
      BY <2>2 DEF ClientThread, OpenStreams, ReadLine, EndOfStream, CheckPending,
         AssignReturn, LoseLine, DefaultReturn, HandleEvent
    <3>2. UNCHANGED <<pc, todo, cmdReturnId>>
      BY <2>2, ClientThreadFrame
    <3> QED
      BY <2>a, <3>1, <3>2 DEF Holds, InWindow, At
  <2>3. ASSUME NEW s \in Sender, ResetReturn(s) \/ Onwards(s)
        PROVE  \E t \in Sender : Holds(t, d)'
    <3>1. disturbed \subseteq disturbed'
      BY <2>3 DEF Onwards, ResetReturn, SetReturnId, UnsetReturnId, Println, PrintlnFails,
         Cancel, Abort, Sleep, LeavePoll, TakeReturn, SendReturns, Send
    <3>2. CASE SetReturnId(s) /\ At(s) = d
      <4>1. pc'[s] = "print" /\ todo' = todo
        BY <3>2 DEF SetReturnId, SetCall, CallType
      <4> QED
        BY <3>2, <4>1 DEF Holds, InWindow, At
    <3>3. CASE ~(SetReturnId(s) /\ At(s) = d)
      <4>1. cmdReturnId[d] # Null
        BY <2>3, <3>3, SenderLossFrame DEF SetReturnId, UnsetReturnId, ReturnType
      <4>2. PICK t \in Sender : Holds(t, d)
        BY <2>a, <3>1, <4>1
      <4>3. CASE t # s
        BY <2>3, <4>2, <4>3, HoldsStable
      <4>4. CASE t = s
        <5>1. pc[s] \in {"print", "poll", "unset"} /\ At(s) = d
          BY <4>2, <4>4 DEF Holds, InWindow
        <5>2. ~UnsetReturnId(s)
          <6> SUFFICES ASSUME UnsetReturnId(s) PROVE FALSE
            OBVIOUS
          <6> QED
            BY <5>1 DEF UnsetReturnId, ReturnType
        <5>3. ~(PrintlnFails(s) \/ Cancel(s))
          BY <5>1 DEF PrintlnFails, Cancel, Abort
        <5>4. Println(s) \/ Sleep(s) \/ LeavePoll(s)
          BY <2>3, <5>1, <5>2, <5>3
             DEF Onwards, ResetReturn, SetReturnId, TakeReturn, SendReturns, Send
        <5>5. pc'[s] \in {"print", "poll", "unset"} /\ todo' = todo
          BY <5>1, <5>4 DEF Println, Sleep, LeavePoll, SetCall, CallType
        <5> QED
          BY <5>1, <5>5 DEF Holds, InWindow, At
      <4> QED
        BY <4>3, <4>4
    <3> QED
      BY <3>2, <3>3
  <2> QED
    BY <2>1, <2>2, <2>3, NextSplit
<1>3. PendingInvariant => NoDanglingId
  BY DEF PendingInvariant, NoDanglingId, Pending
<1> QED
  BY <1>1, <1>2, <1>3, TypeCorrect, PTL DEF Spec

-----------------------------------------------------------------------------
\* A step that leaves alone all that AnswerInvariant looks at on a client, or
\* makes its reader leave ingestLine.
SameView(c) ==
    /\ inbox'[c] = inbox[c] /\ wire'[c] = wire[c] /\ line'[c] = line[c]
    /\ cmdReturn'[c] = cmdReturn[c] /\ cmdReturnId'[c] = cmdReturnId[c]
    /\ readerPc'[c] = readerPc[c] \/ readerPc'[c] \notin {"check", "assign", "default"}
    /\ UNCHANGED <<pc, cmd, number, todo>>

\* AnswerInvariant, for one client.
AnswerInv(c) ==
    /\ OneCall(c) /\ OneTrace(c)
    /\ UnderWay(c) => \E s \in Sender : Awaited(c, s)

LEMMA ViewFrame ==
    ASSUME NEW c \in Client, AnswerInv(c), SameView(c) PROVE AnswerInv(c)'
  BY DEF AnswerInv, SameView, OneCall, OneTrace, UnderWay, Awaited, AnswersOnWire,
     InHand, HalfStored, InWindow, At

\* The accept loop, Session.close, the other clients' threads and processes change
\* nothing of a client that the invariant looks at.
LEMMA AnswerOutside ==
    ASSUME TypeOK, NEW d \in Client,
           \/ AcceptLoop \/ CloseSession \/ UNCHANGED vars
           \/ \E c \in Client : c # d /\ (ClientThread(c) \/ Peer(c))
    PROVE  SameView(d)
<1> USE DEF TypeOK, ConnectionType, TrafficType, ReaderType, ReturnType, SetReader, SameView
<1>1. CASE AcceptLoop
  BY <1>1 DEF AcceptLoop, Connect, StopAccepting, StartClient, AddClient
<1>2. CASE CloseSession
  BY <1>2 DEF CloseSession, CloseServer, CloseClient, CloseEnds
<1>3. ASSUME NEW c \in Client, c # d, Peer(c) PROVE SameView(d)
  BY <1>3 DEF Peer, PeerAnswer, PeerEvent, PeerExit
<1>4. ASSUME NEW c \in Client, c # d, ClientThread(c) PROVE SameView(d)
  BY <1>4 DEF ClientThread, OpenStreams, ReadLine, EndOfStream, CheckPending,
     AssignReturn, LoseLine, DefaultReturn, HandleEvent
<1>5. CASE UNCHANGED vars
  BY <1>5 DEF vars
<1> QED
  BY <1>1, <1>2, <1>3, <1>4, <1>5

\* The sequence facts the traces need.
LEMMA TraceFacts ==
    ASSUME NEW q \in Seq(Line), NEW m \in Line
    PROVE  /\ Len(Append(q, m)) = Len(q) + 1 /\ Len(q) \in Nat
           /\ \A i \in 1..Len(q) : Append(q, m)[i] = q[i]
           /\ Append(q, m)[Len(q) + 1] = m
           /\ q # <<>> => /\ Len(Tail(q)) = Len(q) - 1
                          /\ Len(q) > 0
                          /\ Head(q) = q[1]
                          /\ \A i \in 1..Len(Tail(q)) : Tail(q)[i] = q[i + 1]
  OBVIOUS

\* A process that answers moves the trace from its inbox to the wire; an event
\* leaves no trace.
LEMMA AnswerPeer ==
    ASSUME TypeOK, NEW d \in Client, AnswerInv(d), Peer(d) PROVE AnswerInv(d)'
<1> USE DEF TypeOK, TrafficType
<1>1. CASE PeerAnswer(d)
  <2>1. PICK s \in Sender : Awaited(d, s)
    BY <1>1 DEF PeerAnswer, AnswerInv, UnderWay
  <2>2. /\ AnswersOnWire(d) = {} /\ ~InHand(d) /\ ~HalfStored(d)
        /\ Tail(inbox[d]) = <<>> /\ Head(inbox[d]) = number[s] /\ number[s] \in Nat
    BY <1>1, <2>1 DEF PeerAnswer, AnswerInv, OneTrace, Awaited, CallType
  <2>3. inbox'[d] = <<>> /\ wire'[d] = Append(wire[d], Answer(number[s]))
    BY <1>1, <2>2 DEF PeerAnswer, Answer
  <2>4. AnswersOnWire(d)' = {Len(wire[d]) + 1} /\ wire'[d][Len(wire[d]) + 1] = Answer(number[s])
    <3>1. Answer(number[s]) \in Line /\ wire[d] \in Seq(Line)
      BY <2>2 DEF Answer, Line
    <3> QED
      BY <2>2, <2>3, <3>1, TraceFacts DEF AnswersOnWire, Answer
  <2>5. UNCHANGED <<readerPc, line, cmdReturn, cmdReturnId, pc, cmd, number, todo>>
    BY <1>1 DEF PeerAnswer
  <2>6. OneCall(d)'
    BY <2>5 DEF AnswerInv, OneCall, InWindow, At
  <2>7. OneTrace(d)'
    BY <2>2, <2>3, <2>4, <2>5 DEF OneTrace, InHand, HalfStored
  <2>8. Awaited(d, s)'
    BY <2>1, <2>2, <2>3, <2>4, <2>5 DEF Awaited, InHand, HalfStored, InWindow, At
  <2> QED
    BY <2>6, <2>7, <2>8 DEF AnswerInv
<1>2. CASE PeerEvent(d)
  <2>1. AnswersOnWire(d)' = AnswersOnWire(d) /\ \A i \in AnswersOnWire(d) : wire'[d][i] = wire[d][i]
    <3>1. [kind |-> "event", n |-> emitted[d] + 1] \in Line /\ wire[d] \in Seq(Line)
      BY DEF Line
    <3> QED
      BY <1>2, <3>1, TraceFacts DEF AnswersOnWire, PeerEvent
  <2>2. UNCHANGED <<inbox, readerPc, line, cmdReturn, cmdReturnId, pc, cmd, number, todo>>
    BY <1>2 DEF PeerEvent
  <2> QED
    BY <2>1, <2>2 DEF AnswerInv, OneCall, OneTrace, UnderWay, Awaited, InHand, HalfStored,
       InWindow, At
<1>3. CASE PeerExit(d)
  BY <1>3, ViewFrame DEF PeerExit, SameView
<1> QED
  BY <1>1, <1>2, <1>3 DEF Peer

\* The call that waits for the trace still has its id in cmdReturnId.
LEMMA AwaitedId ==
    ASSUME TypeOK, NEW d \in Client, AnswerInv(d), UnderWay(d)
    PROVE  \E s \in Sender : Awaited(d, s) /\ cmdReturnId[d] = cmd[s] /\ cmd[s] \in Cmd
<1>1. PICK s \in Sender : Awaited(d, s)
  BY DEF AnswerInv
<1>2. pc[s] = "poll" /\ InWindow(s, d)
  BY <1>1 DEF Awaited
<1> QED
  BY <1>1, <1>2 DEF AnswerInv, OneCall, TypeOK, CallType

\* The reader takes the answer from the wire into its hand and stores it, in the
\* class of the pending command.
LEMMA AnswerReader ==
    ASSUME TypeOK, NEW d \in Client, d \notin disturbed', AnswerInv(d), ClientThread(d)
    PROVE  AnswerInv(d)'
<1> USE DEF TypeOK, ReaderType, ReturnType, SetReader
<1>1. CASE OpenStreams(d) \/ EndOfStream(d) \/ HandleEvent(d)
  BY <1>1, ViewFrame DEF OpenStreams, EndOfStream, HandleEvent, SameView
<1>2. CASE ReadLine(d)
  <2>1. /\ wire[d] \in Seq(Line) /\ wire[d] # <<>> /\ readerPc[d] = "read"
        /\ wire'[d] = Tail(wire[d]) /\ line'[d] = wire[d][1] /\ readerPc'[d] = "check"
    BY <1>2 DEF ReadLine, TrafficType
  <2>2. UNCHANGED <<inbox, cmdReturn, cmdReturnId, pc, cmd, number, todo>>
    BY <1>2 DEF ReadLine
  <2>3. ~InHand(d) /\ ~HalfStored(d) /\ ~HalfStored(d)' /\ OneCall(d)'
    BY <2>1, <2>2 DEF InHand, HalfStored, AnswerInv, OneCall, InWindow, At
  <2>4. CASE 1 \in AnswersOnWire(d)
    <3>1. PICK s \in Sender : Awaited(d, s)
      BY <2>4 DEF AnswerInv, UnderWay
    <3>2. AnswersOnWire(d)' = {}
      <4> SUFFICES ASSUME NEW i \in AnswersOnWire(d)' PROVE FALSE
        OBVIOUS
      <4>1. i + 1 \in AnswersOnWire(d) /\ i + 1 # 1
        BY <2>1, TraceFacts DEF AnswersOnWire
      <4> QED
        BY <2>4, <4>1 DEF AnswerInv, OneTrace
    <3>3. inbox[d] = <<>> /\ line'[d] = Answer(number[s])
      BY <2>1, <2>4, <3>1 DEF AnswerInv, OneTrace, Awaited
    <3>4. OneTrace(d)' /\ Awaited(d, s)'
      BY <2>2, <2>3, <3>1, <3>2, <3>3 DEF OneTrace, Awaited, InWindow, At
    <3> QED
      BY <2>3, <3>4 DEF AnswerInv
  <2>5. CASE 1 \notin AnswersOnWire(d)
    <3>1. ~InHand(d)'
      BY <2>1, <2>5, TraceFacts DEF InHand, AnswersOnWire
    <3>2. \A i \in AnswersOnWire(d)' : i + 1 \in AnswersOnWire(d) /\ wire'[d][i] = wire[d][i + 1]
      BY <2>1, TraceFacts DEF AnswersOnWire
    <3>3. OneTrace(d)'
      <4>1. \A i, j \in AnswersOnWire(d)' : i = j
        <5> SUFFICES ASSUME NEW i \in AnswersOnWire(d)', NEW j \in AnswersOnWire(d)' PROVE i = j
          OBVIOUS
        <5>1. i \in Nat /\ j \in Nat
          BY <2>1, TraceFacts DEF AnswersOnWire
        <5>2. i + 1 = j + 1
          BY <3>2 DEF AnswerInv, OneTrace
        <5> QED
          BY <5>1, <5>2
      <4>2. AnswersOnWire(d)' # {} => AnswersOnWire(d) # {}
        BY <3>2
      <4> QED
        BY <2>2, <2>3, <3>1, <4>1, <4>2 DEF AnswerInv, OneTrace
    <3>4. ASSUME NEW s \in Sender, Awaited(d, s) PROVE Awaited(d, s)'
      BY <2>2, <2>3, <3>1, <3>2, <3>4 DEF Awaited, InWindow, At
    <3>5. UnderWay(d)' => UnderWay(d)
      BY <2>2, <2>3, <3>1, <3>2 DEF UnderWay
    <3> QED
      BY <2>3, <3>3, <3>4, <3>5 DEF AnswerInv
  <2> QED
    BY <2>4, <2>5
<1>3. CASE CheckPending(d)
  <2>1. /\ readerPc[d] = "check"
        /\ readerPc'[d] = IF cmdReturnId[d] # Null THEN "assign" ELSE "event"
        /\ UNCHANGED <<inbox, wire, line, cmdReturn, cmdReturnId, pc, cmd, number, todo>>
    BY <1>3 DEF CheckPending
  <2>2. InHand(d)' <=> InHand(d)
    <3>1. CASE InHand(d)
      BY <2>1, <3>1, AwaitedId, SessionAssumption DEF UnderWay, InHand
    <3>2. CASE ~InHand(d)
      BY <2>1, <3>2 DEF InHand
    <3> QED
      BY <3>1, <3>2
  <2>3. ~HalfStored(d) /\ ~HalfStored(d)' /\ AnswersOnWire(d)' = AnswersOnWire(d)
    BY <2>1 DEF HalfStored, AnswersOnWire
  <2> QED
    BY <2>1, <2>2, <2>3 DEF AnswerInv, OneCall, OneTrace, UnderWay, Awaited, InWindow, At
<1>4. CASE AssignReturn(d)
  <2>1. /\ readerPc[d] = "assign" /\ readerPc'[d] = "default"
        /\ cmdReturn'[d] = returnFactory(d, cmdReturnId[d])
        /\ UNCHANGED <<inbox, wire, line, cmdReturnId, pc, cmd, number, todo>>
    BY <1>4 DEF AssignReturn
  <2>2. InHand(d)
    BY <1>4 DEF AssignReturn, InHand, Line
  <2>3. PICK s \in Sender : Awaited(d, s) /\ cmdReturnId[d] = cmd[s] /\ cmd[s] \in Cmd
    BY <2>2, AwaitedId DEF UnderWay
  <2>4. /\ InWindow(s, d)' /\ pc'[s] = "poll" /\ line[d] = Answer(number[s])
        /\ \A t \in Sender : InWindow(t, d)' => t = s
    BY <2>1, <2>2, <2>3 DEF Awaited, AnswerInv, OneCall, InWindow, At
  <2>5. inbox[d] = <<>> /\ AnswersOnWire(d)' = {} /\ ~InHand(d)'
    BY <2>1, <2>2 DEF AnswerInv, OneTrace, AnswersOnWire, InHand
  <2>6. /\ cmd[s] \in Completion => /\ cmdReturn'[d] # Null
                                    /\ cmdReturn'[d].line = line[d]
                                    /\ cmdReturn'[d].class = cmd[s]
        /\ cmd[s] \notin Completion => cmdReturn'[d] = Null
    <3>1. CASE cmd[s] \in Completion
      <4>1. cmdReturn'[d] = MakeReturn(d, cmd[s])
        BY <2>1, <2>3, <3>1 DEF returnFactory
      <4>2. MakeReturn(d, cmd[s]) \in Return
        BY <3>1 DEF MakeReturn, Return, Pending
      <4> QED
        BY <3>1, <4>1, <4>2, NullAssumption DEF MakeReturn
    <3>2. CASE cmd[s] \notin Completion
      BY <2>1, <2>3, <3>2 DEF returnFactory
    <3> QED
      BY <3>1, <3>2
  <2>7. OneCall(d)'
    BY <2>1, <2>3, <2>4, <2>6 DEF OneCall
  <2>8. OneTrace(d)'
    BY <2>1, <2>5 DEF OneTrace
  <2>9. HalfStored(d)' => Awaited(d, s)'
    BY <2>1, <2>4, <2>5, <2>6 DEF HalfStored, Awaited
  <2> QED
    BY <2>1, <2>5, <2>7, <2>8, <2>9 DEF AnswerInv, UnderWay
<1>5. CASE LoseLine(d)
  BY <1>5, ViewFrame DEF LoseLine, SameView
<1>6. CASE DefaultReturn(d)
  <2>1. CASE cmdReturn[d] # Null
    BY <1>6, <2>1, ViewFrame DEF DefaultReturn, SameView
  <2>2. CASE cmdReturn[d] = Null
    <3>1. /\ readerPc[d] = "default" /\ readerPc'[d] = "event"
          /\ cmdReturn'[d] = MakeReturn(d, Plain)
          /\ UNCHANGED <<inbox, wire, line, cmdReturnId, pc, cmd, number, todo>>
      BY <1>6, <2>2 DEF DefaultReturn
    <3>2. HalfStored(d)
      BY <2>2, <3>1 DEF HalfStored
    <3>3. PICK s \in Sender : Awaited(d, s) /\ cmdReturnId[d] = cmd[s] /\ cmd[s] \in Cmd
      BY <3>2, AwaitedId DEF UnderWay
    <3>4. /\ InWindow(s, d)' /\ pc'[s] = "poll" /\ line[d] = Answer(number[s])
          /\ cmd[s] \notin Completion
          /\ \A t \in Sender : InWindow(t, d)' => t = s
      BY <3>1, <3>2, <3>3 DEF Awaited, AnswerInv, OneCall, InWindow, At
    <3>5. /\ inbox[d] = <<>> /\ AnswersOnWire(d)' = {}
          /\ ~InHand(d)' /\ ~HalfStored(d)'
      BY <3>1, <3>2 DEF AnswerInv, OneTrace, AnswersOnWire, InHand, HalfStored
    <3>6. cmdReturn'[d].line = line[d] /\ cmdReturn'[d].class = Plain
      BY <3>1 DEF MakeReturn
    <3>7. OneCall(d)'
      BY <3>1, <3>3, <3>4, <3>6 DEF OneCall
    <3> QED
      BY <3>1, <3>5, <3>7 DEF AnswerInv, OneTrace, UnderWay
  <2> QED
    BY <2>1, <2>2
<1> QED
  BY <1>1, <1>2, <1>3, <1>4, <1>5, <1>6 DEF ClientThread

\* A sender's step touches no other sender, no wire and no reader.
LEMMA SenderFrame ==
    ASSUME CallType, NEW s \in Sender, ResetReturn(s) \/ Onwards(s)
    PROVE  /\ \A t \in Sender : t # s => /\ pc'[t] = pc[t] /\ cmd'[t] = cmd[t]
                                         /\ number'[t] = number[t] /\ todo'[t] = todo[t]
           /\ UNCHANGED <<wire, readerPc, line>>
           /\ disturbed \subseteq disturbed'
  BY DEF CallType, SetCall, EndCall, Onwards, ResetReturn, SetReturnId, UnsetReturnId,
     Println, PrintlnFails, Cancel, Abort, Sleep, LeavePoll, TakeReturn, SendReturns, Send

\* A step of a sender that is and stays outside its window on a client leaves that
\* client alone.
LEMMA AnswerOtherSender ==
    ASSUME TypeOK, NEW d \in Client, AnswerInv(d),
           NEW s \in Sender, ResetReturn(s) \/ Onwards(s),
           ~InWindow(s, d), ~InWindow(s, d)'
    PROVE  AnswerInv(d)'
<1> USE DEF TypeOK
<1>1. inbox'[d] = inbox[d] /\ cmdReturn'[d] = cmdReturn[d] /\ cmdReturnId'[d] = cmdReturnId[d]
  <2>1. CASE ResetReturn(s)
    <3>1. At(s) # d
      BY <2>1 DEF ResetReturn, SetCall, InWindow, At, CallType
    <3> QED
      BY <2>1, <3>1 DEF ResetReturn, ReturnType
  <2>2. CASE SetReturnId(s) \/ UnsetReturnId(s) \/ Println(s)
    <3>1. At(s) # d
      BY <2>2 DEF SetReturnId, UnsetReturnId, Println, InWindow
    <3> QED
      BY <2>2, <3>1 DEF SetReturnId, UnsetReturnId, Println, ReturnType, TrafficType
  <2>3. CASE \/ PrintlnFails(s) \/ Cancel(s) \/ Sleep(s) \/ LeavePoll(s)
             \/ TakeReturn(s) \/ SendReturns(s) \/ \E id \in Cmd : Send(s, id)
    BY <2>3 DEF PrintlnFails, Cancel, Abort, Sleep, LeavePoll, TakeReturn, SendReturns, Send
  <2> QED
    BY <2>1, <2>2, <2>3 DEF Onwards
<1>2. UNCHANGED <<wire, readerPc, line>>
  BY SenderFrame
<1>3. \A t \in Sender : /\ InWindow(t, d)' <=> InWindow(t, d)
                        /\ InWindow(t, d) => /\ pc'[t] = pc[t] /\ cmd'[t] = cmd[t]
                                             /\ number'[t] = number[t]
  BY SenderFrame DEF InWindow, At
<1>4. OneCall(d)'
  BY <1>1, <1>2, <1>3 DEF AnswerInv, OneCall
<1> QED
  BY <1>1, <1>2, <1>3, <1>4 DEF AnswerInv, OneTrace, UnderWay, Awaited, AnswersOnWire,
     InHand, HalfStored

\* The call in its window on a client is the only one there, and a trace is under
\* way only while it polls without a return.
LEMMA OwnTrace ==
    ASSUME NEW d \in Client, AnswerInv(d), NEW s \in Sender, InWindow(s, d)
    PROVE  /\ UnderWay(d) => Awaited(d, s)
           /\ pc[s] # "poll" \/ cmdReturn[d] # Null => ~UnderWay(d)
  BY DEF AnswerInv, OneCall, Awaited

\* A queue of one element.
LEMMA Singleton ==
    ASSUME NEW n, NEW q, q = <<>> \/ q = Append(<<>>, n)
    PROVE  q = <<>> \/ (q # <<>> /\ Tail(q) = <<>> /\ Head(q) = n)
<1>1. /\ Append(<<>>, n) = <<n>> /\ <<n>> # <<>>
      /\ Head(<<n>>) = n /\ Tail(<<n>>) = <<>>
  OBVIOUS
<1> QED
  BY <1>1

\* The steps of the call that is in its window on a client, or enters it.
LEMMA AnswerOwnSender ==
    ASSUME TypeOK, NEW d \in Client, d \notin disturbed', AnswerInv(d),
           NEW s \in Sender, ResetReturn(s) \/ Onwards(s),
           InWindow(s, d) \/ InWindow(s, d)'
    PROVE  AnswerInv(d)'
<1> USE DEF TypeOK
<1>a. UNCHANGED <<wire, readerPc, line>>
  BY SenderFrame
<1>b. ASSUME NEW t \in Sender, t # s
      PROVE  /\ InWindow(t, d)' <=> InWindow(t, d)
             /\ pc'[t] = pc[t] /\ cmd'[t] = cmd[t] /\ number'[t] = number[t]
  BY <1>b, SenderFrame DEF InWindow, At
<1>c. AnswersOnWire(d)' = AnswersOnWire(d) /\ (InHand(d)' <=> InHand(d))
  BY <1>a DEF AnswersOnWire, InHand
<1>1. CASE ResetReturn(s)
  <2>1. At(s) = d /\ Pending(d) = {} /\ ~Ingesting(d)
    BY <1>1 DEF ResetReturn, SetCall, InWindow, At, CallType
  <2>2. /\ pc'[s] = "id" /\ cmdReturn'[d] = Null /\ todo' = todo
        /\ UNCHANGED <<inbox, cmdReturnId>>
    BY <1>1, <2>1 DEF ResetReturn, SetCall, CallType, ReturnType
  <2>3. ~UnderWay(d) /\ \A t \in Sender : ~InWindow(t, d)
    BY <2>1 DEF AnswerInv, Awaited, Pending
  <2>4. ~HalfStored(d)' /\ readerPc'[d] # "default"
    BY <1>a, <2>1 DEF HalfStored, Ingesting
  <2>5. ~UnderWay(d)' /\ OneTrace(d)'
    BY <1>c, <2>2, <2>3, <2>4 DEF UnderWay, OneTrace
  <2>6. OneCall(d)'
    BY <1>b, <2>2, <2>3, <2>4 DEF OneCall
  <2> QED
    BY <2>5, <2>6 DEF AnswerInv
<1>2. CASE SetReturnId(s)
  <2>1. /\ At(s) = d /\ InWindow(s, d) /\ pc[s] = "id" /\ pc'[s] = "print" /\ todo' = todo
        /\ cmdReturnId'[d] = cmd[s]
        /\ UNCHANGED <<inbox, cmdReturn, cmd, number>>
    BY <1>2 DEF SetReturnId, SetCall, InWindow, At, CallType, ReturnType
  <2>2. ~UnderWay(d)
    BY <2>1, OwnTrace
  <2>3. ~UnderWay(d)' /\ OneTrace(d)'
    BY <1>a, <1>c, <2>1, <2>2 DEF UnderWay, OneTrace, HalfStored
  <2>4. OneCall(d)'
    BY <1>a, <1>b, <2>1 DEF AnswerInv, OneCall
  <2> QED
    BY <2>3, <2>4 DEF AnswerInv
<1>3. CASE Println(s)
  <2>1. /\ At(s) = d /\ InWindow(s, d) /\ pc[s] = "print" /\ pc'[s] = "poll" /\ todo' = todo
        /\ inbox'[d] = inbox[d] \/ inbox'[d] = Append(inbox[d], number[s])
        /\ UNCHANGED <<cmdReturn, cmdReturnId, cmd, number>>
    BY <1>3 DEF Println, SetCall, InWindow, At, CallType, TrafficType
  <2>2. ~UnderWay(d) /\ inbox[d] = <<>>
    BY <2>1, OwnTrace DEF UnderWay
  <2>3. cmdReturn[d] = Null /\ readerPc[d] # "default"
    BY <2>1 DEF AnswerInv, OneCall
  <2>4. inbox'[d] = <<>> \/ (inbox'[d] # <<>> /\ Tail(inbox'[d]) = <<>> /\ Head(inbox'[d]) = number[s])
    <3>1. inbox'[d] = <<>> \/ inbox'[d] = Append(<<>>, number[s])
      BY <2>1, <2>2
    <3> QED
      BY <3>1, Singleton
  <2>5. OneCall(d)'
    BY <1>a, <1>b, <2>1, <2>3 DEF AnswerInv, OneCall
  <2>6. OneTrace(d)'
    BY <1>a, <1>c, <2>2, <2>3, <2>4 DEF OneTrace, UnderWay, HalfStored
  <2>7. InWindow(s, d)'
    BY <2>1 DEF InWindow, At
  <2>8. Awaited(d, s)'
    BY <1>a, <1>c, <2>1, <2>2, <2>3, <2>4, <2>7 DEF Awaited, UnderWay, HalfStored
  <2> QED
    BY <2>5, <2>6, <2>8 DEF AnswerInv
<1>4. CASE PrintlnFails(s) \/ Cancel(s)
  <2>1. At(s) = d
    BY <1>4 DEF PrintlnFails, Cancel, Abort, EndCall, SetCall, InWindow, CallType
  <2> QED
    BY <1>4, <2>1 DEF PrintlnFails, Cancel, Abort
<1>5. CASE Sleep(s)
  <2>1. UNCHANGED <<inbox, cmdReturn, cmdReturnId, pc, cmd, number, todo>>
    BY <1>5 DEF Sleep
  <2> QED
    BY <1>a, <2>1, ViewFrame DEF SameView
<1>6. CASE LeavePoll(s)
  <2>1. /\ At(s) = d /\ InWindow(s, d) /\ pc'[s] = "unset" /\ todo' = todo
        /\ cmdReturn[d] # Null
        /\ UNCHANGED <<inbox, cmdReturn, cmdReturnId, cmd, number>>
    BY <1>6 DEF LeavePoll, SetCall, InWindow, At, CallType
  <2>2. ~UnderWay(d)
    BY <2>1, OwnTrace
  <2>3. ~UnderWay(d)' /\ OneTrace(d)'
    BY <1>a, <1>c, <2>1, <2>2 DEF UnderWay, OneTrace, HalfStored
  <2>4. pc[s] = "poll"
    BY <1>6 DEF LeavePoll
  <2>5. OneCall(d)'
    BY <1>a, <1>b, <2>1, <2>4 DEF AnswerInv, OneCall
  <2> QED
    BY <2>3, <2>5 DEF AnswerInv
<1>7. CASE UnsetReturnId(s)
  <2>1. /\ At(s) = d /\ InWindow(s, d) /\ pc[s] = "unset" /\ pc'[s] = "take" /\ todo' = todo
        /\ UNCHANGED <<inbox, cmdReturn, cmd, number>>
    BY <1>7 DEF UnsetReturnId, SetCall, InWindow, At, CallType
  <2>2. ~UnderWay(d)
    BY <2>1, OwnTrace
  <2>3. ~UnderWay(d)' /\ OneTrace(d)'
    BY <1>a, <1>c, <2>1, <2>2 DEF UnderWay, OneTrace, HalfStored
  <2>4. OneCall(d)'
    BY <1>a, <1>b, <2>1 DEF AnswerInv, OneCall
  <2> QED
    BY <2>3, <2>4 DEF AnswerInv
<1>8. CASE TakeReturn(s)
  <2>1. /\ InWindow(s, d) /\ pc[s] = "take" /\ pc'[s] = "loop"
        /\ UNCHANGED <<inbox, cmdReturn, cmdReturnId, cmd, number>>
    BY <1>8 DEF TakeReturn, SetCall, InWindow, CallType
  <2>2. ~UnderWay(d)
    BY <2>1, OwnTrace
  <2>3. ~UnderWay(d)' /\ OneTrace(d)'
    BY <1>a, <1>c, <2>1, <2>2 DEF UnderWay, OneTrace, HalfStored
  <2>4. \A t \in Sender : ~InWindow(t, d)'
    BY <1>b, <2>1 DEF AnswerInv, OneCall, InWindow
  <2> QED
    BY <2>3, <2>4 DEF AnswerInv, OneCall
<1>9. CASE SendReturns(s) \/ \E id \in Cmd : Send(s, id)
  BY <1>9 DEF SendReturns, Send, EndCall, SetCall, InWindow, CallType
<1> QED
  BY <1>1, <1>2, <1>3, <1>4, <1>5, <1>6, <1>7, <1>8, <1>9 DEF Onwards

\* The answer of an undisturbed client is the answer to the call that takes it, in
\* the class registered for its command.
THEOREM UndisturbedAnswerCorrect == Spec => []UndisturbedAnswer
<1>1. Init => AnswerInvariant
  <2> SUFFICES ASSUME Init, NEW c \in Client PROVE AnswerInv(c)
    BY DEF AnswerInvariant, AnswerInv
  <2>1. OneCall(c)
    BY DEF Init, OneCall, InWindow
  <2>2. ~UnderWay(c)
    BY DEF Init, UnderWay, AnswersOnWire, InHand, HalfStored
  <2> QED
    BY <2>1, <2>2 DEF AnswerInv, OneTrace, UnderWay
<1>2. TypeOK /\ AnswerInvariant /\ [Next]_vars => AnswerInvariant'
  <2> SUFFICES ASSUME TypeOK, AnswerInvariant, [Next]_vars,
                      NEW d \in Client, d \notin disturbed'
               PROVE  AnswerInv(d)'
    BY DEF AnswerInvariant, AnswerInv
  <2>0. d \notin disturbed => AnswerInv(d)
    BY DEF AnswerInvariant, AnswerInv
  <2>1. CASE Outside \/ UNCHANGED vars \/ \E c \in Client : ClientThread(c)
    <3>1. disturbed \subseteq disturbed'
      BY <2>1, OutsideFrame DEF ClientThread, OpenStreams, ReadLine, EndOfStream,
         CheckPending, AssignReturn, LoseLine, DefaultReturn, HandleEvent, vars
    <3>2. CASE Peer(d)
      BY <2>0, <3>1, <3>2, AnswerPeer
    <3>3. CASE ClientThread(d)
      BY <2>0, <3>1, <3>3, AnswerReader
    <3>4. CASE ~Peer(d) /\ ~ClientThread(d)
      BY <2>0, <2>1, <3>1, <3>4, AnswerOutside, ViewFrame DEF Outside
    <3> QED
      BY <3>2, <3>3, <3>4
  <2>2. ASSUME NEW s \in Sender, ResetReturn(s) \/ Onwards(s) PROVE AnswerInv(d)'
    <3>1. AnswerInv(d)
      BY <2>0, <2>2, SenderFrame DEF TypeOK
    <3> QED
      BY <2>2, <3>1, AnswerOwnSender, AnswerOtherSender
  <2> QED
    BY <2>1, <2>2, NextSplit
<1>3. AnswerInvariant => UndisturbedAnswer
  <2> SUFFICES ASSUME AnswerInvariant, NEW s \in Sender, NEW c \in Client,
                      InWindow(s, c), pc[s] = "take", c \notin disturbed
               PROVE  /\ cmdReturn[c] # Null
                      /\ cmdReturn[c].line = [kind |-> "answer", n |-> number[s]]
                      /\ cmdReturn[c].class = IF cmd[s] \in Completion THEN cmd[s] ELSE Plain
    BY DEF UndisturbedAnswer
  <2>1. OneCall(c)
    BY DEF AnswerInvariant
  <2> QED
    BY <2>1 DEF OneCall, Answer
<1> QED
  BY <1>1, <1>2, <1>3, TypeCorrect, PTL DEF Spec

-----------------------------------------------------------------------------
\* What Client.send and ingestLine promise each other, for any number of senders
\* and clients and any timeout.
THEOREM SendSoundCorrect == Spec => []SendSound
<1>1. OwnWindow /\ UndisturbedAnswer /\ LossBound /\ NoDanglingId => SendSound
  BY DEF SendSound
<1> QED
  BY <1>1, OwnWindowCorrect, UndisturbedAnswerCorrect, LossBoundCorrect,
     NoDanglingIdCorrect, PTL

-----------------------------------------------------------------------------
\* Session.close, when it completes, leaves at most one socket open: that of the
\* client the accept loop had in hand.
THEOREM CloseLeaksAtMostOneCorrect == Spec => []CloseLeaksAtMostOne
<1>1. Init => CloseInvariant
  BY DEF Init, CloseInvariant
<1>2. TypeOK /\ CloseInvariant /\ [Next]_vars => CloseInvariant'
  <2> SUFFICES ASSUME TypeOK, CloseInvariant, [Next]_vars PROVE CloseInvariant'
    OBVIOUS
  <2> USE DEF TypeOK, ConnectionType, CloseInvariant, InHandOfAccept
  <2>0. Len(clients) \in Nat
    BY LenNat
  <2>1. ASSUME NEW c \in Client, Connect(c) PROVE CloseInvariant'
    BY <2>1 DEF Connect
  <2>2. CASE StopAccepting \/ StartClient
    BY <2>2 DEF StopAccepting, StartClient
  <2>3. CASE AddClient
    <3>1. /\ Len(clients') = Len(clients) + 1 /\ clients'[Len(clients) + 1] = accepting
          /\ \A i \in 1..Len(clients) : clients'[i] = clients[i]
      BY <2>3 DEF AddClient
    <3>2. acceptPc = "add" /\ acceptPc' = "accept"
          /\ UNCHANGED <<serverOpen, socketOpen, closePc, cursor>>
      BY <2>3 DEF AddClient
    <3>3. \A c \in Client : socketOpen'[c] => \E i \in 1..Len(clients') : clients'[i] = c
      <4> SUFFICES ASSUME NEW c \in Client, socketOpen'[c]
                   PROVE  \E i \in 1..Len(clients') : clients'[i] = c
        OBVIOUS
      <4>1. CASE c = accepting
        <5>1. Len(clients) + 1 \in 1..Len(clients')
          BY <2>0, <3>1
        <5> QED
          BY <3>1, <4>1, <5>1
      <4>2. CASE c # accepting
        <5>1. PICK i \in 1..Len(clients) : clients[i] = c
          BY <3>2, <4>2
        <5>2. i \in 1..Len(clients')
          BY <2>0, <3>1
        <5> QED
          BY <3>1, <5>1, <5>2
      <4> QED
        BY <4>1, <4>2
    <3> QED
      BY <2>0, <3>1, <3>2, <3>3
  <2>4. CASE CloseServer
    BY <2>0, <2>4 DEF CloseServer
  <2>5. CASE CloseClient
    <3>1. clients[cursor] \in Client
      BY <2>0, <2>5 DEF CloseClient
    <3> QED
      BY <2>0, <2>5, <3>1 DEF CloseClient
  <2>6. CASE CloseEnds
    BY <2>0, <2>6 DEF CloseEnds
  <2>7. ASSUME UNCHANGED <<serverOpen, acceptPc, accepting, clients, socketOpen, closing>>
        PROVE  CloseInvariant'
    BY <2>7
  <2>8. CASE \E c \in Client : ClientThread(c) \/ Peer(c)
    BY <2>7, <2>8 DEF ClientThread, OpenStreams, ReadLine, EndOfStream, CheckPending,
       AssignReturn, LoseLine, DefaultReturn, HandleEvent, Peer, PeerAnswer, PeerEvent, PeerExit
  <2>9. CASE \E s \in Sender : ResetReturn(s) \/ Onwards(s)
    BY <2>7, <2>9 DEF Onwards, ResetReturn, SetReturnId, UnsetReturnId, Println,
       PrintlnFails, Cancel, Abort, Sleep, LeavePoll, TakeReturn, SendReturns, Send
  <2>10. CASE UNCHANGED vars
    BY <2>7, <2>10 DEF vars
  <2> QED
    BY <2>1, <2>2, <2>3, <2>4, <2>5, <2>6, <2>8, <2>9, <2>10, NextSplit
       DEF Outside, AcceptLoop, CloseSession
<1>3. TypeOK /\ CloseInvariant => CloseLeaksAtMostOne
  <2> SUFFICES ASSUME TypeOK, CloseInvariant, closePc = "closed"
               PROVE  \A c, d \in Client : socketOpen[c] /\ socketOpen[d] => c = d
    BY DEF CloseLeaksAtMostOne
  <2>1. Len(clients) \in Nat /\ cursor \in Nat
    BY LenNat DEF TypeOK, ConnectionType
  <2>2. ASSUME NEW c \in Client, socketOpen[c]
        PROVE  \/ acceptPc \in {"start", "add"} /\ c = accepting /\ Len(clients) < cursor
               \/ acceptPc \notin {"start", "add"} /\ c = clients[cursor]
    BY <2>1, <2>2 DEF CloseInvariant, InHandOfAccept
  <2> QED
    BY <2>2
<1> QED
  BY <1>1, <1>2, <1>3, TypeCorrect, PTL DEF Spec

=============================================================================
