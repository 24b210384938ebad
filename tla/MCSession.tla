---------------------------- MODULE MCSession ----------------------------
(***************************************************************************)
(* Instances of Session for TLC.  SessionLife.cfg checks the whole         *)
(* specification.  The other runs start where the processes have connected *)
(* and leave out Session.close, to spend their states on the races between *)
(* senders and readers.                                                    *)
(***************************************************************************)
EXTENDS Session, SequencesExt

\* Every client has been accepted, started and added; its streams are open.
ConnectedInit ==
    /\ serverOpen = TRUE
    /\ acceptPc = "accept"
    /\ accepting = Null
    /\ clients = SetToSeq(Client)
    /\ socketOpen = [c \in Client |-> TRUE]
    /\ alive = [c \in Client |-> TRUE]
    /\ inbox = [c \in Client |-> <<>>]
    /\ wire = [c \in Client |-> <<>>]
    /\ emitted = [c \in Client |-> 0]
    /\ readerPc = [c \in Client |-> "read"]
    /\ line = [c \in Client |-> NoLine]
    /\ cmdReturn = [c \in Client |-> Null]
    /\ cmdReturnId = [c \in Client |-> Null]
    /\ pc = [s \in Sender |-> "idle"]
    /\ cmd = [s \in Sender |-> Null]
    /\ number = [s \in Sender |-> 0]
    /\ todo = [s \in Sender |-> <<>>]
    /\ timeout = [s \in Sender |-> Timeout]
    /\ result = [s \in Sender |-> Null]
    /\ sends = 0
    /\ closePc = "open"
    /\ cursor = 1
    /\ modCount = 0
    /\ dropped = [c \in Client |-> 0]
    /\ finished = [c \in Client |-> 0]
    /\ disturbed = {}

\* Senders, readers and processes, while the session is open.
ConnectedNext ==
    \/ \E c \in Client :
          \/ ReadLine(c) \/ CheckPending(c) \/ AssignReturn(c) \/ LoseLine(c)
          \/ DefaultReturn(c) \/ HandleEvent(c) \/ PeerAnswer(c) \/ PeerEvent(c)
    \/ \E s \in Sender :
          SendStep(s) \/ Cancel(s) \/ \E id \in Cmd : Send(s, id)

ConnectedSpec == ConnectedInit /\ [][ConnectedNext]_vars

ConnectedFairSpec ==
    ConnectedSpec /\ \A s \in Sender : WF_vars(SendStep(s))
==========================================================================
