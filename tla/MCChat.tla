------------------------------- MODULE MCChat -------------------------------
(* The AI chat, one part at a time: the chat file with its editors
   (ChatStore), and one dialog (ChatDialog). *)
EXTENDS ChatStore, ChatDialog

VARIABLE part      \* what this behaviour is about

chatVars == <<part, vars, dialogVars>>

ChatInit == part \in {"store", "dialog"} /\ Init /\ DialogInit

\* A step of the dialog.
InDialog(A) == part = "dialog" /\ A /\ UNCHANGED <<part, vars>>

ChatNext ==
    \/ part = "store" /\ Next /\ UNCHANGED <<part, dialogVars>>
    \/ InDialog(DialogNext)

\* DialogFairSpec for the dialog.
ChatSpec ==
    /\ ChatInit /\ [][ChatNext]_chatVars
    /\ WF_chatVars(InDialog(addAiMessage))
    /\ \A k \in 1..MaxPrompts : WF_chatVars(InDialog(Answer(k)))
=============================================================================
