---------------------------- MODULE ChatDialog ----------------------------
(***************************************************************************)
(* One dialog of the AI chat: the prompt with its submit/stop button, the  *)
(* messages, the answers being generated and the dialog's name             *)
(* (rw/ai/dialog/Dialog.java, rw/ai/messages/ai/AiMessage.java,            *)
(* rw/ai/chat/prompt/Prompt.java and SubmitButton.java, the clients of     *)
(* rw/ai/openai).                                                          *)
(*                                                                         *)
(* The user acts on the event dispatch thread.  Each answer is requested   *)
(* by a SwingWorker and arrives on a thread of the HTTP client, as does a  *)
(* name proposed for the dialog.  The button is the only thing that keeps  *)
(* a second prompt from being submitted; nothing is locked.  Prompts are   *)
(* numbered, and an answer has the number of its prompt.  Of a text only   *)
(* its number of tokens matters.                                           *)
(***************************************************************************)
EXTENDS Naturals, FiniteSets, SequencesExt

CONSTANTS
    PromptTokens,   \* lengths a prompt may have
    ShortPrompt,    \* a prompt up to this length is its own name
    UserActs,       \* what the user does besides submitting prompts
    MaxTokens,      \* MessageUtils.MAX_TOKENS
    Reserved,       \* COMPLETION_TOKENS and the tokens of the system message
    MaxHistory,     \* MessageUtils.MAX_HISTORY
    MaxPrompts,     \* bound: prompts submitted
    MaxAnswer       \* bound: tokens of an answer

ASSUME DialogAssumption == {MaxPrompts, MaxAnswer} \cup PromptTokens \subseteq Nat

Prompt == 1..MaxPrompts

VARIABLES
    button,      \* SubmitButton.state
    edt,         \* "answer": in addUserMessage, before addAiMessage
    messages,    \* Dialog.messages and Model.messages
    submits,     \* number of prompts so far
    phase,       \* the AiMessage of each prompt
    call,        \* prompts whose AiMessage.call is assigned
    cancelled,   \* prompts whose request was cancelled
    history,     \* AiMessage.history of each prompt
    name,        \* Model.name
    proposals,   \* prompts for which a name is being proposed
    stuck,       \* (history) an exception left the button in STOP
    doubles,     \* (history) times the second release of the button by a failed
                 \* answer came after another prompt
    cleared      \* (history) prompts removed by clear

stream == <<phase, call, cancelled, history>>
naming == <<name, proposals>>
dialogVars == <<button, edt, messages, submits, stream, naming, stuck, doubles, cleared>>

\* A name: Model.NEW_CHAT_NAME, the user's or one made for a prompt.
NewChat == [by |-> "nobody", n |-> 0]
UserName == [by |-> "user", n |-> 0]
NameFor(k) == [by |-> "prompt", n |-> k]

Message(type, n, tokens) == [type |-> type, n |-> n, tokens |-> tokens]

\* A dialog that DialogManager.newDialog has just made.
DialogInit ==
    /\ button = "SUBMIT" /\ edt = "idle"
    /\ messages = <<>> /\ submits = 0
    /\ phase = [k \in Prompt |-> "none"]
    /\ call = {} /\ cancelled = {}
    /\ history = [k \in Prompt |-> <<>>]
    /\ name = NewChat /\ proposals = {}
    /\ stuck = FALSE /\ doubles = 0
    /\ cleared = {}

-----------------------------------------------------------------------------
(* Model.getAcceptedMessages *)

\* The tokens of the messages from place i on.
TokensFrom(ms, i) == FoldLeft(LAMBDA n, m : n + m.tokens, 0, SubSeq(ms, i, Len(ms)))

\* What the loop asks at place i, going backwards from the last message.
Fits(ms, i) == Reserved + TokensFrom(ms, i) < MaxTokens /\ Len(ms) - i + 1 < MaxHistory

\* It ends at the first message that does not fit.
getAcceptedMessages(ms) ==
    LET kept == {i \in DOMAIN ms : \A j \in i..Len(ms) : Fits(ms, j)}
    IN  SubSeq(ms, Len(ms) - Cardinality(kept) + 1, Len(ms))

-----------------------------------------------------------------------------
(* The event dispatch thread *)

\* Prompt.submit and Dialog.addUserMessage: nothing while the button says STOP.
\* As long as the dialog has no name, one is made from a short prompt and asked
\* for otherwise.
SubmitPrompt(tokens) ==
    /\ edt = "idle" /\ submits < MaxPrompts
    /\ button = "SUBMIT"
    /\ button' = "STOP" /\ edt' = "answer"
    /\ submits' = submits + 1
    /\ messages' = Append(messages, Message("user", submits + 1, tokens))
    /\ IF name # NewChat THEN UNCHANGED <<name, proposals>>
       ELSE IF tokens > ShortPrompt THEN proposals' = proposals \cup {submits + 1} /\ UNCHANGED name
       ELSE name' = NameFor(submits + 1) /\ UNCHANGED proposals
    /\ UNCHANGED <<stream, stuck, doubles, cleared>>

\* Where the messages with a role (MessageModel.getRole) are, the ones that are sent.
Sent(ms) == {i \in DOMAIN ms : ms[i].type # "re"}

\* The request for a name throws (a key that is no valid header value): the
\* exception leaves Prompt.submit after the button was set to STOP.
SubmitThrows ==
    /\ edt = "idle" /\ button = "SUBMIT" /\ name = NewChat
    /\ \E tokens \in PromptTokens : tokens > ShortPrompt
    /\ button' = "STOP" /\ stuck' = TRUE
    /\ UNCHANGED <<edt, messages, submits, stream, naming, doubles, cleared>>

\* Dialog.addAiMessage and AiMessage.start.  When no message with a role is
\* accepted the answer is a notice, complete at once.
addAiMessage ==
    /\ edt = "answer" /\ edt' = "idle"
    /\ history' = [history EXCEPT ![submits] = getAcceptedMessages(messages)]
    /\ messages' = Append(messages, Message("ai", submits, 0))
    /\ IF Sent(history'[submits]) # {}
       THEN phase' = [phase EXCEPT ![submits] = "queued"] /\ UNCHANGED button
       ELSE phase' = [phase EXCEPT ![submits] = "done"] /\ button' = "SUBMIT"
    /\ UNCHANGED <<submits, call, cancelled, naming, stuck, doubles, cleared>>

\* Dialog.cancel, when the button is pressed in state STOP: only the last
\* message is looked at.  Nothing comes of it with an empty list (the call
\* throws), before call is assigned, or when the client is You.com's, whose
\* cancel does nothing.
Cancel ==
    /\ "cancel" \in UserActs
    /\ edt = "idle" /\ button = "STOP"
    /\ messages # <<>> /\ Last(messages).type = "ai"
    /\ Last(messages).n \in call
    /\ cancelled' = cancelled \cup {Last(messages).n}
    /\ UNCHANGED <<button, edt, messages, submits, phase, call, history, naming, stuck,
                   doubles, cleared>>

\* Mutant: the messages stay in the model.
ClearViewOnly ==
    /\ "clear" \in UserActs
    /\ edt = "idle"
    /\ name' = NewChat
    /\ cleared' = 1..submits
    /\ UNCHANGED <<button, edt, messages, submits, stream, proposals, stuck, doubles>>

\* Dialog.clear, when the only dialog is deleted: answers on their way and the
\* button stay as they are.
clearMessages ==
    /\ "clear" \in UserActs
    /\ edt = "idle"
    /\ messages' = <<>>
    /\ name' = NewChat
    /\ cleared' = 1..submits
    /\ UNCHANGED <<button, edt, submits, stream, proposals, stuck, doubles>>

\* Chat.onRenameDialog; the user may also type the name of a new chat.
renameTo(n) ==
    /\ "rename" \in UserActs
    /\ edt = "idle"
    /\ name' = n
    /\ UNCHANGED <<button, edt, messages, submits, stream, proposals, stuck, doubles, cleared>>

-----------------------------------------------------------------------------
(* The SwingWorker and the threads of the HTTP client *)

SetPhase(k, to) == phase' = [phase EXCEPT ![k] = to]

\* makeCall: the request is on its way ...
makeCall(k) ==
    /\ phase[k] = "queued"
    /\ SetPhase(k, "streaming")
    /\ UNCHANGED <<button, edt, messages, submits, call, cancelled, history, naming,
                   stuck, doubles, cleared>>

\* ... and call is assigned when stream() has returned.
AssignCall(k) ==
    /\ phase[k] \notin {"none", "queued", "dead"} /\ Sent(history[k]) # {} /\ k \notin call
    /\ call' = call \cup {k}
    /\ UNCHANGED <<button, edt, messages, submits, phase, cancelled, history, naming,
                   stuck, doubles, cleared>>

\* makeCall throws: SwingWorker keeps the exception and nobody asks for it.
makeCallThrows(k) ==
    /\ phase[k] = "queued"
    /\ SetPhase(k, "dead")
    /\ stuck' = TRUE
    /\ UNCHANGED <<button, edt, messages, submits, call, cancelled, history, naming,
                   doubles, cleared>>

\* AiMessage.append on the answer of k, where it still is in the dialog
append(k, ms) ==
    [i \in DOMAIN ms |-> IF ms[i].type = "ai" /\ ms[i].n = k
                         THEN [ms[i] EXCEPT !.tokens = @ + 1] ELSE ms[i]]

Answered(k, ms) == \E i \in DOMAIN ms : ms[i].type = "ai" /\ ms[i].n = k /\ ms[i].tokens = MaxAnswer

\* onMessage
onMessage(k) ==
    /\ phase[k] = "streaming" /\ k \notin cancelled /\ ~Answered(k, messages)
    /\ messages' = append(k, messages)
    /\ UNCHANGED <<button, edt, submits, stream, naming, stuck, doubles, cleared>>

\* Mutant: the button is left alone.
onCompleteSilent(k) ==
    /\ phase[k] = "streaming"
    /\ SetPhase(k, "done")
    /\ UNCHANGED <<button, edt, messages, submits, call, cancelled, history, naming,
                   stuck, doubles, cleared>>

\* onComplete, also after a cancel
onComplete(k) ==
    /\ phase[k] = "streaming"
    /\ SetPhase(k, "done")
    /\ button' = "SUBMIT"
    /\ UNCHANGED <<edt, messages, submits, call, cancelled, history, naming,
                   stuck, doubles, cleared>>

\* onError: the message of the error is appended ...
onError(k) ==
    /\ phase[k] = "streaming"
    /\ SetPhase(k, "errored")
    /\ messages' = append(k, messages)
    /\ UNCHANGED <<button, edt, submits, call, cancelled, history, naming,
                   stuck, doubles, cleared>>

\* ... unless it has none (Throwable.getMessage): append throws.
onErrorThrows(k) ==
    /\ phase[k] = "streaming"
    /\ SetPhase(k, "dead")
    /\ stuck' = TRUE
    /\ UNCHANGED <<button, edt, messages, submits, call, cancelled, history, naming,
                   doubles, cleared>>

\* Dialog's onFailure: a message about the key or the quota is added where the
\* error calls for it, and the button released.
onFailure(k) ==
    /\ phase[k] = "errored"
    /\ SetPhase(k, "failed")
    /\ \/ messages' = Append(messages, Message("re", k, 1))
       \/ UNCHANGED messages
    /\ button' = "SUBMIT"
    /\ UNCHANGED <<edt, submits, call, cancelled, history, naming,
                   stuck, doubles, cleared>>

\* onComplete follows and releases it once more.
onFailureComplete(k) ==
    /\ phase[k] = "failed"
    /\ SetPhase(k, "done")
    /\ button' = "SUBMIT"
    /\ doubles' = IF button = "STOP" THEN doubles + 1 ELSE doubles
    /\ UNCHANGED <<edt, messages, submits, call, cancelled, history, naming,
                   stuck, cleared>>

\* The name proposed for prompt k arrives, whatever the name is by now.
onProposedName(k) ==
    /\ k \in proposals
    /\ proposals' = proposals \ {k}
    /\ name' = NameFor(k)
    /\ UNCHANGED <<button, edt, messages, submits, stream,
                   stuck, doubles, cleared>>

\* The request fails, or the proposal is blank.
NoProposal(k) ==
    /\ k \in proposals
    /\ proposals' = proposals \ {k}
    /\ UNCHANGED <<button, edt, messages, submits, stream, name,
                   stuck, doubles, cleared>>

-----------------------------------------------------------------------------
User ==
    \/ \E tokens \in PromptTokens : SubmitPrompt(tokens)
    \/ SubmitThrows
    \/ Cancel \/ clearMessages
    \/ \E n \in {NewChat, UserName} : renameTo(n)

Answer(k) ==
    \/ makeCall(k) \/ makeCallThrows(k) \/ AssignCall(k)
    \/ onComplete(k) \/ onError(k) \/ onErrorThrows(k) \/ onFailure(k) \/ onFailureComplete(k)

DialogNext ==
    \/ User \/ addAiMessage
    \/ \E k \in Prompt : Answer(k) \/ onMessage(k) \/ onProposedName(k) \/ NoProposal(k)

DialogSpec == DialogInit /\ [][DialogNext]_dialogVars

\* The event dispatch thread goes on, a worker is run, and a request ends: its
\* client has connect and read timeouts.
DialogFairSpec == DialogSpec /\ WF_dialogVars(addAiMessage) /\ \A k \in Prompt : WF_dialogVars(Answer(k))

-----------------------------------------------------------------------------
(* Properties *)

Generating == {k \in Prompt : phase[k] \in {"queued", "streaming", "errored"}}

\* The last of the messages that would be sent is prompt k.
EndsWith(ms, k) ==
    \E i \in Sent(ms) : /\ ms[i].type = "user" /\ ms[i].n = k
                        /\ \A j \in Sent(ms) : j <= i

\* An answer being generated is the one the user sees and meant.  Pressing STOP
\* reaches it: it is the last message, although Dialog.cancel knows nothing about
\* generation; not so after a double release, or when the dialog was cleared
\* meanwhile.  And what it is generated from ends with the prompt it answers, and
\* holds no message of a conversation the user had cleared before
\* (Model.getAcceptedMessages).
AnswerOfThisPrompt ==
    \A k \in Generating :
        /\ k \notin cleared /\ doubles = 0 /\ edt = "idle" /\ phase[k] # "errored" =>
              /\ button = "STOP"
              /\ messages # <<>>
              /\ Last(messages).type = "ai" /\ Last(messages).n = k
        /\ EndsWith(history[k], k)
        /\ k \notin cleared => \A i \in Sent(history[k]) : history[k][i].n \notin cleared

\* The types of the state.
DialogMessage == [type : {"user", "ai", "re"}, n : Prompt, tokens : Nat]

DialogTypeOK ==
    /\ button \in {"SUBMIT", "STOP"} /\ edt \in {"idle", "answer"}
    /\ messages \in Seq(DialogMessage)
    /\ submits \in 0..MaxPrompts
    /\ phase \in [Prompt -> {"none", "queued", "streaming", "errored", "failed", "done", "dead"}]
    /\ history \in [Prompt -> Seq(DialogMessage)]
    /\ call \subseteq Prompt /\ cancelled \subseteq Prompt
    /\ name \in [by : {"nobody", "user", "prompt"}, n : Nat] /\ proposals \subseteq Prompt
    /\ stuck \in BOOLEAN /\ doubles \in Nat
    /\ cleared \subseteq 1..submits

\* Why: without a double release there is one answer at a time, that of the latest
\* prompt, and the button says STOP from the prompt to its end; what was cleared is
\* older than any message there is, or was when a history was taken.
DialogInvariant ==
    /\ \A k \in Prompt : phase[k] # "none" => k <= submits
    /\ edt = "answer" =>
          /\ submits \in Prompt /\ phase[submits] = "none" /\ submits \notin cleared
          /\ EndsWith(messages, submits)
          /\ doubles = 0 => button = "STOP"
    /\ \A i \in Sent(messages) : messages[i].n <= submits /\ messages[i].n \notin cleared
    /\ \A k \in Generating :
          /\ EndsWith(history[k], k)
          /\ k \notin cleared => \A i \in Sent(history[k]) : history[k][i].n \notin cleared
          /\ doubles = 0 => k = submits /\ button = "STOP" /\ edt = "idle"
          /\ doubles = 0 /\ k \notin cleared /\ phase[k] # "errored" =>
                /\ messages # <<>>
                /\ Last(messages).type = "ai" /\ Last(messages).n = k

\* The button does not stay in STOP unless an exception was lost on the way.
ButtonReleased == button = "STOP" ~> button = "SUBMIT" \/ stuck

===========================================================================
