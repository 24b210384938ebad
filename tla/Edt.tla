------------------------------- MODULE Edt --------------------------------
(***************************************************************************)
(* The event dispatch thread as the highlighting code uses it: runnables   *)
(* handed to Application.invokeLater run later, one after the other and in *)
(* the order of the calls, on one thread (IntelliJ platform, external),    *)
(* and what Highlighter.show and Highlighter.hide do when they run there.  *)
(*                                                                         *)
(* A loop that posts the same runnable for several highlighters while it   *)
(* holds its manager's lock is one entry of the queue: nothing else about  *)
(* those highlighters can be posted between them.                          *)
(***************************************************************************)
EXTENDS Naturals, Sequences

CONSTANTS
    Highlighter,   \* all highlighter objects that may be created
    None,          \* no highlighter
    MaxSwitches    \* bound: changes of tab or configuration

ASSUME EdtAssumption == None \notin Highlighter /\ MaxSwitches \in Nat

VARIABLES
    queue,      \* runnables not run yet: [op |-> "show" | "hide", on |-> a set]
    device      \* device[h]: h is drawn in the editor (Highlighter.device)

edt == <<queue, device>>

Runnable == [op : {"show", "hide"}, on : SUBSET Highlighter]

EdtInit == queue = <<>> /\ device = [h \in Highlighter |-> FALSE]

\* Application.invokeLater, once for each of hs
post(q, op, hs) == IF hs = {} THEN q ELSE Append(q, [op |-> op, on |-> hs])
invokeLater(op, hs) == queue' = post(queue, op, hs)

\* The next runnable.
Take(op) == queue # <<>> /\ Head(queue).op = op /\ queue' = Tail(queue)

\* Highlighter.show
Show ==
    /\ Take("show")
    /\ device' = [h \in Highlighter |-> device[h] \/ h \in Head(queue).on]

\* Highlighter.show when the line is not in the document any more: the
\* IndexOutOfBoundsException leaves the device as it is.
ShowNoLine ==
    /\ Take("show")
    /\ UNCHANGED device

\* Highlighter.hide
Hide ==
    /\ Take("hide")
    /\ device' = [h \in Highlighter |-> device[h] /\ h \notin Head(queue).on]

Idle == queue = <<>>

\* With q to run and d drawn now, h will be drawn once q has run, unless its
\* line is gone: the last runnable about h decides.
WillDraw(q, d, h) ==
    \/ /\ d[h]
       /\ \A i \in DOMAIN q : h \notin q[i].on
    \/ \E i \in DOMAIN q :
          /\ q[i].op = "show" /\ h \in q[i].on
          /\ \A j \in DOMAIN q : j > i => h \notin q[j].on

WillShow(h) == WillDraw(queue, device, h)

EdtType ==
    /\ queue \in Seq(Runnable)
    /\ device \in [Highlighter -> BOOLEAN]

===========================================================================
