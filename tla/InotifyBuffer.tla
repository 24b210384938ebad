---------------------------- MODULE InotifyBuffer ---------------------------
(* From the kernel's events to those of watchdog: InotifyBuffer's thread pairs  *)
(* the halves of renames, DelayedQueue holds a first half back for half a       *)
(* second, InotifyEmitter's thread takes events and queues what they mean       *)
(* (src/src/watchdog/observers/inotify_buffer.py, inotify.py,                   *)
(* utils/delayed_queue.py). Files of one directory; Inotify keeps the maps of    *)
(* directories.                                                                 *)
EXTENDS Naturals, Sequences, SequencesExt, FiniteSets

CONSTANTS Names,        \* names of files
          MaxChanges    \* bound: changes of the directory

ASSUME BufferAssumption == MaxChanges \in Nat

VARIABLES
  dir,        \* external: the files that exist
  raw,        \* external: kernel events, [mask, name, id]; halves share their id
  changes,    \* bound counter, and cookie
  rpc,        \* the buffer's thread: "check", "read", "group", "dead"
  rlist,      \* event_list
  grouped,    \* grouped, elements are sequences of one or two events
  delayed,    \* DelayedQueue._queue: [elem, delay, ripe]
  closed,     \* DelayedQueue._closed
  epc,        \* the emitter's thread: "check", "get", "sleep", "take",
              \* "stopself", "joinself" or "dead"
  head,       \* the element it is about to take
  bufferStop, emitterStop,  \* _stopped_event of the two threads
  fd,         \* the inotify descriptor is open
  inotify,    \* InotifyEmitter._inotify is set
  spc,        \* another thread in stop(): "no", "close", "join", "done"
  view        \* external: the files a handler knows of

src == <<dir, raw, changes>>
reader == <<rpc, rlist, grouped>>
flags == <<bufferStop, emitterStop, fd, inotify, spc>>
bufVars == <<src, reader, delayed, closed, epc, head, flags, view>>

BufInit ==
  /\ dir \in SUBSET Names /\ view = dir /\ raw = <<>> /\ changes = 0
  /\ rpc = "check" /\ rlist = <<>> /\ grouped = <<>>
  /\ delayed = <<>> /\ closed = FALSE /\ epc = "check" /\ head = <<>>
  /\ bufferStop = FALSE /\ emitterStop = FALSE /\ fd = TRUE /\ inotify = TRUE
  /\ spc = "no"

-----------------------------------------------------------------------------
(* External: changes of the directory and the kernel's queue.                   *)

Gone == "gone"     \* in dir and view: the directory itself is deleted

Ev(mask, name) == [mask |-> mask, name |-> name, id |-> changes]

Change(d, events) ==
  /\ fd /\ Gone \notin dir /\ changes < MaxChanges /\ changes' = changes + 1
  /\ dir' = d /\ raw' = raw \o events
  /\ UNCHANGED <<reader, delayed, closed, epc, head, flags, view>>

CreateFile(n) == n \notin dir /\ Change(dir \cup {n}, <<Ev("create", n)>>)
WriteFile(n) == n \in dir /\ Change(dir, <<Ev("modify", n)>>)
DeleteFile(n) == n \in dir /\ Change(dir \ {n}, <<Ev("delete", n)>>)
MoveFile(n, k) == /\ n \in dir /\ n # k
                  /\ Change((dir \ {n}) \cup {k}, <<Ev("moved_from", n), Ev("moved_to", k)>>)
MoveAway(n) == n \in dir /\ Change(dir \ {n}, <<Ev("moved_from", n)>>)
MoveHere(n) == n \notin dir /\ Change(dir \cup {n}, <<Ev("moved_to", n)>>)

\* the watched directory itself goes; the kernel ends its watch
DeleteDir == dir = {} /\ Change({Gone}, <<Ev("delete_self", Gone)>>)

\* half a second passes
Ripen == /\ \E i \in DOMAIN delayed : ~delayed[i].ripe
         /\ delayed' = [i \in DOMAIN delayed |-> [delayed[i] EXCEPT !.ripe = TRUE]]
         /\ UNCHANGED <<src, reader, closed, epc, head, flags, view>>

-----------------------------------------------------------------------------
(* InotifyBuffer's thread.                                                      *)

BufferCheck ==
  /\ rpc = "check" /\ rpc' = IF bufferStop THEN "dead" ELSE "read"
  /\ UNCHANGED <<src, rlist, grouped, delayed, closed, epc, head, flags, view>>

\* os.read: any prefix of what waits; the IN_IGNORED of close() wakes it with no event;
\* a descriptor closed before the call is an error that ends the thread
BufferRead ==
  /\ rpc = "read"
  /\ \/ /\ fd /\ \E n \in 1..Len(raw) :
             rlist' = SubSeq(raw, 1, n) /\ raw' = SubSeq(raw, n + 1, Len(raw))
        /\ rpc' = "group" /\ grouped' = <<>>
     \/ /\ ~fd /\ rpc' \in {"check", "dead"} /\ UNCHANGED <<rlist, raw, grouped>>
  /\ UNCHANGED <<dir, changes, delayed, closed, epc, head, flags, view>>

\* matching_from_event
Matches(elem, ev) == Len(elem) = 1 /\ elem[1].mask = "moved_from" /\ elem[1].id = ev.id

\* _group_events, one event of the list: a second half joins the first in the list, else
\* the first still in the queue (DelayedQueue.remove), else stays alone
GroupEvents ==
  /\ rpc = "group" /\ rlist # <<>>
  /\ LET ev == Head(rlist)
         here == {i \in DOMAIN grouped : ev.mask = "moved_to" /\ Matches(grouped[i], ev)}
         there == {i \in DOMAIN delayed : ev.mask = "moved_to" /\ Matches(delayed[i].elem, ev)}
     IN  IF here # {}
         THEN /\ grouped' = [i \in DOMAIN grouped |-> IF i \in here THEN Append(grouped[i], ev)
                                                      ELSE grouped[i]]
              /\ UNCHANGED delayed
         ELSE IF there # {}
         THEN LET i == CHOOSE i \in there : \A j \in there : i <= j
              IN  /\ grouped' = Append(grouped, Append(delayed[i].elem, ev))
                  /\ delayed' = RemoveAt(delayed, i)
         ELSE grouped' = Append(grouped, <<ev>>) /\ UNCHANGED delayed
  /\ rlist' = Tail(rlist)
  /\ UNCHANGED <<src, rpc, closed, epc, head, flags, view>>

\* then each is put; a lone first half waits, the end of the directory ends the loop
BufferPut ==
  /\ rpc = "group" /\ rlist = <<>>
  /\ IF grouped = <<>> THEN rpc' = "check" /\ UNCHANGED <<grouped, delayed>>
     ELSE LET e == Head(grouped)
              wait == Len(e) = 1 /\ e[1].mask = "moved_from"
          IN  /\ delayed' = Append(delayed, [elem |-> e, delay |-> wait, ripe |-> FALSE])
              /\ grouped' = Tail(grouped)
              /\ rpc' = IF Len(grouped) = 1 /\ e[1].mask = "delete_self" THEN "dead" ELSE rpc
  /\ UNCHANGED <<src, rlist, closed, epc, head, flags, view>>

-----------------------------------------------------------------------------
(* InotifyEmitter's thread.                                                     *)

\* the loop of EventEmitter.run, and _inotify.read_event: None has no attribute
CheckInotify ==
  /\ epc = "check"
  /\ epc' = IF emitterStop \/ ~inotify THEN "dead" ELSE "get"
  /\ UNCHANGED <<src, reader, delayed, closed, head, flags, view>>

\* DelayedQueue.get: waits for an element or the end
GetHead ==
  /\ epc = "get" /\ (delayed # <<>> \/ closed)
  /\ IF closed THEN epc' = "check" /\ UNCHANGED head
     ELSE head' = delayed[1].elem /\ epc' = IF delayed[1].delay THEN "sleep" ELSE "take"
  /\ UNCHANGED <<src, reader, delayed, closed, flags, view>>

\* sleeps until the delay of the element is over, wherever the element is by now
Sleep ==
  /\ epc = "sleep"
  /\ \A i \in DOMAIN delayed : delayed[i].elem = head => delayed[i].ripe
  /\ epc' = "take"
  /\ UNCHANGED <<src, reader, delayed, closed, head, flags, view>>

\* what queue_events makes of an element, as a handler follows it (with full_events a
\* lone half is a move from or to nowhere: the same to a handler); DirModifiedEvents
\* of the directory come with all but modify and attrib
Meaning(v, e) ==
  LET ev == e[1]
  IN  IF Len(e) = 2 THEN (v \ {ev.name}) \cup {e[2].name}
      ELSE IF ev.mask \in {"moved_to", "create"} THEN v \cup {ev.name}
      ELSE IF ev.mask \in {"moved_from", "delete"} THEN v \ {ev.name}
      ELSE IF ev.mask = "delete_self" THEN v \cup {Gone}
      ELSE v

\* mutant: whatever is first by now is taken to be the element waited for
MutStillFirst == delayed # <<>>

StillFirst == delayed # <<>> /\ delayed[1].elem = head

\* the element is popped only when it is still the first; queue_events
TakeHead ==
  /\ epc = "take"
  /\ IF StillFirst
     THEN /\ delayed' = Tail(delayed) /\ view' = Meaning(view, head)
          /\ epc' = IF head[1].mask = "delete_self" THEN "stopself" ELSE "check"
          /\ emitterStop' = (emitterStop \/ head[1].mask = "delete_self")
     ELSE epc' = "get" /\ UNCHANGED <<delayed, view, emitterStop>>
  /\ UNCHANGED <<src, reader, closed, head, bufferStop, fd, inotify, spc>>

-----------------------------------------------------------------------------
(* InotifyEmitter.on_thread_stop, by another thread (spc) or the emitter itself. *)

on_thread_stop ==
  /\ spc = "no" /\ emitterStop' = TRUE /\ spc' = IF inotify THEN "close" ELSE "done"
  /\ UNCHANGED <<src, reader, delayed, closed, epc, head, bufferStop, fd, inotify, view>>

\* mutant: the queue stays open
MutCloseBuffer ==
  /\ spc = "close"
  /\ bufferStop' = TRUE /\ fd' = FALSE /\ spc' = "join"
  /\ UNCHANGED <<src, reader, delayed, closed, epc, head, emitterStop, inotify, view>>

\* InotifyBuffer.close up to join: its event, the descriptor, the queue; when the emitter
\* itself has cleared _inotify since the test, an AttributeError ends stop()
CloseBuffer ==
  /\ spc = "close"
  /\ IF inotify THEN bufferStop' = TRUE /\ fd' = FALSE /\ closed' = TRUE /\ spc' = "join"
     ELSE spc' = "done" /\ UNCHANGED <<bufferStop, fd, closed>>
  /\ UNCHANGED <<src, reader, delayed, epc, head, emitterStop, inotify, view>>

JoinBuffer ==
  /\ spc = "join" /\ rpc = "dead" /\ spc' = "done" /\ inotify' = FALSE
  /\ UNCHANGED <<src, reader, delayed, closed, epc, head, bufferStop, emitterStop, fd, view>>

\* the same calls by the emitter; when the other thread has cleared _inotify in
\* between, the missing attribute ends the emitter just as well
CloseSelf ==
  /\ epc = "stopself"
  /\ IF inotify THEN bufferStop' = TRUE /\ fd' = FALSE /\ closed' = TRUE /\ epc' = "joinself"
     ELSE epc' = "check" /\ UNCHANGED <<bufferStop, fd, closed>>
  /\ UNCHANGED <<src, reader, delayed, head, emitterStop, inotify, spc, view>>

JoinSelf ==
  /\ epc = "joinself" /\ rpc = "dead" /\ epc' = "check" /\ inotify' = FALSE
  /\ UNCHANGED <<src, reader, delayed, closed, head, bufferStop, emitterStop, fd, spc, view>>

-----------------------------------------------------------------------------
Changes == \/ \E n \in Names : CreateFile(n) \/ WriteFile(n) \/ DeleteFile(n)
                               \/ MoveAway(n) \/ MoveHere(n)
           \/ \E n, k \in Names : MoveFile(n, k)
           \/ DeleteDir

BufferStep == BufferCheck \/ BufferRead \/ GroupEvents \/ BufferPut
TakerStep == CheckInotify \/ GetHead \/ Sleep \/ TakeHead \/ CloseSelf \/ JoinSelf
StopStep == CloseBuffer \/ JoinBuffer

BufNext == Changes \/ Ripen \/ BufferStep \/ TakerStep \/ StopStep \/ on_thread_stop
BufSpec == BufInit /\ [][BufNext]_bufVars

-----------------------------------------------------------------------------
(* Properties.                                                                 *)

FileNames == Names \cup {Gone}
Masks == {"create", "modify", "delete", "moved_from", "moved_to", "delete_self"}
Event == {ev \in [mask : Masks, name : FileNames, id : 0..MaxChanges] :
             ev.mask = "delete_self" => ev.name = Gone}
Element == {e \in Seq(Event) : Len(e) \in {1, 2}}
Delayed == [elem : Element, delay : BOOLEAN, ripe : BOOLEAN]

BufTypeOK ==
  /\ dir \in SUBSET FileNames /\ view \in SUBSET FileNames
  /\ raw \in Seq(Event) /\ rlist \in Seq(Event) /\ changes \in 0..MaxChanges
  /\ grouped \in Seq(Element)
  /\ delayed \in Seq(Delayed)
  /\ head \in Element \cup {<<>>}
  /\ rpc \in {"check", "read", "group", "dead"}
  /\ epc \in {"check", "get", "sleep", "take", "stopself", "joinself", "dead"}
  /\ spc \in {"no", "close", "join", "done"}
  /\ closed \in BOOLEAN /\ bufferStop \in BOOLEAN /\ emitterStop \in BOOLEAN
  /\ fd \in BOOLEAN /\ inotify \in BOOLEAN

\* A handler knows exactly the files that exist once everything read has been handed
\* out, however the halves of renames were cut by reads, held back, paired late or
\* given up on while the emitter slept: no half is lost, handed out twice, or handed
\* out behind a later event of the same name.
HandlerFollows ==
  raw = <<>> /\ rlist = <<>> /\ grouped = <<>> /\ delayed = <<>> /\ fd => view = dir

\* Its inductive form speaks of all events on their way, the oldest first: handed out
\* in this order, they would make of what the handler knows the directory as it is.
Single(s) == [i \in DOMAIN s |-> <<s[i]>>]
Elements(q) == [i \in DOMAIN q |-> q[i].elem]
Pipeline == (Elements(delayed) \o grouped) \o (Single(rlist) \o Single(raw))

\* Whether an element says something of the name n, and whether it says that n exists.
Touches(e, n) == IF Len(e) = 2 THEN n \in {e[1].name, e[2].name}
                 ELSE n = e[1].name /\ e[1].mask # "modify"
Adds(e, n) == IF Len(e) = 2 THEN n = e[2].name
              ELSE n = e[1].name /\ e[1].mask \in {"create", "moved_to", "delete_self"}

\* What a handler that knows v knows after all elements of p.
Outcome(v, p) ==
  {n \in FileNames :
     \/ n \in v /\ \A i \in DOMAIN p : ~Touches(p[i], n)
     \/ \E i \in DOMAIN p : Adds(p[i], n) /\ \A j \in DOMAIN p : j > i => ~Touches(p[j], n)}

\* A half that waits for another has it right before or behind it, so that joining
\* them moves neither across an event between them; cookies are never used again.
Half(e, mask) == Len(e) = 1 /\ e[1].mask = mask
Neighbours(p) ==
  \A i, j \in DOMAIN p :
     Half(p[i], "moved_from") /\ Half(p[j], "moved_to") /\ p[i][1].id = p[j][1].id => j = i + 1
Older(p) == \A i \in DOMAIN p : p[i][1].id < changes

PipelineInvariant ==
  /\ Outcome(view, Pipeline) = dir /\ Neighbours(Pipeline) /\ Older(Pipeline)
  /\ rpc # "group" => rlist = <<>> /\ grouped = <<>>

BothEnded == rpc = "dead" /\ epc = "dead"
=============================================================================
