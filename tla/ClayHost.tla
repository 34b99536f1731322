------------------------------ MODULE ClayHost ------------------------------
(***************************************************************************)
(* The Clay host (clojure/dev/cositos/clay_notebook.clj over clay.clj, and *)
(* ClayChannel of front/src/channels.js): counters whose state is one atom *)
(* on the JVM, shown by any number of pages over Clay's websocket.         *)
(*                                                                         *)
(* A page sends `custom` increments tagged with the widget's id.  The      *)
(* server's on-receive swaps the atom, dereferences it again, and          *)
(* broadcasts the count to every page; on-open pushes every count.  The    *)
(* server (http-kit, external) runs the handlers on a pool of workers: the *)
(* tasks of one socket one after another, those of different sockets at    *)
(* the same time.  So each handler is a sequence of steps here, cut where  *)
(* it touches what others touch: the atom, the set of clients, a socket.   *)
(*                                                                         *)
(* A page that is reloaded is a new socket.  clay_demo.clj is the instance *)
(* with one widget.                                                        *)
(***************************************************************************)
EXTENDS Naturals, Sequences, FiniteSets, FiniteSetsExt, SequencesExt

CONSTANTS
  Sockets,     \* the websockets that may be opened
  Widgets,     \* the widget ids, the keys of the state atom
  Stranger,    \* an id the atom does not know
  Workers,     \* size of the server's worker pool
  MaxNoise,    \* bound: frames other than increments and updates
  MaxClicks,   \* bound: clicks in all
  MaxQueue     \* bound: frames of one page on their way to the server

ASSUME ClayAssumption ==
  /\ Stranger \notin Widgets
  /\ IsFiniteSet(Sockets) /\ IsFiniteSet(Widgets)
  /\ Workers \in Nat \ {0}
  /\ MaxClicks \in Nat /\ MaxNoise \in Nat /\ MaxQueue \in Nat

VARIABLES
  count,     \* the state atom
  socket,    \* "new", "open" or "closed"
  inbox,     \* per socket: frames to the server not yet handled, a FIFO
  task,      \* per socket: the handler that is running for it
  outbox,    \* per socket: frames to the page not yet received, a FIFO
  shown,     \* per socket: what the page's model holds for each widget
  best,      \* history: the largest count the page has shown
  clicked,   \* history: clicks not lost with a closing socket
  noise      \* history: other frames so far

vars == <<count, socket, inbox, task, outbox, shown, best, clicked, noise>>

\* What a page may send: an increment, or a message on-receive does not act on.
Requests == [id : Widgets \cup {Stranger}, kind : {"increment", "other"}]

\* What the server broadcasts: the update of one widget, a control frame of Clay's own
\* (refresh, loading: no prefix, hence no id) or an update of another notebook's widget.
Update(w, n) == [id |-> w, count |-> n]
StrangeFrame == [id |-> Stranger, count |-> MaxClicks + 1]
Frames == [id : Widgets \cup {Stranger}, count : Nat]

\* A handler in progress: the ids it has yet to broadcast, the first of them
\* "unread", "framed" with the count read, or "sending" to the clients left.
Idle == [step |-> "idle", ids |-> << >>, count |-> 0, to |-> {}]
Unread(ids) == [step |-> "unread", ids |-> ids, count |-> 0, to |-> {}]
Begin(ids) == IF ids = << >> THEN Idle ELSE Unread(ids)
Tasks == [step : {"idle", "unread", "framed", "sending"}, ids : Seq(Widgets),
          count : Nat, to : SUBSET Sockets]

Zero == [w \in Widgets |-> 0]
Opened == {s \in Sockets : socket[s] = "open"}
Busy == {s \in Sockets : task[s].step # "idle"}

TypeOK ==
  /\ count \in [Widgets -> Nat]
  /\ socket \in [Sockets -> {"new", "open", "closed"}]
  /\ inbox \in [Sockets -> Seq(Requests)]
  /\ task \in [Sockets -> Tasks]
  /\ outbox \in [Sockets -> Seq(Frames)]
  /\ shown \in [Sockets -> [Widgets -> Nat]] /\ best \in [Sockets -> [Widgets -> Nat]]
  /\ clicked \in [Widgets -> Nat] /\ noise \in Nat

Init ==
  /\ count = Zero
  /\ socket = [s \in Sockets |-> "new"]
  /\ inbox = [s \in Sockets |-> << >>] /\ outbox = [s \in Sockets |-> << >>]
  /\ task = [s \in Sockets |-> Idle]
  /\ shown = [s \in Sockets |-> Zero] /\ best = [s \in Sockets |-> Zero]
  /\ clicked = Zero /\ noise = 0
----------------------------------------------------------------------------
(***************************************************************************)
(* The server.                                                             *)
(***************************************************************************)
FreeWorker == Cardinality(Busy) < Workers

\* Fault variant: a new page is not sent the state.
OnOpenSilent(s) ==
  /\ socket[s] = "new" /\ FreeWorker
  /\ socket' = [socket EXCEPT ![s] = "open"]
  /\ UNCHANGED <<count, inbox, task, outbox, shown, best, clicked, noise>>

\* A page connects: Clay adds it to its clients and on-open runs, which
\* broadcasts every widget's count, one after another.
OnOpen(s) ==
  /\ socket[s] = "new" /\ FreeWorker
  /\ socket' = [socket EXCEPT ![s] = "open"]
  /\ task' = [task EXCEPT ![s] = Begin(SetToSeq(Widgets))]
  /\ UNCHANGED <<count, inbox, outbox, shown, best, clicked, noise>>

\* Fault variant: the check that the atom knows the id is missing.
AcceptsAnyId(request) == request.kind = "increment"

\* apply-inbound says custom, the content's kind is increment, the id is known.
Accepts(request) == request.kind = "increment" /\ request.id \in Widgets

\* Fault variant: the count is read for the broadcast before it is swapped.
OnReceiveReadsFirst(s) ==
  /\ inbox[s] # << >> /\ task[s].step = "idle" /\ FreeWorker
  /\ inbox' = [inbox EXCEPT ![s] = Tail(@)]
  /\ LET request == Head(inbox[s]) IN
     IF Accepts(request)
       THEN /\ count' = [count EXCEPT ![request.id] = @ + 1]
            /\ task' = [task EXCEPT ![s] = [step |-> "framed", ids |-> <<request.id>>,
                                             count |-> count[request.id], to |-> {}]]
       ELSE UNCHANGED <<count, task>>
  /\ UNCHANGED <<socket, outbox, shown, best, clicked, noise>>

\* Fault variant: the swap! is a read and a reset!, so that a click that comes while
\* another handler runs is overwritten.
OnReceiveResets(s) ==
  /\ inbox[s] # << >> /\ task[s].step = "idle" /\ FreeWorker
  /\ inbox' = [inbox EXCEPT ![s] = Tail(@)]
  /\ LET request == Head(inbox[s]) IN
     IF Accepts(request)
       THEN /\ count' = IF Busy = {} THEN [count EXCEPT ![request.id] = @ + 1] ELSE count
            /\ task' = [task EXCEPT ![s] = Unread(<<request.id>>)]
       ELSE UNCHANGED <<count, task>>
  /\ UNCHANGED <<socket, outbox, shown, best, clicked, noise>>

\* on-receive up to the swap!: parse-frame, apply-inbound, the checks, the swap!.
OnReceive(s) ==
  /\ inbox[s] # << >> /\ task[s].step = "idle" /\ FreeWorker
  /\ inbox' = [inbox EXCEPT ![s] = Tail(@)]
  /\ LET request == Head(inbox[s]) IN
     IF Accepts(request)
       THEN /\ count' = [count EXCEPT ![request.id] = @ + 1]
            /\ task' = [task EXCEPT ![s] = Unread(<<request.id>>)]
       ELSE UNCHANGED <<count, task>>
  /\ UNCHANGED <<socket, outbox, shown, best, clicked, noise>>

\* The atom is dereferenced (again) and the update framed.
Frame(s) ==
  /\ task[s].step = "unread"
  /\ task' = [task EXCEPT ![s].step = "framed", ![s].count = count[Head(task[s].ids)]]
  /\ UNCHANGED <<count, socket, inbox, outbox, shown, best, clicked, noise>>

\* What is left of a handler once its first broadcast is done.
Continue(t) == Begin(Tail(t.ids))

\* broadcast! takes the clients of the moment, then sends to one after another.
Broadcast(s) ==
  /\ task[s].step = "framed"
  /\ task' = [task EXCEPT ![s] = IF Opened = {} THEN Continue(@)
                                  ELSE [@ EXCEPT !.step = "sending", !.to = Opened]]
  /\ UNCHANGED <<count, socket, inbox, outbox, shown, best, clicked, noise>>

SendTo(s, r) ==
  /\ task[s].step = "sending" /\ r \in task[s].to
  /\ outbox' = IF socket[r] = "open"
                 THEN [outbox EXCEPT ![r] = Append(@, Update(Head(task[s].ids), task[s].count))]
                 ELSE outbox
  /\ task' = [task EXCEPT ![s] = IF @.to = {r} THEN Continue(@) ELSE [@ EXCEPT !.to = task[s].to \ {r}]]
  /\ UNCHANGED <<count, socket, inbox, shown, best, clicked, noise>>

\* Clay, or another notebook on it, sends a frame to a page.
ClayTalks(s) ==
  /\ socket[s] = "open" /\ noise < MaxNoise
  /\ outbox' = [outbox EXCEPT ![s] = Append(@, StrangeFrame)]
  /\ noise' = noise + 1
  /\ UNCHANGED <<count, socket, inbox, task, shown, best, clicked>>
----------------------------------------------------------------------------
(***************************************************************************)
(* The pages.                                                              *)
(***************************************************************************)
\* A click sends a custom message through the widget's channel, which stamps its id.
Click(s, w) ==
  /\ socket[s] = "open" /\ Len(inbox[s]) < MaxQueue
  /\ MapThenSumSet(LAMBDA x : clicked[x], Widgets) < MaxClicks
  /\ inbox' = [inbox EXCEPT ![s] = Append(@, [id |-> w, kind |-> "increment"])]
  /\ clicked' = [clicked EXCEPT ![w] = @ + 1]
  /\ UNCHANGED <<count, socket, task, outbox, shown, best, noise>>

\* Any other cositos frame: another method, or the id of a page's own making.
Mutter(s) ==
  /\ socket[s] = "open" /\ noise < MaxNoise /\ Len(inbox[s]) < MaxQueue
  /\ \E request \in Requests \ [id : Widgets, kind : {"increment"}] :
       inbox' = [inbox EXCEPT ![s] = Append(@, request)]
  /\ noise' = noise + 1
  /\ UNCHANGED <<count, socket, task, outbox, shown, best, clicked>>

\* Fault variant: the page's channels do not compare the frame's id with their own.
ReceiveUnrouted(s) ==
  /\ socket[s] = "open" /\ outbox[s] # << >>
  /\ outbox' = [outbox EXCEPT ![s] = Tail(@)]
  /\ LET n == Head(outbox[s]).count IN
     /\ shown' = [shown EXCEPT ![s] = [w \in Widgets |-> n]]
     /\ best' = [best EXCEPT ![s] = [w \in Widgets |-> Max({@[w], n})]]
  /\ UNCHANGED <<count, socket, inbox, task, clicked, noise>>

\* ClayChannel's onFrame: of the page's channels the one with the frame's id hands
\* it to its model, whose #receive stores the count.
Receive(s) ==
  /\ socket[s] = "open" /\ outbox[s] # << >>
  /\ outbox' = [outbox EXCEPT ![s] = Tail(@)]
  /\ LET frame == Head(outbox[s]) IN
     IF frame.id \in Widgets
       THEN /\ shown' = [shown EXCEPT ![s][frame.id] = frame.count]
            /\ best' = [best EXCEPT ![s][frame.id] = Max({@, frame.count})]
       ELSE UNCHANGED <<shown, best>>
  /\ UNCHANGED <<count, socket, inbox, task, clicked, noise>>

\* Which of the frames are increments of w, and how many.
Positions(frames, w) == {i \in DOMAIN frames : frames[i] = [id |-> w, kind |-> "increment"]}
Increments(frames, w) == Cardinality(Positions(frames, w))

\* The page goes away (closed, or reloaded: then it comes back as a new socket).  Of
\* its frames some prefix has reached the server and will still be handled.
Leave(s) ==
  /\ socket[s] = "open"
  /\ socket' = [socket EXCEPT ![s] = "closed"]
  /\ outbox' = [outbox EXCEPT ![s] = << >>]
  /\ \E n \in 0 .. Len(inbox[s]) :
       LET kept == SubSeq(inbox[s], 1, n) IN
       /\ inbox' = [inbox EXCEPT ![s] = kept]
       /\ clicked' = [w \in Widgets |->
            clicked[w] - (Increments(inbox[s], w) - Increments(kept, w))]
  /\ UNCHANGED <<count, task, shown, best, noise>>
----------------------------------------------------------------------------
Serve(s) == OnReceive(s) \/ Frame(s) \/ Broadcast(s) \/ \E r \in Sockets : SendTo(s, r)

Next ==
  \E s \in Sockets :
    \/ OnOpen(s)
    \/ OnReceive(s)
    \/ Frame(s)
    \/ Broadcast(s)
    \/ \E r \in Sockets : SendTo(s, r)
    \/ ClayTalks(s)
    \/ \E w \in Widgets : Click(s, w)
    \/ Mutter(s)
    \/ Receive(s)
    \/ Leave(s)

\* The pool runs every queued task (strong fairness: a worker may be taken again and
\* again by other sockets, and the pool's queue is first come, first served) and the
\* network keeps delivering.  No page has to connect, click or leave.
Fairness == \A s \in Sockets : SF_vars(Serve(s)) /\ WF_vars(Receive(s))

Spec == Init /\ [][Next]_vars /\ Fairness
----------------------------------------------------------------------------
\* Every click counts, once, for its own widget: the atom plus what is still on its
\* way makes up the clicks that did not go down with their socket.
CountsOnce ==
  \A w \in Widgets :
    clicked[w] = count[w] + Cardinality(UNION {{s} \X Positions(inbox[s], w) : s \in Sockets})

\* A page shows nothing the JVM, which is the authority, has not counted, and it never
\* shows one widget's count for another.
NeverAhead ==
  \A s \in Sockets, w \in Widgets :
    /\ shown[s][w] <= best[s][w] /\ best[s][w] <= count[w]
    /\ \A i \in DOMAIN outbox[s] : outbox[s][i].id = w => outbox[s][i].count <= count[w]

Quiet == Busy = {} /\ \A s \in Opened : inbox[s] = << >> /\ outbox[s] = << >>

\* However the handlers interleave, the newest count reaches every page that is open,
\* the late ones included.
NewestReaches ==
  Quiet => \A s \in Opened, w \in Widgets : best[s][w] = count[w]

\* Every widget syncs over the websocket (clay_notebook.clj): once all is quiet, each
\* open page shows the JVM's count.
PagesConverge ==
  Quiet => \A s \in Opened, w \in Widgets : shown[s][w] = count[w]

\* Once the JVM has counted n, a count of at least n is shown sooner or later in every
\* open page: n itself need not be, as two handlers that have both swapped before either
\* reads the atom broadcast the later count twice.
CountsCatchUp ==
  \A s \in Sockets, w \in Widgets, n \in 1 .. MaxClicks :
    socket[s] = "open" /\ count[w] >= n ~> best[s][w] >= n \/ socket[s] = "closed"
============================================================================
