---------------------------- MODULE WidgetSession ----------------------------
(***************************************************************************)
(* One widget of a Jupyter kernel, from the host's calls to the browser:   *)
(*                                                                         *)
(*   Widget -> WidgetShell -> Lifecycle!Reduce -> effects -> CommTransport *)
(*     -> comm package -> iopub FIFO -> frontend -> shell FIFO -> ...      *)
(*                                                                         *)
(* Widget is src/src/cositos/model.py, WidgetShell the imperative half of  *)
(* lifecycle.py, CommTransport is jupyter.py.  The comm package and the    *)
(* frontend are not in the repository: they are modelled from how          *)
(* jupyter.py uses them and as far as it depends on them.                  *)
(*                                                                         *)
(* A kernel runs cells and comm handlers on one thread, so a call of the   *)
(* public API and the dispatch of one inbound message are atomic against   *)
(* each other.  A host callback (set_state, on_custom) that calls back     *)
(* into the widget does so after the reducer's phase is stored and with no *)
(* effect left to execute, so its calls are ordinary next steps.           *)
(***************************************************************************)
EXTENDS Lifecycle

CONSTANTS
  MaxComms,       \* bound: comms created in the widget's life
  MaxQueue,       \* bound: messages in flight in each direction
  OpenMayFail,    \* can the comm_open raise (e.g. state that is not JSON)?
  FrontMayClose,  \* can the frontend dispose of its end of a comm?
  Callbacks       \* the host callbacks given to the constructor

ASSUME SessionAssumption ==
  /\ MaxComms \in Nat /\ MaxQueue \in Nat
  /\ OpenMayFail \in BOOLEAN /\ FrontMayClose \in BOOLEAN
  /\ Callbacks \subseteq {"set_state", "on_custom"}

Comms == 1 .. MaxComms
NoComm == 0       \* no comm; as a model id, the empty string

VARIABLES
  caps,           \* WidgetShell._capabilities: what the transport class declares
  store,          \* the host's state, what get_state returns
  phase,          \* WidgetShell._phase
  listening,      \* WidgetShell._listening
  shellId,        \* WidgetShell.model_id
  widgetId,       \* Widget.model_id
  comm,           \* CommTransport._comm
  created,        \* comm package: ids 1..created have been minted
  registered,     \* comm package: comms that are open, hence in its manager
  handlers,       \* comm package: comms with an on_msg handler
  toFront,        \* iopub, a FIFO
  toKernel,       \* the shell channel, a FIFO
  front           \* the frontend's end of each comm

hostVars == <<caps, store>>
shellVars == <<phase, listening, shellId, widgetId>>
managerVars == <<created, registered, handlers>>
frontVars == <<toKernel, front>>
vars == <<hostVars, shellVars, comm, managerVars, toFront, frontVars>>

FrontStates == {"absent", "live", "reloaded", "closed"}

\* What travels to the frontend: a Send effect, stamped with its comm.
Publications == [comm : Comms, body : Sends]

\* What travels to the kernel: comm data, or the frontend's comm_close.
Hangup == [method |-> "comm_close"]
Requests == [comm : Comms, data : InboundData \cup {Hangup}]

TypeOK ==
  /\ caps \in Capabilities
  /\ store \in States
  /\ phase \in Phases
  /\ listening \in BOOLEAN
  /\ shellId \in Comms \cup {NoComm} /\ widgetId \in Comms \cup {NoComm}
  /\ comm \in Comms \cup {NoComm}
  /\ created \in 0 .. MaxComms
  /\ registered \subseteq Comms /\ handlers \subseteq Comms
  /\ toFront \in Seq(Publications)
  /\ toKernel \in Seq(Requests)
  /\ front \in [Comms -> FrontStates]

Init ==
  /\ caps \in Capabilities
  /\ store \in States
  /\ phase = "unopened"
  /\ listening = FALSE
  /\ shellId = NoComm /\ widgetId = NoComm
  /\ comm = NoComm
  /\ created = 0
  /\ registered = {} /\ handlers = {}
  /\ toFront = << >> /\ toKernel = << >>
  /\ front = [c \in Comms |-> "absent"]
----------------------------------------------------------------------------
(***************************************************************************)
(* The comm package and the transport.                                     *)
(***************************************************************************)

First(r) == Head(r.effects)
Sent(r) == r.effects # << >> /\ First(r).effect = "Send"
Asked(r, effect) == \E i \in DOMAIN r.effects : r.effects[i].effect = effect

\* The bound on what the host publishes; the answers of Dispatch are not bounded
\* by it, as nothing in the code makes the kernel's loop wait for the frontend.
Room == Len(toFront) < MaxQueue

\* Fault variant: _require_comm is missing.
SendMsgUnchecked(r) ==
  toFront' = IF Sent(r) THEN Append(toFront, [comm |-> comm, body |-> First(r)]) ELSE toFront

\* CommTransport.send for comm_msg, after _require_comm: BaseComm.send publishes
\* whether or not the comm is still open.  With no comm it raises.
SendMsg(r) ==
  toFront' = IF Sent(r) /\ comm # NoComm
               THEN Append(toFront, [comm |-> comm, body |-> First(r)])
               ELSE toFront

\* CommTransport.send for comm_close: BaseComm.close unregisters the comm and
\* publishes, once.  The transport keeps its reference to the closed comm.
SendClose(r) ==
  IF Sent(r) /\ comm \in registered
    THEN /\ toFront' = Append(toFront, [comm |-> comm, body |-> First(r)])
         /\ registered' = registered \ {comm}
    ELSE UNCHANGED <<toFront, registered>>

\* WidgetShell._exec_one on Listen, after the comm c was created: on_message
\* binds the handler to the transport's comm.
ListenOnce(r, c) ==
  IF Asked(r, "Listen") /\ ~listening
    THEN listening' = TRUE /\ handlers' = handlers \cup {c}
    ELSE UNCHANGED <<listening, handlers>>
----------------------------------------------------------------------------
(***************************************************************************)
(* The host's calls.                                                       *)
(***************************************************************************)

\* Fault variant: a reopened widget keeps the comm id it had.
OpenShellReused ==
  /\ Room
  /\ LET r == Reduce(phase, OpenEvent, store, caps) IN
     /\ Sent(r)
     /\ created' = 1 /\ comm' = 1 /\ shellId' = 1
     /\ registered' = registered \cup {1}
     /\ toFront' = Append(toFront, [comm |-> 1, body |-> First(r)])
     /\ phase' = "open"
     /\ ListenOnce(r, 1)

\* WidgetShell.open when the phase lets it through.  The new phase is stored
\* before the effects run.  The comm_open mints a comm and publishes; its id
\* becomes the shell's model_id and CommIdAssigned is reduced; then Listen.
OpenShell ==
  /\ created < MaxComms /\ Room
  /\ LET r == Reduce(phase, OpenEvent, store, caps)
         c == created + 1
     IN /\ Sent(r)
        /\ created' = c
        /\ comm' = c
        /\ registered' = registered \cup {c}
        /\ toFront' = Append(toFront, [comm |-> c, body |-> First(r)])
        /\ shellId' = c
        /\ phase' = Reduce(r.phase, CommIdAssignedEvent, store, caps).phase
        /\ ListenOnce(r, c)

\* create_comm raises: the phase is already stored, nothing else has happened.
OpenShellFails ==
  /\ OpenMayFail
  /\ phase' = Reduce(phase, OpenEvent, store, caps).phase
  /\ UNCHANGED <<listening, shellId, comm, managerVars, toFront>>

\* Fault variant: the display hook opens and does not copy the new model id.
OpenForgetsId ==
  /\ phase # "open"
  /\ OpenShell \/ OpenShellFails
  /\ UNCHANGED <<hostVars, widgetId, frontVars>>

\* Widget.open and Widget._repr_mimebundle_ (the display hook), which opens a
\* widget that is not open.  Both copy the shell's model_id, unless it raised.
Open ==
  /\ phase # "open"
  /\ \/ OpenShell /\ widgetId' = shellId'
     \/ OpenShellFails /\ UNCHANGED widgetId
  /\ UNCHANGED <<hostVars, frontVars>>

\* send_state and send_custom: a reducer error is raised, which changes nothing.
Call(event) ==
  LET r == Reduce(phase, event, store, caps) IN
  /\ Room
  /\ phase' = r.phase
  /\ SendMsg(r)
  /\ UNCHANGED <<hostVars, listening, shellId, widgetId, comm, managerVars, frontVars>>

SendState == \E include \in {All} \cup {Only(K) : K \in SUBSET Keys} :
               Call(SendStateEvent(include))

SendCustom == \E buffers \in BOOLEAN : Call(SendCustomEvent(buffers))

Close ==
  LET r == Reduce(phase, CloseEvent, Empty, caps) IN
  /\ Room
  /\ phase' = r.phase
  /\ SendClose(r)
  /\ UNCHANGED <<hostVars, listening, shellId, widgetId, comm, created, handlers, frontVars>>

\* The host program assigns to its own state without telling the widget.
HostWrite ==
  /\ \E k \in Keys, v \in Values : store' = [store EXCEPT ![k] = v]
  /\ UNCHANGED <<caps, shellVars, comm, managerVars, toFront, frontVars>>
----------------------------------------------------------------------------
(***************************************************************************)
(* The kernel's loop dispatches what the frontend sent.                    *)
(***************************************************************************)

\* The host's set_state: its store takes the inbound keys.
Overlay(state, inbound) ==
  [k \in Keys |-> IF k \in DOMAIN inbound THEN inbound[k] ELSE state[k]]

\* WidgetShell._handle_inbound: what it cannot parse never reaches the reducer.
HandleInbound(data) ==
  LET r == IF ParseMessage(data) = "ignored" THEN Result(phase, << >>)
           ELSE Reduce(phase, InboundEvent(data), store, caps)
  IN /\ phase' = r.phase
     /\ SendMsg(r)
     /\ store' = IF Asked(r, "ApplyState") /\ "set_state" \in Callbacks
                   THEN Overlay(store, First(r).state) ELSE store
     /\ UNCHANGED registered

\* The comm manager drops what is for a comm it does not know, and a comm drops
\* what arrives while it has no handler.  A comm_close marks the comm closed
\* and unregisters it; CommTransport installs no on_close, so the shell is not
\* told.
Dispatch ==
  /\ toKernel # << >>
  /\ toKernel' = Tail(toKernel)
  /\ LET m == Head(toKernel) IN
     \/ /\ m.data = Hangup
        /\ registered' = registered \ {m.comm}
        /\ UNCHANGED <<phase, store, toFront>>
     \/ /\ m.data # Hangup
        /\ m.comm \in registered \cap handlers
        /\ HandleInbound(m.data)
     \/ /\ m.data # Hangup
        /\ m.comm \notin registered \cap handlers
        /\ UNCHANGED <<phase, store, toFront, registered>>
  /\ UNCHANGED <<caps, listening, shellId, widgetId, comm, created, handlers, front>>
----------------------------------------------------------------------------
(***************************************************************************)
(* The frontend.  A page reload loses its models; for each comm the kernel *)
(* still lists it sends request_state and rebuilds the model from the      *)
(* reply, which needs the identity fields (_esm's companions, _view_name). *)
(***************************************************************************)

\* What the frontend's end of a comm becomes when it gets a message of that comm.
Hear(end, body) ==
  IF body.msg_type = "comm_open" THEN IF body.identity THEN "live" ELSE end
  ELSE IF body.msg_type = "comm_close" THEN "closed"
  ELSE IF end = "reloaded" /\ body.method = "update" /\ body.identity THEN "live"
  ELSE end

FrontReceive ==
  /\ toFront # << >>
  /\ toFront' = Tail(toFront)
  /\ LET p == Head(toFront) IN front' = [front EXCEPT ![p.comm] = Hear(@, p.body)]
  /\ UNCHANGED <<hostVars, shellVars, comm, managerVars, toKernel>>

FrontWrites(c, data) ==
  /\ Len(toKernel) < MaxQueue
  /\ toKernel' = Append(toKernel, [comm |-> c, data |-> data])
  /\ UNCHANGED <<hostVars, shellVars, comm, managerVars, toFront>>

Inbound(method, state, fits) == [method |-> method, state |-> state, fits |-> fits]

FrontSend(c) ==
  /\ front[c] = "live"
  /\ \E k \in Keys, v \in Values, fits \in BOOLEAN :
       \/ FrontWrites(c, Inbound("update", [x \in {k} |-> v], fits))
       \/ FrontWrites(c, Inbound("custom", Empty, TRUE))
       \/ FrontWrites(c, Inbound("echo_update", Empty, TRUE))
  /\ UNCHANGED front

FrontReload(c) ==
  /\ front[c] = "live"
  /\ front' = [front EXCEPT ![c] = "reloaded"]
  /\ FrontWrites(c, Inbound("request_state", Empty, TRUE))

FrontClose(c) ==
  /\ FrontMayClose
  /\ front[c] \in {"live", "reloaded"}
  /\ front' = [front EXCEPT ![c] = "closed"]
  /\ FrontWrites(c, Hangup)
----------------------------------------------------------------------------
Front(c) == FrontSend(c) \/ FrontReload(c) \/ FrontClose(c)

Next ==
  \/ Open
  \/ SendState
  \/ SendCustom
  \/ Close
  \/ HostWrite
  \/ Dispatch
  \/ FrontReceive
  \/ \E c \in Comms : Front(c)

\* The kernel's event loop keeps dispatching and the websocket keeps delivering.
\* Nothing obliges the host or the user to act.
Fairness == WF_vars(Dispatch) /\ WF_vars(FrontReceive)

Spec == Init /\ [][Next]_vars /\ Fairness
----------------------------------------------------------------------------
(***************************************************************************)
(* The abstract protocol this module implements.                           *)
(***************************************************************************)

LinkOf == [c \in Comms |->
  IF c > created THEN "fresh"
  ELSE IF c # comm \/ phase # "open" THEN "down"
  ELSE IF c \in registered THEN "up" ELSE "hungup"]

WireOf == [i \in DOMAIN toFront |->
  [comm |-> toFront[i].comm, type |-> toFront[i].body.msg_type]]

SeenOf == [c \in Comms |->
  CASE front[c] = "absent" -> "absent"
    [] front[c] = "closed" -> "gone"
    [] front[c] \in {"live", "reloaded"} -> "present"]

Contract == INSTANCE CommContract WITH link <- LinkOf, wire <- WireOf, seen <- SeenOf

\* While no comm_open raises, the kernel's side of a widget, driven by any host
\* program, speaks the comm protocol of CommContract: sessions one after
\* another, each announced before it speaks and silent once it has closed, and
\* every closed session is eventually closed in the browser too.
ImplementsContract == Contract!Spec

\* The browser hears of a comm first by its comm_open, and by no other message.
AnnouncedFirst == Contract!AnnouncedFirst

\* Nothing of a comm follows its comm_close: no update or custom message of a
\* closed widget, and no answer to a late request_state, reaches the browser.
FarewellLast == Contract!FarewellLast

\* At most one comm of the widget is up, and it is the one the transport holds:
\* no reopening, failed opening or frontend close leaves a second one behind.
OneSession == registered \subseteq {comm}

\* When nothing is in flight the two ends agree: the browser holds a model for a
\* comm exactly when the kernel has that comm open, and the widget is then open.
EndsAgree ==
  toFront = << >> /\ toKernel = << >> =>
    \A c \in Comms : front[c] \in {"live", "reloaded"} <=> c \in registered /\ phase = "open"

\* The phase, the transport's comm and the two copies of the model id tell one
\* story: an open widget has a comm and both ids name it (what a display bundle
\* would show), a widget that is not open has no comm that is still up.
StoryAgrees ==
  /\ phase = "unopened" <=> comm = NoComm
  /\ phase = "open" => comm = created
  /\ phase # "open" => registered = {}
  /\ shellId = comm /\ widgetId = comm

\* The inductive invariant behind OneSession and StoryAgrees.  It needs no
\* assumption on failures: a comm_open that raised leaves the phase ahead of the
\* comm, and only the last conjunct depends on that.
SessionInv ==
  /\ TypeOK
  /\ OneSession
  /\ comm = created /\ shellId = comm /\ widgetId = comm
  /\ phase # "open" => registered = {}
  /\ phase = "unopened" => comm = NoComm
  /\ ~OpenMayFail /\ comm = NoComm => phase = "unopened"

\* A browser that reloaded the page while the widget's comm had a handler gets its
\* model back (or the comm was closed): its request_state is answered by a full
\* state that carries the identity fields.
ReloadRecovers ==
  \A c \in Comms :
    front[c] = "reloaded" /\ c \in handlers /\ caps.supports_request_state
      ~> front[c] # "reloaded"

\* Widget.open "Send the comm_open and start listening for inbound messages"
\* (model.py): while the widget is open over a transport that receives, its comm
\* has the inbound handler.
ListensWhileOpen ==
  phase = "open" /\ caps.supports_receive => comm \in handlers
============================================================================
