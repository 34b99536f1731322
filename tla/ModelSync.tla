------------------------------ MODULE ModelSync ------------------------------
(***************************************************************************)
(* A page's Model (front/src/model.js) and the widget core on the host     *)
(* side (Lifecycle), each with its own copy of the state, over a duplex    *)
(* channel that delivers in order and later (MemoryChannel of              *)
(* front/src/channels.js, which "mimics real transports").                 *)
(*                                                                         *)
(* Each copy changes under its owner's hands: the page sets keys and saves *)
(* the dirty ones, the host assigns to its object and calls send_state.    *)
(* There are no acknowledgements and no echo, so what keeps the copies     *)
(* together is only who writes which key, and what is sent when.           *)
(*                                                                         *)
(* The Model is constructed, and listens, some time after the host started *)
(* sending: what is delivered before is dropped (#inbound?.).              *)
(*                                                                         *)
(* Custom messages touch neither copy; WidgetSession has them.             *)
(***************************************************************************)
EXTENDS Lifecycle

CONSTANTS
  HostWrites,   \* the keys the host program assigns to
  PageWrites,   \* the keys the page sets
  MaxQueue      \* bound: messages in flight in each direction, answers not counted

ASSUME SyncAssumption ==
  /\ HostWrites \subseteq Keys /\ PageWrites \subseteq Keys
  /\ MaxQueue \in Nat

VARIABLES
  full,        \* do the programs use send_state() and request_state()? (does not change)
  hostState,   \* the host's object, what get_state returns
  unsent,      \* the keys the host assigned to and has not sent since
  pageState,   \* Model.#state
  dirty,       \* Model.#dirty
  attached,    \* has the Model registered its handler with the channel?
  behind,      \* history: keys of dropped updates, not received again since
  toPage,      \* the host's endpoint to the page's, a FIFO
  toHost       \* the page's endpoint to the host's, a FIFO

hostVars == <<hostState, unsent>>
pageVars == <<pageState, dirty, attached>>
vars == <<full, hostVars, pageVars, behind, toPage, toHost>>

\* A widget that is open, over a channel without restrictions.
AllCaps == [supports_receive |-> TRUE, supports_request_state |-> TRUE,
            supports_custom |-> TRUE, supports_buffers |-> TRUE]
HostReduce(event) == Reduce("open", event, hostState, AllCaps).effects[1]

TypeOK ==
  /\ full \in BOOLEAN
  /\ hostState \in States /\ unsent \subseteq HostWrites
  /\ pageState \in States /\ dirty \subseteq PageWrites /\ attached \in BOOLEAN
  /\ behind \subseteq Keys
  /\ toPage \in Seq(Sends) /\ toHost \in Seq(InboundData)

\* The page is rendered with the host's state of the moment.
Init ==
  /\ full \in BOOLEAN
  /\ hostState \in States /\ pageState = hostState
  /\ unsent = {} /\ dirty = {} /\ behind = {}
  /\ attached = FALSE
  /\ toPage = << >> /\ toHost = << >>

Overlay(state, inbound) ==
  [k \in Keys |-> IF k \in DOMAIN inbound THEN inbound[k] ELSE state[k]]
----------------------------------------------------------------------------
(***************************************************************************)
(* The host.                                                               *)
(***************************************************************************)
HostWrite(k, v) ==
  /\ hostState' = [hostState EXCEPT ![k] = v]
  /\ unsent' = unsent \cup {k}
  /\ UNCHANGED <<full, pageVars, behind, toPage, toHost>>

Publish(event) ==
  /\ Len(toPage) < MaxQueue
  /\ toPage' = Append(toPage, HostReduce(event))
  /\ unsent' = unsent \ DOMAIN HostReduce(event).state
  /\ UNCHANGED <<full, hostState, pageVars, behind, toHost>>

\* send_state(include) and send_state().  A host that keeps to its own keys names
\* them in include.
SendSome(K) == Publish(SendStateEvent(Only(K)))
SendAll == full /\ Publish(SendStateEvent(All))

Inbound(method, state) == [method |-> method, state |-> state, fits |-> TRUE]

\* Fault variant: request_state is not answered.
HostReceiveMute ==
  /\ toHost # << >>
  /\ toHost' = Tail(toHost)
  /\ LET effect == HostReduce(InboundEvent(Head(toHost))) IN
     hostState' = IF effect.effect = "ApplyState" THEN Overlay(hostState, effect.state)
                  ELSE hostState
  /\ UNCHANGED <<full, unsent, pageVars, behind, toPage>>

\* The inbound handler: an update is applied, request_state is answered with the
\* full state.
HostReceive ==
  /\ toHost # << >>
  /\ toHost' = Tail(toHost)
  /\ LET effect == HostReduce(InboundEvent(Head(toHost))) IN
     /\ hostState' = IF effect.effect = "ApplyState" THEN Overlay(hostState, effect.state)
                     ELSE hostState
     /\ toPage' = IF effect.effect = "Send" THEN Append(toPage, effect) ELSE toPage
     /\ unsent' = IF effect.effect = "Send" THEN {} ELSE unsent
  /\ UNCHANGED <<full, pageVars, behind>>
----------------------------------------------------------------------------
(***************************************************************************)
(* The page.                                                               *)
(***************************************************************************)

\* new Model(initialState, channel): the constructor registers the handler.
Attach ==
  /\ ~attached
  /\ attached' = TRUE
  /\ UNCHANGED <<full, hostVars, pageState, dirty, behind, toPage, toHost>>

SetKey(k, v) ==
  /\ attached
  /\ pageState' = [pageState EXCEPT ![k] = v]
  /\ dirty' = dirty \cup {k}
  /\ UNCHANGED <<full, hostVars, attached, behind, toPage, toHost>>

\* Fault variant: the dirty set is cleared before the values are collected from it.
SaveNothing ==
  /\ attached /\ dirty # {} /\ Len(toHost) < MaxQueue
  /\ toHost' = Append(toHost, Inbound("update", Empty))
  /\ dirty' = {}
  /\ UNCHANGED <<full, hostVars, pageState, attached, behind, toPage>>

\* save_changes: nothing when nothing is dirty, else one update with the current
\* values of the dirty keys.
SaveChanges ==
  /\ attached /\ dirty # {} /\ Len(toHost) < MaxQueue
  /\ toHost' = Append(toHost, Inbound("update", Pick(pageState, dirty)))
  /\ dirty' = {}
  /\ UNCHANGED <<full, hostVars, pageState, attached, behind, toPage>>

\* request_state(), which changes nothing in the page.
RequestState ==
  /\ full /\ attached /\ Len(toPage) + Len(toHost) < MaxQueue
  /\ toHost' = Append(toHost, Inbound("request_state", Empty))
  /\ UNCHANGED <<full, hostVars, pageVars, behind, toPage>>

\* Fault variant: an update is dropped while the page has edits of its own.
PageReceiveShielded ==
  /\ toPage # << >>
  /\ toPage' = Tail(toPage)
  /\ pageState' = IF attached /\ dirty = {} THEN Overlay(pageState, Head(toPage).state)
                                            ELSE pageState
  /\ behind' = IF attached THEN behind \ DOMAIN Head(toPage).state
                           ELSE behind \cup DOMAIN Head(toPage).state
  /\ UNCHANGED <<full, hostVars, dirty, attached, toHost>>

\* Fault variant: an update is stored with set(), which marks its keys dirty.
PageReceiveMarksDirty ==
  /\ toPage # << >>
  /\ toPage' = Tail(toPage)
  /\ LET state == Head(toPage).state IN
     IF attached
       THEN /\ pageState' = Overlay(pageState, state) /\ behind' = behind \ DOMAIN state
            /\ dirty' = dirty \cup DOMAIN state
       ELSE behind' = behind \cup DOMAIN state /\ UNCHANGED <<pageState, dirty>>
  /\ UNCHANGED <<full, hostVars, attached, toHost>>

\* The handler #receive, if it is registered: the keys of an update are stored, dirty
\* or not, and stay dirty.
PageReceive ==
  /\ toPage # << >>
  /\ toPage' = Tail(toPage)
  /\ LET state == Head(toPage).state IN
     IF attached
       THEN pageState' = Overlay(pageState, state) /\ behind' = behind \ DOMAIN state
       ELSE behind' = behind \cup DOMAIN state /\ UNCHANGED pageState
  /\ UNCHANGED <<full, hostVars, dirty, attached, toHost>>
----------------------------------------------------------------------------
Next ==
  \/ \E k \in HostWrites, v \in Values : HostWrite(k, v)
  \/ \E K \in SUBSET HostWrites \ {{}} : SendSome(K)
  \/ SendAll
  \/ HostReceive
  \/ Attach
  \/ \E k \in PageWrites, v \in Values : SetKey(k, v)
  \/ SaveChanges
  \/ RequestState
  \/ PageReceive

\* Every queued microtask runs, in order; both handlers are such tasks.
Fairness == WF_vars(HostReceive) /\ WF_vars(PageReceive)

Spec == Init /\ [][Next]_vars /\ Fairness
----------------------------------------------------------------------------
\* A key only the host writes: when no update of it is on its way, it has been sent
\* since it was last assigned to, and the page did not miss it, the page has it.
HostKeysAgree ==
  \A k \in HostWrites \ PageWrites :
    k \notin unsent \cup behind /\ (\A i \in DOMAIN toPage : k \notin DOMAIN toPage[i].state)
      => pageState[k] = hostState[k]

\* A key only the page writes: once its edits are saved and delivered, the host has
\* it.  This needs a host that sends only its own keys: a full send that crosses an
\* edit puts the old value back into the page.
PageKeysAgree ==
  ~full =>
    \A k \in PageWrites \ HostWrites :
      k \notin dirty /\ (\A i \in DOMAIN toHost : k \notin DOMAIN toHost[i].state)
        => pageState[k] = hostState[k]

\* request_state brings a page up to date that attached late.
RequestHeals ==
  \A k \in Keys :
    k \in behind /\ attached /\ (\E i \in DOMAIN toHost : toHost[i].method = "request_state")
      ~> k \notin behind
============================================================================
