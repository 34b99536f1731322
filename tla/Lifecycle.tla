----------------------------- MODULE Lifecycle -----------------------------
(***************************************************************************)
(* The pure widget lifecycle reducer of src/src/cositos/lifecycle.py:      *)
(*                                                                         *)
(*     (phase, event, current_state, capabilities) -> (phase', effects)    *)
(*                                                                         *)
(* The module is pure: no VARIABLES.  The imperative shell that owns the   *)
(* phase and executes the effects is WidgetSession.                        *)
(*                                                                         *)
(* A state dict is a function from a set of keys to values.  The keys in   *)
(* BinKeys hold binary values: protocol.build_* moves them into the buffer *)
(* list of the message (BufferSplit models that algorithm), so a message   *)
(* carries buffers exactly when its state has a binary key.                *)
(*                                                                         *)
(* Here and in the other modules a "fault variant" is a plausible wrong    *)
(* form of the definition below it.  No specification uses one; each shows *)
(* that some property would notice the fault.                              *)
(***************************************************************************)
EXTENDS Naturals, Sequences

CONSTANTS Keys,      \* the names in the host's state dict
          BinKeys,   \* those whose values are binary
          Values     \* what a name can be bound to

ASSUME KeysAssumption == BinKeys \subseteq Keys

Phases == {"unopened", "open", "closed"}

Capabilities == [supports_receive : BOOLEAN, supports_request_state : BOOLEAN,
                 supports_custom : BOOLEAN, supports_buffers : BOOLEAN]

States == [Keys -> Values]
PartialStates == UNION {[K -> Values] : K \in SUBSET Keys}

\* The entries of a state dict whose key is in K.
Pick(state, K) == [k \in DOMAIN state \cap K |-> state[k]]

(***************************************************************************)
(* Effects.  A Send carries the comm message type, the method of its data  *)
(* (comm_open and comm_close have none), whether the immutable anywidget   *)
(* identity fields are merged into the state, the state, and whether the   *)
(* buffer list is non-empty.                                               *)
(***************************************************************************)
Methods == {"none", "update", "custom"}

Send(msg_type, method, identity, state, buffers) ==
  [effect |-> "Send", msg_type |-> msg_type, method |-> method,
   identity |-> identity, state |-> state, buffers |-> buffers]

Sends == [effect : {"Send"}, msg_type : {"comm_open", "comm_msg", "comm_close"},
          method : Methods, identity : BOOLEAN, state : PartialStates,
          buffers : BOOLEAN]

Listen == [effect |-> "Listen"]
ApplyState(state) == [effect |-> "ApplyState", state |-> state]
InvokeCustom == [effect |-> "InvokeCustom"]
Error == [effect |-> "Error"]

Empty == [k \in {} |-> k]

(***************************************************************************)
(* Events.                                                                 *)
(***************************************************************************)
OpenEvent == [event |-> "Open"]
SendStateEvent(include) == [event |-> "SendState", include |-> include]
SendCustomEvent(buffers) == [event |-> "SendCustom", buffers |-> buffers]
InboundEvent(message) == [event |-> "Inbound", message |-> message]
CloseEvent == [event |-> "Close"]
CommIdAssignedEvent == [event |-> "CommIdAssigned"]

\* SendState(include=None) asks for the full state, SendState(include=K) for K only.
All == [all |-> TRUE, keys |-> {}]
Only(K) == [all |-> FALSE, keys |-> K]

(***************************************************************************)
(* Inbound comm data.  fits says that there are as many buffers as         *)
(* buffer_paths; put_buffers raises ValueError otherwise.                  *)
(***************************************************************************)
InboundData == [method : {"update", "request_state", "custom", "echo_update"},
                state : PartialStates, fits : BOOLEAN]

\* protocol.parse_message: a method it does not know is Ignored, never an error.
ParseMessage(message) ==
  IF message.method \in {"update", "request_state", "custom"}
    THEN message.method ELSE "ignored"

Result(phase, effects) == [phase |-> phase, effects |-> effects]

HasBinary(state) == DOMAIN state \cap BinKeys # {}
----------------------------------------------------------------------------

\* Fault variant: the comm_open leaves out the identity fields.
ReduceOpenAnonymous(phase, state, caps) ==
  IF phase \in {"unopened", "closed"}
    THEN Result("open", <<Send("comm_open", "none", FALSE, state, HasBinary(state)), Listen>>)
    ELSE Result("open", << >>)

ReduceOpen(phase, state, caps) ==
  IF phase \in {"unopened", "closed"}
    THEN LET announce == Send("comm_open", "none", TRUE, state, HasBinary(state)) IN
         Result("open", IF caps.supports_receive THEN <<announce, Listen>> ELSE <<announce>>)
    ELSE Result("open", << >>)

UpdateOf(state, identity) ==
  Send("comm_msg", "update", identity, state, HasBinary(state))

\* Fault variant: the open-comm check is missing.
ReduceSendStateUnguarded(phase, include, state, caps) ==
  Result(phase, <<UpdateOf(IF include.all THEN state ELSE Pick(state, include.keys),
                           include.all)>>)

\* Fault variant: a full update leaves out the identity fields.
ReduceSendStateAnonymous(phase, include, state, caps) ==
  IF phase # "open" THEN Result(phase, <<Error>>)
  ELSE Result(phase, <<UpdateOf(IF include.all THEN state ELSE Pick(state, include.keys), FALSE)>>)

ReduceSendState(phase, include, state, caps) ==
  IF phase # "open" THEN Result(phase, <<Error>>)
  ELSE Result(phase,
         IF include.all THEN <<UpdateOf(state, TRUE)>>
                        ELSE <<UpdateOf(Pick(state, include.keys), FALSE)>>)

ReduceSendCustom(phase, buffers, caps) ==
  IF \/ phase # "open"
     \/ ~caps.supports_custom
     \/ ~caps.supports_buffers /\ buffers
    THEN Result(phase, <<Error>>)
    ELSE Result(phase, <<Send("comm_msg", "custom", FALSE, Empty, buffers)>>)

ReduceInbound(phase, message, state, caps) ==
  LET kind == ParseMessage(message) IN
  CASE phase # "open" -> Result(phase, << >>)
    [] phase = "open" /\ kind = "update" ->
         Result(phase, IF message.fits THEN <<ApplyState(message.state)>> ELSE <<Error>>)
    [] phase = "open" /\ kind = "request_state" ->
         IF caps.supports_request_state
           THEN ReduceSendState(phase, All, state, caps)
           ELSE Result(phase, << >>)
    [] phase = "open" /\ kind = "custom" -> Result(phase, <<InvokeCustom>>)
    [] phase = "open" /\ kind = "ignored" -> Result(phase, << >>)

\* Fault variant: close forgets the comm_close message.
ReduceCloseSilent(phase) ==
  IF phase = "open" THEN Result("closed", << >>) ELSE Result(phase, << >>)

ReduceClose(phase) ==
  IF phase = "open"
    THEN Result("closed", <<Send("comm_close", "none", FALSE, Empty, FALSE)>>)
    ELSE Result(phase, << >>)

\* The dispatch on the event's type.  CommIdAssigned leads to open from any
\* phase; an event of an unknown type is an error that leaves the phase alone.
Reduce(phase, event, state, caps) ==
  CASE event.event = "Open"           -> ReduceOpen(phase, state, caps)
    [] event.event = "SendState"      -> ReduceSendState(phase, event.include, state, caps)
    [] event.event = "SendCustom"     -> ReduceSendCustom(phase, event.buffers, caps)
    [] event.event = "Inbound"        -> ReduceInbound(phase, event.message, state, caps)
    [] event.event = "Close"          -> ReduceClose(phase)
    [] event.event = "CommIdAssigned" -> Result("open", << >>)
    [] OTHER                          -> Result(phase, <<Error>>)
============================================================================
