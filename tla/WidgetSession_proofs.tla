------------------------ MODULE WidgetSession_proofs ------------------------
(***************************************************************************)
(* Proofs about WidgetSession, for every number of comms, every queue      *)
(* bound, every host state and every set of capabilities.  First what the  *)
(* kernel's side keeps to itself (SessionInv), then what its comms and the *)
(* browser's models of them have in common (EndsInv), and from both that   *)
(* the widget implements CommContract, and that AnnouncedFirst and         *)
(* FarewellLast hold.                                                      *)
(***************************************************************************)
EXTENDS WidgetSession, TLAPS

(***************************************************************************)
(* The reducer's data: what a state dict and the part of it that is sent   *)
(* are, and that what the reducer builds are messages.                     *)
(***************************************************************************)

\* A part of the host's state is a state for some of the keys.
LEMMA PickType ==
  ASSUME NEW s \in States, NEW K
  PROVE  Pick(s, K) \in PartialStates
<1>1. DOMAIN s \cap K \in SUBSET Keys
  BY DEF States
<1>2. Pick(s, K) \in [DOMAIN s \cap K -> Values]
  BY DEF Pick, States
<1> QED BY <1>1, <1>2 DEF PartialStates

\* So is all of it, and none of it.
LEMMA StateType ==
  ASSUME NEW s \in States
  PROVE  s \in PartialStates /\ Empty \in PartialStates
<1>1. Empty \in [{} -> Values]
  BY DEF Empty
<1>2. Keys \in SUBSET Keys /\ {} \in SUBSET Keys
  OBVIOUS
<1> QED BY <1>1, <1>2 DEF States, PartialStates

\* A message has buffers or it has none.
LEMMA BufferType ==
  ASSUME NEW s
  PROVE  HasBinary(s) \in BOOLEAN
  BY DEF HasBinary

\* The messages the reducer builds are Send effects.
LEMMA SendTypes ==
  ASSUME NEW s \in PartialStates, NEW b \in BOOLEAN, NEW id \in BOOLEAN
  PROVE  /\ Send("comm_open", "none", TRUE, s, b) \in Sends
         /\ Send("comm_msg", "update", id, s, b) \in Sends
         /\ Send("comm_msg", "custom", FALSE, s, b) \in Sends
         /\ Send("comm_close", "none", FALSE, s, b) \in Sends
  BY DEF Send, Sends, Methods

(***************************************************************************)
(* What the reducer answers to each event.                                 *)
(***************************************************************************)

\* A result whose only effect, or whose first effect, is the message m.
LEMMA SentResult ==
  ASSUME NEW p, NEW m \in Sends
  PROVE  /\ Sent(Result(p, <<m>>)) /\ First(Result(p, <<m>>)) = m
         /\ Sent(Result(p, <<m, Listen>>)) /\ First(Result(p, <<m, Listen>>)) = m
<1>1. m.effect = "Send"
  BY DEF Sends
<1> QED BY <1>1 DEF Sent, First, Result

\* A result that sends nothing.
LEMMA UnsentResult ==
  ASSUME NEW p, NEW e, e.effect # "Send"
  PROVE  ~Sent(Result(p, << >>)) /\ ~Sent(Result(p, <<e>>))
  BY DEF Sent, First, Result

\* open() answers with a comm_open that carries the identity fields.
LEMMA OpenResult ==
  ASSUME NEW p \in Phases, p # "open", NEW s \in States, NEW cp \in Capabilities
  PROVE  LET r == Reduce(p, OpenEvent, s, cp) IN
         /\ r.phase = "open"
         /\ Sent(r)
         /\ First(r) \in Sends
         /\ First(r).msg_type = "comm_open"
         /\ First(r).identity = TRUE
<1> DEFINE r == Reduce(p, OpenEvent, s, cp)
           m == Send("comm_open", "none", TRUE, s, HasBinary(s))
<1>1. r = ReduceOpen(p, s, cp)
  BY DEF Reduce, OpenEvent
<1>2. m \in Sends
  BY SendTypes, StateType, BufferType
<1>3. m.msg_type = "comm_open" /\ m.identity = TRUE
  BY DEF Send
<1> HIDE DEF m
<1>5. r = Result("open", <<m, Listen>>) \/ r = Result("open", <<m>>)
  <2>1. p \in {"unopened", "closed"}
    BY DEF Phases
  <2> QED BY <1>1, <2>1 DEF ReduceOpen, m
<1>6. r.phase = "open"
  BY <1>5 DEF Result
<1> HIDE DEF r
<1>7. Sent(r) /\ First(r) = m
  BY <1>2, <1>5, SentResult
<1> QED BY <1>2, <1>3, <1>6, <1>7 DEF r

\* send_state() speaks only while the widget is open, and then it sends an update.
LEMMA SendStateResult ==
  ASSUME NEW p \in Phases, NEW s \in States, NEW cp \in Capabilities,
         NEW include \in {All} \cup {Only(K) : K \in SUBSET Keys}
  PROVE  LET r == Reduce(p, SendStateEvent(include), s, cp) IN
         /\ r.phase = p
         /\ Sent(r) => p = "open" /\ First(r) \in Sends /\ First(r).msg_type = "comm_msg"
<1> DEFINE r == Reduce(p, SendStateEvent(include), s, cp)
           m == IF include.all THEN UpdateOf(s, TRUE) ELSE UpdateOf(Pick(s, include.keys), FALSE)
<1>1. r = ReduceSendState(p, include, s, cp)
  BY DEF Reduce, SendStateEvent
<1>2. CASE p # "open"
  <2>1. r = Result(p, <<Error>>)
    BY <1>1, <1>2 DEF ReduceSendState
  <2>2. Error.effect # "Send"
    BY DEF Error
  <2>3. r.phase = p
    BY <2>1 DEF Result
  <2> HIDE DEF r
  <2>4. ~Sent(r)
    BY <2>1, <2>2, UnsentResult
  <2> QED BY <2>3, <2>4 DEF r
<1>3. CASE p = "open"
  <2>1. r = Result(p, <<m>>)
    <3>1. CASE include.all
      BY <1>1, <1>3, <3>1 DEF ReduceSendState
    <3>2. CASE ~include.all
      BY <1>1, <1>3, <3>2 DEF ReduceSendState
    <3> QED BY <3>1, <3>2
  <2>2. m \in Sends /\ m.msg_type = "comm_msg"
    <3>1. Pick(s, include.keys) \in PartialStates /\ s \in PartialStates
      BY PickType, StateType
    <3>2. UpdateOf(s, TRUE) \in Sends /\ UpdateOf(Pick(s, include.keys), FALSE) \in Sends
      BY <3>1, SendTypes, BufferType DEF UpdateOf
    <3>3. /\ UpdateOf(s, TRUE).msg_type = "comm_msg"
          /\ UpdateOf(Pick(s, include.keys), FALSE).msg_type = "comm_msg"
      BY DEF UpdateOf, Send
    <3> QED BY <3>2, <3>3
  <2>3. r.phase = p
    BY <2>1 DEF Result
  <2> HIDE DEF m, r
  <2>4. First(r) = m
    BY <2>1, <2>2, SentResult
  <2> QED BY <1>3, <2>2, <2>3, <2>4 DEF r
<1> QED BY <1>2, <1>3

\* send_custom() speaks only while the widget is open.
LEMMA SendCustomResult ==
  ASSUME NEW p \in Phases, NEW s \in States, NEW cp \in Capabilities, NEW b \in BOOLEAN
  PROVE  LET r == Reduce(p, SendCustomEvent(b), s, cp) IN
         /\ r.phase = p
         /\ Sent(r) => p = "open" /\ First(r) \in Sends /\ First(r).msg_type = "comm_msg"
<1> DEFINE r == Reduce(p, SendCustomEvent(b), s, cp)
           m == Send("comm_msg", "custom", FALSE, Empty, b)
           refused == p # "open" \/ ~cp.supports_custom \/ (~cp.supports_buffers /\ b)
<1>1. r = ReduceSendCustom(p, b, cp)
  BY DEF Reduce, SendCustomEvent
<1>2. r = Result(p, <<Error>>) \/ (p = "open" /\ r = Result(p, <<m>>))
  <2>1. CASE refused
    BY <1>1, <2>1 DEF ReduceSendCustom
  <2>2. CASE ~refused
    BY <1>1, <2>2 DEF ReduceSendCustom
  <2> QED BY <2>1, <2>2
<1>3. m \in Sends /\ m.msg_type = "comm_msg"
  <2>1. Empty \in PartialStates
    <3>1. Empty \in [{} -> Values]
      BY DEF Empty
    <3> QED BY <3>1 DEF PartialStates
  <2> QED BY <2>1, SendTypes DEF Send
<1>4. Error.effect # "Send"
  BY DEF Error
<1>5. r.phase = p
  BY <1>2, \A e : Result(p, e).phase = p DEF Result
<1> HIDE DEF r, m
<1>6. ~Sent(r) \/ (p = "open" /\ First(r) = m)
  BY <1>2, <1>3, <1>4, SentResult, UnsentResult
<1> QED BY <1>3, <1>5, <1>6 DEF r

\* close() says goodbye exactly when the widget was open, and leaves it not open.
LEMMA CloseResult ==
  ASSUME NEW p \in Phases, NEW s, NEW cp
  PROVE  LET r == Reduce(p, CloseEvent, s, cp) IN
         /\ r.phase = IF p = "open" THEN "closed" ELSE p
         /\ Sent(r) <=> p = "open"
         /\ Sent(r) => First(r) \in Sends /\ First(r).msg_type = "comm_close"
<1> DEFINE r == Reduce(p, CloseEvent, s, cp)
           m == Send("comm_close", "none", FALSE, Empty, FALSE)
<1>1. r = ReduceClose(p)
  BY DEF Reduce, CloseEvent
<1>2. m \in Sends /\ m.msg_type = "comm_close"
  <2>1. Empty \in PartialStates
    <3>1. Empty \in [{} -> Values]
      BY DEF Empty
    <3> QED BY <3>1 DEF PartialStates
  <2> QED BY <2>1, SendTypes DEF Send
<1>3. CASE p = "open"
  <2>1. r = Result("closed", <<m>>)
    BY <1>1, <1>3 DEF ReduceClose
  <2>2. r.phase = "closed"
    BY <2>1 DEF Result
  <2> HIDE DEF r, m
  <2>3. Sent(r) /\ First(r) = m
    BY <1>2, <2>1, SentResult
  <2> QED BY <1>2, <1>3, <2>2, <2>3 DEF r
<1>4. CASE p # "open"
  <2>1. r = Result(p, << >>)
    BY <1>1, <1>4 DEF ReduceClose
  <2>2. r.phase = p
    BY <2>1 DEF Result
  <2> HIDE DEF r
  <2>3. ~Sent(r)
    BY <2>1 DEF Sent, Result
  <2> QED BY <1>4, <2>2, <2>3 DEF r
<1> QED BY <1>3, <1>4

\* An inbound message never moves the phase; it is answered only by an update, and
\* only while the widget is open; what is applied to the host is a partial state.
LEMMA InboundResult ==
  ASSUME NEW p \in Phases, NEW s \in States, NEW cp \in Capabilities, NEW d \in InboundData
  PROVE  LET r == Reduce(p, InboundEvent(d), s, cp) IN
         /\ r.phase = p
         /\ Sent(r) => p = "open" /\ First(r) \in Sends /\ First(r).msg_type = "comm_msg"
         /\ Asked(r, "ApplyState") => First(r).state \in PartialStates
<1> DEFINE r == Reduce(p, InboundEvent(d), s, cp)
           full == ReduceSendState(p, All, s, cp)
<1>1. r = ReduceInbound(p, d, s, cp)
  BY DEF Reduce, InboundEvent
<1>2. full = Reduce(p, SendStateEvent(All), s, cp)
  BY DEF Reduce, SendStateEvent
<1>3. full = Result(p, <<Error>>) \/ full = Result(p, <<UpdateOf(s, TRUE)>>)
  BY DEF ReduceSendState, All
<1>4. \/ r = Result(p, << >>)
      \/ r = Result(p, <<Error>>)
      \/ r = Result(p, <<InvokeCustom>>)
      \/ r = Result(p, <<ApplyState(d.state)>>)
      \/ r = full
  <2>1. ParseMessage(d) \in {"update", "request_state", "custom", "ignored"}
    BY DEF ParseMessage
  <2> QED BY <1>1, <2>1 DEF ReduceInbound
<1>5. CASE r = full
  <2>1. All \in {All} \cup {Only(K) : K \in SUBSET Keys}
    OBVIOUS
  <2>2. ~Asked(full, "ApplyState")
    BY <1>3 DEF Asked, Result, Error, UpdateOf, Send
  <2> QED BY <1>2, <1>5, <2>1, <2>2, SendStateResult
<1>6. CASE r = Result(p, << >>) \/ r = Result(p, <<Error>>) \/ r = Result(p, <<InvokeCustom>>)
  <2>1. r.phase = p /\ ~Asked(r, "ApplyState")
    BY <1>6 DEF Result, Asked, Error, InvokeCustom
  <2>2. Error.effect # "Send" /\ InvokeCustom.effect # "Send"
    BY DEF Error, InvokeCustom
  <2> HIDE DEF r
  <2>3. ~Sent(r)
    BY <1>6, <2>2, UnsentResult
  <2> QED BY <2>1, <2>3 DEF r
<1>7. CASE r = Result(p, <<ApplyState(d.state)>>)
  <2>1. r.phase = p
    BY <1>7 DEF Result
  <2>2. ApplyState(d.state).effect # "Send" /\ ApplyState(d.state).state = d.state
    BY DEF ApplyState
  <2>3. d.state \in PartialStates
    BY DEF InboundData
  <2> HIDE DEF r
  <2>4. ~Sent(r)
    BY <1>7, <2>2, UnsentResult
  <2>5. First(r) = ApplyState(d.state)
    BY <1>7 DEF First, Result
  <2> QED BY <2>1, <2>2, <2>3, <2>4, <2>5 DEF r
<1> QED BY <1>4, <1>5, <1>6, <1>7
-----------------------------------------------------------------------------
(***************************************************************************)
(* The inductive invariant.                                                *)
(***************************************************************************)

LEMMA SessionInit == Init => SessionInv
<1> SUFFICES ASSUME Init PROVE SessionInv
  OBVIOUS
<1>1. 0 \in 0 .. MaxComms
  BY SessionAssumption
<1>2. << >> \in Seq(Publications) /\ << >> \in Seq(Requests)
  OBVIOUS
<1>3. front \in [Comms -> FrontStates]
  BY DEF Init, FrontStates
<1>4. TypeOK
  BY <1>1, <1>2, <1>3 DEF Init, TypeOK, Phases
<1> QED BY <1>4 DEF Init, SessionInv, OneSession, NoComm

\* What is published keeps the wire's type.
LEMMA PublishType ==
  ASSUME TypeOK, NEW c \in Comms, NEW b \in Sends,
         toFront' = Append(toFront, [comm |-> c, body |-> b])
  PROVE  toFront' \in Seq(Publications)
<1>1. [comm |-> c, body |-> b] \in Publications
  BY DEF Publications
<1> QED BY <1>1 DEF TypeOK

LEMMA OpenStep ==
  ASSUME SessionInv, Open
  PROVE  SessionInv'
<1>1. TypeOK /\ phase \in Phases /\ store \in States /\ caps \in Capabilities /\ phase # "open"
  BY DEF SessionInv, TypeOK, Open
<1> DEFINE r == Reduce(phase, OpenEvent, store, caps)
           c == created + 1
<1>2. /\ r.phase = "open" /\ First(r) \in Sends
  BY <1>1, OpenResult
<1>3. CASE OpenShell /\ widgetId' = shellId'
  <2>1. /\ created < MaxComms /\ created' = c /\ comm' = c /\ shellId' = c /\ widgetId' = c
        /\ registered' = registered \cup {c}
        /\ toFront' = Append(toFront, [comm |-> c, body |-> First(r)])
        /\ phase' = Reduce(r.phase, CommIdAssignedEvent, store, caps).phase
        /\ ListenOnce(r, c)
    BY <1>3 DEF OpenShell
  <2>2. phase' = "open"
    BY <2>1 DEF Reduce, CommIdAssignedEvent, Result
  <2>3. c \in Comms /\ c \in 0 .. MaxComms /\ c # NoComm
    BY <1>1, <2>1, SessionAssumption DEF TypeOK, Comms, NoComm
  <2>4. listening' \in BOOLEAN /\ handlers' \subseteq Comms
    BY <1>1, <2>1, <2>3 DEF ListenOnce, TypeOK
  <2> HIDE DEF r, c
  <2>5. toFront' \in Seq(Publications)
    BY <1>1, <1>2, <2>1, <2>3, PublishType
  <2>6. TypeOK'
    BY <1>1, <2>1, <2>2, <2>3, <2>4, <2>5 DEF TypeOK, Open, hostVars, frontVars, Phases
  <2>7. registered = {}
    BY <1>1 DEF SessionInv
  <2> QED BY <2>1, <2>2, <2>3, <2>6, <2>7 DEF SessionInv, OneSession
<1>4. CASE OpenShellFails /\ UNCHANGED widgetId
  <2>1. /\ OpenMayFail /\ phase' = "open"
        /\ UNCHANGED <<listening, shellId, widgetId, comm, managerVars, toFront>>
    BY <1>2, <1>4 DEF OpenShellFails
  <2>2. TypeOK'
    BY <1>1, <2>1 DEF TypeOK, Open, hostVars, managerVars, frontVars, Phases
  <2> QED BY <2>1, <2>2, <1>1 DEF SessionInv, OneSession, managerVars
<1> QED BY <1>3, <1>4 DEF Open

\* A step that changes neither the ids, the comm nor the manager, keeps the phase and
\* publishes at most one message on the transport's comm.
LEMMA SpeakStep ==
  ASSUME SessionInv, NEW r, First(r) \in Sends \/ ~Sent(r), SendMsg(r),
         phase' = phase, store' \in States, toKernel' \in Seq(Requests),
         registered' \subseteq registered,
         UNCHANGED <<caps, listening, shellId, widgetId, comm, created, handlers, front>>
  PROVE  SessionInv'
<1>1. TypeOK
  BY DEF SessionInv
<1>2. toFront' \in Seq(Publications)
  <2>1. CASE Sent(r) /\ comm # NoComm
    <3>1. comm \in Comms
      BY <1>1, <2>1 DEF TypeOK
    <3> QED BY <1>1, <2>1, <3>1, PublishType DEF SendMsg
  <2>2. CASE ~(Sent(r) /\ comm # NoComm)
    BY <1>1, <2>2 DEF SendMsg, TypeOK
  <2> QED BY <2>1, <2>2
<1>3. TypeOK'
  BY <1>1, <1>2 DEF TypeOK
<1> QED BY <1>3 DEF SessionInv, OneSession

LEMMA SendStateStep ==
  ASSUME SessionInv, SendState
  PROVE  SessionInv'
<1>1. phase \in Phases /\ store \in States /\ caps \in Capabilities /\ toKernel \in Seq(Requests)
  BY DEF SessionInv, TypeOK
<1>2. PICK include \in {All} \cup {Only(K) : K \in SUBSET Keys} : Call(SendStateEvent(include))
  BY DEF SendState
<1> DEFINE r == Reduce(phase, SendStateEvent(include), store, caps)
<1>3. r.phase = phase /\ (Sent(r) => First(r) \in Sends)
  BY <1>1, SendStateResult
<1>4. /\ phase' = r.phase /\ SendMsg(r)
      /\ UNCHANGED <<hostVars, listening, shellId, widgetId, comm, managerVars, frontVars>>
  BY <1>2 DEF Call
<1> HIDE DEF r
<1> QED BY <1>1, <1>3, <1>4, SpeakStep DEF hostVars, managerVars, frontVars

LEMMA SendCustomStep ==
  ASSUME SessionInv, SendCustom
  PROVE  SessionInv'
<1>1. phase \in Phases /\ store \in States /\ caps \in Capabilities /\ toKernel \in Seq(Requests)
  BY DEF SessionInv, TypeOK
<1>2. PICK b \in BOOLEAN : Call(SendCustomEvent(b))
  BY DEF SendCustom
<1> DEFINE r == Reduce(phase, SendCustomEvent(b), store, caps)
<1>3. r.phase = phase /\ (Sent(r) => First(r) \in Sends)
  BY <1>1, SendCustomResult
<1>4. /\ phase' = r.phase /\ SendMsg(r)
      /\ UNCHANGED <<hostVars, listening, shellId, widgetId, comm, managerVars, frontVars>>
  BY <1>2 DEF Call
<1> HIDE DEF r
<1> QED BY <1>1, <1>3, <1>4, SpeakStep DEF hostVars, managerVars, frontVars

LEMMA CloseStep ==
  ASSUME SessionInv, Close
  PROVE  SessionInv'
<1> DEFINE r == Reduce(phase, CloseEvent, Empty, caps)
<1>1. TypeOK /\ phase \in Phases
  BY DEF SessionInv, TypeOK
<1>2. /\ r.phase = IF phase = "open" THEN "closed" ELSE phase
      /\ Sent(r) <=> phase = "open"
      /\ Sent(r) => First(r) \in Sends
  BY <1>1, CloseResult
<1>3. /\ phase' = r.phase /\ SendClose(r)
      /\ UNCHANGED <<hostVars, listening, shellId, widgetId, comm, created, handlers, frontVars>>
  BY DEF Close
<1> HIDE DEF r
<1>4. toFront' \in Seq(Publications)
  <2>1. CASE Sent(r) /\ comm \in registered
    <3>1. comm \in Comms
      BY <1>1, <2>1 DEF TypeOK
    <3> QED BY <1>1, <1>2, <1>3, <2>1, <3>1, PublishType DEF SendClose
  <2>2. CASE ~(Sent(r) /\ comm \in registered)
    BY <1>1, <1>3, <2>2 DEF SendClose, TypeOK
  <2> QED BY <2>1, <2>2
<1>5. registered' = {}
  BY <1>2, <1>3 DEF SendClose, SessionInv, OneSession
<1>6. phase' \in Phases /\ (phase' = "unopened" => phase = "unopened") /\ phase' # "open"
  BY <1>1, <1>2, <1>3 DEF Phases
<1>7. TypeOK'
  BY <1>1, <1>3, <1>4, <1>5, <1>6 DEF TypeOK, hostVars, frontVars
<1>8. phase = "unopened" => phase' = "unopened"
  BY <1>2, <1>3
<1> QED BY <1>3, <1>5, <1>6, <1>7, <1>8 DEF SessionInv, OneSession

LEMMA DispatchStep ==
  ASSUME SessionInv, Dispatch
  PROVE  SessionInv'
<1> DEFINE m == Head(toKernel)
<1>1. /\ phase \in Phases /\ store \in States /\ caps \in Capabilities
      /\ toKernel \in Seq(Requests) /\ toKernel # << >> /\ toKernel' = Tail(toKernel)
      /\ UNCHANGED <<caps, listening, shellId, widgetId, comm, created, handlers, front>>
  BY DEF SessionInv, TypeOK, Dispatch
<1>2. m \in Requests /\ toKernel' \in Seq(Requests)
  BY <1>1
<1> HIDE DEF m
<1>3. CASE UNCHANGED <<phase, store, toFront>> /\ registered' \subseteq registered
  <2>1. TypeOK'
    BY <1>1, <1>2, <1>3 DEF SessionInv, TypeOK
  <2> QED BY <1>1, <1>3, <2>1 DEF SessionInv, OneSession
<1>4. CASE m.data # Hangup /\ HandleInbound(m.data)
  <2>1. m.data \in InboundData
    BY <1>2, <1>4 DEF Requests
  <2> DEFINE r == IF ParseMessage(m.data) = "ignored" THEN Result(phase, << >>)
                  ELSE Reduce(phase, InboundEvent(m.data), store, caps)
  <2>2. /\ phase' = r.phase /\ SendMsg(r) /\ registered' = registered
        /\ store' = IF Asked(r, "ApplyState") /\ "set_state" \in Callbacks
                      THEN Overlay(store, First(r).state) ELSE store
    BY <1>4 DEF HandleInbound
  <2>3. /\ r.phase = phase
        /\ Sent(r) => First(r) \in Sends
        /\ Asked(r, "ApplyState") => First(r).state \in PartialStates
    <3>1. CASE ParseMessage(m.data) = "ignored"
      BY <3>1 DEF Result, Sent, Asked
    <3>2. CASE ParseMessage(m.data) # "ignored"
      <4>1. r = Reduce(phase, InboundEvent(m.data), store, caps)
        BY <3>2
      <4> HIDE DEF r
      <4> QED BY <1>1, <2>1, <4>1, InboundResult
    <3> QED BY <3>1, <3>2
  <2> HIDE DEF r
  <2>4. store' \in States
    <3>1. ASSUME NEW s \in PartialStates PROVE Overlay(store, s) \in States
      BY <1>1, <3>1 DEF Overlay, States, PartialStates
    <3> QED BY <1>1, <2>2, <2>3, <3>1
  <2> QED BY <1>1, <1>2, <2>2, <2>3, <2>4, SpeakStep
<1> QED BY <1>3, <1>4 DEF Dispatch, m

\* The steps of the frontend and of the host's own writes leave the kernel's side alone.
LEMMA OutsideStep ==
  ASSUME SessionInv, UNCHANGED <<caps, shellVars, comm, managerVars>>,
         store' \in States, toFront' \in Seq(Publications), toKernel' \in Seq(Requests),
         front' \in [Comms -> FrontStates]
  PROVE  SessionInv'
<1>1. TypeOK'
  BY DEF SessionInv, TypeOK, shellVars, managerVars
<1> QED BY <1>1 DEF SessionInv, OneSession, shellVars, managerVars

LEMMA HostWriteStep ==
  ASSUME SessionInv, HostWrite
  PROVE  SessionInv'
<1>1. store' \in States
  BY DEF HostWrite, SessionInv, TypeOK, States
<1> QED BY <1>1, OutsideStep DEF HostWrite, frontVars, SessionInv, TypeOK

LEMMA FrontReceiveStep ==
  ASSUME SessionInv, FrontReceive
  PROVE  SessionInv'
<1>1. front \in [Comms -> FrontStates]
  BY DEF SessionInv, TypeOK
<1>2. \A e \in FrontStates : \A body : Hear(e, body) \in FrontStates
  BY DEF Hear, FrontStates
<1>3. front' \in [Comms -> FrontStates]
  BY <1>1, <1>2 DEF FrontReceive
<1>4. toFront' \in Seq(Publications)
  BY DEF FrontReceive, SessionInv, TypeOK
<1> QED BY <1>3, <1>4, OutsideStep DEF FrontReceive, hostVars, SessionInv, TypeOK

LEMMA FrontWritesType ==
  ASSUME TypeOK, NEW c \in Comms, NEW d \in InboundData \cup {Hangup}, FrontWrites(c, d)
  PROVE  toKernel' \in Seq(Requests)
<1>1. [comm |-> c, data |-> d] \in Requests
  BY DEF Requests
<1> QED BY <1>1 DEF FrontWrites, TypeOK

LEMMA FrontStep ==
  ASSUME SessionInv, NEW c \in Comms, Front(c)
  PROVE  SessionInv'
<1>1. TypeOK /\ front \in [Comms -> FrontStates] /\ store \in States /\ toFront \in Seq(Publications)
  BY DEF SessionInv, TypeOK
<1>2. Empty \in PartialStates
  <2>1. Empty \in [{} -> Values]
    BY DEF Empty
  <2> QED BY <2>1 DEF PartialStates
<1>3. PICK d \in InboundData \cup {Hangup} : FrontWrites(c, d)
  <2>1. CASE FrontSend(c)
    <3>1. PICK k \in Keys, v \in Values, fits \in BOOLEAN :
            \/ FrontWrites(c, Inbound("update", [x \in {k} |-> v], fits))
            \/ FrontWrites(c, Inbound("custom", Empty, TRUE))
            \/ FrontWrites(c, Inbound("echo_update", Empty, TRUE))
      BY <2>1 DEF FrontSend
    <3>2. [x \in {k} |-> v] \in PartialStates
      <4>1. {k} \in SUBSET Keys /\ [x \in {k} |-> v] \in [{k} -> Values]
        OBVIOUS
      <4> QED BY <4>1 DEF PartialStates
    <3>3. /\ Inbound("update", [x \in {k} |-> v], fits) \in InboundData
          /\ Inbound("custom", Empty, TRUE) \in InboundData
          /\ Inbound("echo_update", Empty, TRUE) \in InboundData
      BY <1>2, <3>2 DEF Inbound, InboundData
    <3> QED BY <3>1, <3>3
  <2>2. CASE FrontReload(c)
    <3>1. Inbound("request_state", Empty, TRUE) \in InboundData
      BY <1>2 DEF Inbound, InboundData
    <3> QED BY <2>2, <3>1 DEF FrontReload
  <2>3. CASE FrontClose(c)
    BY <2>3 DEF FrontClose
  <2> QED BY <2>1, <2>2, <2>3 DEF Front
<1>4. toKernel' \in Seq(Requests)
  BY <1>1, <1>3, FrontWritesType
<1>5. front' \in [Comms -> FrontStates]
  BY <1>1 DEF Front, FrontSend, FrontReload, FrontClose, FrontStates
<1> QED BY <1>1, <1>3, <1>4, <1>5, OutsideStep DEF FrontWrites, hostVars

\* The inductive invariant of a widget's session.
THEOREM SessionInvariant == Spec => []SessionInv
<1>1. SessionInv /\ [Next]_vars => SessionInv'
  <2> SUFFICES ASSUME SessionInv, [Next]_vars PROVE SessionInv'
    OBVIOUS
  <2>1. CASE UNCHANGED vars
    BY <2>1 DEF vars, hostVars, shellVars, managerVars, frontVars, SessionInv, TypeOK, OneSession
  <2> QED
    BY <2>1, OpenStep, SendStateStep, SendCustomStep, CloseStep, HostWriteStep, DispatchStep,
       FrontReceiveStep, FrontStep DEF Next
<1> QED BY <1>1, SessionInit, PTL DEF Spec

\* Every variable keeps its type.
THEOREM SessionTypeOK == Spec => []TypeOK
  BY SessionInvariant, PTL DEF SessionInv

\* At most one comm of a widget is up, and it is the one the transport holds, even
\* when comm_opens fail and the frontend closes comms.
THEOREM SessionOne == Spec => []OneSession
  BY SessionInvariant, PTL DEF SessionInv

\* While no comm_open fails, phase, comm and both model ids tell one story.
THEOREM SessionStory == ~OpenMayFail => (Spec => []StoryAgrees)
<1> SUFFICES ASSUME ~OpenMayFail PROVE Spec => []StoryAgrees
  OBVIOUS
<1>1. SessionInv => StoryAgrees
  BY DEF SessionInv, StoryAgrees, TypeOK, NoComm
<1> QED BY <1>1, SessionInvariant, PTL

-----------------------------------------------------------------------------
(***************************************************************************)
(* What a step is to the browser.  Of every step of the widget only the    *)
(* following matters to the two queues and the comms; the lemma AsSeen     *)
(* sorts the actions of Next into these kinds.                             *)
(***************************************************************************)

\* The message of the comm c with body b is published.
Publishes(c, b) == toFront' = Append(toFront, [comm |-> c, body |-> b])

\* The shell channel is left alone, or a message that is no hang-up joins or leaves it.
Chats ==
  \/ toKernel' = toKernel
  \/ toKernel # << >> /\ Head(toKernel).data # Hangup /\ toKernel' = Tail(toKernel)
  \/ \E m \in Requests : m.data # Hangup /\ toKernel' = Append(toKernel, m)

Announces ==
  /\ created < MaxComms /\ created' = created + 1 /\ comm' = created'
  /\ phase # "open" /\ phase' = "open" /\ registered' = {created'}
  /\ \E b \in Sends : b.msg_type = "comm_open" /\ b.identity /\ Publishes(created', b)
  /\ UNCHANGED <<toKernel, front>>

FailsToOpen ==
  /\ OpenMayFail
  /\ UNCHANGED <<comm, created, registered, toFront, toKernel, front>>

Speaks ==
  /\ phase = "open" /\ comm # NoComm
  /\ \E b \in Sends : b.msg_type = "comm_msg" /\ Publishes(comm, b)
  /\ Chats
  /\ UNCHANGED <<phase, comm, created, registered, front>>

Retires ==
  /\ phase = "open" /\ phase' = "closed" /\ registered' = {}
  /\ IF comm \in registered
       THEN \E b \in Sends : b.msg_type = "comm_close" /\ Publishes(comm, b)
       ELSE toFront' = toFront
  /\ UNCHANGED <<comm, created, toKernel, front>>

HangsUp ==
  /\ toKernel # << >> /\ Head(toKernel).data = Hangup
  /\ toKernel' = Tail(toKernel)
  /\ registered' = registered \ {Head(toKernel).comm}
  /\ UNCHANGED <<phase, comm, created, toFront, front>>

Keeps ==
  /\ Chats
  /\ UNCHANGED <<phase, comm, created, registered, toFront, front>>

Hears ==
  /\ FrontReceive
  /\ UNCHANGED <<phase, comm, created, registered, toKernel>>

Reloads(c) ==
  /\ front[c] = "live" /\ front' = [front EXCEPT ![c] = "reloaded"]
  /\ Chats
  /\ UNCHANGED <<phase, comm, created, registered, toFront>>

Leaves(c) ==
  /\ front[c] \in {"live", "reloaded"} /\ front' = [front EXCEPT ![c] = "closed"]
  /\ toKernel' = Append(toKernel, [comm |-> c, data |-> Hangup])
  /\ UNCHANGED <<phase, comm, created, registered, toFront>>

LEMMA OpenAsSeen ==
  ASSUME SessionInv, Open
  PROVE  Announces \/ FailsToOpen
<1>1. TypeOK /\ phase \in Phases /\ store \in States /\ caps \in Capabilities /\ phase # "open"
  BY DEF SessionInv, TypeOK, Open
<1>2. registered = {} /\ UNCHANGED <<toKernel, front>>
  BY <1>1 DEF SessionInv, Open, frontVars
<1> DEFINE r == Reduce(phase, OpenEvent, store, caps)
           b == First(r)
<1>3. b \in Sends /\ b.msg_type = "comm_open" /\ b.identity = TRUE
  BY <1>1, OpenResult
<1>4. CASE OpenShell
  <2>1. /\ created < MaxComms /\ created' = created + 1 /\ comm' = created + 1
        /\ registered' = registered \cup {created + 1}
        /\ toFront' = Append(toFront, [comm |-> created + 1, body |-> b])
        /\ phase' = Reduce(r.phase, CommIdAssignedEvent, store, caps).phase
    BY <1>4 DEF OpenShell
  <2>2. phase' = "open"
    BY <2>1 DEF Reduce, CommIdAssignedEvent, Result
  <2> HIDE DEF b, r
  <2> QED BY <1>1, <1>2, <1>3, <2>1, <2>2 DEF Announces, Publishes
<1>5. CASE OpenShellFails
  BY <1>2, <1>5 DEF OpenShellFails, FailsToOpen, managerVars
<1> QED BY <1>4, <1>5 DEF Open

\* A step that sends what the reducer answered, if it answered.
LEMMA AnswerAsSeen ==
  ASSUME NEW r, SendMsg(r),
         Sent(r) => phase = "open" /\ First(r) \in Sends /\ First(r).msg_type = "comm_msg",
         Chats, UNCHANGED <<phase, comm, created, registered, front>>
  PROVE  Speaks \/ Keeps
<1>1. CASE Sent(r) /\ comm # NoComm
  BY <1>1 DEF SendMsg, Speaks, Publishes
<1>2. CASE ~(Sent(r) /\ comm # NoComm)
  BY <1>2 DEF SendMsg, Keeps
<1> QED BY <1>1, <1>2

LEMMA SendAsSeen ==
  ASSUME SessionInv, SendState \/ SendCustom
  PROVE  Speaks \/ Keeps
<1>1. phase \in Phases /\ store \in States /\ caps \in Capabilities
  BY DEF SessionInv, TypeOK
<1> DEFINE Answers(r) ==
      /\ r.phase = phase
      /\ Sent(r) => phase = "open" /\ First(r) \in Sends /\ First(r).msg_type = "comm_msg"
<1>2. PICK e : Call(e) /\ Answers(Reduce(phase, e, store, caps))
  <2>1. CASE SendState
    <3>1. PICK include \in {All} \cup {Only(K) : K \in SUBSET Keys} : Call(SendStateEvent(include))
      BY <2>1 DEF SendState
    <3> QED BY <1>1, <3>1, SendStateResult
  <2>2. CASE SendCustom
    <3>1. PICK b \in BOOLEAN : Call(SendCustomEvent(b))
      BY <2>2 DEF SendCustom
    <3> QED BY <1>1, <3>1, SendCustomResult
  <2> QED BY <2>1, <2>2
<1> DEFINE r == Reduce(phase, e, store, caps)
<1>3. SendMsg(r) /\ phase' = r.phase
  BY <1>2 DEF Call
<1>4. UNCHANGED <<comm, created, registered, toKernel, front>>
  BY <1>2 DEF Call, managerVars, frontVars
<1>5. Chats
  BY <1>4 DEF Chats
<1>6. Answers(r)
  BY <1>2
<1> HIDE DEF r
<1> QED BY <1>3, <1>4, <1>5, <1>6, AnswerAsSeen

LEMMA CloseAsSeen ==
  ASSUME SessionInv, Close
  PROVE  Retires \/ Keeps
<1> DEFINE r == Reduce(phase, CloseEvent, Empty, caps)
<1>1. /\ r.phase = IF phase = "open" THEN "closed" ELSE phase
      /\ Sent(r) <=> phase = "open"
      /\ Sent(r) => First(r) \in Sends /\ First(r).msg_type = "comm_close"
  BY CloseResult DEF SessionInv, TypeOK
<1>2. /\ phase' = r.phase /\ SendClose(r)
      /\ UNCHANGED <<comm, created, toKernel, front>>
  BY DEF Close, frontVars
<1> HIDE DEF r
<1>3. CASE phase = "open"
  <2>1. registered' = {}
    BY <1>1, <1>2, <1>3 DEF SendClose, SessionInv, OneSession
  <2> QED BY <1>1, <1>2, <1>3, <2>1 DEF SendClose, Retires, Publishes
<1>4. CASE phase # "open"
  BY <1>1, <1>2, <1>4 DEF SendClose, Keeps, Chats
<1> QED BY <1>3, <1>4

LEMMA DispatchAsSeen ==
  ASSUME SessionInv, Dispatch
  PROVE  HangsUp \/ Speaks \/ Keeps
<1> DEFINE m == Head(toKernel)
<1>1. /\ phase \in Phases /\ store \in States /\ caps \in Capabilities
      /\ toKernel \in Seq(Requests) /\ toKernel # << >> /\ toKernel' = Tail(toKernel)
      /\ UNCHANGED <<comm, created, front>>
  BY DEF SessionInv, TypeOK, Dispatch
<1>2. m \in Requests
  BY <1>1
<1>3. CASE m.data = Hangup
  BY <1>1, <1>3 DEF Dispatch, HangsUp
<1>4. CASE m.data # Hangup /\ HandleInbound(m.data)
  <2>1. m.data \in InboundData /\ Chats
    BY <1>1, <1>2, <1>4 DEF Requests, Chats
  <2> DEFINE r == IF ParseMessage(m.data) = "ignored" THEN Result(phase, << >>)
                  ELSE Reduce(phase, InboundEvent(m.data), store, caps)
  <2>2. phase' = r.phase /\ SendMsg(r) /\ registered' = registered
    BY <1>4 DEF HandleInbound
  <2>3. /\ r.phase = phase
        /\ Sent(r) => phase = "open" /\ First(r) \in Sends /\ First(r).msg_type = "comm_msg"
    <3>1. CASE ParseMessage(m.data) = "ignored"
      BY <3>1 DEF Result, Sent
    <3>2. CASE ParseMessage(m.data) # "ignored"
      <4>1. r = Reduce(phase, InboundEvent(m.data), store, caps)
        BY <3>2
      <4> HIDE DEF r
      <4> QED BY <1>1, <2>1, <4>1, InboundResult
    <3> QED BY <3>1, <3>2
  <2> HIDE DEF r
  <2> QED BY <1>1, <2>1, <2>2, <2>3, AnswerAsSeen
<1>5. CASE m.data # Hangup /\ UNCHANGED <<phase, store, toFront, registered>>
  BY <1>1, <1>5 DEF Keeps, Chats
<1> QED BY <1>3, <1>4, <1>5 DEF Dispatch

LEMMA FrontAsSeen ==
  ASSUME SessionInv, NEW c \in Comms, Front(c)
  PROVE  Keeps \/ Reloads(c) \/ Leaves(c)
<1>1. Empty \in PartialStates
  <2>1. Empty \in [{} -> Values]
    BY DEF Empty
  <2> QED BY <2>1 DEF PartialStates
<1>2. ASSUME NEW d, FrontWrites(c, d)
      PROVE  /\ toKernel' = Append(toKernel, [comm |-> c, data |-> d])
             /\ UNCHANGED <<phase, comm, created, registered, toFront>>
  BY <1>2 DEF FrontWrites, shellVars, managerVars
<1>3. ASSUME NEW d \in InboundData, FrontWrites(c, d)
      PROVE  Chats
  <2>1. [comm |-> c, data |-> d] \in Requests
    BY DEF Requests
  <2>2. d # Hangup
    BY DEF InboundData, Hangup
  <2> QED BY <1>2, <1>3, <2>1, <2>2 DEF Chats
<1>4. CASE FrontSend(c)
  <2>1. PICK k \in Keys, v \in Values, fits \in BOOLEAN :
          \/ FrontWrites(c, Inbound("update", [x \in {k} |-> v], fits))
          \/ FrontWrites(c, Inbound("custom", Empty, TRUE))
          \/ FrontWrites(c, Inbound("echo_update", Empty, TRUE))
    BY <1>4 DEF FrontSend
  <2>2. [x \in {k} |-> v] \in PartialStates
    <3>1. {k} \in SUBSET Keys /\ [x \in {k} |-> v] \in [{k} -> Values]
      OBVIOUS
    <3> QED BY <3>1 DEF PartialStates
  <2>3. /\ Inbound("update", [x \in {k} |-> v], fits) \in InboundData
        /\ Inbound("custom", Empty, TRUE) \in InboundData
        /\ Inbound("echo_update", Empty, TRUE) \in InboundData
    BY <1>1, <2>2 DEF Inbound, InboundData
  <2>4. Chats /\ UNCHANGED <<phase, comm, created, registered, toFront>>
    BY <1>2, <1>3, <2>1, <2>3
  <2> QED BY <1>4, <2>4 DEF FrontSend, Keeps
<1>5. CASE FrontReload(c)
  <2>1. Inbound("request_state", Empty, TRUE) \in InboundData
    BY <1>1 DEF Inbound, InboundData
  <2> QED BY <1>2, <1>3, <1>5, <2>1 DEF FrontReload, Reloads
<1>6. CASE FrontClose(c)
  BY <1>2, <1>6 DEF FrontClose, Leaves
<1> QED BY <1>4, <1>5, <1>6 DEF Front

LEMMA AsSeen ==
  ASSUME SessionInv, [Next]_vars
  PROVE  \/ Announces \/ FailsToOpen \/ Speaks \/ Retires \/ HangsUp \/ Keeps \/ Hears
         \/ \E c \in Comms : Reloads(c) \/ Leaves(c)
<1>1. CASE UNCHANGED vars
  BY <1>1 DEF vars, hostVars, shellVars, managerVars, frontVars, Keeps, Chats
<1>2. CASE HostWrite
  BY <1>2 DEF HostWrite, shellVars, managerVars, frontVars, Keeps, Chats
<1>3. CASE FrontReceive
  BY <1>3 DEF FrontReceive, shellVars, managerVars, Hears
<1> QED
  BY <1>1, <1>2, <1>3, OpenAsSeen, SendAsSeen, CloseAsSeen, DispatchAsSeen, FrontAsSeen DEF Next

\* The abstract protocol, with its proofs.
CP == INSTANCE CommContract_proofs WITH link <- LinkOf, wire <- WireOf, seen <- SeenOf
-----------------------------------------------------------------------------
(***************************************************************************)
(* The invariant that ties the two ends of a comm together.                *)
(***************************************************************************)

Types == {"comm_open", "comm_msg", "comm_close"}
OnTheWay(c, type) ==
  \E i \in DOMAIN toFront : toFront[i].comm = c /\ toFront[i].body.msg_type = type
HangupOnTheWay(c) ==
  \E i \in DOMAIN toKernel : toKernel[i].comm = c /\ toKernel[i].data = Hangup

\* A comm_open that is on its way is what the browser will hear of the comm first, and
\* it makes a model.
OpensFirst ==
  \A i \in DOMAIN toFront : toFront[i].body.msg_type = "comm_open" =>
    /\ toFront[i].body.identity
    /\ front[toFront[i].comm] = "absent"
    /\ \A j \in 1 .. i - 1 : toFront[j].comm # toFront[i].comm

\* Nobody has heard of a comm that is not yet created.
Unborn ==
  \A c \in Comms : c > created =>
    front[c] = "absent" /\ \A i \in DOMAIN toFront : toFront[i].comm # c

\* What the two ends differ in is on its way.
Followed ==
  \A c \in Comms :
    /\ c \in registered =>
         /\ ~OnTheWay(c, "comm_close")
         /\ front[c] = "absent" => OnTheWay(c, "comm_open")
         /\ front[c] = "closed" => HangupOnTheWay(c)
    /\ c \notin registered /\ c <= created => front[c] = "closed" \/ OnTheWay(c, "comm_close")

\* The browser hangs up only on what it has closed.
HangupsMeant == \A c \in Comms : HangupOnTheWay(c) => front[c] = "closed"

EndsInv == OpensFirst /\ Unborn /\ Followed /\ HangupsMeant

LEMMA EndsInit == Init => EndsInv
  BY DEF Init, EndsInv, OpensFirst, Unborn, Followed, HangupsMeant, HangupOnTheWay, OnTheWay

\* Both queues hold messages of their types, and only the transport's comm is up.
LEMMA EndsTypes ==
  ASSUME SessionInv
  PROVE  /\ toFront \in Seq(Publications) /\ toKernel \in Seq(Requests)
         /\ \A i \in DOMAIN toFront : toFront[i].comm \in Comms /\ toFront[i].body \in Sends
         /\ front \in [Comms -> FrontStates]
         /\ created \in 0 .. MaxComms /\ created \in Nat /\ MaxComms \in Nat
         /\ comm = created /\ registered \subseteq {created} /\ registered \subseteq Comms
<1>1. TypeOK /\ OneSession /\ comm = created
  BY DEF SessionInv
<1>2. toFront \in Seq(Publications)
  BY <1>1 DEF TypeOK
<1>3. \A i \in DOMAIN toFront : toFront[i].comm \in Comms /\ toFront[i].body \in Sends
  <2>1. \A i \in DOMAIN toFront : toFront[i] \in Publications
    BY <1>2
  <2> QED BY <2>1 DEF Publications
<1>4. created \in 0 .. MaxComms /\ created \in Nat /\ MaxComms \in Nat
  BY <1>1, SessionAssumption DEF TypeOK
<1> QED BY <1>1, <1>2, <1>3, <1>4 DEF TypeOK, OneSession

\* What is published joins the end of iopub.
LEMMA Published ==
  ASSUME SessionInv, NEW c \in Comms, NEW b \in Sends, Publishes(c, b)
  PROVE  LET n == Len(toFront) IN
         /\ n \in Nat /\ DOMAIN toFront = 1 .. n /\ DOMAIN toFront' = 1 .. n + 1
         /\ \A i \in 1 .. n : toFront'[i] = toFront[i]
         /\ toFront'[n + 1].comm = c /\ toFront'[n + 1].body = b
<1>1. [comm |-> c, body |-> b] \in Publications
  BY DEF Publications
<1> QED BY <1>1, EndsTypes, CP!AppendWire DEF Publishes

LEMMA StillOnTheWay ==
  ASSUME SessionInv, NEW c \in Comms, NEW b \in Sends, Publishes(c, b)
  PROVE  \A d \in Comms, type \in Types :
           OnTheWay(d, type)' <=> OnTheWay(d, type) \/ (d = c /\ type = b.msg_type)
<1> DEFINE n == Len(toFront)
<1>1. /\ n \in Nat /\ DOMAIN toFront = 1 .. n /\ DOMAIN toFront' = 1 .. n + 1
      /\ \A i \in 1 .. n : toFront'[i] = toFront[i]
      /\ toFront'[n + 1].comm = c /\ toFront'[n + 1].body = b
  BY Published
<1> HIDE DEF n
<1> QED BY <1>1 DEF OnTheWay

\* As long as no hang-up joins or leaves the shell channel, the same are on their way.
LEMMA ChatsKeepHangups ==
  ASSUME SessionInv, Chats
  PROVE  \A c \in Comms : HangupOnTheWay(c)' <=> HangupOnTheWay(c)
<1>1. toKernel \in Seq(Requests)
  BY EndsTypes
<1>2. CASE toKernel' = toKernel
  BY <1>2 DEF HangupOnTheWay
<1>3. CASE toKernel # << >> /\ Head(toKernel).data # Hangup /\ toKernel' = Tail(toKernel)
  <2>1. /\ toKernel[1].data # Hangup /\ DOMAIN toKernel = 1 .. Len(toKernel)
        /\ Len(toKernel) \in Nat \ {0} /\ DOMAIN toKernel' = 1 .. Len(toKernel) - 1
        /\ \A i \in DOMAIN toKernel' : toKernel'[i] = toKernel[i + 1]
    BY <1>1, <1>3, CP!TailWire
  <2> SUFFICES ASSUME NEW c \in Comms PROVE HangupOnTheWay(c)' <=> HangupOnTheWay(c)
    OBVIOUS
  <2>2. ASSUME HangupOnTheWay(c) PROVE HangupOnTheWay(c)'
    <3>1. PICK i \in DOMAIN toKernel : toKernel[i].comm = c /\ toKernel[i].data = Hangup
      BY <2>2 DEF HangupOnTheWay
    <3>2. i - 1 \in DOMAIN toKernel' /\ toKernel'[i - 1] = toKernel[i]
      BY <2>1, <3>1
    <3> QED BY <3>1, <3>2 DEF HangupOnTheWay
  <2>3. ASSUME HangupOnTheWay(c)' PROVE HangupOnTheWay(c)
    <3>1. PICK i \in DOMAIN toKernel' : toKernel'[i].comm = c /\ toKernel'[i].data = Hangup
      BY <2>3 DEF HangupOnTheWay
    <3>2. i + 1 \in DOMAIN toKernel
      BY <2>1
    <3> QED BY <2>1, <3>1, <3>2 DEF HangupOnTheWay
  <2> QED BY <2>2, <2>3
<1>4. CASE \E m \in Requests : m.data # Hangup /\ toKernel' = Append(toKernel, m)
  <2>1. PICK m \in Requests : m.data # Hangup /\ toKernel' = Append(toKernel, m)
    BY <1>4
  <2>2. /\ DOMAIN toKernel' = 1 .. Len(toKernel) + 1
        /\ DOMAIN toKernel = 1 .. Len(toKernel) /\ Len(toKernel) \in Nat
        /\ \A i \in DOMAIN toKernel : toKernel'[i] = toKernel[i]
        /\ toKernel'[Len(toKernel) + 1] = m
    BY <1>1, <2>1, CP!AppendWire
  <2> QED BY <2>1, <2>2 DEF HangupOnTheWay
<1> QED BY <1>2, <1>3, <1>4 DEF Chats

LEMMA AnnouncesEnds ==
  ASSUME SessionInv, EndsInv, Announces
  PROVE  EndsInv'
<1> DEFINE c == created + 1
<1>1. c \in Comms /\ c > created
  BY EndsTypes DEF Announces, Comms
<1>2. PICK b \in Sends : b.msg_type = "comm_open" /\ b.identity /\ Publishes(c, b)
  BY DEF Announces
<1>3. /\ \A d \in Comms : OnTheWay(d, "comm_open")' <=> OnTheWay(d, "comm_open") \/ d = c
      /\ \A d \in Comms : OnTheWay(d, "comm_close")' <=> OnTheWay(d, "comm_close")
  BY <1>1, <1>2, StillOnTheWay DEF Types
<1>4. registered = {} /\ registered' = {c} /\ created' = c /\ front' = front /\ toKernel' = toKernel
  BY DEF Announces, SessionInv
<1>5. front[c] = "absent" /\ \A i \in DOMAIN toFront : toFront[i].comm # c
  BY <1>1 DEF EndsInv, Unborn
<1> DEFINE n == Len(toFront)
<1>6. /\ n \in Nat /\ DOMAIN toFront = 1 .. n /\ DOMAIN toFront' = 1 .. n + 1
      /\ \A i \in 1 .. n : toFront'[i] = toFront[i]
      /\ toFront'[n + 1].comm = c /\ toFront'[n + 1].body = b
  BY <1>1, <1>2, Published
<1>7. created \in Nat /\ Comms \subseteq Nat
  BY EndsTypes DEF Comms
<1> HIDE DEF c, n
<1>8. OpensFirst'
  BY <1>2, <1>4, <1>5, <1>6 DEF EndsInv, OpensFirst
<1>9. Unborn'
  BY <1>1, <1>4, <1>6, <1>7 DEF EndsInv, Unborn, c
<1>10. HangupsMeant'
  BY <1>4 DEF EndsInv, HangupsMeant, HangupOnTheWay
<1>11. Followed'
  <2>1. ~OnTheWay(c, "comm_close")
    BY <1>5 DEF OnTheWay
  <2>2. \A d \in Comms : d # c /\ d <= c => d <= created
    BY <1>7 DEF c
  <2> QED BY <1>1, <1>3, <1>4, <1>5, <2>1, <2>2 DEF EndsInv, Followed
<1> QED BY <1>8, <1>9, <1>10, <1>11 DEF EndsInv

LEMMA SpeaksEnds ==
  ASSUME SessionInv, EndsInv, Speaks
  PROVE  EndsInv'
<1>1. comm \in Comms /\ comm = created /\ created \in Nat /\ Comms \subseteq Nat
  BY EndsTypes DEF Speaks, Comms, NoComm
<1>2. PICK b \in Sends : b.msg_type = "comm_msg" /\ Publishes(comm, b)
  BY DEF Speaks
<1>3. \A d \in Comms : /\ OnTheWay(d, "comm_open")' <=> OnTheWay(d, "comm_open")
                       /\ OnTheWay(d, "comm_close")' <=> OnTheWay(d, "comm_close")
  BY <1>1, <1>2, StillOnTheWay DEF Types
<1>4. registered' = registered /\ created' = created /\ front' = front
  BY DEF Speaks
<1>5. \A d \in Comms : HangupOnTheWay(d)' <=> HangupOnTheWay(d)
  BY ChatsKeepHangups DEF Speaks
<1> DEFINE n == Len(toFront)
<1>6. /\ n \in Nat /\ DOMAIN toFront = 1 .. n /\ DOMAIN toFront' = 1 .. n + 1
      /\ \A i \in 1 .. n : toFront'[i] = toFront[i]
      /\ toFront'[n + 1].comm = comm /\ toFront'[n + 1].body = b
  BY <1>1, <1>2, Published
<1> HIDE DEF n
<1>7. OpensFirst'
  BY <1>2, <1>4, <1>6 DEF EndsInv, OpensFirst
<1>8. Unborn'
  <2> SUFFICES ASSUME NEW d \in Comms, d > created
               PROVE  front[d] = "absent" /\ \A i \in DOMAIN toFront' : toFront'[i].comm # d
    BY <1>4 DEF Unborn
  <2>1. d # comm /\ front[d] = "absent" /\ \A i \in DOMAIN toFront : toFront[i].comm # d
    BY <1>1 DEF EndsInv, Unborn
  <2> QED BY <1>6, <2>1
<1>9. HangupsMeant' /\ Followed'
  BY <1>3, <1>4, <1>5 DEF EndsInv, HangupsMeant, Followed
<1> QED BY <1>7, <1>8, <1>9 DEF EndsInv

LEMMA RetiresEnds ==
  ASSUME SessionInv, EndsInv, Retires
  PROVE  EndsInv'
<1>1. /\ registered' = {} /\ created' = created /\ front' = front /\ toKernel' = toKernel
      /\ registered \subseteq {comm} /\ registered \subseteq Comms
  BY EndsTypes DEF Retires
<1>2. HangupsMeant'
  BY <1>1 DEF EndsInv, HangupsMeant, HangupOnTheWay
<1>3. CASE comm \in registered
  <2>1. comm \in Comms /\ comm = created /\ created \in Nat /\ Comms \subseteq Nat
    BY <1>1, <1>3, EndsTypes DEF Comms
  <2>2. PICK b \in Sends : b.msg_type = "comm_close" /\ Publishes(comm, b)
    BY <1>3 DEF Retires
  <2>3. \A d \in Comms : OnTheWay(d, "comm_close")' <=> OnTheWay(d, "comm_close") \/ d = comm
    BY <2>1, <2>2, StillOnTheWay DEF Types
  <2> DEFINE n == Len(toFront)
  <2>4. /\ n \in Nat /\ DOMAIN toFront = 1 .. n /\ DOMAIN toFront' = 1 .. n + 1
        /\ \A i \in 1 .. n : toFront'[i] = toFront[i]
        /\ toFront'[n + 1].comm = comm /\ toFront'[n + 1].body = b
    BY <2>1, <2>2, Published
  <2> HIDE DEF n
  <2>5. OpensFirst'
    BY <1>1, <2>2, <2>4 DEF EndsInv, OpensFirst
  <2>6. Unborn'
    BY <1>1, <2>1, <2>4 DEF EndsInv, Unborn
  <2>7. Followed'
    BY <1>1, <2>3 DEF EndsInv, Followed
  <2> QED BY <1>2, <2>5, <2>6, <2>7 DEF EndsInv
<1>4. CASE comm \notin registered
  <2>1. toFront' = toFront /\ registered = {}
    BY <1>1, <1>4 DEF Retires
  <2> QED BY <1>1, <1>2, <2>1 DEF EndsInv, OpensFirst, Unborn, Followed, OnTheWay, HangupOnTheWay
<1> QED BY <1>3, <1>4

LEMMA HangsUpEnds ==
  ASSUME SessionInv, EndsInv, HangsUp
  PROVE  EndsInv'
<1> DEFINE h == Head(toKernel)
<1>1. /\ registered' = registered \ {h.comm} /\ UNCHANGED <<created, toFront, front>>
      /\ toKernel # << >> /\ toKernel' = Tail(toKernel) /\ h.data = Hangup
  BY DEF HangsUp
<1>2. /\ h = toKernel[1] /\ DOMAIN toKernel = 1 .. Len(toKernel) /\ h \in Requests
      /\ Len(toKernel) \in Nat \ {0} /\ DOMAIN toKernel' = 1 .. Len(toKernel) - 1
      /\ \A i \in DOMAIN toKernel' : toKernel'[i] = toKernel[i + 1]
  BY <1>1, EndsTypes, CP!TailWire
<1>3. h.comm \in Comms /\ front[h.comm] = "closed"
  BY <1>1, <1>2 DEF EndsInv, HangupsMeant, HangupOnTheWay, Requests
<1> HIDE DEF h
<1>4. \A c \in Comms : /\ HangupOnTheWay(c)' => HangupOnTheWay(c)
                       /\ c # h.comm /\ HangupOnTheWay(c) => HangupOnTheWay(c)'
  <2> SUFFICES ASSUME NEW c \in Comms
               PROVE  /\ HangupOnTheWay(c)' => HangupOnTheWay(c)
                      /\ c # h.comm /\ HangupOnTheWay(c) => HangupOnTheWay(c)'
    OBVIOUS
  <2>1. ASSUME HangupOnTheWay(c)' PROVE HangupOnTheWay(c)
    <3>1. PICK i \in DOMAIN toKernel' : toKernel'[i].comm = c /\ toKernel'[i].data = Hangup
      BY <2>1 DEF HangupOnTheWay
    <3>2. i + 1 \in DOMAIN toKernel
      BY <1>2
    <3> QED BY <1>2, <3>1, <3>2 DEF HangupOnTheWay
  <2>2. ASSUME HangupOnTheWay(c), c # h.comm PROVE HangupOnTheWay(c)'
    <3>1. PICK i \in DOMAIN toKernel : toKernel[i].comm = c /\ toKernel[i].data = Hangup
      BY <2>2 DEF HangupOnTheWay
    <3>2. i - 1 \in DOMAIN toKernel' /\ toKernel'[i - 1] = toKernel[i]
      BY <1>2, <2>2, <3>1
    <3> QED BY <3>1, <3>2 DEF HangupOnTheWay
  <2> QED BY <2>1, <2>2
<1>5. OpensFirst' /\ Unborn'
  BY <1>1 DEF EndsInv, OpensFirst, Unborn
<1>6. HangupsMeant'
  BY <1>1, <1>4 DEF EndsInv, HangupsMeant
<1>7. \A c \in Comms : \A type : OnTheWay(c, type)' <=> OnTheWay(c, type)
  BY <1>1 DEF OnTheWay
<1>8. Followed'
  BY <1>1, <1>3, <1>4, <1>7 DEF EndsInv, Followed
<1> QED BY <1>5, <1>6, <1>8 DEF EndsInv

LEMMA KeepsEnds ==
  ASSUME SessionInv, EndsInv, UNCHANGED <<created, registered, toFront>>, Chats,
         front' = front \/ \E c \in Comms : Reloads(c)
  PROVE  EndsInv'
<1>1. \A d \in Comms : HangupOnTheWay(d)' <=> HangupOnTheWay(d)
  BY ChatsKeepHangups
<1>2. \A d \in Comms : \A type : OnTheWay(d, type)' <=> OnTheWay(d, type)
  BY DEF OnTheWay
<1>3. \A d \in Comms : /\ front'[d] = "absent" <=> front[d] = "absent"
                       /\ front'[d] = "closed" <=> front[d] = "closed"
  BY EndsTypes DEF Reloads
<1>4. OpensFirst'
  BY <1>3, EndsTypes DEF EndsInv, OpensFirst
<1>5. Unborn'
  BY <1>3 DEF EndsInv, Unborn
<1>6. HangupsMeant' /\ Followed'
  BY <1>1, <1>2, <1>3 DEF EndsInv, HangupsMeant, Followed
<1> QED BY <1>4, <1>5, <1>6 DEF EndsInv

LEMMA LeavesEnds ==
  ASSUME SessionInv, EndsInv, NEW c \in Comms, Leaves(c)
  PROVE  EndsInv'
<1>1. /\ front[c] \in {"live", "reloaded"} /\ front' = [front EXCEPT ![c] = "closed"]
      /\ UNCHANGED <<created, registered, toFront>>
  BY DEF Leaves
<1>2. [comm |-> c, data |-> Hangup] \in Requests
  BY DEF Requests
<1>3. /\ DOMAIN toKernel' = 1 .. Len(toKernel) + 1
      /\ DOMAIN toKernel = 1 .. Len(toKernel) /\ Len(toKernel) \in Nat
      /\ \A i \in DOMAIN toKernel : toKernel'[i] = toKernel[i]
      /\ toKernel'[Len(toKernel) + 1] = [comm |-> c, data |-> Hangup]
  BY <1>2, EndsTypes, CP!AppendWire DEF Leaves
<1>4. \A d \in Comms : HangupOnTheWay(d)' <=> HangupOnTheWay(d) \/ d = c
  BY <1>3 DEF HangupOnTheWay
<1>5. \A d \in Comms : \A type : OnTheWay(d, type)' <=> OnTheWay(d, type)
  BY <1>1 DEF OnTheWay
<1>6. \A d \in Comms : /\ front'[d] = "absent" <=> front[d] = "absent"
                       /\ front'[d] = "closed" <=> front[d] = "closed" \/ d = c
  BY <1>1, EndsTypes
<1>7. OpensFirst'
  BY <1>1, <1>6, EndsTypes DEF EndsInv, OpensFirst
<1>8. Unborn'
  BY <1>1, <1>6 DEF EndsInv, Unborn
<1>9. HangupsMeant' /\ Followed'
  BY <1>1, <1>4, <1>5, <1>6 DEF EndsInv, HangupsMeant, Followed
<1> QED BY <1>7, <1>8, <1>9 DEF EndsInv

LEMMA HearsEnds ==
  ASSUME SessionInv, EndsInv, Hears
  PROVE  EndsInv'
<1> DEFINE p == Head(toFront)
           c == p.comm
           type == p.body.msg_type
<1>1. /\ toFront # << >> /\ toFront' = Tail(toFront)
      /\ front' = [front EXCEPT ![c] = Hear(@, p.body)]
      /\ UNCHANGED <<created, registered, toKernel>>
  BY DEF Hears, FrontReceive
<1>2. /\ p = toFront[1] /\ DOMAIN toFront = 1 .. Len(toFront) /\ p \in Publications
      /\ Len(toFront) \in Nat \ {0} /\ DOMAIN toFront' = 1 .. Len(toFront) - 1
      /\ \A i \in DOMAIN toFront' : toFront'[i] = toFront[i + 1]
  BY <1>1, EndsTypes, CP!TailWire
<1>3. c \in Comms /\ type \in {"comm_open", "comm_msg", "comm_close"} /\ 1 \in DOMAIN toFront
  BY <1>2 DEF Publications, Sends
\* What the browser makes of it.
<1>4. /\ \A d \in Comms : d # c => front'[d] = front[d]
      /\ front'[c] = Hear(front[c], p.body)
  BY <1>1, <1>3, EndsTypes
<1>5. type = "comm_open" => p.body.identity /\ front[c] = "absent"
  BY <1>2, <1>3 DEF EndsInv, OpensFirst
<1>6. /\ type = "comm_open" => front'[c] = "live"
      /\ type = "comm_close" => front'[c] = "closed"
      /\ type = "comm_msg" => /\ front'[c] = "absent" <=> front[c] = "absent"
                              /\ front'[c] = "closed" <=> front[c] = "closed"
  BY <1>4, <1>5, EndsTypes DEF Hear
\* What is still on its way.
<1> HIDE DEF p, c, type
<1>7. \A d \in Comms, t \in Types :
        /\ OnTheWay(d, t)' => OnTheWay(d, t)
        /\ (d # c \/ t # type) /\ OnTheWay(d, t) => OnTheWay(d, t)'
  <2> SUFFICES ASSUME NEW d \in Comms, NEW t \in Types
               PROVE  /\ OnTheWay(d, t)' => OnTheWay(d, t)
                      /\ (d # c \/ t # type) /\ OnTheWay(d, t) => OnTheWay(d, t)'
    OBVIOUS
  <2>1. ASSUME OnTheWay(d, t)' PROVE OnTheWay(d, t)
    <3>1. PICK i \in DOMAIN toFront' : toFront'[i].comm = d /\ toFront'[i].body.msg_type = t
      BY <2>1 DEF OnTheWay
    <3>2. i + 1 \in DOMAIN toFront
      BY <1>2
    <3> QED BY <1>2, <3>1, <3>2 DEF OnTheWay
  <2>2. ASSUME OnTheWay(d, t), d # c \/ t # type PROVE OnTheWay(d, t)'
    <3>1. PICK i \in DOMAIN toFront : toFront[i].comm = d /\ toFront[i].body.msg_type = t
      BY <2>2 DEF OnTheWay
    <3>2. i - 1 \in DOMAIN toFront' /\ toFront'[i - 1] = toFront[i]
      BY <1>2, <2>2, <3>1 DEF c, type
    <3> QED BY <3>1, <3>2 DEF OnTheWay
  <2> QED BY <2>1, <2>2
<1>8. \A d \in Comms : HangupOnTheWay(d)' <=> HangupOnTheWay(d)
  BY <1>1 DEF HangupOnTheWay
\* A comm_open in the rest is of a comm that has not been heard of.
<1>9. OpensFirst'
  <2> SUFFICES ASSUME NEW i \in DOMAIN toFront', toFront'[i].body.msg_type = "comm_open"
               PROVE  /\ toFront'[i].body.identity
                      /\ front'[toFront'[i].comm] = "absent"
                      /\ \A j \in 1 .. i - 1 : toFront'[j].comm # toFront'[i].comm
    BY DEF OpensFirst
  <2>1. i + 1 \in DOMAIN toFront /\ toFront'[i] = toFront[i + 1]
    BY <1>2
  <2>2. /\ toFront[i + 1].body.identity /\ front[toFront[i + 1].comm] = "absent"
        /\ \A j \in 1 .. i : toFront[j].comm # toFront[i + 1].comm
    BY <1>2, <2>1 DEF EndsInv, OpensFirst
  <2>3. toFront[i + 1].comm # c /\ toFront[i + 1].comm \in Comms
    BY <1>2, <2>1, <2>2, EndsTypes DEF c
  <2>4. \A j \in 1 .. i - 1 : toFront'[j] = toFront[j + 1] /\ j + 1 \in 1 .. i
    BY <1>2
  <2>5. front'[toFront[i + 1].comm] = "absent"
    BY <1>4, <2>2, <2>3
  <2> QED BY <2>1, <2>2, <2>4, <2>5
<1>10. Unborn'
  <2> SUFFICES ASSUME NEW d \in Comms, d > created
               PROVE  front'[d] = "absent" /\ \A i \in DOMAIN toFront' : toFront'[i].comm # d
    BY <1>1 DEF Unborn
  <2>1. front[d] = "absent" /\ \A i \in DOMAIN toFront : toFront[i].comm # d
    BY DEF EndsInv, Unborn
  <2>2. d # c
    BY <1>2, <1>3, <2>1 DEF c
  <2>3. \A i \in DOMAIN toFront' : i + 1 \in DOMAIN toFront
    BY <1>2
  <2> QED BY <1>2, <1>4, <2>1, <2>2, <2>3
<1>11. HangupsMeant'
  BY <1>4, <1>5, <1>6, <1>3, <1>8 DEF EndsInv, HangupsMeant
<1>12. Followed'
  <2> SUFFICES ASSUME NEW d \in Comms
               PROVE  /\ d \in registered =>
                           /\ ~OnTheWay(d, "comm_close")'
                           /\ front'[d] = "absent" => OnTheWay(d, "comm_open")'
                           /\ front'[d] = "closed" => HangupOnTheWay(d)'
                      /\ d \notin registered /\ d <= created =>
                           front'[d] = "closed" \/ OnTheWay(d, "comm_close")'
    BY <1>1 DEF Followed
  <2>1. CASE d # c
    BY <1>4, <1>7, <1>8, <2>1 DEF EndsInv, Followed, Types
  <2>2. CASE d = c
    <3>1. type = "comm_close" => OnTheWay(c, "comm_close")
      BY <1>2, <1>3 DEF OnTheWay, c, type
    <3> QED BY <1>3, <1>5, <1>6, <1>7, <1>8, <2>2, <3>1 DEF EndsInv, Followed, Types
  <2> QED BY <2>1, <2>2
<1> QED BY <1>9, <1>10, <1>11, <1>12 DEF EndsInv

LEMMA EndsStep == SessionInv /\ EndsInv /\ [Next]_vars => EndsInv'
<1> SUFFICES ASSUME SessionInv, EndsInv, [Next]_vars PROVE EndsInv'
  OBVIOUS
<1>1. CASE FailsToOpen
  BY <1>1, KeepsEnds DEF FailsToOpen, Chats
<1>2. CASE Keeps
  BY <1>2, KeepsEnds DEF Keeps
<1>3. CASE \E c \in Comms : Reloads(c)
  BY <1>3, KeepsEnds DEF Reloads
<1> QED
  BY <1>1, <1>2, <1>3, AsSeen, AnnouncesEnds, SpeaksEnds, RetiresEnds, HangsUpEnds, HearsEnds,
     LeavesEnds

\* The invariant that ties the two ends together.
THEOREM SessionEndsInv == Spec => []EndsInv
  BY SessionInvariant, EndsInit, EndsStep, PTL DEF Spec

\* With nothing in flight the browser has a model for exactly the comm that the kernel
\* has open, failed openings and hang-ups included.
THEOREM SessionEnds == Spec => []EndsAgree
<1>1. SessionInv /\ EndsInv => EndsAgree
  <2> SUFFICES ASSUME SessionInv, EndsInv, toFront = << >>, toKernel = << >>, NEW c \in Comms
               PROVE  front[c] \in {"live", "reloaded"} <=> c \in registered /\ phase = "open"
    BY DEF EndsAgree
  <2>1. \A type \in Types : ~OnTheWay(c, type)
    BY DEF OnTheWay
  <2>2. ~HangupOnTheWay(c)
    BY DEF HangupOnTheWay
  <2>3. CASE c \in registered
    <3>1. phase = "open"
      BY <2>3 DEF SessionInv
    <3>2. front[c] \notin {"absent", "closed"}
      BY <2>1, <2>2, <2>3 DEF EndsInv, Followed, Types
    <3> QED BY <2>3, <3>1, <3>2, EndsTypes DEF FrontStates
  <2>4. CASE c \notin registered /\ c <= created
    BY <2>1, <2>4 DEF EndsInv, Followed, Types
  <2>5. CASE c > created
    BY <2>5, EndsTypes DEF EndsInv, Unborn
  <2>6. c <= created \/ c > created
    BY EndsTypes DEF Comms
  <2> QED BY <2>3, <2>4, <2>5, <2>6, EndsTypes
<1> QED BY <1>1, SessionInvariant, SessionEndsInv, PTL
-----------------------------------------------------------------------------
(***************************************************************************)
(* The refinement: every step of a widget whose openings do not fail is a  *)
(* step of CommContract, or a stutter.                                     *)
(***************************************************************************)

Packet(c, type) == [comm |-> c, type |-> type]
Packets == [comm : Comms, type : Types]

LEMMA SameSequence ==
  ASSUME NEW S, NEW s \in Seq(S), NEW t \in Seq(S), DOMAIN s = DOMAIN t,
         \A i \in DOMAIN s : s[i] = t[i]
  PROVE  s = t
  OBVIOUS

LEMMA WireType ==
  ASSUME NEW q \in Seq(Publications)
  PROVE  LET w == [i \in DOMAIN q |-> Packet(q[i].comm, q[i].body.msg_type)] IN
         /\ w \in Seq(Packets) /\ DOMAIN w = 1 .. Len(q) /\ DOMAIN q = 1 .. Len(q)
         /\ \A i \in 1 .. Len(q) : w[i] = Packet(q[i].comm, q[i].body.msg_type)
         /\ Len(w) = Len(q) /\ Len(q) \in Nat
<1> DEFINE w == [i \in DOMAIN q |-> Packet(q[i].comm, q[i].body.msg_type)]
<1>1. DOMAIN q = 1 .. Len(q) /\ Len(q) \in Nat
  OBVIOUS
<1>2. \A i \in DOMAIN q : q[i] \in Publications
  OBVIOUS
<1>3. \A i \in 1 .. Len(q) : Packet(q[i].comm, q[i].body.msg_type) \in Packets
  BY <1>1, <1>2 DEF Publications, Packet, Packets, Types, Sends
<1>4. w = [i \in 1 .. Len(q) |-> Packet(q[i].comm, q[i].body.msg_type)]
  BY <1>1
<1>5. w \in [1 .. Len(q) -> Packets]
  BY <1>3, <1>4
<1> HIDE DEF w
<1>6. w \in Seq(Packets) /\ DOMAIN w = 1 .. Len(q)
  BY <1>1, <1>5
<1>7. Len(w) = Len(q)
  BY <1>1, <1>6
<1> QED BY <1>1, <1>4, <1>6, <1>7 DEF w

LEMMA WireNow ==
  /\ WireOf = [i \in DOMAIN toFront |-> Packet(toFront[i].comm, toFront[i].body.msg_type)]
  /\ WireOf' = [i \in DOMAIN toFront' |-> Packet(toFront'[i].comm, toFront'[i].body.msg_type)]
  BY DEF WireOf, Packet

LEMMA WireAppend ==
  ASSUME SessionInv, NEW c \in Comms, NEW b \in Sends, Publishes(c, b)
  PROVE  WireOf' = Append(WireOf, Packet(c, b.msg_type))
<1> DEFINE n == Len(toFront)
           p == Packet(c, b.msg_type)
<1>1. /\ n \in Nat /\ DOMAIN toFront = 1 .. n /\ DOMAIN toFront' = 1 .. n + 1
      /\ \A i \in 1 .. n : toFront'[i] = toFront[i]
      /\ toFront'[n + 1].comm = c /\ toFront'[n + 1].body = b
  BY Published
<1>2. toFront \in Seq(Publications) /\ toFront' \in Seq(Publications)
  <2>1. [comm |-> c, body |-> b] \in Publications
    BY DEF Publications
  <2> QED BY <2>1, EndsTypes DEF Publishes
<1>3. p \in Packets
  BY DEF Packet, Packets, Sends, Types
<1>4. WireOf \in Seq(Packets) /\ DOMAIN WireOf = 1 .. n /\ Len(WireOf) = n
  BY <1>2, WireType, WireNow
<1>5. WireOf' \in Seq(Packets) /\ DOMAIN WireOf' = 1 .. n + 1
  BY <1>1, <1>2, WireType, WireNow
<1>6. /\ \A i \in 1 .. n : WireOf'[i] = WireOf[i]
      /\ WireOf'[n + 1] = p
  BY <1>1, WireNow
<1> HIDE DEF n, p
<1>7. /\ Append(WireOf, p) \in Seq(Packets) /\ DOMAIN Append(WireOf, p) = 1 .. n + 1
      /\ \A i \in 1 .. n : Append(WireOf, p)[i] = WireOf[i]
      /\ Append(WireOf, p)[n + 1] = p
  BY <1>1, <1>3, <1>4, CP!AppendWire
<1>8. \A i \in 1 .. n + 1 : WireOf'[i] = Append(WireOf, p)[i]
  BY <1>1, <1>6, <1>7
<1> QED BY <1>5, <1>7, <1>8, SameSequence DEF p

\* What is next on the wire is next on iopub.
LEMMA WireTail ==
  ASSUME SessionInv, toFront # << >>, toFront' = Tail(toFront)
  PROVE  /\ WireOf # << >> /\ WireOf' = Tail(WireOf)
         /\ Head(WireOf) = Packet(Head(toFront).comm, Head(toFront).body.msg_type)
<1>0. toFront \in Seq(Publications)
  BY EndsTypes
<1> DEFINE n == Len(toFront)
<1>1. /\ toFront' \in Seq(Publications) /\ Head(toFront) = toFront[1]
      /\ DOMAIN toFront = 1 .. n /\ n \in Nat \ {0}
      /\ DOMAIN toFront' = 1 .. n - 1
      /\ \A i \in DOMAIN toFront' : toFront'[i] = toFront[i + 1]
  BY <1>0, CP!TailWire
<1>2. WireOf \in Seq(Packets) /\ DOMAIN WireOf = 1 .. n /\ Len(WireOf) = n
  BY EndsTypes, WireType, WireNow
<1>3. WireOf' \in Seq(Packets) /\ DOMAIN WireOf' = 1 .. n - 1
  BY <1>1, WireType, WireNow
<1>4. \A i \in 1 .. n - 1 : WireOf'[i] = WireOf[i + 1]
  BY <1>1, WireNow
<1>5. WireOf[1] = Packet(Head(toFront).comm, Head(toFront).body.msg_type)
  BY <1>1, WireNow
<1> HIDE DEF n
<1>6. WireOf # << >>
  BY <1>1, <1>2
<1>7. /\ Tail(WireOf) \in Seq(Packets) /\ Head(WireOf) = WireOf[1]
      /\ DOMAIN Tail(WireOf) = 1 .. n - 1
      /\ \A i \in 1 .. n - 1 : Tail(WireOf)[i] = WireOf[i + 1]
  BY <1>1, <1>2, <1>6, CP!TailWire
<1>8. \A i \in DOMAIN WireOf' : WireOf'[i] = Tail(WireOf)[i]
  BY <1>3, <1>4, <1>7
<1>9. WireOf' = Tail(WireOf)
  BY <1>3, <1>7, <1>8, SameSequence
<1> QED BY <1>5, <1>6, <1>7, <1>9

\* What the links and the browser's ends are, comm by comm.
LEMMA LinkNow ==
  /\ LinkOf \in [Comms -> {"fresh", "up", "hungup", "down"}]
  /\ \A c \in Comms : LinkOf[c] = IF c > created THEN "fresh"
                                  ELSE IF c # comm \/ phase # "open" THEN "down"
                                  ELSE IF c \in registered THEN "up" ELSE "hungup"
  /\ LinkOf' \in [Comms -> {"fresh", "up", "hungup", "down"}]
  /\ \A c \in Comms : LinkOf'[c] = IF c > created' THEN "fresh"
                                   ELSE IF c # comm' \/ phase' # "open" THEN "down"
                                   ELSE IF c \in registered' THEN "up" ELSE "hungup"
  BY DEF LinkOf

LEMMA SeenNow ==
  ASSUME NEW f \in [Comms -> FrontStates]
  PROVE  LET s == [c \in Comms |-> CASE f[c] = "absent" -> "absent"
                                     [] f[c] = "closed" -> "gone"
                                     [] f[c] \in {"live", "reloaded"} -> "present"] IN
         /\ s \in [Comms -> {"absent", "present", "gone"}]
         /\ \A c \in Comms : /\ s[c] = "absent" <=> f[c] = "absent"
                             /\ s[c] = "gone" <=> f[c] = "closed"
                             /\ s[c] = "present" <=> f[c] \in {"live", "reloaded"}
<1> SUFFICES ASSUME NEW c \in Comms
             PROVE  LET x == CASE f[c] = "absent" -> "absent"
                               [] f[c] = "closed" -> "gone"
                               [] f[c] \in {"live", "reloaded"} -> "present" IN
                    /\ x \in {"absent", "present", "gone"}
                    /\ x = "absent" <=> f[c] = "absent"
                    /\ x = "gone" <=> f[c] = "closed"
                    /\ x = "present" <=> f[c] \in {"live", "reloaded"}
  OBVIOUS
<1>1. f[c] \in {"absent", "live", "reloaded", "closed"}
  BY DEF FrontStates
<1> QED BY <1>1

\* The kinds of step, one by one, and the steps of the protocol they are.
LEMMA AnnouncesMaps ==
  ASSUME SessionInv, EndsInv, Announces
  PROVE  Contract!Announce(created + 1)
<1> DEFINE c == created + 1
<1>1. c \in Comms /\ created \in Nat /\ Comms \subseteq Nat
  BY EndsTypes DEF Announces, Comms
<1>2. PICK b \in Sends : b.msg_type = "comm_open" /\ Publishes(c, b)
  BY DEF Announces
<1>3. WireOf' = Append(WireOf, Packet(c, "comm_open"))
  BY <1>1, <1>2, WireAppend
<1>4. SeenOf' = SeenOf
  BY DEF Announces, SeenOf
<1>5. /\ phase # "open" /\ created' = c /\ comm' = c /\ phase' = "open" /\ registered' = {c}
  BY DEF Announces
<1>6. \A d \in Comms : LinkOf[d] = IF d > created THEN "fresh" ELSE "down"
  BY <1>5, LinkNow
<1>7. Contract!Idle /\ LinkOf[c] = "fresh"
  BY <1>1, <1>6 DEF Contract!Idle
<1>8. LinkOf' = [LinkOf EXCEPT ![c] = "up"]
  <2>1. \A d \in Comms : LinkOf'[d] = IF d = c THEN "up" ELSE LinkOf[d]
    BY <1>1, <1>5, <1>6, LinkNow
  <2> QED BY <2>1, LinkNow
<1> QED BY <1>3, <1>4, <1>7, <1>8 DEF Contract!Announce, Contract!Packet, Packet

LEMMA SpeaksMaps ==
  ASSUME SessionInv, EndsInv, Speaks
  PROVE  comm \in Comms /\ Contract!Talk(comm)
<1>1. comm \in Comms /\ comm <= created
  BY EndsTypes DEF Speaks, Comms, NoComm
<1>2. PICK b \in Sends : b.msg_type = "comm_msg" /\ Publishes(comm, b)
  BY DEF Speaks
<1>3. WireOf' = Append(WireOf, Packet(comm, "comm_msg"))
  BY <1>1, <1>2, WireAppend
<1>4. SeenOf' = SeenOf /\ LinkOf' = LinkOf
  BY DEF Speaks, SeenOf, LinkOf
<1>5. LinkOf[comm] \in {"up", "hungup"}
  BY <1>1, LinkNow, EndsTypes DEF Speaks
<1> QED BY <1>1, <1>3, <1>4, <1>5 DEF Contract!Talk, Contract!Packet, Packet

LEMMA RetiresMaps ==
  ASSUME SessionInv, EndsInv, Retires, comm # NoComm
  PROVE  comm \in Comms /\ Contract!Retire(comm)
<1>1. comm \in Comms /\ comm <= created /\ Comms \subseteq Nat /\ comm = created
  BY EndsTypes DEF Comms, NoComm
<1>2. phase = "open" /\ phase' = "closed" /\ registered' = {} /\ comm' = comm /\ created' = created
  BY DEF Retires
<1>3. LinkOf[comm] = IF comm \in registered THEN "up" ELSE "hungup"
  BY <1>1, <1>2, LinkNow
<1>4. WireOf' = IF LinkOf[comm] = "up" THEN Append(WireOf, Packet(comm, "comm_close")) ELSE WireOf
  <2>1. CASE comm \in registered
    <3>1. PICK b \in Sends : b.msg_type = "comm_close" /\ Publishes(comm, b)
      BY <2>1 DEF Retires
    <3> QED BY <1>1, <1>3, <2>1, <3>1, WireAppend
  <2>2. CASE comm \notin registered
    <3>1. toFront' = toFront
      BY <2>2 DEF Retires
    <3>2. WireOf' = WireOf
      BY <3>1 DEF WireOf
    <3> QED BY <1>3, <2>2, <3>2
  <2> QED BY <2>1, <2>2
<1>5. SeenOf' = SeenOf
  BY DEF Retires, SeenOf
<1>6. LinkOf' = [LinkOf EXCEPT ![comm] = "down"]
  <2>1. \A d \in Comms : d # comm => LinkOf[d] = LinkOf'[d]
    BY <1>1, <1>2, LinkNow
  <2>2. LinkOf'[comm] = "down"
    BY <1>1, <1>2, LinkNow
  <2> QED BY <1>1, <2>1, <2>2, LinkNow
<1> QED BY <1>1, <1>3, <1>4, <1>5, <1>6 DEF Contract!Retire, Contract!Packet, Packet

LEMMA HangsUpMaps ==
  ASSUME SessionInv, EndsInv, HangsUp
  PROVE  UNCHANGED Contract!vars \/ \E c \in Comms : Contract!HangUp(c)
<1> DEFINE c == Head(toKernel).comm
<1>1. /\ registered' = registered \ {c} /\ Head(toKernel).data = Hangup /\ toKernel # << >>
      /\ UNCHANGED <<phase, comm, created, toFront, front>>
  BY DEF HangsUp
<1>2. c \in Comms /\ front[c] = "closed"
  <2>1. toKernel \in Seq(Requests)
    BY EndsTypes
  <2>2. Head(toKernel) \in Requests /\ 1 \in DOMAIN toKernel /\ Head(toKernel) = toKernel[1]
    BY <1>1, <2>1
  <2>3. c \in Comms
    BY <2>2 DEF Requests
  <2> QED BY <1>1, <2>2, <2>3 DEF EndsInv, HangupsMeant, HangupOnTheWay
<1> HIDE DEF c
<1>3. SeenOf' = SeenOf /\ WireOf' = WireOf
  BY <1>1 DEF SeenOf, WireOf
<1>4. SeenOf[c] = "gone"
  BY <1>2, SeenNow, EndsTypes DEF SeenOf
<1>5. CASE LinkOf[c] = "up"
  <2>1. /\ \A d \in Comms : d # c => LinkOf[d] = LinkOf'[d]
        /\ LinkOf'[c] = "hungup"
    BY <1>1, <1>2, <1>5, LinkNow
  <2>2. LinkOf' = [LinkOf EXCEPT ![c] = "hungup"]
    BY <1>2, <2>1, LinkNow
  <2> QED BY <1>2, <1>3, <1>4, <1>5, <2>2 DEF Contract!HangUp
<1>6. CASE LinkOf[c] # "up"
  <2>1. \A d \in Comms : LinkOf[d] = LinkOf'[d]
    BY <1>1, <1>2, <1>6, LinkNow
  <2>2. LinkOf' = LinkOf
    BY <2>1, LinkNow
  <2> QED BY <1>3, <2>2 DEF Contract!vars
<1> QED BY <1>5, <1>6

LEMMA HearsMaps ==
  ASSUME SessionInv, EndsInv, Hears
  PROVE  Contract!Deliver
<1> DEFINE p == Head(toFront)
           c == p.comm
           type == p.body.msg_type
<1>1. /\ toFront # << >> /\ toFront' = Tail(toFront)
      /\ front' = [front EXCEPT ![c] = Hear(@, p.body)]
      /\ UNCHANGED <<phase, comm, created, registered>>
  BY DEF Hears, FrontReceive
<1>2. /\ WireOf # << >> /\ WireOf' = Tail(WireOf) /\ Head(WireOf) = Packet(c, type)
  BY <1>1, WireTail
<1>3. LinkOf' = LinkOf
  BY <1>1 DEF LinkOf
<1>4. p = toFront[1] /\ p \in Publications /\ 1 \in DOMAIN toFront
  <2>1. toFront \in Seq(Publications)
    BY EndsTypes
  <2> QED BY <1>1, <2>1
<1>5. c \in Comms /\ type \in {"comm_open", "comm_msg", "comm_close"}
  BY <1>4 DEF Publications, Sends
<1>6. front \in [Comms -> FrontStates] /\ front' \in [Comms -> FrontStates]
  <2>1. front \in [Comms -> FrontStates]
    BY EndsTypes
  <2>2. front[c] \in FrontStates
    BY <1>5, <2>1
  <2>3. Hear(front[c], p.body) \in FrontStates
    BY <2>2 DEF Hear, FrontStates
  <2> QED BY <1>1, <2>1, <2>3
<1>7. type = "comm_open" => p.body.identity /\ front[c] = "absent"
  BY <1>4 DEF EndsInv, OpensFirst
<1>8. /\ \A d \in Comms : d # c => front'[d] = front[d]
      /\ type = "comm_open" => front'[c] = "live"
      /\ type = "comm_close" => front'[c] = "closed"
      /\ type = "comm_msg" => /\ front'[c] = "absent" <=> front[c] = "absent"
                              /\ front'[c] = "closed" <=> front[c] = "closed"
  <2>1. front'[c] = Hear(front[c], p.body) /\ \A d \in Comms : d # c => front'[d] = front[d]
    BY <1>1, <1>5, <1>6
  <2> QED BY <1>5, <1>6, <1>7, <2>1 DEF Hear
<1>9. Packet(c, type).comm = c /\ Packet(c, type).type = type
  BY DEF Packet
<1> HIDE DEF p, c, type
<1>10. SeenOf \in [Comms -> {"absent", "present", "gone"}]
       /\ \A d \in Comms : /\ SeenOf[d] = "absent" <=> front[d] = "absent"
                           /\ SeenOf[d] = "gone" <=> front[d] = "closed"
                           /\ SeenOf[d] = "present" <=> front[d] \in {"live", "reloaded"}
  BY <1>6, SeenNow DEF SeenOf
<1>11. SeenOf' \in [Comms -> {"absent", "present", "gone"}]
       /\ \A d \in Comms : /\ SeenOf'[d] = "absent" <=> front'[d] = "absent"
                           /\ SeenOf'[d] = "gone" <=> front'[d] = "closed"
                           /\ SeenOf'[d] = "present" <=> front'[d] \in {"live", "reloaded"}
  BY <1>6, SeenNow DEF SeenOf
<1>12. \A d \in Comms : d # c => SeenOf'[d] = SeenOf[d]
  BY <1>8, <1>10, <1>11
<1>13. /\ type = "comm_open" => SeenOf'[c] = "present"
       /\ type = "comm_close" => SeenOf'[c] = "gone"
       /\ type = "comm_msg" => SeenOf'[c] = SeenOf[c]
  BY <1>5, <1>8, <1>10, <1>11
<1>14. SeenOf' = [SeenOf EXCEPT ![c] = CASE type = "comm_open"  -> "present"
                                        [] type = "comm_close" -> "gone"
                                        [] type = "comm_msg"   -> SeenOf[c]]
  BY <1>5, <1>10, <1>11, <1>12, <1>13
<1> QED BY <1>2, <1>3, <1>9, <1>14 DEF Contract!Deliver

LEMMA LeavesMaps ==
  ASSUME SessionInv, NEW c \in Comms, Leaves(c)
  PROVE  Contract!Leave(c)
<1>1. front[c] \in {"live", "reloaded"} /\ front' = [front EXCEPT ![c] = "closed"]
  BY DEF Leaves
<1>2. WireOf' = WireOf /\ LinkOf' = LinkOf
  BY DEF Leaves, WireOf, LinkOf
<1>3. front \in [Comms -> FrontStates] /\ front' \in [Comms -> FrontStates]
  BY <1>1, EndsTypes DEF FrontStates
<1>4. SeenOf \in [Comms -> {"absent", "present", "gone"}]
      /\ \A d \in Comms : /\ SeenOf[d] = "absent" <=> front[d] = "absent"
                          /\ SeenOf[d] = "gone" <=> front[d] = "closed"
                          /\ SeenOf[d] = "present" <=> front[d] \in {"live", "reloaded"}
  BY <1>3, SeenNow DEF SeenOf
<1>5. SeenOf' \in [Comms -> {"absent", "present", "gone"}]
      /\ \A d \in Comms : /\ SeenOf'[d] = "absent" <=> front'[d] = "absent"
                          /\ SeenOf'[d] = "gone" <=> front'[d] = "closed"
                          /\ SeenOf'[d] = "present" <=> front'[d] \in {"live", "reloaded"}
  BY <1>3, SeenNow DEF SeenOf
<1>6. SeenOf[c] = "present" /\ SeenOf'[c] = "gone"
  BY <1>1, <1>3, <1>4, <1>5
<1>7. \A d \in Comms : d # c => SeenOf'[d] = SeenOf[d]
  BY <1>1, <1>3, <1>4, <1>5
<1>8. SeenOf' = [SeenOf EXCEPT ![c] = "gone"]
  BY <1>4, <1>5, <1>6, <1>7
<1> QED BY <1>2, <1>6, <1>8 DEF Contract!Leave

\* A reload is invisible to the abstract protocol.
LEMMA KeepsMaps ==
  ASSUME SessionInv, UNCHANGED <<phase, comm, created, registered, toFront>>,
         front' = front \/ \E c \in Comms : Reloads(c)
  PROVE  UNCHANGED Contract!vars
<1>1. WireOf' = WireOf /\ LinkOf' = LinkOf
  BY DEF WireOf, LinkOf
<1>2. CASE front' = front
  BY <1>1, <1>2 DEF SeenOf, Contract!vars
<1>3. CASE \E c \in Comms : Reloads(c)
  <2>1. PICK c \in Comms : front[c] = "live" /\ front' = [front EXCEPT ![c] = "reloaded"]
    BY <1>3 DEF Reloads
  <2>2. front \in [Comms -> FrontStates] /\ front' \in [Comms -> FrontStates]
    BY <2>1, EndsTypes DEF FrontStates
  <2>3. SeenOf \in [Comms -> {"absent", "present", "gone"}]
        /\ \A d \in Comms : /\ SeenOf[d] = "absent" <=> front[d] = "absent"
                            /\ SeenOf[d] = "gone" <=> front[d] = "closed"
                            /\ SeenOf[d] = "present" <=> front[d] \in {"live", "reloaded"}
    BY <2>2, SeenNow DEF SeenOf
  <2>4. SeenOf' \in [Comms -> {"absent", "present", "gone"}]
        /\ \A d \in Comms : /\ SeenOf'[d] = "absent" <=> front'[d] = "absent"
                            /\ SeenOf'[d] = "gone" <=> front'[d] = "closed"
                            /\ SeenOf'[d] = "present" <=> front'[d] \in {"live", "reloaded"}
    BY <2>2, SeenNow DEF SeenOf
  <2>5. \A d \in Comms : SeenOf'[d] = SeenOf[d]
    BY <2>1, <2>2, <2>3, <2>4
  <2>6. SeenOf' = SeenOf
    BY <2>3, <2>4, <2>5
  <2> QED BY <1>1, <2>6 DEF Contract!vars
<1> QED BY <1>2, <1>3

LEMMA StepMaps ==
  ASSUME SessionInv, EndsInv, ~OpenMayFail, [Next]_vars
  PROVE  [Contract!Next]_(Contract!vars)
<1>1. CASE Announces
  <2>1. created + 1 \in Comms
    BY <1>1, EndsTypes DEF Announces, Comms
  <2> QED BY <1>1, <2>1, AnnouncesMaps DEF Contract!Next
<1>2. CASE FailsToOpen
  BY <1>2 DEF FailsToOpen
<1>3. CASE Speaks
  BY <1>3, SpeaksMaps DEF Contract!Next
<1>4. CASE Retires
  <2>1. comm # NoComm
    BY <1>4 DEF Retires, SessionInv
  <2> QED BY <1>4, <2>1, RetiresMaps DEF Contract!Next
<1>5. CASE HangsUp
  BY <1>5, HangsUpMaps DEF Contract!Next
<1>6. CASE Keeps
  BY <1>6, KeepsMaps DEF Keeps
<1>7. CASE Hears
  BY <1>7, HearsMaps DEF Contract!Next
<1>8. ASSUME NEW c \in Comms, Reloads(c) PROVE UNCHANGED Contract!vars
  BY <1>8, KeepsMaps DEF Reloads
<1>9. ASSUME NEW c \in Comms, Leaves(c) PROVE Contract!Next
  BY <1>9, LeavesMaps DEF Contract!Next
<1> QED BY <1>1, <1>2, <1>3, <1>4, <1>5, <1>6, <1>7, <1>8, <1>9, AsSeen

LEMMA InitMaps == Init => Contract!Init
<1> SUFFICES ASSUME Init PROVE Contract!Init
  OBVIOUS
<1>1. created = 0 /\ toFront = << >> /\ front = [c \in Comms |-> "absent"]
  BY DEF Init
<1>2. LinkOf = [c \in Comms |-> "fresh"]
  <2>1. \A c \in Comms : LinkOf[c] = "fresh"
    BY <1>1, SessionAssumption DEF LinkOf, Comms
  <2> QED BY <2>1, LinkNow
<1>3. WireOf = << >>
  BY <1>1 DEF WireOf
<1>4. SeenOf = [c \in Comms |-> "absent"]
  BY <1>1 DEF SeenOf
<1> QED BY <1>2, <1>3, <1>4 DEF Contract!Init

\* While no comm_open raises, every step of the widget, its transport, the comm package
\* and the browser is a step of the abstract comm protocol or invisible to it.
THEOREM SessionRefinement ==
  ~OpenMayFail => (Spec => Contract!Init /\ [][Contract!Next]_(Contract!vars))
<1> SUFFICES ASSUME ~OpenMayFail
             PROVE  Spec => Contract!Init /\ [][Contract!Next]_(Contract!vars)
  OBVIOUS
<1>1. SessionInv /\ EndsInv /\ [Next]_vars => [Contract!Next]_(Contract!vars)
  BY StepMaps
<1> QED BY <1>1, InitMaps, SessionInvariant, SessionEndsInv, PTL DEF Spec

\* CommContract and its proofs, instantiated alike, say the same.
LEMMA SameContract ==
  /\ CP!ContractInv <=> Contract!ContractInv
  /\ CP!AnnouncedFirst <=> Contract!AnnouncedFirst
  /\ CP!FarewellLast <=> Contract!FarewellLast
  /\ CP!Init <=> Contract!Init
  BY DEF CP!ContractInv, Contract!ContractInv, CP!TypeOK, Contract!TypeOK,
         CP!AnnouncedFirst, Contract!AnnouncedFirst, CP!FarewellLast, Contract!FarewellLast,
         CP!Announced, Contract!Announced, CP!Links, Contract!Links, CP!Seen, Contract!Seen,
         CP!Packets, Contract!Packets, CP!Init, Contract!Init

LEMMA SameStep ==
  [Contract!Next]_(Contract!vars) => [CP!Next]_(CP!vars)
<1>1. Contract!vars = CP!vars
  BY DEF Contract!vars, CP!vars
<1>2. Contract!Next <=> CP!Next
  BY DEF CP!Next, Contract!Next, CP!Announce, Contract!Announce, CP!Talk, Contract!Talk,
         CP!Retire, Contract!Retire, CP!Leave, Contract!Leave, CP!HangUp, Contract!HangUp,
         CP!Deliver, Contract!Deliver, CP!Idle, Contract!Idle, CP!Packet, Contract!Packet
<1>3. (UNCHANGED Contract!vars) <=> UNCHANGED CP!vars
  BY DEF Contract!vars, CP!vars
<1> QED BY <1>1, <1>2, <1>3

\* The abstract protocol's invariant holds of what the widget is mapped to.
LEMMA SessionContract == ~OpenMayFail => (Spec => []CP!ContractInv)
<1> SUFFICES ASSUME ~OpenMayFail PROVE Spec => []CP!ContractInv
  OBVIOUS
<1>1. Init => CP!ContractInv
  BY InitMaps, SameContract, CP!ContractInit
<1>2. SessionInv /\ EndsInv /\ CP!ContractInv /\ [Next]_vars => CP!ContractInv'
  BY StepMaps, SameStep, CP!ContractStep
<1> QED BY <1>1, <1>2, SessionInvariant, SessionEndsInv, PTL DEF Spec

\* While no comm_open raises, the first thing the browser hears of a comm is its
\* comm_open, and it hears no other comm_open of it.
THEOREM SessionAnnouncedFirst == ~OpenMayFail => (Spec => []AnnouncedFirst)
<1>1. CP!ContractInv => AnnouncedFirst
  BY SameContract DEF AnnouncedFirst, CP!ContractInv
<1> QED BY <1>1, SessionContract, PTL

\* While no comm_open raises, nothing of a comm follows its comm_close, whatever the
\* browser still sends to it and whatever the host still calls.
THEOREM SessionFarewellLast == ~OpenMayFail => (Spec => []FarewellLast)
<1>1. CP!ContractInv => FarewellLast
  BY SameContract DEF FarewellLast, CP!ContractInv
<1> QED BY <1>1, SessionContract, PTL
============================================================================
