-------------------------- MODULE ModelSync_proofs --------------------------
(***************************************************************************)
(* Proofs about ModelSync: the copies that the host and the page keep of a *)
(* key agree once what is on its way has arrived, for any keys, values and *)
(* writers and queues of any length.                                       *)
(***************************************************************************)
EXTENDS ModelSync, TLAPS

(***************************************************************************)
(* The reducer's data: what a state dict and the part of it that is sent   *)
(* are, and that what the reducer builds are messages.                     *)
(***************************************************************************)

\* A part of the host's state is a state for some of the keys.
LEMMA PickType ==
  ASSUME NEW s \in States, NEW K
  PROVE  Pick(s, K) \in PartialStates
<1>1. DOMAIN s \cap K \in SUBSET Keys
  BY DEF States
<1>2. Pick(s, K) \in [DOMAIN s \cap K -> Values]
  BY DEF Pick, States
<1> QED BY <1>1, <1>2 DEF PartialStates

\* So is all of it, and none of it.
LEMMA StateType ==
  ASSUME NEW s \in States
  PROVE  s \in PartialStates /\ Empty \in PartialStates
<1>1. Empty \in [{} -> Values]
  BY DEF Empty
<1>2. Keys \in SUBSET Keys /\ {} \in SUBSET Keys
  OBVIOUS
<1> QED BY <1>1, <1>2 DEF States, PartialStates

\* A message has buffers or it has none.
LEMMA BufferType ==
  ASSUME NEW s
  PROVE  HasBinary(s) \in BOOLEAN
  BY DEF HasBinary

\* The messages the reducer builds are Send effects.
LEMMA SendTypes ==
  ASSUME NEW s \in PartialStates, NEW b \in BOOLEAN, NEW id \in BOOLEAN
  PROVE  /\ Send("comm_open", "none", TRUE, s, b) \in Sends
         /\ Send("comm_msg", "update", id, s, b) \in Sends
         /\ Send("comm_msg", "custom", FALSE, s, b) \in Sends
         /\ Send("comm_close", "none", FALSE, s, b) \in Sends
  BY DEF Send, Sends, Methods

\* Is there a message in q with a value for the key k?
Carries(q, k) == \E i \in DOMAIN q : k \in DOMAIN q[i].state

\* The last message in q that has a value for the key k has this one.
Newest(q, k, value) ==
  \A i \in DOMAIN q :
    k \in DOMAIN q[i].state /\ (\A j \in DOMAIN q : j > i => k \notin DOMAIN q[j].state)
      => q[i].state[k] = value

\* What the page sends is well-formed and about its own keys; it asks for the state
\* only if the program uses request_state.
Orders ==
  \A i \in DOMAIN toHost :
    /\ toHost[i].fits /\ toHost[i].method \in {"update", "request_state"}
    /\ DOMAIN toHost[i].state \subseteq PageWrites
    /\ toHost[i].method = "request_state" => full

\* The host's newest value of a key of its own is unsent, or the last on its way, or
\* has arrived, unless the page missed it.
HostKeyWay(k) ==
  k \notin unsent =>
    /\ Newest(toPage, k, hostState[k])
    /\ k \notin behind /\ ~Carries(toPage, k) => pageState[k] = hostState[k]

\* The page's newest value of a key of its own is dirty, or the last on its way, or
\* has arrived; the host does not send that key.
PageKeyWay(k) ==
  /\ ~Carries(toPage, k)
  /\ k \notin dirty =>
       /\ Newest(toHost, k, pageState[k])
       /\ ~Carries(toHost, k) => pageState[k] = hostState[k]

SyncInv ==
  /\ TypeOK
  /\ Orders
  /\ \A k \in HostWrites \ PageWrites : HostKeyWay(k)
  /\ ~full => \A k \in PageWrites \ HostWrites : PageKeyWay(k)
-----------------------------------------------------------------------------
(***************************************************************************)
(* Queues.                                                                 *)
(***************************************************************************)

LEMMA Appended ==
  ASSUME NEW S, NEW q \in Seq(S), NEW m \in S
  PROVE  /\ Append(q, m) \in Seq(S) /\ Len(q) \in Nat
         /\ DOMAIN q = 1 .. Len(q) /\ DOMAIN Append(q, m) = 1 .. Len(q) + 1
         /\ \A i \in 1 .. Len(q) : Append(q, m)[i] = q[i]
         /\ Append(q, m)[Len(q) + 1] = m
  OBVIOUS

LEMMA Tailed ==
  ASSUME NEW S, NEW q \in Seq(S), q # << >>
  PROVE  /\ Tail(q) \in Seq(S) /\ Len(q) \in Nat \ {0} /\ Head(q) = q[1] /\ q[1] \in S
         /\ DOMAIN q = 1 .. Len(q) /\ DOMAIN Tail(q) = 1 .. Len(q) - 1
         /\ \A i \in 1 .. Len(q) - 1 : Tail(q)[i] = q[i + 1]
  OBVIOUS

\* A message about k is the newest about k; any other changes nothing for k.
LEMMA NewestAppend ==
  ASSUME NEW S, NEW q \in Seq(S), NEW m \in S, NEW k, NEW v
  PROVE  /\ Carries(Append(q, m), k) <=> Carries(q, k) \/ k \in DOMAIN m.state
         /\ k \in DOMAIN m.state /\ m.state[k] = v => Newest(Append(q, m), k, v)
         /\ k \notin DOMAIN m.state /\ Newest(q, k, v) => Newest(Append(q, m), k, v)
<1> DEFINE r == Append(q, m)
           n == Len(q)
<1>1. /\ n \in Nat /\ DOMAIN q = 1 .. n /\ DOMAIN r = 1 .. n + 1
      /\ \A i \in 1 .. n : r[i] = q[i]
      /\ r[n + 1] = m
  BY Appended
<1> HIDE DEF r, n
<1>2. Carries(r, k) <=> Carries(q, k) \/ k \in DOMAIN m.state
  BY <1>1 DEF Carries
<1>3. ASSUME k \in DOMAIN m.state, m.state[k] = v PROVE Newest(r, k, v)
  BY <1>1, <1>3 DEF Newest
<1>4. ASSUME k \notin DOMAIN m.state, Newest(q, k, v) PROVE Newest(r, k, v)
  BY <1>1, <1>4 DEF Newest
<1> QED BY <1>2, <1>3, <1>4 DEF r

\* Delivery takes the oldest: either it was the newest about k too, or that is still
\* on its way.
LEMMA NewestTail ==
  ASSUME NEW S, NEW q \in Seq(S), q # << >>, NEW k, NEW v, Newest(q, k, v)
  PROVE  /\ Newest(Tail(q), k, v)
         /\ Carries(q, k) <=> Carries(Tail(q), k) \/ k \in DOMAIN Head(q).state
         /\ ~Carries(Tail(q), k) /\ k \in DOMAIN Head(q).state => Head(q).state[k] = v
<1> DEFINE r == Tail(q)
           n == Len(q)
           h == Head(q)
<1>1. /\ n \in Nat \ {0} /\ DOMAIN q = 1 .. n /\ DOMAIN r = 1 .. n - 1 /\ h = q[1]
      /\ \A i \in 1 .. n - 1 : r[i] = q[i + 1]
  BY Tailed
<1> HIDE DEF r, n, h
<1>2. \A i \in DOMAIN r : i + 1 \in DOMAIN q /\ r[i] = q[i + 1]
  BY <1>1
<1>3. \A i \in DOMAIN q : i = 1 \/ (i - 1 \in DOMAIN r /\ r[i - 1] = q[i])
  BY <1>1
<1>4. Carries(q, k) <=> Carries(r, k) \/ k \in DOMAIN h.state
  <2>1. 1 \in DOMAIN q /\ h = q[1]
    BY <1>1
  <2>2. ASSUME Carries(q, k) PROVE Carries(r, k) \/ k \in DOMAIN h.state
    BY <1>3, <2>1, <2>2 DEF Carries
  <2>3. ASSUME Carries(r, k) \/ k \in DOMAIN h.state PROVE Carries(q, k)
    BY <1>2, <2>1, <2>3 DEF Carries
  <2> QED BY <2>2, <2>3
<1>5. Newest(r, k, v)
  <2> SUFFICES ASSUME NEW i \in DOMAIN r, k \in DOMAIN r[i].state,
                      \A j \in DOMAIN r : j > i => k \notin DOMAIN r[j].state
               PROVE  r[i].state[k] = v
    BY DEF Newest
  <2>1. \A j \in DOMAIN q : j > i + 1 => k \notin DOMAIN q[j].state
    <3> SUFFICES ASSUME NEW j \in DOMAIN q, j > i + 1 PROVE k \notin DOMAIN q[j].state
      OBVIOUS
    <3>1. j - 1 \in DOMAIN r /\ r[j - 1] = q[j] /\ j - 1 > i
      BY <1>1, <1>3
    <3> QED BY <3>1
  <2> QED BY <1>2, <2>1 DEF Newest
<1>6. ~Carries(r, k) /\ k \in DOMAIN h.state => h.state[k] = v
  <2> SUFFICES ASSUME ~Carries(r, k), k \in DOMAIN h.state PROVE h.state[k] = v
    OBVIOUS
  <2>1. \A j \in DOMAIN q : j > 1 => k \notin DOMAIN q[j].state
    BY <1>1, <1>3 DEF Carries
  <2>2. 1 \in DOMAIN q
    BY <1>1
  <2> QED BY <1>1, <2>1, <2>2 DEF Newest
<1> QED BY <1>4, <1>5, <1>6 DEF r, h
-----------------------------------------------------------------------------
(***************************************************************************)
(* What the host sends and does.                                           *)
(***************************************************************************)

LEMMA UpdateType ==
  ASSUME NEW s \in PartialStates, NEW b \in BOOLEAN
  PROVE  UpdateOf(s, b) \in Sends /\ UpdateOf(s, b).state = s /\ UpdateOf(s, b).effect = "Send"
<1>1. UpdateOf(s, b) \in Sends
  BY SendTypes, BufferType DEF UpdateOf
<1> QED BY <1>1 DEF UpdateOf, Send

\* The reducer answers with one effect.
LEMMA OneEffect ==
  ASSUME NEW p, NEW e
  PROVE  Result(p, <<e>>).effects[1] = e
  BY DEF Result

LEMMA SendSomeAnswer ==
  ASSUME NEW K
  PROVE  HostReduce(SendStateEvent(Only(K))) = UpdateOf(Pick(hostState, K), FALSE)
<1>1. Reduce("open", SendStateEvent(Only(K)), hostState, AllCaps)
        = ReduceSendState("open", Only(K), hostState, AllCaps)
  BY DEF Reduce, SendStateEvent
<1>2. ReduceSendState("open", Only(K), hostState, AllCaps)
        = Result("open", <<UpdateOf(Pick(hostState, K), FALSE)>>)
  BY DEF ReduceSendState, Only
<1> QED BY <1>1, <1>2, OneEffect DEF HostReduce

LEMMA SendAllAnswer == HostReduce(SendStateEvent(All)) = UpdateOf(hostState, TRUE)
<1>1. Reduce("open", SendStateEvent(All), hostState, AllCaps)
        = ReduceSendState("open", All, hostState, AllCaps)
  BY DEF Reduce, SendStateEvent
<1>2. ReduceSendState("open", All, hostState, AllCaps)
        = Result("open", <<UpdateOf(hostState, TRUE)>>)
  BY DEF ReduceSendState, All
<1> QED BY <1>1, <1>2, OneEffect DEF HostReduce

LEMMA UpdateAnswer ==
  ASSUME NEW m, m.method = "update", m.fits
  PROVE  HostReduce(InboundEvent(m)) = ApplyState(m.state)
<1>1. Reduce("open", InboundEvent(m), hostState, AllCaps)
        = ReduceInbound("open", m, hostState, AllCaps)
  BY DEF Reduce, InboundEvent
<1>2. ReduceInbound("open", m, hostState, AllCaps) = Result("open", <<ApplyState(m.state)>>)
  BY DEF ReduceInbound, ParseMessage
<1> QED BY <1>1, <1>2, OneEffect DEF HostReduce

LEMMA RequestAnswer ==
  ASSUME NEW m, m.method = "request_state"
  PROVE  HostReduce(InboundEvent(m)) = UpdateOf(hostState, TRUE)
<1>1. Reduce("open", InboundEvent(m), hostState, AllCaps)
        = ReduceInbound("open", m, hostState, AllCaps)
  BY DEF Reduce, InboundEvent
<1>2. ReduceInbound("open", m, hostState, AllCaps) = ReduceSendState("open", All, hostState, AllCaps)
  BY DEF ReduceInbound, ParseMessage, AllCaps
<1>3. ReduceSendState("open", All, hostState, AllCaps)
        = Result("open", <<UpdateOf(hostState, TRUE)>>)
  BY DEF ReduceSendState, All
<1>4. Reduce("open", InboundEvent(m), hostState, AllCaps) = Result("open", <<UpdateOf(hostState, TRUE)>>)
  BY <1>1, <1>2, <1>3
<1> QED BY <1>4, OneEffect DEF HostReduce

\* A state dict overlaid with another keeps what the other does not have.
LEMMA OverlayType ==
  ASSUME NEW s \in States, NEW t \in PartialStates
  PROVE  /\ Overlay(s, t) \in States /\ DOMAIN t \subseteq Keys
         /\ \A k \in DOMAIN t : Overlay(s, t)[k] = t[k]
         /\ \A k \in Keys \ DOMAIN t : Overlay(s, t)[k] = s[k]
<1>1. PICK K \in SUBSET Keys : t \in [K -> Values]
  BY DEF PartialStates
<1> QED BY <1>1 DEF Overlay, States

LEMMA SyncTypes ==
  ASSUME SyncInv
  PROVE  /\ TypeOK /\ Orders
         /\ hostState \in States /\ pageState \in States
         /\ hostState \in PartialStates /\ DOMAIN hostState = Keys /\ DOMAIN pageState = Keys
         /\ toPage \in Seq(Sends) /\ toHost \in Seq(InboundData)
         /\ HostWrites \subseteq Keys /\ PageWrites \subseteq Keys
<1>1. TypeOK /\ Orders
  BY DEF SyncInv
<1>2. /\ hostState \in States /\ pageState \in States
      /\ toPage \in Seq(Sends) /\ toHost \in Seq(InboundData)
  BY <1>1 DEF TypeOK
<1>3. hostState \in PartialStates
  BY <1>2, StateType
<1>4. DOMAIN hostState = Keys /\ DOMAIN pageState = Keys
  BY <1>2 DEF States
<1> QED BY <1>1, <1>2, <1>3, <1>4, SyncAssumption

LEMMA SyncInit == Init => SyncInv
<1> SUFFICES ASSUME Init PROVE SyncInv
  OBVIOUS
<1>1. TypeOK
  <2>1. << >> \in Seq(Sends) /\ << >> \in Seq(InboundData)
    OBVIOUS
  <2>2. /\ full \in BOOLEAN /\ hostState \in States /\ pageState \in States
        /\ unsent = {} /\ dirty = {} /\ behind = {} /\ attached = FALSE
        /\ toPage = << >> /\ toHost = << >>
    BY DEF Init
  <2> QED BY <2>1, <2>2 DEF TypeOK
<1>2. Orders
  BY DEF Init, Orders
<1>3. \A k : HostKeyWay(k) /\ PageKeyWay(k)
  BY DEF Init, HostKeyWay, PageKeyWay, Newest, Carries
<1> QED BY <1>1, <1>2, <1>3 DEF SyncInv
-----------------------------------------------------------------------------
(***************************************************************************)
(* The steps, one by one.                                                  *)
(***************************************************************************)

LEMMA HostWriteStep ==
  ASSUME SyncInv, NEW k \in HostWrites, NEW v \in Values, HostWrite(k, v)
  PROVE  SyncInv'
<1>1. /\ hostState' = [hostState EXCEPT ![k] = v] /\ unsent' = unsent \cup {k}
      /\ UNCHANGED <<full, pageState, dirty, attached, behind, toPage, toHost>>
  BY DEF HostWrite, pageVars
<1>2. \A x \in Keys : x # k => hostState'[x] = hostState[x]
  BY <1>1, SyncTypes
<1>3. TypeOK'
  BY <1>1, SyncTypes DEF TypeOK, States
<1>4. Orders'
  BY <1>1, SyncTypes DEF Orders
<1>5. \A x \in HostWrites \ PageWrites : HostKeyWay(x)'
  BY <1>1, <1>2, SyncTypes DEF SyncInv, HostKeyWay, Newest, Carries
<1>6. ~full' => \A x \in PageWrites \ HostWrites : PageKeyWay(x)'
  BY <1>1, <1>2, SyncTypes DEF SyncInv, PageKeyWay, Newest, Carries
<1> QED BY <1>3, <1>4, <1>5, <1>6 DEF SyncInv

\* The host sends the message m, which has its values of the keys m is about.
LEMMA HostSends ==
  ASSUME SyncInv, NEW m \in Sends, toPage' = Append(toPage, m),
         DOMAIN m.state \subseteq Keys, \A k \in DOMAIN m.state : m.state[k] = hostState[k],
         ~full => DOMAIN m.state \subseteq HostWrites,
         unsent' = unsent \ DOMAIN m.state,
         UNCHANGED <<full, hostState, pageVars, behind>>, Orders', toHost' \in Seq(InboundData),
         ~full => toHost' = toHost
  PROVE  SyncInv'
<1>1. UNCHANGED <<full, hostState, pageState, dirty, attached, behind>>
  BY DEF pageVars
<1>2. TypeOK'
  <2>1. toPage' \in Seq(Sends)
    BY SyncTypes
  <2> QED BY <1>1, <2>1, SyncTypes DEF TypeOK
<1>3. ASSUME NEW k \in HostWrites \ PageWrites PROVE HostKeyWay(k)'
  <2>1. HostKeyWay(k)
    BY DEF SyncInv
  <2>2. CASE k \in DOMAIN m.state
    <3>1. Newest(toPage', k, hostState[k]) /\ Carries(toPage', k)
      BY <2>2, NewestAppend, SyncTypes
    <3> QED BY <1>1, <3>1 DEF HostKeyWay, Newest, Carries
  <2>3. CASE k \notin DOMAIN m.state
    <3>1. /\ Newest(toPage, k, hostState[k]) => Newest(toPage', k, hostState[k])
          /\ Carries(toPage', k) <=> Carries(toPage, k)
      BY <2>3, NewestAppend, SyncTypes
    <3> QED BY <1>1, <2>1, <2>3, <3>1 DEF HostKeyWay, Newest, Carries
  <2> QED BY <2>2, <2>3
<1>4. ASSUME ~full, NEW k \in PageWrites \ HostWrites PROVE PageKeyWay(k)'
  <2>1. PageKeyWay(k) /\ toHost' = toHost
    BY <1>4 DEF SyncInv
  <2>2. ~Carries(Append(toPage, m), k)
    BY <1>4, <2>1, NewestAppend, SyncTypes DEF PageKeyWay
  <2> QED BY <1>1, <2>1, <2>2 DEF PageKeyWay, Newest, Carries
<1> QED BY <1>1, <1>2, <1>3, <1>4 DEF SyncInv

LEMMA PublishStep ==
  ASSUME SyncInv, (\E K \in SUBSET HostWrites \ {{}} : SendSome(K)) \/ SendAll
  PROVE  SyncInv'
<1>1. ASSUME NEW e, Publish(e),
             HostReduce(e) \in Sends, DOMAIN HostReduce(e).state \subseteq Keys,
             \A k \in DOMAIN HostReduce(e).state : HostReduce(e).state[k] = hostState[k],
             ~full => DOMAIN HostReduce(e).state \subseteq HostWrites
      PROVE  SyncInv'
  <2> DEFINE m == HostReduce(e)
  <2>1. /\ toPage' = Append(toPage, m) /\ unsent' = unsent \ DOMAIN m.state
        /\ UNCHANGED <<full, hostState, pageVars, behind, toHost>>
    BY <1>1 DEF Publish
  <2>2. Orders' /\ toHost' \in Seq(InboundData) /\ toHost' = toHost
    BY <2>1, SyncTypes DEF Orders
  <2> HIDE DEF m
  <2>3. /\ m \in Sends /\ DOMAIN m.state \subseteq Keys
        /\ \A k \in DOMAIN m.state : m.state[k] = hostState[k]
        /\ ~full => DOMAIN m.state \subseteq HostWrites
    BY <1>1 DEF m
  <2> QED BY <2>1, <2>2, <2>3, HostSends
<1>2. ASSUME NEW K \in SUBSET HostWrites \ {{}}, SendSome(K) PROVE SyncInv'
  <2> DEFINE e == SendStateEvent(Only(K))
             s == Pick(hostState, K)
  <2>1. s \in PartialStates
    BY PickType, SyncTypes
  <2>2. DOMAIN s = Keys \cap K /\ \A k \in DOMAIN s : s[k] = hostState[k]
    BY SyncTypes DEF Pick
  <2>3. HostReduce(e) = UpdateOf(s, FALSE)
    BY SendSomeAnswer
  <2> HIDE DEF e, s
  <2>4. HostReduce(e) \in Sends /\ HostReduce(e).state = s
    BY <2>1, <2>3, UpdateType
  <2>5. Publish(e)
    BY <1>2 DEF SendSome, e
  <2> QED BY <1>1, <2>2, <2>4, <2>5
<1>3. CASE SendAll
  <2> DEFINE e == SendStateEvent(All)
  <2>1. HostReduce(e) = UpdateOf(hostState, TRUE)
    BY SendAllAnswer
  <2>2. Publish(e) /\ full
    BY <1>3 DEF SendAll
  <2> HIDE DEF e
  <2>3. HostReduce(e) \in Sends /\ HostReduce(e).state = hostState
    BY <2>1, UpdateType, SyncTypes
  <2> QED BY <1>1, <2>2, <2>3, SyncTypes
<1> QED BY <1>2, <1>3
LEMMA HostReceiveStep ==
  ASSUME SyncInv, HostReceive
  PROVE  SyncInv'
<1> DEFINE m == Head(toHost)
           effect == HostReduce(InboundEvent(m))
<1>1. /\ toHost # << >> /\ toHost' = Tail(toHost)
      /\ hostState' = IF effect.effect = "ApplyState" THEN Overlay(hostState, effect.state)
                      ELSE hostState
      /\ toPage' = IF effect.effect = "Send" THEN Append(toPage, effect) ELSE toPage
      /\ unsent' = IF effect.effect = "Send" THEN {} ELSE unsent
      /\ UNCHANGED <<full, pageState, dirty, attached, pageVars, behind>>
  BY DEF HostReceive, pageVars
<1>2. /\ toHost' \in Seq(InboundData) /\ m = toHost[1] /\ 1 \in DOMAIN toHost /\ m \in InboundData
      /\ \A i \in DOMAIN toHost' : i + 1 \in DOMAIN toHost /\ toHost'[i] = toHost[i + 1]
  BY <1>1, SyncTypes, Tailed
<1>3. /\ m.fits /\ m.method \in {"update", "request_state"}
      /\ DOMAIN m.state \subseteq PageWrites /\ m.state \in PartialStates
      /\ m.method = "request_state" => full
  BY <1>2, SyncTypes DEF Orders, InboundData
<1>4. Orders'
  BY <1>1, <1>2, SyncTypes DEF Orders
<1>5. CASE m.method = "update"
  <2>1. effect = ApplyState(m.state)
    BY <1>3, <1>5, UpdateAnswer
  <2>2. effect.effect = "ApplyState" /\ effect.state = m.state
    BY <2>1 DEF ApplyState
  <2>3. hostState' = Overlay(hostState, m.state) /\ toPage' = toPage /\ unsent' = unsent
    BY <1>1, <2>2
  <2> HIDE DEF m, effect
  <2>4. /\ hostState' \in States
        /\ \A k \in DOMAIN m.state : hostState'[k] = m.state[k]
        /\ \A k \in Keys \ DOMAIN m.state : hostState'[k] = hostState[k]
    BY <1>3, <2>3, OverlayType, SyncTypes
  <2>5. TypeOK'
    BY <1>1, <1>2, <2>3, <2>4, SyncTypes DEF TypeOK
  <2>6. ASSUME NEW k \in HostWrites \ PageWrites PROVE HostKeyWay(k)'
    <3>1. hostState'[k] = hostState[k] /\ HostKeyWay(k)
      BY <1>3, <2>4, SyncTypes DEF SyncInv
    <3> QED BY <1>1, <2>3, <3>1 DEF HostKeyWay, Newest, Carries
  <2>7. ASSUME ~full, NEW k \in PageWrites \ HostWrites PROVE PageKeyWay(k)'
    <3>1. PageKeyWay(k) /\ k \in Keys
      BY <2>7, SyncTypes DEF SyncInv
    <3>2. ~Carries(toPage', k)
      BY <2>3, <3>1 DEF PageKeyWay
    <3>3. CASE k \in dirty
      BY <1>1, <3>2, <3>3 DEF PageKeyWay, Carries
    <3>4. CASE k \notin dirty
      <4>1. Newest(toHost, k, pageState[k]) /\ (~Carries(toHost, k) => pageState[k] = hostState[k])
        BY <3>1, <3>4 DEF PageKeyWay
      <4>2. /\ Newest(toHost', k, pageState[k])
            /\ Carries(toHost, k) <=> Carries(toHost', k) \/ k \in DOMAIN m.state
            /\ ~Carries(toHost', k) /\ k \in DOMAIN m.state => m.state[k] = pageState[k]
        BY <1>1, <4>1, NewestTail, SyncTypes DEF m
      <4>3. ~Carries(toHost', k) => pageState[k] = hostState'[k]
        BY <2>4, <3>1, <4>1, <4>2
      <4> QED BY <1>1, <3>2, <4>2, <4>3 DEF PageKeyWay, Newest, Carries
    <3> QED BY <3>3, <3>4
  <2> QED BY <1>1, <1>4, <2>5, <2>6, <2>7 DEF SyncInv
<1>6. CASE m.method = "request_state"
  <2>1. effect = UpdateOf(hostState, TRUE)
    BY <1>6, RequestAnswer
  <2>2. effect \in Sends /\ effect.state = hostState /\ effect.effect = "Send"
    BY <2>1, UpdateType, SyncTypes
  <2>3. hostState' = hostState /\ toPage' = Append(toPage, effect) /\ unsent' = {}
    BY <1>1, <2>2
  <2>4. full
    BY <1>3, <1>6
  <2>5. unsent' = unsent \ DOMAIN effect.state
    BY <2>2, <2>3, SyncTypes DEF TypeOK
  <2> HIDE DEF m, effect
  <2> QED BY <1>1, <1>2, <1>4, <2>2, <2>3, <2>4, <2>5, HostSends, SyncTypes
<1> QED BY <1>3, <1>5, <1>6

\* The page's own steps leave the host's copy and what is on its way to the page alone.
LEMMA AttachStep ==
  ASSUME SyncInv, Attach
  PROVE  SyncInv'
<1>1. attached' = TRUE
      /\ UNCHANGED <<full, hostState, unsent, pageState, dirty, behind, toPage, toHost>>
  BY DEF Attach, hostVars
<1>2. TypeOK' /\ Orders'
  BY <1>1, SyncTypes DEF TypeOK, Orders
<1> QED BY <1>1, <1>2 DEF SyncInv, HostKeyWay, PageKeyWay, Newest, Carries

LEMMA SetKeyStep ==
  ASSUME SyncInv, NEW k \in PageWrites, NEW v \in Values, SetKey(k, v)
  PROVE  SyncInv'
<1>1. /\ pageState' = [pageState EXCEPT ![k] = v] /\ dirty' = dirty \cup {k}
      /\ UNCHANGED <<full, hostState, unsent, attached, behind, toPage, toHost>>
  BY DEF SetKey, hostVars
<1>2. \A x \in Keys : x # k => pageState'[x] = pageState[x]
  BY <1>1, SyncTypes
<1>3. TypeOK' /\ Orders'
  BY <1>1, SyncTypes DEF TypeOK, States, Orders
<1>4. \A x \in HostWrites \ PageWrites : HostKeyWay(x)'
  BY <1>1, <1>2, SyncTypes DEF SyncInv, HostKeyWay, Newest, Carries
<1>5. ~full' => \A x \in PageWrites \ HostWrites : PageKeyWay(x)'
  BY <1>1, <1>2, SyncTypes DEF SyncInv, PageKeyWay, Newest, Carries
<1> QED BY <1>3, <1>4, <1>5 DEF SyncInv

\* The page sends the message m, which has its values of the keys that cease to be dirty.
LEMMA PageSends ==
  ASSUME SyncInv, NEW m \in InboundData, toHost' = Append(toHost, m),
         m.fits, m.method \in {"update", "request_state"},
         m.method = "request_state" => full,
         DOMAIN m.state \subseteq PageWrites, \A k \in DOMAIN m.state : m.state[k] = pageState[k],
         dirty' = dirty \ DOMAIN m.state,
         UNCHANGED <<full, hostState, unsent, pageState, attached, behind, toPage>>
  PROVE  SyncInv'
<1>1. TypeOK'
  <2>1. toHost' \in Seq(InboundData)
    BY SyncTypes
  <2> QED BY <2>1, SyncTypes DEF TypeOK
<1>2. Orders'
  <2>1. /\ Len(toHost) \in Nat /\ DOMAIN toHost = 1 .. Len(toHost)
        /\ DOMAIN toHost' = 1 .. Len(toHost) + 1
        /\ \A i \in 1 .. Len(toHost) : toHost'[i] = toHost[i]
        /\ toHost'[Len(toHost) + 1] = m
    BY SyncTypes, Appended
  <2> QED BY <2>1, SyncTypes DEF Orders
<1>3. \A k \in HostWrites \ PageWrites : HostKeyWay(k)'
  BY DEF SyncInv, HostKeyWay, Newest, Carries
<1>4. ASSUME ~full, NEW k \in PageWrites \ HostWrites PROVE PageKeyWay(k)'
  <2>1. PageKeyWay(k)
    BY <1>4 DEF SyncInv
  <2>2. CASE k \in DOMAIN m.state
    <3>1. Newest(toHost', k, pageState[k]) /\ Carries(toHost', k)
      BY <2>2, NewestAppend, SyncTypes
    <3> QED BY <2>1, <3>1 DEF PageKeyWay, Newest, Carries
  <2>3. CASE k \notin DOMAIN m.state
    <3>1. /\ Newest(toHost, k, pageState[k]) => Newest(toHost', k, pageState[k])
          /\ Carries(toHost', k) <=> Carries(toHost, k)
      BY <2>3, NewestAppend, SyncTypes
    <3> QED BY <2>1, <2>3, <3>1 DEF PageKeyWay, Newest, Carries
  <2> QED BY <2>2, <2>3
<1> QED BY <1>1, <1>2, <1>3, <1>4 DEF SyncInv

LEMMA SaveChangesStep ==
  ASSUME SyncInv, SaveChanges
  PROVE  SyncInv'
<1> DEFINE s == Pick(pageState, dirty)
           m == Inbound("update", s)
<1>1. /\ toHost' = Append(toHost, m) /\ dirty' = {}
      /\ UNCHANGED <<full, hostState, unsent, pageState, attached, behind, toPage>>
  BY DEF SaveChanges, hostVars
<1>2. s \in PartialStates
  BY PickType, SyncTypes
<1>3. DOMAIN s = dirty /\ \A k \in DOMAIN s : s[k] = pageState[k]
  BY SyncTypes DEF Pick, TypeOK
<1> HIDE DEF s
<1>4. m \in InboundData /\ m.fits /\ m.method = "update" /\ m.state = s
  BY <1>2 DEF Inbound, InboundData
<1>5. DOMAIN m.state \subseteq PageWrites /\ dirty' = dirty \ DOMAIN m.state
  BY <1>1, <1>3, <1>4, SyncTypes DEF TypeOK
<1> HIDE DEF m
<1> QED BY <1>1, <1>3, <1>4, <1>5, PageSends

LEMMA RequestStateStep ==
  ASSUME SyncInv, RequestState
  PROVE  SyncInv'
<1> DEFINE m == Inbound("request_state", Empty)
<1>1. /\ toHost' = Append(toHost, m) /\ full
      /\ UNCHANGED <<full, hostState, unsent, pageState, dirty, attached, behind, toPage>>
  BY DEF RequestState, hostVars, pageVars
<1>2. Empty \in PartialStates /\ DOMAIN Empty = {}
  BY StateType, SyncTypes DEF Empty
<1>3. m \in InboundData /\ m.fits /\ m.method = "request_state" /\ m.state = Empty
  BY <1>2 DEF Inbound, InboundData
<1>4. dirty' = dirty \ DOMAIN m.state
  BY <1>1, <1>2, <1>3
<1> HIDE DEF m
<1> QED BY <1>1, <1>2, <1>3, <1>4, PageSends

LEMMA PageReceiveStep ==
  ASSUME SyncInv, PageReceive
  PROVE  SyncInv'
<1> DEFINE s == Head(toPage).state
<1>1. /\ toPage # << >> /\ toPage' = Tail(toPage)
      /\ IF attached THEN pageState' = Overlay(pageState, s) /\ behind' = behind \ DOMAIN s
         ELSE behind' = behind \cup DOMAIN s /\ pageState' = pageState
      /\ UNCHANGED <<full, hostState, unsent, dirty, attached, toHost>>
  BY DEF PageReceive, hostVars
<1>2. toPage' \in Seq(Sends) /\ s \in PartialStates /\ Head(toPage) = toPage[1] /\ 1 \in DOMAIN toPage
  <2>1. toPage' \in Seq(Sends) /\ toPage[1] \in Sends /\ Head(toPage) = toPage[1] /\ 1 \in DOMAIN toPage
    BY <1>1, SyncTypes, Tailed
  <2> QED BY <2>1 DEF Sends
<1> HIDE DEF s
<1>3. /\ Overlay(pageState, s) \in States /\ DOMAIN s \subseteq Keys
      /\ \A k \in DOMAIN s : Overlay(pageState, s)[k] = s[k]
      /\ \A k \in Keys \ DOMAIN s : Overlay(pageState, s)[k] = pageState[k]
  BY <1>2, OverlayType, SyncTypes
<1>4. TypeOK'
  BY <1>1, <1>2, <1>3, SyncTypes DEF TypeOK
<1>5. Orders'
  BY <1>1, SyncTypes DEF Orders
<1>6. ASSUME NEW k \in HostWrites \ PageWrites PROVE HostKeyWay(k)'
  <2>1. HostKeyWay(k) /\ k \in Keys
    BY SyncTypes DEF SyncInv
  <2>2. CASE k \in unsent
    BY <1>1, <2>2 DEF HostKeyWay
  <2>3. CASE k \notin unsent
    <3>1. /\ Newest(toPage, k, hostState[k])
          /\ k \notin behind /\ ~Carries(toPage, k) => pageState[k] = hostState[k]
      BY <2>1, <2>3 DEF HostKeyWay
    <3>2. /\ Newest(toPage', k, hostState[k])
          /\ Carries(toPage, k) <=> Carries(toPage', k) \/ k \in DOMAIN s
          /\ ~Carries(toPage', k) /\ k \in DOMAIN s => s[k] = hostState[k]
      BY <1>1, <3>1, NewestTail, SyncTypes DEF s
    <3>3. k \notin behind' /\ ~Carries(toPage', k) => pageState'[k] = hostState[k]
      BY <1>1, <1>3, <2>1, <3>1, <3>2
    <3> QED BY <1>1, <3>2, <3>3 DEF HostKeyWay, Newest, Carries
  <2> QED BY <2>2, <2>3
<1>7. ASSUME ~full, NEW k \in PageWrites \ HostWrites PROVE PageKeyWay(k)'
  <2>1. PageKeyWay(k) /\ k \in Keys
    BY <1>7, SyncTypes DEF SyncInv
  <2>2. k \notin DOMAIN s
    BY <1>2, <2>1 DEF PageKeyWay, Carries, s
  <2>3. pageState'[k] = pageState[k]
    BY <1>1, <1>3, <2>1, <2>2
  <2>4. ~Carries(toPage', k)
    <3>1. \A i \in DOMAIN toPage' : i + 1 \in DOMAIN toPage /\ toPage'[i] = toPage[i + 1]
      BY <1>1, SyncTypes, Tailed
    <3> QED BY <2>1, <3>1 DEF PageKeyWay, Carries
  <2> QED BY <1>1, <2>1, <2>3, <2>4 DEF PageKeyWay, Newest, Carries
<1> QED BY <1>1, <1>4, <1>5, <1>6, <1>7 DEF SyncInv

LEMMA SyncStep == SyncInv /\ [Next]_vars => SyncInv'
<1> SUFFICES ASSUME SyncInv, [Next]_vars PROVE SyncInv'
  OBVIOUS
<1>1. CASE UNCHANGED vars
  <2>1. UNCHANGED <<full, hostState, unsent, pageState, dirty, attached, behind, toPage, toHost>>
    BY <1>1 DEF vars, hostVars, pageVars
  <2>2. TypeOK' /\ Orders'
    BY <2>1, SyncTypes DEF TypeOK, Orders
  <2> QED BY <2>1, <2>2 DEF SyncInv, HostKeyWay, PageKeyWay, Newest, Carries
<1> QED
  BY <1>1, HostWriteStep, PublishStep, HostReceiveStep, AttachStep, SetKeyStep, SaveChangesStep,
     RequestStateStep, PageReceiveStep DEF Next

\* The invariant behind the three properties.
THEOREM SyncInvariant == Spec => []SyncInv
  BY SyncInit, SyncStep, PTL DEF Spec

\* Every variable keeps its type: neither side sends what the other cannot read.
THEOREM SyncTypeOK == Spec => []TypeOK
<1>1. SyncInv => TypeOK
  BY DEF SyncInv
<1> QED BY <1>1, SyncInvariant, PTL

\* A key that only the host writes has the host's value in the page once it has been
\* sent and delivered, however the page's own edits and requests cross the updates.
THEOREM SyncHostKeys == Spec => []HostKeysAgree
<1>1. SyncInv => HostKeysAgree
  BY DEF SyncInv, HostKeysAgree, HostKeyWay, Carries
<1> QED BY <1>1, SyncInvariant, PTL

\* A key that only the page writes has the page's value in the host once it has been
\* saved and delivered, if the host sends no keys but its own.
THEOREM SyncPageKeys == Spec => []PageKeysAgree
<1>1. SyncInv => PageKeysAgree
  BY DEF SyncInv, PageKeysAgree, PageKeyWay, Carries
<1> QED BY <1>1, SyncInvariant, PTL
=============================================================================
